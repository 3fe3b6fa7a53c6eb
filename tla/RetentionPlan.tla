--------------------------- MODULE RetentionPlan ---------------------------
(***************************************************************************)
(* How the planner decides about duplicate copies: the directory           *)
(* classifier (internal/dircontext), the grouping and the accounting of    *)
(* physical copies (internal/report) and the retention planner             *)
(* (internal/planner).  All of it is pure: the module has no variables.    *)
(*                                                                         *)
(* A path stands for the directory it lies in.  Which terms its segments   *)
(* match is data; one term stands for all builtin terms of a role.  A row  *)
(* of the index is a record [path, sha, object, age]: object is the        *)
(* device and inode pair, or Unreliable; age is in days and may be         *)
(* negative, a modification time in the future.                            *)
(***************************************************************************)
EXTENDS Integers, Sequences, FiniteSets, FiniteSetsExt

CONSTANTS
    Path,         \* the paths an index may hold
    Segments,     \* Segments[p]: the terms that the directories of p match
    Anchor,       \* Anchor[p]: its business anchor, or None
    Depth,        \* Depth[p]: the number of separators of its directory
    Storage,      \* Storage[p]: the storage it was indexed under
    Dependent,    \* paths whose extension marks a project file or a sidecar
    PathRank,     \* PathRank[p]: the place of p in the order of paths
    Unreliable,   \* the identity of a file on a file system without one
    None

\* Paths are ordered, and a directory has so many segments.
ASSUME PathAssumption ==
    /\ PathRank \in [Path -> Int] /\ Depth \in [Path -> Int]
    /\ \A p, q \in Path : PathRank[p] = PathRank[q] => p = q

MaxLearnedPriority == 60

\* The elements of S by increasing rank: n - 1 of them come before the n-th.
InOrder(S, rank) ==
    [n \in 1..Cardinality(S) |->
        CHOOSE x \in S : Cardinality({y \in S : rank[y] < rank[x]}) = n - 1]

\* The elements of a sequence at some places, in their order.
Picked(s, places) ==
    LET order == InOrder(places, [i \in places |-> i]) IN [n \in DOMAIN order |-> s[order[n]]]

-----------------------------------------------------------------------------
(* The classifier *)

Signal(role, authority) == [role |-> role, authority |-> authority, term |-> role]

\* The builtin signals, in the order of the source.
RoleSignals ==
    << Signal("system_application", 100), Signal("backup", 95),
       Signal("cache_derived", 10), Signal("temporary", 20),
       Signal("raw_source", 90), Signal("formal_archive", 90),
       Signal("project_work", 65), Signal("unorganized", 45) >>

SensitiveTerm == "sensitive"

BuiltinTerms == {RoleSignals[i].term : i \in DOMAIN RoleSignals} \union {SensitiveTerm}

\* One round of the selection sort: the first of the strongest signals from
\* i on changes places with the one at i.
Selected(s, i) ==
    LET top == Max({s[j].authority : j \in i..Len(s)})
        m == Min({j \in i..Len(s) : s[j].authority = top})
    IN  [s EXCEPT ![i] = s[m], ![m] = s[i]]

SelectionSort(s) ==
    LET round[i \in 0..Len(s)] == IF i = 0 THEN s ELSE Selected(round[i - 1], i)
    IN  round[Len(s)]

\* K-008: a learned signal never rises above the directory roles.
Clamp(signal) ==
    [signal EXCEPT !.authority = IF @ > MaxLearnedPriority THEN MaxLearnedPriority ELSE @]

\* parseDirectorySignal: role, authority and term are what the definition of
\* a rule keeps.
DirectorySignal(row) == [role |-> row.role, authority |-> row.authority, term |-> row.term]

\* The signals of the rules that take part, rows in the order they are listed.
Learned(rows) ==
    LET takesPart(r) == r.enabled /\ r.status \in {"approved", "probation"}
        live == Picked(rows, {i \in DOMAIN rows : takesPart(rows[i])})
    IN  SelectionSort([i \in DOMAIN live |-> Clamp(DirectorySignal(live[i]))])

\* Mutant of ActiveSignals: what was learned goes first.
ActiveSignalsLearnedFirst(learned) == learned \o SelectionSort(RoleSignals)

ActiveSignals(learned) == SelectionSort(RoleSignals \o learned)

Context(role, authority, protected) ==
    [role |-> role, authority |-> authority, protected |-> protected]

\* What the classifier finds without learned signals.
BuiltinSignals == ActiveSignals(<< >>)

Matches(p, term) == term \in Segments[p]

\* Sensitive terms first, then the strongest signal that matches.
Classify(p, active) ==
    LET hits == {i \in DOMAIN active : Matches(p, active[i].term)}
    IN  IF Matches(p, SensitiveTerm) THEN Context("sensitive", 100, TRUE)
        ELSE IF hits = {} THEN Context("unknown", 50, FALSE)
        ELSE LET s == active[Min(hits)]
             IN  Context(s.role, s.authority, s.role \in {"system_application", "backup", "raw_source"})

-----------------------------------------------------------------------------
(* Duplicate groups and their accounting *)

\* StableGroupID: a group is its storage and its digest.
GroupID(f) == <<Storage[f.path], f.sha>>

\* Files with one digest in one storage, two rows at least.
DuplicateGroups(files) ==
    LET keys == {GroupID(files[i]) : i \in {j \in DOMAIN files : files[j].sha # None}}
        member(k) == Picked(files, {i \in DOMAIN files : GroupID(files[i]) = k})
    IN  {member(k) : k \in {l \in keys : Len(member(l)) >= 2}}

\* The distinct objects of a group; each row without an identity is one.
PhysicalCopies(files) ==
    LET known == {i \in DOMAIN files : files[i].object # Unreliable}
    IN  Cardinality({files[i].object : i \in known}) + Cardinality(DOMAIN files \ known)

\* Reclaimable copies; the bytes are this number times the size.
ReclaimableCopies(files) == PhysicalCopies(files) - 1

-----------------------------------------------------------------------------
(* The retention planner *)

Lower(a, b) == IF a < b THEN a ELSE b

\* ScoreRetention: authority, age in weeks up to 30, depth up to 10, bonus.
Score(f, c) ==
    LET days == IF f.age < 0 THEN 0 ELSE f.age
        bonus == IF c.role \in {"raw_source", "formal_archive"} THEN 20
                 ELSE IF c.role \in {"temporary", "cache_derived"} THEN -20 ELSE 0
    IN  c.authority + Lower(days \div 7, 30) + Lower(Depth[f.path], 10) + bonus

\* The higher score, then the older file, then the smaller path.
ChooseRetain(files, active) ==
    LET score == [i \in DOMAIN files |-> Score(files[i], Classify(files[i].path, active))]
        Better(i, j) == \/ score[i] > score[j]
                        \/ score[i] = score[j] /\ files[i].age > files[j].age
                        \/ /\ score[i] = score[j] /\ files[i].age = files[j].age
                           /\ PathRank[files[i].path] < PathRank[files[j].path]
    IN  files[Min({i \in DOMAIN files : \A j \in DOMAIN files : ~Better(j, i)})]

Plan(files, risk, retain, actions) ==
    [files |-> files, risk |-> risk, retain |-> retain, actions |-> actions]

Review(files) == [i \in DOMAIN files |-> "REVIEW"]
SetAside(files, retain) ==
    [i \in DOMAIN files |-> IF files[i].path = retain THEN "KEEP" ELSE "QUARANTINE"]

\* Project codes and years found along the paths.
BusinessAnchors(files) == {Anchor[files[i].path] : i \in DOMAIN files} \ {None}

AnchorsDiverge(files) == Cardinality(BusinessAnchors(files)) > 1

\* Project sources, sidecars and caches whose project is not verified.
AnyDependencyProtected(files) == \E i \in DOMAIN files : files[i].path \in Dependent

\* The first reason to ask a human wins; only disposable copies of one role
\* and one anchor are set aside, all but the best of them.
BuildGroup(files, active) ==
    LET contexts == {Classify(files[i].path, active) : i \in DOMAIN files}
        roles == {c.role : c \in contexts}
        retain == ChooseRetain(files, active).path
    IN  IF files[1].sha = "short" \/ AnyDependencyProtected(files)
                                   \/ (\E c \in contexts : c.protected)
        THEN Plan(files, "critical", None, Review(files))
        ELSE IF Cardinality(roles) > 1 \/ AnchorsDiverge(files)
        THEN Plan(files, "high", None, Review(files))
        ELSE IF roles \subseteq {"temporary", "cache_derived"}
        THEN Plan(files, "medium", retain, SetAside(files, retain))
        ELSE Plan(files, "high", retain, Review(files))

\* BuildPlans: one plan for each group.
BuildPlans(files, learned) ==
    LET active == ActiveSignals(learned)
    IN  {BuildGroup(g, active) : g \in DuplicateGroups(files)}

SetsAside(plan) == \E i \in DOMAIN plan.actions : plan.actions[i] = "QUARANTINE"

\* What a reader of the plan may rely on: one copy is kept, no copy is
\* protected by a builtin rule (K-008: with or without the learned ones), a
\* project file, of another purpose or of an unproven digest.
PlanJustified(plan) ==
    SetsAside(plan) =>
        /\ Cardinality({i \in DOMAIN plan.actions : plan.actions[i] = "KEEP"}) = 1
        /\ plan.files[1].sha # "short"
        /\ ~AnchorsDiverge(plan.files)
        /\ ~AnyDependencyProtected(plan.files)
        /\ \A i \in DOMAIN plan.files :
              LET c == Classify(plan.files[i].path, BuiltinSignals) IN
              /\ ~c.protected
              /\ c.authority <= MaxLearnedPriority

\* What the files that are set aside free on disk, in copies: the objects
\* that the kept path does not also name.
Freed(plan) ==
    LET keys(action) == {plan.files[i].object : i \in {j \in DOMAIN plan.files : plan.actions[j] = action}}
    IN  Cardinality(keys("QUARANTINE") \ keys("KEEP"))
=============================================================================
