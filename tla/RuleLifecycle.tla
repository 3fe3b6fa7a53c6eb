--------------------------- MODULE RuleLifecycle ---------------------------
(***************************************************************************)
(* Learned directory rules: the learning runs that draft them from the     *)
(* index, from a corpus and from the outcome of earlier plans              *)
(* (internal/learning), the commands by which a human decides about them   *)
(* (cmd/nas-governance rules, review; internal/app/review.go), the rows    *)
(* they are kept in (internal/store/sqlite.go), and what the classifier    *)
(* and the planner make of them (RetentionPlan).                           *)
(*                                                                         *)
(* Every command is a process that holds the database's owner lease, so    *)
(* commands do not interleave; each one writes row by row, without a       *)
(* transaction around the rows, and may end before any of its writes.      *)
(* A learned rule is named after its term.                                 *)
(***************************************************************************)
EXTENDS RetentionPlan

CONSTANTS
    Term,           \* directory names that no builtin term covers
    Parent,         \* Parent[p]: the directory of p
    CorpusRole,     \* CorpusRole[t]: the role the wording of t suggests
    LooksSensitive, \* terms with the wording of private matters
    Indexes,        \* what scans may leave in the index
    Histories,      \* the plans with their outcomes that a database may hold
    TermRank,       \* TermRank[t]: the place of the rule of t in the order of ids
    MinDirCount,    \* thresholds of learning from the index
    MinFileCount,
    MinSamples,     \* threshold of learning from outcomes
    MaxCommands,    \* bound: commands of a behaviour
    MaxScans        \* bound: scans after the first

\* An index has finitely many rows.
ASSUME IndexesAssumption ==
    \A rows \in Indexes :
       /\ IsFiniteSet(DOMAIN rows) /\ DOMAIN rows \subseteq Path
       /\ \A p \in DOMAIN rows : rows[p].age \in Int

\* Plans are kept in the order of a query, each with the copies it judged.
ASSUME HistoriesAssumption ==
    \A history \in Histories :
       /\ DOMAIN history = 1..Len(history) /\ Len(history) \in Nat
       /\ \A n \in DOMAIN history : IsFiniteSet(DOMAIN history[n].others)

\* The wording of a term suggests one of the roles of the dictionary.
ASSUME CorpusAssumption == CorpusRole \in [Term -> BuiltinTerms]

\* The adjustment of a weight has a name of its own.
ASSUME TermAssumption == "weight-authority" \notin Term

\* Rules are listed in the order of their ids where their priorities are equal.
ASSUME RankAssumption ==
    /\ \A r \in Term \union {"weight-authority"} : TermRank[r] \in Int
    /\ \A q, r \in Term \union {"weight-authority"} : TermRank[q] = TermRank[r] => q = r

ASSUME BoundsAssumption ==
    MinSamples \in Nat \ {0} /\ MaxCommands \in Nat /\ MaxScans \in Nat

Component == "weight-authority"    \* the only component with samples
RuleId == Term \union {Component}
Source == {"stats", "corpus", "feedback"}
Batch == Source \X (1..MaxCommands)  \* a batch is named after its source and second
Status == {"draft", "probation", "approved", "disabled", "rejected"}
NoRule == [status |-> "none"]
Idle == [kind |-> "none"]

VARIABLES
    index,      \* [path -> [sha, object, age]] of the active rows
    plans,      \* the earlier plans, fixed
    rules,      \* [RuleId -> row or NoRule]
    batches,    \* the completed learning batches
    signals,    \* the classifier's learned signals
    cmd,        \* the running command or Idle
    commands,   \* how many commands were started
    scans,      \* how many scans have run
    author,     \* history: the batch whose learning wrote the definition
    approved    \* history: the definition a human approved last, or None

vars == <<index, plans, rules, batches, signals, cmd, commands, scans, author, approved>>

-----------------------------------------------------------------------------
(* What learning finds *)

\* ListFiles: the active rows in the order of their paths.
ListFiles ==
    LET order == InOrder(DOMAIN index, PathRank)
    IN  [i \in DOMAIN order |-> [path |-> order[i], sha |-> index[order[i]].sha,
                                 object |-> index[order[i]].object, age |-> index[order[i]].age]]

\* The names of the directories of p strictly below the storage's root.
Below(p) == Segments[p]

\* Files of sensitive directories never enter a sample (K-009).
Sampled(t) == {p \in DOMAIN index : t \in Below(p) /\ SensitiveTerm \notin Below(p)}

\* A name is a convention when it recurs.
Recurs(t) ==
    \/ Cardinality({Parent[p] : p \in Sampled(t)}) >= MinDirCount
    \/ Cardinality(Sampled(t)) >= MinFileCount

BuiltinAuthorityFor(role) ==
    RoleSignals[CHOOSE i \in DOMAIN RoleSignals : RoleSignals[i].role = role].authority

CoOccurrence(t, role) == Cardinality({p \in Sampled(t) : role \in Below(p)})

\* suggestRole: the builtin role seen most often beside the name, the one
\* of higher authority when two are; among the terms of equal roles the
\* dictionary decides, here a choice.
SuggestRole(t) ==
    LET seen == {r \in BuiltinTerms \ {SensitiveTerm} : CoOccurrence(t, r) > 0}
        most == {r \in seen : \A q \in seen : CoOccurrence(t, q) <= CoOccurrence(t, r)}
    IN  IF seen = {} THEN {"unorganized"}
        ELSE {r \in most : \A q \in most : BuiltinAuthorityFor(q) <= BuiltinAuthorityFor(r)}

\* Mutant of AuthorityForLearnedRole: the authority of the builtin role.
AuthorityForBuiltinRole(role) ==
    IF role \in {RoleSignals[i].role : i \in DOMAIN RoleSignals} THEN BuiltinAuthorityFor(role) ELSE 60

\* Learned authority is capped at the level of directory roles.
AuthorityForLearnedRole(role) ==
    CASE role \in {"system_application", "backup", "raw_source", "formal_archive",
                   "project_work", "sensitive"} -> 60
      [] role = "unorganized" -> 45
      [] role = "temporary" -> 20
      [] role = "cache_derived" -> 10
      [] OTHER -> 40

\* A directory_signal draft; confidence in tenths.
Draft(role, b, confidence) ==
    [status |-> "draft", enabled |-> TRUE, batch |-> b, confidence |-> confidence,
     role |-> role, authority |-> AuthorityForLearnedRole(role), delta |-> 0]

\* A weight adjustment rides on a signal that can match no directory.
WeightDraft(delta, b) ==
    [status |-> "draft", enabled |-> TRUE, batch |-> b, confidence |-> 5,
     role |-> "unorganized", authority |-> 0, delta |-> delta]

-----------------------------------------------------------------------------
(* What outcomes teach *)

Magnitude(n) == IF n < 0 THEN -n ELSE n

\* Plans are [terms, rolledBack, kept, others]: the terms their evidence
\* names, whether they were rolled back, the authority of the kept copy and
\* those of the copies it won over.
Judgement(other, kept) ==
    IF other > kept THEN "underweight" ELSE IF other < kept THEN "overweight" ELSE "even"

\* A copy that was not kept, by its plan and its place there.
Comparisons == UNION {{n} \X DOMAIN plans[n].others : n \in DOMAIN plans}

Compared(judgements) ==
    Cardinality({c \in Comparisons :
                    Judgement(plans[c[1]].others[c[2]], plans[c[1]].kept) \in judgements})

\* Six times the net share, cut to a whole number within three.
WeightDelta ==
    LET net == Compared({"underweight"}) - Compared({"overweight"})
        total == Compared({"underweight", "overweight", "even"})
        size == Lower((Magnitude(net) * 6) \div (IF total = 0 THEN 1 ELSE total), 3)
    IN  IF Len(plans) < MinSamples \/ total < MinSamples THEN 0 ELSE IF net < 0 THEN -size ELSE size

Samples(t) == {n \in DOMAIN plans : t \in plans[n].terms}
Rejections(t) == {n \in Samples(t) : plans[n].rolledBack}

\* Rules named in the evidence of plans that were rolled back, half of them
\* at least.
Downgraded ==
    {t \in Term : /\ rules[t] # NoRule
                  /\ Len(plans) >= MinSamples
                  /\ Cardinality(Samples(t)) >= MinSamples
                  /\ 2 * Cardinality(Rejections(t)) >= Cardinality(Samples(t))}

Loss(t) == (2 * Cardinality(Rejections(t))) \div Cardinality(Samples(t))

-----------------------------------------------------------------------------
(* Commands.  One runs at a time. *)

Init ==
    /\ index \in Indexes
    /\ plans \in Histories
    /\ rules = [r \in RuleId |-> NoRule]
    /\ batches = {}
    /\ signals = << >>
    /\ cmd = Idle
    /\ commands = 0
    /\ scans = 0
    /\ author = [r \in RuleId |-> None]
    /\ approved = [r \in RuleId |-> None]

Database == <<index, plans, batches, signals, scans>>

Start(c) ==
    /\ cmd = Idle
    /\ commands < MaxCommands
    /\ commands' = commands + 1
    /\ cmd' = c

Rows(status) == {r \in RuleId : rules[r].status = status}

\* Mutant of Skipped: rules on probation may be drafted anew.
SkippedButProbation == Rows("approved") \union Rows("disabled") \union Rows("rejected")

\* A rule that left draft belongs to the human.
Skipped == UNION {Rows(s) : s \in Status \ {"draft"}}

\* A confidence downgrade saves the row as it was read, but for the number.
Lowered(t) == [rules[t] EXCEPT !.confidence = IF @ < Loss(t) THEN 0 ELSE @ - Loss(t)]

\* NewBatchID: a run may begin in the second of an earlier one, and shares
\* its name when both learn from the same source.
NewBatchID(source) == {source} \X (1..(commands + 1))

Learning(b, drafts, lowered) ==
    /\ Start([kind |-> "learn", batch |-> b,
              drafts |-> [r \in DOMAIN drafts \ Skipped |-> drafts[r]], lowered |-> lowered])
    /\ UNCHANGED <<Database, rules, author, approved>>

\* learn --source=stats: names that recur, with the role of their company.
LearnStats ==
    LET names == {t \in Term : Recurs(t)}
        roles == [t \in names |-> SuggestRole(t)]
    IN \E role \in [names -> UNION {roles[t] : t \in names}], b \in NewBatchID("stats") :
        /\ \A t \in names : role[t] \in roles[t]
        /\ Learning(b, [t \in DOMAIN role |->
                           Draft(role[t], b, IF role[t] = "unorganized" THEN 2 ELSE 6)], << >>)

\* The words that are frequent in the trusted documents of a run: any.
CorpusTerms == SUBSET Term

\* The role the wording of a term suggests; private matters are sensitive.
SuggestCorpusRole(t) == IF t \in LooksSensitive THEN "sensitive" ELSE CorpusRole[t]

\* learn --source=corpus.
LearnCorpus ==
    \E found \in CorpusTerms, b \in NewBatchID("corpus") :
        Learning(b, [t \in found |-> Draft(SuggestCorpusRole(t), b, 4)], << >>)

\* learn --source=feedback: a weight adjustment, and less confidence in
\* rules that are still drafts or on probation.
LearnFeedback ==
    \E b \in NewBatchID("feedback") :
        Learning(b, [r \in {c \in {Component} : WeightDelta # 0} |-> WeightDraft(WeightDelta, b)],
                 [t \in Downgraded \cap (Rows("draft") \union Rows("probation")) |-> Lowered(t)])

Rest(f, x) == [y \in DOMAIN f \ {x} |-> f[y]]

\* SaveRule replaces the whole row.
SaveDraft ==
    /\ cmd.kind = "learn"
    /\ \E r \in DOMAIN cmd.drafts :
          /\ rules' = [rules EXCEPT ![r] = cmd.drafts[r]]
          /\ author' = [author EXCEPT ![r] = cmd.batch]
          /\ approved' = [approved EXCEPT ![r] = None]
          /\ cmd' = [cmd EXCEPT !.drafts = Rest(@, r)]
    /\ UNCHANGED <<Database, commands>>

SaveLowered ==
    /\ cmd.kind = "learn" /\ DOMAIN cmd.drafts = {}
    /\ \E t \in DOMAIN cmd.lowered :
          /\ rules' = [rules EXCEPT ![t] = cmd.lowered[t]]
          /\ cmd' = [cmd EXCEPT !.lowered = Rest(@, t)]
    /\ UNCHANGED <<Database, commands, author, approved>>

\* SaveLearningBatch writes over the row of a batch of the same name.
SaveBatch ==
    /\ cmd.kind = "learn" /\ DOMAIN cmd.drafts = {} /\ DOMAIN cmd.lowered = {}
    /\ batches' = batches \union {cmd.batch}
    /\ cmd' = Idle
    /\ UNCHANGED <<index, plans, signals, scans, rules, commands, author, approved>>

\* A command fails, is interrupted or ends early at any of its writes.
Stop ==
    /\ cmd # Idle
    /\ cmd' = Idle
    /\ UNCHANGED <<Database, rules, commands, author, approved>>

LegalRuleTransition(from, to) ==
    \/ from = "draft" /\ to \in {"probation", "rejected", "disabled"}
    \/ from = "probation" /\ to \in {"approved", "rejected", "disabled"}
    \/ from = "approved" /\ to = "disabled"

\* UpdateRuleStatus; a human's yes is for the definition the row has.
UpdateRuleStatus(r, to) ==
    /\ LegalRuleTransition(rules[r].status, to)
    /\ rules' = [rules EXCEPT ![r].status = to]
    /\ approved' = [approved EXCEPT ![r] = IF to \in {"probation", "approved"} THEN rules[r].role ELSE None]
    /\ UNCHANGED <<Database, author>>

\* rules approve --id, rules reject --id.
Decide ==
    /\ cmd = Idle /\ commands < MaxCommands
    /\ \E r \in RuleId : UpdateRuleStatus(r, "probation") \/ UpdateRuleStatus(r, "rejected")
    /\ commands' = commands + 1
    /\ UNCHANGED cmd

\* rules approve --batch: the drafts of the batch, one update each.
ApproveBatch ==
    /\ \E b \in Batch :
          Start([kind |-> "approve", todo |-> {r \in Rows("draft") : rules[r].batch = b}])
    /\ UNCHANGED <<Database, rules, author, approved>>

ApproveNext ==
    /\ cmd.kind = "approve"
    /\ \E r \in cmd.todo :
          /\ UpdateRuleStatus(r, "probation")
          /\ cmd' = [cmd EXCEPT !.todo = @ \ {r}]
    /\ UNCHANGED commands

\* Mutant of DisableBatch: rules on probation stay.
DisableApprovedBatch ==
    /\ cmd = Idle /\ commands < MaxCommands
    /\ \E b \in Batch :
          /\ \E r \in RuleId : rules[r] # NoRule /\ rules[r].batch = b
          /\ rules' = [r \in RuleId |->
                         IF rules[r].status = "approved" /\ rules[r].batch = b
                         THEN [rules[r] EXCEPT !.status = "disabled", !.enabled = FALSE] ELSE rules[r]]
          /\ approved' = [r \in RuleId |-> IF author[r] = b THEN None ELSE approved[r]]
    /\ commands' = commands + 1
    /\ UNCHANGED <<Database, cmd, author>>

\* rules disable --batch: one statement for every row of the batch.
DisableBatch ==
    /\ cmd = Idle /\ commands < MaxCommands
    /\ \E b \in Batch :
          /\ \E r \in RuleId : rules[r] # NoRule /\ rules[r].batch = b
          /\ rules' = [r \in RuleId |->
                         IF rules[r] # NoRule /\ rules[r].batch = b
                         THEN [rules[r] EXCEPT !.status = "disabled", !.enabled = FALSE] ELSE rules[r]]
          /\ approved' = [r \in RuleId |-> IF author[r] = b THEN None ELSE approved[r]]
    /\ commands' = commands + 1
    /\ UNCHANGED <<Database, cmd, author>>

\* review rules: a session over the drafts and the rules on probation that
\* were there when it began.
ReviewRules ==
    /\ Start([kind |-> "review", drafts |-> Rows("draft"), probations |-> Rows("probation")])
    /\ UNCHANGED <<Database, rules, author, approved>>

Answer ==
    /\ cmd.kind = "review"
    /\ LET list == IF cmd.drafts # {} THEN "drafts" ELSE "probations"
           offers == IF cmd.drafts # {} THEN {"probation", "rejected"}
                     ELSE {"approved", "rejected", "disabled"}
       IN \E r \in cmd[list] :
             /\ cmd' = [cmd EXCEPT ![list] = @ \ {r}]
             /\ \/ \E to \in offers : UpdateRuleStatus(r, to)
                \/ UNCHANGED <<Database, rules, author, approved>>
    /\ UNCHANGED commands

\* ListRules: by priority, then by name.
Priority(r) == IF r = Component THEN 40 ELSE rules[r].authority

ListRules ==
    LET ids == {r \in RuleId : rules[r] # NoRule}
        before(q, r) == \/ Priority(q) > Priority(r)
                        \/ Priority(q) = Priority(r) /\ TermRank[q] < TermRank[r]
        order == InOrder(ids, [r \in ids |-> Cardinality({q \in ids : before(q, r)})])
    IN  [i \in DOMAIN order |-> [status |-> rules[order[i]].status, enabled |-> rules[order[i]].enabled,
                                 role |-> rules[order[i]].role, authority |-> rules[order[i]].authority,
                                 term |-> order[i]]]

\* MergeLearned: the classifier takes the rules as they are now.
MergeLearned ==
    /\ cmd = Idle
    /\ signals' = Learned(ListRules)
    /\ UNCHANGED <<index, plans, batches, scans, rules, cmd, commands, author, approved>>

\* A scan leaves another index behind.
Rescan ==
    /\ cmd = Idle /\ scans < MaxScans
    /\ index' \in Indexes
    /\ scans' = scans + 1
    /\ UNCHANGED <<plans, batches, signals, rules, cmd, commands, author, approved>>

Next ==
    \/ LearnStats \/ LearnCorpus \/ LearnFeedback
    \/ SaveDraft \/ SaveLowered \/ SaveBatch \/ Stop
    \/ Decide \/ ApproveBatch \/ ApproveNext \/ DisableBatch
    \/ ReviewRules \/ Answer
    \/ MergeLearned \/ Rescan

Spec == Init /\ [][Next]_vars

-----------------------------------------------------------------------------
(* Properties *)

\* Every variable keeps its sort: rows are complete, the cap of learned
\* authority holds in the table, and a command only holds rows of its kind.
TypeOK ==
    /\ index \in Indexes /\ plans \in Histories
    /\ batches \subseteq Batch
    /\ commands \in 0..MaxCommands /\ scans \in 0..MaxScans
    /\ author \in [RuleId -> Batch \union {None}]
    /\ approved \in [RuleId -> BuiltinTerms \union {None}]
    /\ \A r \in RuleId : rules[r] # NoRule =>
          /\ rules[r].status \in Status /\ rules[r].enabled \in BOOLEAN
          /\ rules[r].batch \in Batch /\ rules[r].confidence \in 0..10
          /\ rules[r].role \in BuiltinTerms
          /\ rules[r].authority \in 0..MaxLearnedPriority
          /\ rules[r].delta \in -3..3
    /\ cmd.kind \in {"none", "learn", "approve", "review"}

\* Human decisions are never overwritten by learning (rule.go:24): a
\* learning run leaves every rule that is no draft alone, but for the
\* confidence of one on probation.
HumanDecisionStands ==
    [][cmd.kind = "learn" =>
         \A r \in RuleId :
            \/ rules'[r] = rules[r]
            \/ rules[r].status \in {"none", "draft"}
            \/ /\ rules[r].status = "probation"
               /\ rules' = [rules EXCEPT ![r].confidence = rules'[r].confidence]
               /\ rules'[r].confidence <= rules[r].confidence]_vars

\* A rule that takes part in classification (rules.go:43) has exactly the
\* definition a human said yes to, who has since neither rejected nor
\* disabled it, nor disabled the batch that wrote that definition.
EffectiveWasApproved ==
    \A r \in RuleId :
        rules[r] # NoRule /\ rules[r].enabled /\ rules[r].status \in {"approved", "probation"}
            => approved[r] = rules[r].role

\* Whatever was learned and approved, a plan sets copies aside only when one
\* is kept and none of them is protected by a builtin rule, a project file,
\* of another purpose or of an unproven digest (planner.go:54, K-008); and
\* carrying it out frees what its duplicate group reports as reclaimable
\* (duplicates.go:85), hard links included, where files have an identity.
PlansAreSound ==
    cmd = Idle => \A plan \in BuildPlans(ListFiles, signals) :
        /\ PlanJustified(plan)
        /\ SetsAside(plan) /\ (\A i \in DOMAIN plan.files : plan.files[i].object # Unreliable)
             => Freed(plan) = ReclaimableCopies(plan.files)
=============================================================================
