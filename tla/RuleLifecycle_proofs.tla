------------------------ MODULE RuleLifecycle_proofs ------------------------
(***************************************************************************)
(* That rows of learned rules keep their sort, that only definitions a     *)
(* human said yes to take part in classification, that learning leaves     *)
(* human decisions alone, and that the plans made with what was learned    *)
(* are sound, for any terms, indexes, histories and numbers of commands.   *)
(* The argument about rows is Pending: while a learning run writes, the    *)
(* rows it is about to replace are still drafts, and the rows it is about  *)
(* to lower are still the rows it read, because commands do not interleave *)
(* and a run writes each row once.  The argument about plans is Ranked:    *)
(* signals are sorted by authority and learned ones are clamped, so a path *)
(* that classifies as disposable matches no stronger builtin signal.       *)
(***************************************************************************)
EXTENDS RuleLifecycle, FiniteSetTheorems, TLAPS

Row == [status : Status, enabled : BOOLEAN, batch : Batch, confidence : 0..10,
        role : BuiltinTerms, authority : 0..MaxLearnedPriority, delta : -3..3]

DraftSets == UNION {[S -> Row] : S \in SUBSET RuleId}

Learn == [kind : {"learn"}, batch : Batch, drafts : DraftSets, lowered : DraftSets]
Approval == [kind : {"approve"}, todo : SUBSET RuleId]
Session == [kind : {"review"}, drafts : SUBSET RuleId, probations : SUBSET RuleId]
Commands == {Idle} \cup Learn \cup Approval \cup Session

Sorts ==
    /\ index \in Indexes /\ plans \in Histories
    /\ batches \subseteq Batch
    /\ commands \in 0..MaxCommands /\ scans \in 0..MaxScans
    /\ author \in [RuleId -> Batch \cup {None}]
    /\ approved \in [RuleId -> BuiltinTerms \cup {None}]
    /\ rules \in [RuleId -> Row \cup {NoRule}]
    /\ cmd \in Commands

\* What a learning run is about to write.
Pending ==
    cmd \in Learn =>
       /\ \A r \in DOMAIN cmd.drafts :
             /\ cmd.drafts[r].status = "draft"
             /\ cmd.drafts[r].batch = cmd.batch
             /\ rules[r].status \in {"none", "draft"}
             /\ r \notin DOMAIN cmd.lowered
       /\ \A t \in DOMAIN cmd.lowered :
             /\ rules[t] \in Row /\ rules[t].status \in {"draft", "probation"}
             /\ cmd.lowered[t] = [rules[t] EXCEPT !.confidence = cmd.lowered[t].confidence]
             /\ cmd.lowered[t].confidence <= rules[t].confidence

\* A definition is known by the batch that wrote it.
Authored == \A r \in RuleId : rules[r] \in Row => author[r] = rules[r].batch

Effective(r) ==
    rules[r] \in Row /\ rules[r].enabled /\ rules[r].status \in {"approved", "probation"}
       => approved[r] = rules[r].role

RInv == Sorts /\ Pending /\ Authored /\ \A r \in RuleId : Effective(r)

-----------------------------------------------------------------------------
(* Rows and commands *)

\* Terms are rules of their own, apart from the weight of a component.
LEMMA Terms == /\ Term \subseteq RuleId /\ Component \in RuleId /\ Component \notin Term
BY TermAssumption DEF RuleId, Component

\* A command is known by its kind.
LEMMA Kinds ==
    ASSUME cmd \in Commands
    PROVE  /\ cmd = Idle <=> cmd.kind = "none"
           /\ cmd \in Learn <=> cmd.kind = "learn"
           /\ cmd \in Approval <=> cmd.kind = "approve"
           /\ cmd \in Session <=> cmd.kind = "review"
BY DEF Commands, Learn, Approval, Session, Idle

\* An absent rule is no row.
LEMMA NoRow == NoRule \notin Row /\ NoRule.status = "none"
<1>1. NoRule.status = "none"
  BY DEF NoRule
<1>2. \A row \in Row : row.status # "none"
  BY DEF Row, Status
<1> QED BY <1>1, <1>2

\* A rule has a row exactly when it has a status.
LEMMA RowStatus ==
    ASSUME Sorts, NEW r \in RuleId
    PROVE  /\ rules[r] \in Row <=> rules[r] # NoRule
           /\ rules[r] \in Row <=> rules[r].status # "none"
           /\ rules[r] \in Row => rules[r].status \in Status
<1>1. rules[r] \in Row \cup {NoRule}
  BY DEF Sorts
<1>2. \A row \in Row : row.status \in Status /\ row.status # "none"
  BY DEF Row, Status
<1> QED BY <1>1, <1>2, NoRow

\* Learned authority stays within its cap for every role.
LEMMA Roles ==
    /\ "unorganized" \in BuiltinTerms /\ SensitiveTerm \in BuiltinTerms
    /\ \A role : AuthorityForLearnedRole(role) \in 0..MaxLearnedPriority
<1>1. "unorganized" \in BuiltinTerms
  <2>1. 8 \in DOMAIN RoleSignals /\ RoleSignals[8].term = "unorganized"
    BY DEF RoleSignals, Signal
  <2> QED BY <2>1 DEF BuiltinTerms
<1>2. SensitiveTerm \in BuiltinTerms
  BY DEF BuiltinTerms
<1>3. ASSUME NEW role PROVE AuthorityForLearnedRole(role) \in 0..MaxLearnedPriority
  BY DEF AuthorityForLearnedRole, MaxLearnedPriority
<1> QED BY <1>1, <1>2, <1>3

\* A draft is a complete row of its batch.
LEMMA DraftRow ==
    ASSUME NEW role \in BuiltinTerms, NEW b \in Batch, NEW c \in 0..10
    PROVE  /\ Draft(role, b, c) \in Row
           /\ Draft(role, b, c).status = "draft" /\ Draft(role, b, c).batch = b
BY Roles DEF Draft, Row, Status

-----------------------------------------------------------------------------
(* What outcomes teach *)

\* The number of compared decisions is a natural number.
LEMMA ComparedNat ==
    ASSUME plans \in Histories, NEW J
    PROVE  Compared(J) \in Nat
<1> DEFINE F == [n \in DOMAIN plans |-> {n} \X DOMAIN plans[n].others]
           Parts == {{n} \X DOMAIN plans[n].others : n \in DOMAIN plans}
<1>1. IsFiniteSet(DOMAIN plans)
  BY HistoriesAssumption, FS_Interval
<1>2. F \in Surjection(DOMAIN plans, Parts)
  BY DEF Surjection
<1>3. IsFiniteSet(Parts)
  BY <1>1, <1>2, FS_Surjection
<1>4. ASSUME NEW T \in Parts PROVE IsFiniteSet(T)
  <2>1. PICK n \in DOMAIN plans : T = {n} \X DOMAIN plans[n].others
    OBVIOUS
  <2>2. IsFiniteSet(DOMAIN plans[n].others)
    BY HistoriesAssumption
  <2> QED BY <2>1, <2>2, FS_Singleton, FS_Product
<1>5. IsFiniteSet(Comparisons)
  <2> HIDE DEF Parts
  <2>1. IsFiniteSet(UNION Parts)
    BY <1>3, <1>4, FS_UNION
  <2> QED BY <2>1 DEF Comparisons, Parts
<1>6. {c \in Comparisons : Judgement(plans[c[1]].others[c[2]], plans[c[1]].kept) \in J}
         \in SUBSET Comparisons
  OBVIOUS
<1> QED BY <1>5, <1>6, FS_Subset, FS_CardinalityType DEF Compared

\* The quotient of natural numbers is a natural number.
LEMMA QuotientNat ==
    ASSUME NEW m \in Nat, NEW n \in Nat \ {0}
    PROVE  m \div n \in Nat
OBVIOUS

\* One feedback run moves a weight by three at most.
LEMMA WeightDeltaBound ==
    ASSUME plans \in Histories
    PROVE  WeightDelta \in -3..3
<1> DEFINE over == Compared({"overweight"})
           under == Compared({"underweight"})
           total == Compared({"underweight", "overweight", "even"})
           share == (Magnitude(under - over) * 6) \div (IF total = 0 THEN 1 ELSE total)
<1>1. over \in Nat /\ under \in Nat /\ total \in Nat
  BY ComparedNat
<1>2. share \in Nat
  <2> HIDE DEF over, under, total
  <2>1. Magnitude(under - over) * 6 \in Nat
    BY <1>1 DEF Magnitude
  <2>2. (IF total = 0 THEN 1 ELSE total) \in Nat \ {0}
    BY <1>1
  <2> QED BY <2>1, <2>2, QuotientNat
<1>3. Lower(share, 3) \in 0..3
  <2> HIDE DEF share
  <2> QED BY <1>2 DEF Lower
<1>4. WeightDelta = IF Len(plans) < MinSamples \/ total < MinSamples THEN 0
                    ELSE IF under - over < 0 THEN -Lower(share, 3) ELSE Lower(share, 3)
  BY DEF WeightDelta
<1> HIDE DEF over, under, total, share
<1> QED BY <1>1, <1>3, <1>4

\* The draft of a weight is a complete row of its batch.
LEMMA WeightDraftRow ==
    ASSUME plans \in Histories, NEW b \in Batch
    PROVE  /\ WeightDraft(WeightDelta, b) \in Row
           /\ WeightDraft(WeightDelta, b).status = "draft" /\ WeightDraft(WeightDelta, b).batch = b
BY WeightDeltaBound, Roles DEF WeightDraft, Row, Status, MaxLearnedPriority

\* The loss of confidence is not negative.
LEMMA LossNat ==
    ASSUME plans \in Histories, NEW t \in Downgraded
    PROVE  Loss(t) \in Nat
<1>1. IsFiniteSet(DOMAIN plans)
  BY HistoriesAssumption, FS_Interval
<1>2. IsFiniteSet(Samples(t)) /\ IsFiniteSet(Rejections(t))
  BY <1>1, FS_Subset DEF Samples, Rejections
<1>3. Cardinality(Samples(t)) \in Nat /\ Cardinality(Rejections(t)) \in Nat
  BY <1>2, FS_CardinalityType
<1>4. Cardinality(Samples(t)) # 0
  BY <1>3, BoundsAssumption DEF Downgraded
<1> QED BY <1>3, <1>4, QuotientNat DEF Loss

\* Lowering changes the confidence of a rule, downwards, and nothing else of it.
LEMMA LoweredRow ==
    ASSUME Sorts, NEW t \in Downgraded
    PROVE  /\ rules[t] \in Row /\ Lowered(t) \in Row
           /\ Lowered(t) = [rules[t] EXCEPT !.confidence = Lowered(t).confidence]
           /\ Lowered(t).confidence <= rules[t].confidence
<1>1. t \in RuleId /\ rules[t] \in Row
  BY Terms, RowStatus DEF Downgraded
<1>2. Loss(t) \in Nat
  BY LossNat DEF Sorts
<1>3. rules[t].confidence \in 0..10
  BY <1>1 DEF Row
<1>4. PICK c \in 0..10 : /\ c <= rules[t].confidence
                         /\ c = IF rules[t].confidence < Loss(t) THEN 0 ELSE rules[t].confidence - Loss(t)
  BY <1>2, <1>3
<1>5. Lowered(t) = [rules[t] EXCEPT !.confidence = c]
  BY <1>4 DEF Lowered
<1>6. Lowered(t).confidence = c /\ Lowered(t) \in Row
  BY <1>1, <1>5 DEF Row
<1> QED BY <1>1, <1>4, <1>5, <1>6

-----------------------------------------------------------------------------
(* Steps of learning runs *)

Untouched == UNCHANGED <<index, plans, batches, signals, scans, rules, author, approved>>

\* A family of rows indexed by rules is a set of drafts.
LEMMA DraftSet ==
    ASSUME NEW S, S \subseteq RuleId, NEW f, f = [x \in S |-> f[x]], \A x \in S : f[x] \in Row
    PROVE  f \in DraftSets
<1>1. f \in [S -> Row] /\ S \in SUBSET RuleId
  OBVIOUS
<1>2. [S -> Row] \in {[T -> Row] : T \in SUBSET RuleId}
  BY <1>1
<1> QED BY <1>1, <1>2 DEF DraftSets

\* What a set of drafts consists of.
LEMMA DraftSetMember ==
    ASSUME NEW f \in DraftSets
    PROVE  /\ DOMAIN f \subseteq RuleId /\ f = [x \in DOMAIN f |-> f[x]]
           /\ \A x \in DOMAIN f : f[x] \in Row
<1>1. PICK S \in SUBSET RuleId : f \in [S -> Row]
  BY DEF DraftSets
<1> QED BY <1>1

\* Taking a draft out of the set leaves the others.
LEMMA RestSet ==
    ASSUME NEW f \in DraftSets, NEW x
    PROVE  /\ Rest(f, x) \in DraftSets
           /\ DOMAIN Rest(f, x) = DOMAIN f \ {x}
           /\ \A y \in DOMAIN f \ {x} : Rest(f, x)[y] = f[y]
<1>1. \A y \in DOMAIN f : f[y] \in Row /\ y \in RuleId
  BY DraftSetMember
<1>2. /\ Rest(f, x) = [y \in DOMAIN f \ {x} |-> f[y]]
      /\ DOMAIN Rest(f, x) = DOMAIN f \ {x}
      /\ \A y \in DOMAIN f \ {x} : Rest(f, x)[y] = f[y]
  BY DEF Rest
<1>3. Rest(f, x) \in DraftSets
  <2> DEFINE S == DOMAIN f \ {x}
             g == Rest(f, x)
  <2>1. S \subseteq RuleId /\ \A y \in S : g[y] \in Row
    BY <1>1, <1>2
  <2>2. g = [y \in S |-> g[y]]
    BY <1>2
  <2> HIDE DEF S, g
  <2>3. g \in DraftSets
    BY <2>1, <2>2, DraftSet
  <2> QED BY <2>3 DEF g
<1> QED BY <1>2, <1>3

\* A step that only changes the command keeps what is said of the rows.
LEMMA CommandStep ==
    ASSUME RInv, Untouched, cmd' \in Commands, commands' \in 0..MaxCommands, Pending'
    PROVE  RInv'
<1>1. Sorts'
  BY DEF RInv, Sorts, Untouched
<1>2. Authored' /\ \A r \in RuleId : Effective(r)'
  BY DEF RInv, Authored, Effective, Untouched
<1> QED BY <1>1, <1>2 DEF RInv

\* The number of a command stays within its bound.
LEMMA Counted ==
    ASSUME Sorts, commands < MaxCommands
    PROVE  /\ commands + 1 \in 0..MaxCommands
           /\ \A source \in Source : NewBatchID(source) \subseteq Batch
<1>1. commands \in Nat /\ MaxCommands \in Nat /\ 1..(commands + 1) \subseteq 1..MaxCommands
  BY BoundsAssumption DEF Sorts
<1> QED BY <1>1 DEF NewBatchID, Batch

\* Drafts of this run, and rows as they were read but for less confidence.
Learns(b, drafts, lowered) ==
    /\ DOMAIN drafts \subseteq RuleId /\ DOMAIN drafts \cap DOMAIN lowered = {}
    /\ \A r \in DOMAIN drafts :
          drafts[r] \in Row /\ drafts[r].status = "draft" /\ drafts[r].batch = b
    /\ lowered \in DraftSets
    /\ \A t \in DOMAIN lowered :
          /\ rules[t] \in Row /\ rules[t].status \in {"draft", "probation"}
          /\ lowered[t] = [rules[t] EXCEPT !.confidence = lowered[t].confidence]
          /\ lowered[t].confidence <= rules[t].confidence

\* A rule that learning does not skip has no row or is a draft.
LEMMA SkippedStatus ==
    ASSUME Sorts, NEW r \in RuleId, r \notin Skipped
    PROVE  rules[r].status \in {"none", "draft"}
<1>1. \A s \in Status \ {"draft"} : r \notin Rows(s)
  BY DEF Skipped
<1> QED BY <1>1, RowStatus DEF Rows, Status

\* Learning starts a command with its drafts and stores no row by itself.
LEMMA LearningStep ==
    ASSUME RInv, NEW b \in Batch, NEW drafts, NEW lowered, Learns(b, drafts, lowered), Learning(b, drafts, lowered)
    PROVE  RInv'
<1> DEFINE S == DOMAIN drafts \ Skipped
           kept == [r \in S |-> drafts[r]]
<1> USE DEF Learns
<1>0. Sorts /\ commands < MaxCommands /\ commands' = commands + 1
  BY DEF RInv, Learning, Start
<1>1. commands + 1 \in 0..MaxCommands
  BY <1>0, Counted
<1>2. S \subseteq RuleId /\ DOMAIN kept = S /\ \A r \in S : kept[r] = drafts[r]
  OBVIOUS
<1>3. kept \in DraftSets
  <2>1. \A r \in S : kept[r] \in Row
    BY <1>2
  <2>2. kept = [r \in S |-> kept[r]]
    BY <1>2
  <2> HIDE DEF kept, S
  <2> QED BY <1>2, <2>1, <2>2, DraftSet
<1>4. cmd' = [kind |-> "learn", batch |-> b, drafts |-> kept, lowered |-> lowered]
  BY DEF Learning, Start
<1>5. Untouched
  BY DEF Learning, Untouched, Database
<1>6. \A r \in S : /\ kept[r].status = "draft" /\ kept[r].batch = b
                   /\ rules[r].status \in {"none", "draft"} /\ r \notin DOMAIN lowered
  BY <1>0, <1>2, SkippedStatus
<1> HIDE DEF kept, S
<1>7. cmd' \in Learn
  BY <1>3, <1>4 DEF Learn
<1>8. cmd'.batch = b /\ cmd'.drafts = kept /\ cmd'.lowered = lowered
  BY <1>4
<1>9. Pending'
  BY <1>2, <1>5, <1>6, <1>8 DEF Pending, Untouched
<1> QED BY <1>0, <1>1, <1>5, <1>7, <1>9, CommandStep DEF Commands

\* The empty set of drafts.
LEMMA EmptySet == << >> \in DraftSets /\ DOMAIN << >> = {}
<1>1. DOMAIN << >> = {} /\ << >> = [x \in {} |-> x]
  OBVIOUS
<1>2. << >> \in [{} -> Row] /\ {} \in SUBSET RuleId
  BY <1>1
<1> QED BY <1>1, <1>2 DEF DraftSets

\* Learning from the index drafts only rules that no human has decided on.
LEMMA LearnStatsStep ==
    ASSUME RInv, LearnStats
    PROVE  RInv'
<1> DEFINE names == {t \in Term : Recurs(t)}
           roles == [t \in names |-> SuggestRole(t)]
<1>1. PICK role \in [names -> UNION {roles[t] : t \in names}], b \in NewBatchID("stats") :
         /\ \A t \in names : role[t] \in roles[t]
         /\ Learning(b, [t \in DOMAIN role |->
                            Draft(role[t], b, IF role[t] = "unorganized" THEN 2 ELSE 6)], << >>)
  BY DEF LearnStats
<1>2. DOMAIN role = names /\ names \subseteq RuleId
  BY Terms
<1>3. ASSUME NEW t \in names PROVE role[t] \in BuiltinTerms
  <2>1. role[t] \in SuggestRole(t)
    BY <1>1
  <2>2. SuggestRole(t) \subseteq BuiltinTerms
    BY Roles DEF SuggestRole
  <2> QED BY <2>1, <2>2
<1> DEFINE drafts == [t \in DOMAIN role |->
                        Draft(role[t], b, IF role[t] = "unorganized" THEN 2 ELSE 6)]
<1>4. b \in Batch
  BY <1>1, Counted DEF RInv, Learning, Start, Source
<1> HIDE DEF names, roles
<1>5. ASSUME NEW t \in DOMAIN role
      PROVE  drafts[t] \in Row /\ drafts[t].status = "draft" /\ drafts[t].batch = b
  <2>1. (IF role[t] = "unorganized" THEN 2 ELSE 6) \in 0..10
    OBVIOUS
  <2> QED BY <2>1, <1>2, <1>3, <1>4, DraftRow
<1>6. DOMAIN drafts = DOMAIN role
  OBVIOUS
<1>7. Learning(b, drafts, << >>)
  BY <1>1
<1> HIDE DEF drafts
<1>8. Learns(b, drafts, << >>)
  BY <1>2, <1>5, <1>6, EmptySet DEF Learns
<1> QED BY <1>4, <1>7, <1>8, LearningStep

\* Learning from the corpus drafts only rules that no human has decided on.
LEMMA LearnCorpusStep ==
    ASSUME RInv, LearnCorpus
    PROVE  RInv'
<1>1. PICK found \in CorpusTerms, b \in NewBatchID("corpus") :
         Learning(b, [t \in found |-> Draft(SuggestCorpusRole(t), b, 4)], << >>)
  BY DEF LearnCorpus
<1> DEFINE drafts == [t \in found |-> Draft(SuggestCorpusRole(t), b, 4)]
<1>2. found \subseteq RuleId /\ found \subseteq Term
  BY Terms DEF CorpusTerms
<1>3. b \in Batch
  BY <1>1, Counted DEF RInv, Learning, Start, Source
<1>4. ASSUME NEW t \in found
      PROVE  drafts[t] \in Row /\ drafts[t].status = "draft" /\ drafts[t].batch = b
  <2>1. SuggestCorpusRole(t) \in BuiltinTerms
    BY <1>2, Roles, CorpusAssumption DEF SuggestCorpusRole, SensitiveTerm
  <2> QED BY <2>1, <1>3, DraftRow
<1>5. DOMAIN drafts = found /\ Learning(b, drafts, << >>)
  BY <1>1
<1> HIDE DEF drafts
<1>6. Learns(b, drafts, << >>)
  BY <1>2, <1>4, <1>5, EmptySet DEF Learns
<1> QED BY <1>3, <1>5, <1>6, LearningStep

\* Feedback drafts a weight and lowers the confidence of rules on probation.
LEMMA LearnFeedbackStep ==
    ASSUME RInv, LearnFeedback
    PROVE  RInv'
<1> DEFINE C == {c \in {Component} : WeightDelta # 0}
           T == Downgraded \cap (Rows("draft") \union Rows("probation"))
<1>0. PICK b \in NewBatchID("feedback") :
         Learning(b, [r \in C |-> WeightDraft(WeightDelta, b)], [t \in T |-> Lowered(t)])
  BY DEF LearnFeedback
<1> DEFINE drafts == [r \in C |-> WeightDraft(WeightDelta, b)]
           lowered == [t \in T |-> Lowered(t)]
<1>1. Learning(b, drafts, lowered)
  BY <1>0
<1>2. Sorts /\ plans \in Histories
  BY DEF RInv, Sorts
<1>3. b \in Batch
  BY <1>1, <1>2, Counted DEF Learning, Start, Source
<1>4. DOMAIN drafts = C /\ DOMAIN lowered = T /\ C \subseteq {Component} /\ T \subseteq Term
  BY DEF Downgraded
<1>5. ASSUME NEW r \in C
      PROVE  drafts[r] \in Row /\ drafts[r].status = "draft" /\ drafts[r].batch = b
  BY <1>2, <1>3, WeightDraftRow
<1>6. ASSUME NEW t \in T
      PROVE  /\ rules[t] \in Row /\ rules[t].status \in {"draft", "probation"}
             /\ lowered[t] \in Row
             /\ lowered[t] = [rules[t] EXCEPT !.confidence = lowered[t].confidence]
             /\ lowered[t].confidence <= rules[t].confidence
  <2>1. lowered[t] = Lowered(t) /\ t \in Downgraded
    OBVIOUS
  <2>2. rules[t].status \in {"draft", "probation"}
    BY DEF Rows
  <2> HIDE DEF lowered, T
  <2> QED BY <1>2, <2>1, <2>2, LoweredRow
<1>7. lowered \in DraftSets
  <2>1. T \subseteq RuleId /\ lowered = [t \in T |-> lowered[t]]
    BY <1>4, Terms
  <2> HIDE DEF lowered, T
  <2> QED BY <1>6, <2>1, DraftSet
<1> HIDE DEF drafts, lowered, C, T
<1>8. Learns(b, drafts, lowered)
  BY <1>4, <1>5, <1>6, <1>7, Terms DEF Learns
<1> QED BY <1>1, <1>3, <1>8, LearningStep

\* A draft is stored over no decision of a human.
LEMMA SaveDraftStep ==
    ASSUME RInv, SaveDraft
    PROVE  RInv'
<1>1. cmd \in Learn /\ Sorts /\ Pending /\ Authored
  BY Kinds DEF RInv, Sorts, SaveDraft
<1>2. PICK r \in DOMAIN cmd.drafts :
          /\ rules' = [rules EXCEPT ![r] = cmd.drafts[r]]
          /\ author' = [author EXCEPT ![r] = cmd.batch]
          /\ approved' = [approved EXCEPT ![r] = None]
          /\ cmd' = [cmd EXCEPT !.drafts = Rest(@, r)]
  BY DEF SaveDraft
<1>3. UNCHANGED <<index, plans, batches, signals, scans, commands>>
  BY DEF SaveDraft, Database
<1>4. cmd.drafts \in DraftSets /\ cmd.lowered \in DraftSets /\ cmd.batch \in Batch
  BY <1>1 DEF Learn
<1>5. r \in RuleId /\ cmd.drafts[r] \in Row
  BY <1>4, DraftSetMember
<1>6. /\ cmd.drafts[r].status = "draft" /\ cmd.drafts[r].batch = cmd.batch
      /\ r \notin DOMAIN cmd.lowered
  BY <1>1 DEF Pending
<1>7. /\ cmd'.kind = "learn" /\ cmd'.batch = cmd.batch /\ cmd'.lowered = cmd.lowered
      /\ cmd'.drafts = Rest(cmd.drafts, r) /\ cmd' \in Learn
  <2>1. Rest(cmd.drafts, r) \in DraftSets
    BY <1>4, RestSet
  <2> QED BY <1>1, <1>2, <2>1 DEF Learn
<1>8. /\ rules \in [RuleId -> Row \cup {NoRule}] /\ author \in [RuleId -> Batch \cup {None}]
      /\ approved \in [RuleId -> BuiltinTerms \cup {None}]
  BY <1>1 DEF Sorts
<1>9. /\ rules' \in [RuleId -> Row \cup {NoRule}] /\ author' \in [RuleId -> Batch \cup {None}]
      /\ approved' \in [RuleId -> BuiltinTerms \cup {None}]
      /\ rules'[r] = cmd.drafts[r] /\ author'[r] = cmd.batch
      /\ \A q \in RuleId \ {r} : /\ rules'[q] = rules[q] /\ author'[q] = author[q]
                                 /\ approved'[q] = approved[q]
  BY <1>2, <1>4, <1>5, <1>8
<1>10. Sorts'
  BY <1>1, <1>3, <1>7, <1>9 DEF Sorts, Commands
<1>11. Pending'
  <2>1. DOMAIN cmd'.drafts = DOMAIN cmd.drafts \ {r}
        /\ \A q \in DOMAIN cmd.drafts \ {r} : cmd'.drafts[q] = cmd.drafts[q]
    <3>1. /\ DOMAIN Rest(cmd.drafts, r) = DOMAIN cmd.drafts \ {r}
          /\ \A q \in DOMAIN cmd.drafts \ {r} : Rest(cmd.drafts, r)[q] = cmd.drafts[q]
      BY <1>4, RestSet
    <3> QED BY <1>7, <3>1
  <2>2. DOMAIN cmd.drafts \subseteq RuleId /\ DOMAIN cmd.lowered \subseteq RuleId
    BY <1>4, DraftSetMember
  <2>3. \A q \in DOMAIN cmd'.drafts :
             /\ cmd'.drafts[q].status = "draft" /\ cmd'.drafts[q].batch = cmd'.batch
             /\ rules'[q].status \in {"none", "draft"} /\ q \notin DOMAIN cmd'.lowered
    BY <1>1, <1>7, <1>9, <2>1, <2>2 DEF Pending
  <2>4. ASSUME NEW t \in DOMAIN cmd'.lowered
        PROVE  /\ rules'[t] \in Row /\ rules'[t].status \in {"draft", "probation"}
               /\ cmd'.lowered[t] = [rules'[t] EXCEPT !.confidence = cmd'.lowered[t].confidence]
               /\ cmd'.lowered[t].confidence <= rules'[t].confidence
    <3>1. t \in DOMAIN cmd.lowered /\ t # r /\ rules'[t] = rules[t]
      BY <1>6, <1>7, <1>9, <2>2
    <3> QED BY <1>1, <1>7, <3>1 DEF Pending
  <2> QED BY <2>3, <2>4 DEF Pending
<1>12. Authored'
  BY <1>1, <1>5, <1>6, <1>9 DEF Authored
<1>13. ASSUME NEW q \in RuleId PROVE Effective(q)'
  <2>1. CASE q = r
    BY <1>6, <1>9, <2>1 DEF Effective
  <2>2. CASE q # r
    BY <1>9, <2>2 DEF RInv, Effective
  <2> QED BY <2>1, <2>2
<1> QED BY <1>10, <1>11, <1>12, <1>13 DEF RInv

\* A lowered rule keeps its status and definition.
LEMMA SaveLoweredStep ==
    ASSUME RInv, SaveLowered
    PROVE  RInv'
<1>1. cmd \in Learn /\ Sorts /\ Pending /\ Authored
  BY Kinds DEF RInv, Sorts, SaveLowered
<1>2. PICK t \in DOMAIN cmd.lowered :
          /\ rules' = [rules EXCEPT ![t] = cmd.lowered[t]]
          /\ cmd' = [cmd EXCEPT !.lowered = Rest(@, t)]
  BY DEF SaveLowered
<1>3. /\ UNCHANGED <<index, plans, batches, signals, scans, commands, author, approved>>
      /\ DOMAIN cmd.drafts = {}
  BY DEF SaveLowered, Database
<1>4. cmd.lowered \in DraftSets
  BY <1>1 DEF Learn
<1>5. t \in RuleId /\ cmd.lowered[t] \in Row /\ DOMAIN cmd.lowered \subseteq RuleId
  BY <1>4, DraftSetMember
<1>6. /\ rules[t] \in Row
      /\ cmd.lowered[t] = [rules[t] EXCEPT !.confidence = cmd.lowered[t].confidence]
  BY <1>1 DEF Pending
<1>7. /\ cmd.lowered[t].status = rules[t].status /\ cmd.lowered[t].enabled = rules[t].enabled
      /\ cmd.lowered[t].role = rules[t].role /\ cmd.lowered[t].batch = rules[t].batch
  BY <1>6 DEF Row
<1>8. /\ cmd'.drafts = cmd.drafts /\ cmd'.batch = cmd.batch /\ cmd'.lowered = Rest(cmd.lowered, t)
      /\ cmd' \in Learn
  <2>1. Rest(cmd.lowered, t) \in DraftSets
    BY <1>4, RestSet
  <2> QED BY <1>1, <1>2, <2>1 DEF Learn
<1>9. /\ rules' \in [RuleId -> Row \cup {NoRule}] /\ rules'[t] = cmd.lowered[t]
      /\ \A q \in RuleId \ {t} : rules'[q] = rules[q]
  BY <1>1, <1>2, <1>5 DEF Sorts
<1>10. Sorts'
  BY <1>1, <1>3, <1>8, <1>9 DEF Sorts, Commands
<1>11. Pending'
  <2>1. DOMAIN cmd'.lowered = DOMAIN cmd.lowered \ {t}
        /\ \A q \in DOMAIN cmd.lowered \ {t} : cmd'.lowered[q] = cmd.lowered[q]
    BY ZenonT(30), <1>4, <1>8, RestSet
  <2>2. ASSUME NEW q \in DOMAIN cmd'.lowered
        PROVE  /\ rules'[q] \in Row /\ rules'[q].status \in {"draft", "probation"}
               /\ cmd'.lowered[q] = [rules'[q] EXCEPT !.confidence = cmd'.lowered[q].confidence]
               /\ cmd'.lowered[q].confidence <= rules'[q].confidence
    <3>1. /\ q \in DOMAIN cmd.lowered /\ rules'[q] = rules[q]
          /\ cmd'.lowered[q] = cmd.lowered[q]
      BY <1>5, <1>9, <2>1
    <3> QED BY <1>1, <3>1 DEF Pending
  <2> QED BY <1>3, <1>8, <2>2 DEF Pending
<1>12. Authored'
  BY <1>1, <1>3, <1>5, <1>6, <1>7, <1>9 DEF Authored
<1>13. ASSUME NEW q \in RuleId PROVE Effective(q)'
  <2>1. CASE q = t
    BY <1>3, <1>6, <1>7, <1>9, <2>1 DEF RInv, Effective
  <2>2. CASE q # t
    BY <1>3, <1>9, <2>2 DEF RInv, Effective
  <2> QED BY <2>1, <2>2
<1> QED BY <1>10, <1>11, <1>12, <1>13 DEF RInv

\* The idle command is a command, and not one that learns.
LEMMA IdleFacts == Idle \in Commands /\ Idle \notin Learn
BY DEF Idle, Commands, Learn

\* The batch is recorded once its drafts and lowered rules are stored.
LEMMA SaveBatchStep ==
    ASSUME RInv, SaveBatch
    PROVE  RInv'
<1>1. cmd \in Learn /\ Sorts
  BY Kinds DEF RInv, Sorts, SaveBatch
<1>2. cmd.batch \in Batch
  BY <1>1 DEF Learn
<1>3. Sorts'
  BY <1>1, <1>2, IdleFacts DEF Sorts, SaveBatch
<1>4. Pending'
  BY IdleFacts DEF Pending, SaveBatch
<1>5. Authored' /\ \A r \in RuleId : Effective(r)'
  BY DEF RInv, Authored, Effective, SaveBatch
<1> QED BY <1>3, <1>4, <1>5 DEF RInv

\* A command that stops half way leaves the rows it stored.
LEMMA StopStep ==
    ASSUME RInv, Stop
    PROVE  RInv'
<1>1. Pending'
  BY IdleFacts DEF Pending, Stop
<1> QED BY <1>1, IdleFacts, CommandStep DEF RInv, Sorts, Stop, Untouched, Database

-----------------------------------------------------------------------------
(* Steps of humans *)

\* UpdateRuleStatus while no learning run writes.
LEMMA UpdateRuleStatusStep ==
    ASSUME RInv, NEW r \in RuleId, NEW to \in Status \ {"draft"}, UpdateRuleStatus(r, to),
           cmd' \in Commands \ Learn, commands' \in 0..MaxCommands
    PROVE  RInv'
<1>1. Sorts /\ Authored
  BY DEF RInv
<1>2. rules[r] \in Row
  BY <1>1, RowStatus DEF UpdateRuleStatus, LegalRuleTransition
<1>3. /\ UNCHANGED <<index, plans, batches, signals, scans, author>>
      /\ rules' = [rules EXCEPT ![r].status = to]
      /\ approved' = [approved EXCEPT ![r] = IF to \in {"probation", "approved"} THEN rules[r].role ELSE None]
  BY DEF UpdateRuleStatus, Database
<1>4. /\ rules \in [RuleId -> Row \cup {NoRule}]
      /\ approved \in [RuleId -> BuiltinTerms \cup {None}]
  BY <1>1 DEF Sorts
<1>5. PICK row : row = [rules[r] EXCEPT !.status = to]
  OBVIOUS
<1>6. row \in Row /\ row.status = to /\ row.role = rules[r].role /\ row.batch = rules[r].batch
  BY <1>2, <1>5 DEF Row
<1>7. /\ rules' \in [RuleId -> Row \cup {NoRule}] /\ rules'[r] = row
      /\ \A q \in RuleId \ {r} : rules'[q] = rules[q]
  BY <1>3, <1>4, <1>5, <1>6
<1>8. rules[r].role \in BuiltinTerms
  BY <1>2 DEF Row
<1>9. /\ approved' \in [RuleId -> BuiltinTerms \cup {None}]
      /\ approved'[r] = IF to \in {"probation", "approved"} THEN rules[r].role ELSE None
      /\ \A q \in RuleId \ {r} : approved'[q] = approved[q]
  BY <1>3, <1>4, <1>8
<1>10. Sorts'
  BY <1>1, <1>3, <1>7, <1>9 DEF Sorts
<1>11. Pending'
  BY DEF Pending
<1>12. Authored'
  BY <1>1, <1>2, <1>3, <1>6, <1>7 DEF Authored
<1>13. ASSUME NEW q \in RuleId PROVE Effective(q)'
  <2>1. CASE q = r
    BY <1>6, <1>7, <1>9, <2>1 DEF Effective
  <2>2. CASE q # r
    BY <1>7, <1>9, <2>2 DEF RInv, Effective
  <2> QED BY <2>1, <2>2
<1> QED BY <1>10, <1>11, <1>12, <1>13 DEF RInv

\* A decision on one rule is recorded with the definition it was made on.
LEMMA DecideStep ==
    ASSUME RInv, Decide
    PROVE  RInv'
<1>1. commands' \in 0..MaxCommands
  BY Counted DEF RInv, Decide
<1>2. cmd' \in Commands \ Learn
  BY IdleFacts DEF Decide
<1>3. \E r \in RuleId : UpdateRuleStatus(r, "probation") \/ UpdateRuleStatus(r, "rejected")
  BY DEF Decide
<1> QED BY <1>1, <1>2, <1>3, UpdateRuleStatusStep DEF Status

\* Approving a batch reads its list and decides on nothing yet.
LEMMA ApproveBatchStep ==
    ASSUME RInv, ApproveBatch
    PROVE  RInv'
<1>1. PICK b \in Batch :
          Start([kind |-> "approve", todo |-> {r \in Rows("draft") : rules[r].batch = b}])
  BY DEF ApproveBatch
<1>2. cmd' \in Approval /\ cmd' \notin Learn
  BY <1>1 DEF Start, Approval, Learn, Rows
<1>3. commands' \in 0..MaxCommands
  BY <1>1, Counted DEF RInv, Start
<1>4. Pending'
  BY <1>2 DEF Pending
<1> QED BY <1>2, <1>3, <1>4, CommandStep DEF ApproveBatch, Untouched, Database, Commands

\* The next rule of an approved batch is decided as it now stands.
LEMMA ApproveNextStep ==
    ASSUME RInv, ApproveNext
    PROVE  RInv'
<1>1. cmd \in Approval /\ commands' \in 0..MaxCommands
  BY Kinds DEF RInv, Sorts, ApproveNext
<1>2. PICK r \in cmd.todo : /\ UpdateRuleStatus(r, "probation")
                            /\ cmd' = [cmd EXCEPT !.todo = @ \ {r}]
  BY DEF ApproveNext
<1>3. r \in RuleId
  BY <1>1 DEF Approval
<1>4. cmd' \in Approval
  BY <1>1, <1>2 DEF Approval
<1>5. cmd' \in Commands \ Learn
  BY <1>4 DEF Commands, Approval, Learn
<1> QED BY <1>1, <1>2, <1>3, <1>5, UpdateRuleStatusStep DEF Status

\* Disabling a batch takes its rules out of classification.
LEMMA DisableBatchStep ==
    ASSUME RInv, DisableBatch
    PROVE  RInv'
<1>1. PICK b \in Batch :
          /\ rules' = [r \in RuleId |->
                         IF rules[r] # NoRule /\ rules[r].batch = b
                         THEN [rules[r] EXCEPT !.status = "disabled", !.enabled = FALSE] ELSE rules[r]]
          /\ approved' = [r \in RuleId |-> IF author[r] = b THEN None ELSE approved[r]]
  BY DEF DisableBatch
<1>2. UNCHANGED <<index, plans, batches, signals, scans, cmd, author>> /\ cmd = Idle
  BY DEF DisableBatch, Database
<1>3. commands' \in 0..MaxCommands
  BY Counted DEF RInv, DisableBatch
<1>4. Sorts /\ Authored
  BY DEF RInv
<1>5. ASSUME NEW r \in RuleId
      PROVE  /\ rules'[r] \in Row \cup {NoRule}
             /\ rules'[r] \in Row => rules[r] \in Row /\ rules'[r].batch = rules[r].batch
             /\ rules'[r] = rules[r] /\ rules[r] \in Row => rules[r].batch # b
                                        \/ rules'[r].status = "disabled"
             /\ rules'[r] # rules[r] => rules'[r].status = "disabled"
  <2>1. rules[r] \in Row \cup {NoRule}
    BY <1>4 DEF Sorts
  <2>2. CASE rules[r] # NoRule /\ rules[r].batch = b
    <3>1. rules'[r] = [rules[r] EXCEPT !.status = "disabled", !.enabled = FALSE]
      BY <1>1, <2>2
    <3>2. rules'[r] \in Row /\ rules'[r].status = "disabled" /\ rules'[r].batch = rules[r].batch
      BY <2>1, <2>2, <3>1 DEF Row, Status
    <3> QED BY <2>1, <2>2, <3>2
  <2>3. CASE ~(rules[r] # NoRule /\ rules[r].batch = b)
    <3>1. rules'[r] = rules[r]
      BY <1>1, <2>3
    <3> QED BY <2>1, <2>3, <3>1, NoRow
  <2> QED BY <2>2, <2>3
<1>6. rules' \in [RuleId -> Row \cup {NoRule}]
  <2>1. rules' = [r \in RuleId |-> rules'[r]]
    BY <1>1
  <2> QED BY <1>5, <2>1
<1>7. approved' \in [RuleId -> BuiltinTerms \cup {None}]
  BY <1>1, <1>4 DEF Sorts
<1>8. Sorts'
  BY <1>2, <1>3, <1>4, <1>6, <1>7 DEF Sorts
<1>9. Pending'
  BY <1>2, IdleFacts DEF Pending
<1>10. Authored'
  BY <1>2, <1>4, <1>5 DEF Authored
<1>11. ASSUME NEW q \in RuleId PROVE Effective(q)'
  <2>1. CASE rules'[q] # rules[q]
    BY <1>5, <2>1 DEF Effective
  <2>2. CASE rules'[q] = rules[q]
    BY <1>1, <1>4, <1>5, <2>2 DEF RInv, Effective, Authored
  <2> QED BY <2>1, <2>2
<1> QED BY <1>8, <1>9, <1>10, <1>11 DEF RInv

\* A review session reads its list and decides on nothing yet.
LEMMA ReviewRulesStep ==
    ASSUME RInv, ReviewRules
    PROVE  RInv'
<1>1. cmd' \in Session /\ cmd' \notin Learn
  BY DEF ReviewRules, Start, Session, Learn, Rows
<1>2. commands' \in 0..MaxCommands
  BY Counted DEF RInv, ReviewRules, Start
<1>3. Pending'
  BY <1>1 DEF Pending
<1> QED BY <1>1, <1>2, <1>3, CommandStep DEF ReviewRules, Untouched, Database, Commands

\* An answer in a review session decides on a rule of its list, as the rule now stands.
LEMMA AnswerStep ==
    ASSUME RInv, Answer
    PROVE  RInv'
<1>1. cmd \in Session /\ commands' \in 0..MaxCommands
  BY Kinds DEF RInv, Sorts, Answer
<1>2. PICK list \in {"drafts", "probations"} : \E r \in cmd[list] :
         /\ cmd' = [cmd EXCEPT ![list] = @ \ {r}]
         /\ \/ \E to \in {"probation", "approved", "rejected", "disabled"} : UpdateRuleStatus(r, to)
            \/ UNCHANGED <<Database, rules, author, approved>>
  <2>1. CASE cmd.drafts # {}
    BY <2>1 DEF Answer
  <2>2. CASE cmd.drafts = {}
    BY <2>2 DEF Answer
  <2> QED BY <2>1, <2>2
<1>3. PICK r \in cmd[list] :
         /\ cmd' = [cmd EXCEPT ![list] = @ \ {r}]
         /\ \/ \E to \in {"probation", "approved", "rejected", "disabled"} : UpdateRuleStatus(r, to)
            \/ UNCHANGED <<Database, rules, author, approved>>
  BY <1>2
<1>4. cmd' \in Session /\ r \in RuleId
  BY <1>1, <1>3 DEF Session
<1>5. cmd' \in Commands \ Learn
  BY <1>4 DEF Commands, Session, Learn
<1>6. CASE UNCHANGED <<Database, rules, author, approved>>
  <2>1. Pending'
    BY <1>5 DEF Pending
  <2> QED BY <1>1, <1>5, <1>6, <2>1, CommandStep DEF Untouched, Database
<1> QED BY <1>1, <1>3, <1>4, <1>5, <1>6, UpdateRuleStatusStep DEF Status

-----------------------------------------------------------------------------
(* Theorems *)

\* Merging and rescanning change no row of a rule.
LEMMA OtherStep ==
    ASSUME RInv, MergeLearned \/ Rescan
    PROVE  RInv'
<1>1. /\ UNCHANGED <<plans, batches, rules, cmd, commands, author, approved>>
      /\ index' \in Indexes /\ scans' \in 0..MaxScans
  BY BoundsAssumption DEF RInv, Sorts, MergeLearned, Rescan
<1>2. Sorts'
  BY <1>1 DEF RInv, Sorts
<1> QED BY <1>1, <1>2 DEF RInv, Pending, Authored, Effective

\* The invariant holds initially.
LEMMA Initially == Init => RInv
<1> SUFFICES ASSUME Init PROVE RInv
  OBVIOUS
<1>1. Sorts
  BY BoundsAssumption, IdleFacts DEF Init, Sorts
<1>2. \A r \in RuleId : rules[r] \notin Row
  BY NoRow DEF Init
<1>3. Pending
  BY IdleFacts DEF Init, Pending
<1> QED BY <1>1, <1>2, <1>3 DEF RInv, Authored, Effective

\* Every step keeps the invariant.
LEMMA Inductive == RInv /\ [Next]_vars => RInv'
<1> SUFFICES ASSUME RInv, [Next]_vars PROVE RInv'
  OBVIOUS
<1>1. CASE UNCHANGED vars
  BY <1>1 DEF RInv, Sorts, Pending, Authored, Effective, vars
<1> QED
  BY <1>1, LearnStatsStep, LearnCorpusStep, LearnFeedbackStep, SaveDraftStep, SaveLoweredStep,
     SaveBatchStep, StopStep, DecideStep, ApproveBatchStep, ApproveNextStep, DisableBatchStep,
     ReviewRulesStep, AnswerStep, OtherStep DEF Next

\* The invariant holds in every reachable state.
LEMMA Invariance == Spec => []RInv
BY Initially, Inductive, PTL DEF Spec

\* Rows of rules are complete, learned authority stays within its cap and a
\* batch within the commands that ran, whatever learning finds.
THEOREM TypeCorrect == Spec => []TypeOK
<1>1. RInv => TypeOK
  <2> SUFFICES ASSUME RInv PROVE TypeOK
    OBVIOUS
  <2>1. Sorts
    BY DEF RInv
  <2>2. cmd.kind \in {"none", "learn", "approve", "review"}
    BY <2>1, Kinds DEF Sorts, Commands
  <2>3. ASSUME NEW r \in RuleId, rules[r] # NoRule
        PROVE  /\ rules[r].status \in Status /\ rules[r].enabled \in BOOLEAN
               /\ rules[r].batch \in Batch /\ rules[r].confidence \in 0..10
               /\ rules[r].role \in BuiltinTerms
               /\ rules[r].authority \in 0..MaxLearnedPriority
               /\ rules[r].delta \in -3..3
    BY <2>1, <2>3, RowStatus DEF Row
  <2> QED BY <2>1, <2>2, <2>3 DEF Sorts, TypeOK
<1> QED BY <1>1, Invariance, PTL

\* What takes part in classification has the definition a human said yes to
\* (rule.go:43), however commands stop between their rows.
THEOREM EffectiveIsApproved == Spec => []EffectiveWasApproved
<1>1. RInv => EffectiveWasApproved
  BY RowStatus DEF RInv, Effective, EffectiveWasApproved
<1> QED BY <1>1, Invariance, PTL

\* Learning never overwrites a human decision (rule.go:24).
THEOREM LearningLeavesDecisions == Spec => HumanDecisionStands
<1> DEFINE Stands(r) ==
       \/ rules'[r] = rules[r]
       \/ rules[r].status \in {"none", "draft"}
       \/ /\ rules[r].status = "probation"
          /\ rules' = [rules EXCEPT ![r].confidence = rules'[r].confidence]
          /\ rules'[r].confidence <= rules[r].confidence
<1>1. ASSUME RInv, Next, cmd.kind = "learn", NEW r \in RuleId
      PROVE  Stands(r)
  <2>1. cmd \in Learn /\ Sorts /\ Pending /\ cmd # Idle
    BY <1>1, Kinds DEF RInv, Sorts
  <2>2. DOMAIN cmd.drafts \subseteq RuleId /\ DOMAIN cmd.lowered \subseteq RuleId
    BY <2>1, DraftSetMember DEF Learn
  <2>3. rules \in [RuleId -> Row \cup {NoRule}]
    BY <2>1 DEF Sorts
  <2>4. CASE SaveDraft
    <3>1. PICK q \in DOMAIN cmd.drafts : rules' = [rules EXCEPT ![q] = cmd.drafts[q]]
      BY <2>4 DEF SaveDraft
    <3>2. rules[q].status \in {"none", "draft"}
      BY <2>1 DEF Pending
    <3> QED BY <2>2, <2>3, <3>1, <3>2
  <2>5. CASE SaveLowered
    <3>1. PICK t \in DOMAIN cmd.lowered : rules' = [rules EXCEPT ![t] = cmd.lowered[t]]
      BY <2>5 DEF SaveLowered
    <3>2. /\ rules[t].status \in {"draft", "probation"}
          /\ cmd.lowered[t] = [rules[t] EXCEPT !.confidence = cmd.lowered[t].confidence]
          /\ cmd.lowered[t].confidence <= rules[t].confidence
      BY <2>1 DEF Pending
    <3>3. rules'[t] = cmd.lowered[t] /\ \A q \in RuleId \ {t} : rules'[q] = rules[q]
      BY <2>2, <2>3, <3>1
    <3>4. rules' = [rules EXCEPT ![t].confidence = rules'[t].confidence]
      BY <3>1, <3>2, <3>3
    <3> QED BY <3>2, <3>3, <3>4
  <2>6. CASE SaveBatch \/ Stop
    BY <2>6 DEF SaveBatch, Stop
  <2> QED
    BY <1>1, <2>1, <2>4, <2>5, <2>6 DEF Next, LearnStats, LearnCorpus, LearnFeedback, Learning, Start,
       Decide, ApproveBatch, ApproveNext, DisableBatch, ReviewRules, Answer, MergeLearned, Rescan
<1>2. RInv /\ [Next]_vars =>
         [cmd.kind = "learn" =>
            \A r \in RuleId :
               \/ rules'[r] = rules[r]
               \/ rules[r].status \in {"none", "draft"}
               \/ /\ rules[r].status = "probation"
                  /\ rules' = [rules EXCEPT ![r].confidence = rules'[r].confidence]
                  /\ rules'[r].confidence <= rules[r].confidence]_vars
  BY <1>1
<1> QED BY <1>2, Invariance, PTL DEF Spec, HumanDecisionStands

-----------------------------------------------------------------------------
(* Orders, and elements in their order *)

\* R orders S strictly and totally.
Orders(R, S) ==
    /\ \A x \in S : <<x, x>> \notin R
    /\ \A x, y, z \in S : <<x, y>> \in R /\ <<y, z>> \in R => <<x, z>> \in R
    /\ \A x, y \in S : x = y \/ <<x, y>> \in R \/ <<y, x>> \in R

\* How many elements come before x.
Position(x, R, S) == Cardinality({y \in S : <<y, x>> \in R})

\* Positions are numbers below the size of the set, in the order of the elements.
LEMMA PositionsIncrease ==
    ASSUME NEW S, IsFiniteSet(S), NEW R, Orders(R, S)
    PROVE  /\ Cardinality(S) \in Nat
           /\ \A x \in S : Position(x, R, S) \in 0..Cardinality(S) - 1
           /\ \A x, y \in S : <<x, y>> \in R => Position(x, R, S) < Position(y, R, S)
<1> DEFINE L(x) == {y \in S : <<y, x>> \in R}
<1>1. Cardinality(S) \in Nat
  BY FS_CardinalityType
<1>2. ASSUME NEW x \in S
      PROVE  /\ IsFiniteSet(L(x)) /\ Cardinality(L(x)) \in Nat
             /\ Cardinality(L(x)) <= Cardinality(S) - 1
  <2>1. L(x) \in SUBSET (S \ {x})
    BY DEF Orders
  <2>2. IsFiniteSet(S \ {x}) /\ Cardinality(S \ {x}) = Cardinality(S) - 1
    BY FS_RemoveElement
  <2> HIDE DEF L
  <2>3. IsFiniteSet(L(x)) /\ Cardinality(L(x)) <= Cardinality(S \ {x})
    BY <2>1, <2>2, FS_Subset
  <2> QED BY <2>2, <2>3, FS_CardinalityType
<1>3. ASSUME NEW x \in S, NEW y \in S, <<x, y>> \in R
      PROVE  Cardinality(L(x)) < Cardinality(L(y))
  <2>1. L(x) \in SUBSET (L(y) \ {x}) /\ x \in L(y)
    BY <1>3 DEF Orders
  <2> HIDE DEF L
  <2>2. IsFiniteSet(L(y) \ {x}) /\ Cardinality(L(y) \ {x}) = Cardinality(L(y)) - 1
    BY <1>2, <2>1, FS_RemoveElement
  <2>3. Cardinality(L(x)) <= Cardinality(L(y) \ {x})
    BY <2>1, <2>2, FS_Subset
  <2> QED BY <1>2, <2>2, <2>3
<1>4. \A x \in S : Position(x, R, S) = Cardinality(L(x))
  BY DEF Position
<1>5. ASSUME NEW x \in S PROVE Position(x, R, S) \in 0..Cardinality(S) - 1
  <2>1. Cardinality(L(x)) \in Nat /\ Cardinality(L(x)) <= Cardinality(S) - 1
    BY <1>2
  <2>2. Position(x, R, S) = Cardinality(L(x))
    BY <1>4
  <2> HIDE DEF L
  <2> QED BY <1>1, <2>1, <2>2
<1> QED BY <1>1, <1>3, <1>4, <1>5

\* Each place is taken by one element.
LEMMA PositionsAreTaken ==
    ASSUME NEW S, IsFiniteSet(S), NEW R, Orders(R, S)
    PROVE  /\ \A x, y \in S : Position(x, R, S) = Position(y, R, S) => x = y
           /\ \A n \in 0..Cardinality(S) - 1 : \E x \in S : Position(x, R, S) = n
<1> DEFINE f == [x \in S |-> Position(x, R, S)]
           N == 0..Cardinality(S) - 1
<1>1. /\ Cardinality(S) \in Nat /\ \A x \in S : Position(x, R, S) \in N
      /\ \A x, y \in S : <<x, y>> \in R => Position(x, R, S) < Position(y, R, S)
  BY PositionsIncrease
<1>2. ASSUME NEW x \in S, NEW y \in S, Position(x, R, S) = Position(y, R, S) PROVE x = y
  <2>1. ~(Position(x, R, S) < Position(y, R, S)) /\ ~(Position(y, R, S) < Position(x, R, S))
    BY <1>1, <1>2
  <2> QED BY <1>1, <2>1 DEF Orders
<1>3. f \in Injection(S, N)
  <2>1. f \in [S -> N] /\ \A x \in S : f[x] = Position(x, R, S)
    BY <1>1
  <2> HIDE DEF f
  <2>2. \A x, y \in S : f[x] = f[y] => x = y
    BY <1>2, <2>1
  <2> QED BY <2>1, <2>2 DEF Injection, IsInjective
<1>4. IsFiniteSet(N) /\ Cardinality(N) = Cardinality(S)
  BY <1>1, FS_Interval
<1> HIDE DEF N, f
<1>5. f \in Surjection(S, N)
  BY <1>3, <1>4, FS_Injection
<1> QED BY <1>2, <1>5 DEF Surjection, N, f

\* A finite set that is ordered has a first element.
LEMMA FirstExists ==
    ASSUME NEW S, IsFiniteSet(S), S # {}, NEW R, Orders(R, S)
    PROVE  \E x \in S : \A y \in S : <<y, x>> \notin R
<1>1. Cardinality(S) \in Nat \ {0}
  BY FS_CardinalityType, FS_EmptySet
<1>2. PICK x \in S : Position(x, R, S) = 0
  BY <1>1, PositionsAreTaken
<1>3. ASSUME NEW y \in S, <<y, x>> \in R
      PROVE  FALSE
  BY <1>2, <1>3, PositionsIncrease
<1> QED BY <1>3

\* A finite set of integers has a smallest element and a largest one.
LEMMA Extremes ==
    ASSUME NEW S, IsFiniteSet(S), S # {}, S \subseteq Int
    PROVE  /\ Min(S) \in S /\ \A y \in S : Min(S) <= y
           /\ Max(S) \in S /\ \A y \in S : Max(S) >= y
<1> DEFINE Less == {p \in S \X S : p[1] < p[2]}
           More == {p \in S \X S : p[1] > p[2]}
<1>1. Orders(Less, S) /\ Orders(More, S)
  BY DEF Orders
<1>2. /\ \E x \in S : \A y \in S : <<y, x>> \notin Less
      /\ \E x \in S : \A y \in S : <<y, x>> \notin More
  <2> HIDE DEF Less, More
  <2> QED BY <1>1, FirstExists
<1>3. \E x \in S : \A y \in S : x <= y
  <2>1. PICK x \in S : \A y \in S : <<y, x>> \notin Less
    BY <1>2
  <2>2. ASSUME NEW y \in S PROVE x <= y
    <3>1. ~(y < x)
      BY <2>1
    <3> QED BY <3>1
  <2> QED BY <2>2
<1>4. \E x \in S : \A y \in S : x >= y
  <2>1. PICK x \in S : \A y \in S : <<y, x>> \notin More
    BY <1>2
  <2>2. ASSUME NEW y \in S PROVE x >= y
    <3>1. ~(y > x)
      BY <2>1
    <3> QED BY <3>1
  <2> QED BY <2>2
<1> QED BY <1>3, <1>4 DEF Min, Max

\* Elements by increasing rank are all of them, each once.
LEMMA InOrderLists ==
    ASSUME NEW S, IsFiniteSet(S), NEW rank, \A x \in S : rank[x] \in Int,
           \A x, y \in S : rank[x] = rank[y] => x = y
    PROVE  /\ Cardinality(S) \in Nat
           /\ InOrder(S, rank) \in [1..Cardinality(S) -> S]
           /\ \A m, n \in 1..Cardinality(S) : InOrder(S, rank)[m] = InOrder(S, rank)[n] => m = n
           /\ \A x \in S : \E n \in 1..Cardinality(S) : InOrder(S, rank)[n] = x
<1> DEFINE R == {p \in S \X S : rank[p[1]] < rank[p[2]]}
           P(x) == Cardinality({y \in S : rank[y] < rank[x]})
           N == 1..Cardinality(S)
           f == InOrder(S, rank)
<1>1. Orders(R, S)
  BY DEF Orders
<1>2. \A x \in S : P(x) = Position(x, R, S)
  <2>1. ASSUME NEW x \in S PROVE {y \in S : rank[y] < rank[x]} = {y \in S : <<y, x>> \in R}
    OBVIOUS
  <2> QED BY <2>1 DEF Position
<1> HIDE DEF R
<1>3. /\ Cardinality(S) \in Nat /\ \A x \in S : P(x) \in 0..Cardinality(S) - 1
      /\ \A x, y \in S : P(x) = P(y) => x = y
      /\ \A n \in 0..Cardinality(S) - 1 : \E x \in S : P(x) = n
  BY <1>1, <1>2, PositionsIncrease, PositionsAreTaken
<1>4. f = [n \in N |-> CHOOSE x \in S : P(x) = n - 1]
  BY DEF InOrder
<1> HIDE DEF P, f
<1>5. ASSUME NEW n \in N PROVE f[n] \in S /\ P(f[n]) = n - 1
  <2>1. n - 1 \in 0..Cardinality(S) - 1
    BY <1>3
  <2>2. \E x \in S : P(x) = n - 1
    BY <1>3, <2>1
  <2>3. f[n] = CHOOSE x \in S : P(x) = n - 1
    BY <1>4
  <2> QED BY <2>2, <2>3
<1>6. ASSUME NEW x \in S PROVE \E n \in N : f[n] = x
  <2>1. PICK k \in 0..Cardinality(S) - 1 : k = P(x)
    BY <1>3
  <2>2. k + 1 \in N /\ (k + 1) - 1 = k
    BY <1>3
  <2>3. f[k + 1] \in S /\ P(f[k + 1]) = k
    BY <1>5, <2>2
  <2> QED BY <1>3, <2>1, <2>2, <2>3
<1>7. \A m, n \in N : f[m] = f[n] => m = n
  <2>1. ASSUME NEW m \in N, NEW n \in N, f[m] = f[n] PROVE m = n
    <3>1. P(f[m]) = m - 1 /\ P(f[n]) = n - 1
      BY <1>5
    <3> QED BY <2>1, <3>1
  <2> QED BY <2>1
<1>8. f \in [N -> S]
  BY <1>4, <1>5
<1> QED BY <1>3, <1>6, <1>7, <1>8 DEF f

-----------------------------------------------------------------------------
(* The sort of signals *)

\* A set of numbers up to a bound that holds 0, and each number after one it
\* holds, holds them all.
LEMMA Ascending ==
    ASSUME NEW n \in Nat, NEW A, 0 \in A, \A i \in 1..n : i - 1 \in A => i \in A
    PROVE  \A i \in 0..n : i \in A
<1> DEFINE C == (0..n) \ A
<1>1. SUFFICES ASSUME C # {} PROVE FALSE
  OBVIOUS
<1>2. IsFiniteSet(0..n)
  BY FS_Interval
<1>3. IsFiniteSet(C) /\ C \subseteq Int
  BY <1>2, FS_Subset
<1> DEFINE m == Min(C)
<1>4. m \in C /\ \A i \in C : m <= i
  <2> HIDE DEF C
  <2> QED BY <1>1, <1>3, Extremes
<1> HIDE DEF m
<1>5. m \in 1..n /\ m - 1 \in 0..n
  BY <1>4
<1>6. m - 1 \in A
  BY <1>4, <1>5
<1> QED BY <1>4, <1>5, <1>6

\* f holds the rounds of the sort of s up to the n-th.
Rounds(f, s, n) == f = [i \in 0..n |-> IF i = 0 THEN s ELSE Selected(f[i - 1], i)]

\* The rounds of a sort are well defined.
LEMMA RoundsExist ==
    ASSUME NEW s, NEW n \in Nat
    PROVE  \E f : Rounds(f, s, n)
<1> DEFINE A == {i \in 0..n : \E f : Rounds(f, s, i)}
<1>1. 0 \in A
  <2> DEFINE f == [i \in 0..0 |-> s]
  <2>1. Rounds(f, s, 0)
    BY DEF Rounds
  <2> QED BY <2>1
<1>2. ASSUME NEW i \in 1..n, i - 1 \in A PROVE i \in A
  <2>1. PICK g : Rounds(g, s, i - 1)
    BY <1>2
  <2> DEFINE f == [j \in 0..i |-> IF j = i THEN Selected(g[i - 1], i) ELSE g[j]]
  <2>2. \A j \in 0..i - 1 : f[j] = g[j] /\ g[j] = IF j = 0 THEN s ELSE Selected(g[j - 1], j)
    BY <2>1 DEF Rounds
  <2>3. f[i] = Selected(f[i - 1], i) /\ i # 0
    BY <2>2
  <2>4. ASSUME NEW j \in 0..i
        PROVE  f[j] = IF j = 0 THEN s ELSE Selected(f[j - 1], j)
    <3>1. CASE j = i
      BY <2>3, <3>1
    <3>2. CASE j # i
      <4>1. j \in 0..i - 1 /\ (j # 0 => j - 1 \in 0..i - 1)
        BY <3>2
      <4> QED BY <2>2, <4>1
    <3> QED BY <3>1, <3>2
  <2>5. f = [j \in 0..i |-> f[j]]
    OBVIOUS
  <2> HIDE DEF f
  <2>6. Rounds(f, s, i)
    BY <2>4, <2>5 DEF Rounds
  <2> QED BY <2>6
<1>3. n \in 0..n
  OBVIOUS
<1> HIDE DEF A
<1>4. n \in A
  BY <1>1, <1>2, <1>3, Ascending
<1> QED BY <1>4 DEF A

\* A sort ends with its last round.
LEMMA SortIsLastRound ==
    ASSUME NEW s, Len(s) \in Nat
    PROVE  \E f : Rounds(f, s, Len(s)) /\ SelectionSort(s) = f[Len(s)]
<1> DEFINE g == CHOOSE f : Rounds(f, s, Len(s))
<1>1. Rounds(g, s, Len(s))
  BY RoundsExist
<1>2. SelectionSort(s) = g[Len(s)]
  BY DEF SelectionSort, Rounds
<1> QED BY <1>1, <1>2

\* What a function takes on a finite set is finite.
LEMMA FiniteImage ==
    ASSUME NEW S, IsFiniteSet(S), NEW f
    PROVE  /\ IsFiniteSet({f[x] : x \in S})
           /\ Cardinality({f[x] : x \in S}) \in Nat
<1> DEFINE T == {f[x] : x \in S}
           g == [x \in S |-> f[x]]
<1>1. g \in Surjection(S, T)
  <2>1. g \in [S -> T] /\ \A t \in T : \E x \in S : g[x] = t
    OBVIOUS
  <2> HIDE DEF g, T
  <2> QED BY <2>1 DEF Surjection
<1> HIDE DEF g, T
<1>2. IsFiniteSet(T)
  BY <1>1, FS_Surjection
<1>3. Cardinality(T) \in Nat
  BY <1>2, FS_CardinalityType
<1> QED BY <1>2, <1>3 DEF T

\* The same elements, in some order.
SameElements(r, s, n) ==
    /\ \A i \in 1..n : \E j \in 1..n : r[i] = s[j]
    /\ \A i \in 1..n : \E j \in 1..n : s[i] = r[j]

\* The i strongest signals are in front, the strongest first.
Falling(r, i, n) == \A j \in 1..i : \A k \in j..n : r[j].authority >= r[k].authority

\* A round takes the strongest of the signals from i on to the place i.
LEMMA RoundSorts ==
    ASSUME NEW T, \A t \in T : t.authority \in Int, NEW n \in Nat, NEW i \in 1..n,
           NEW s \in [1..n -> T], Falling(s, i - 1, n)
    PROVE  /\ Selected(s, i) \in [1..n -> T]
           /\ SameElements(Selected(s, i), s, n)
           /\ Falling(Selected(s, i), i, n)
<1> DEFINE Strengths == {s[j].authority : j \in i..Len(s)}
           top == Max(Strengths)
           Tops == {j \in i..Len(s) : s[j].authority = top}
           m == Min(Tops)
           r == [s EXCEPT ![i] = s[m], ![m] = s[i]]
<1>1. Len(s) = n /\ i..n \subseteq 1..n
  OBVIOUS
<1>2. IsFiniteSet(i..n) /\ i \in i..n
  BY FS_Interval
<1>3. top \in Strengths /\ \A a \in Strengths : top >= a
  <2>1. IsFiniteSet(Strengths)
    <3> DEFINE g == [j \in i..Len(s) |-> s[j].authority]
    <3>1. Strengths = {g[j] : j \in i..Len(s)}
      OBVIOUS
    <3> HIDE DEF g
    <3>2. IsFiniteSet({g[j] : j \in i..Len(s)})
      BY <1>1, <1>2, FiniteImage
    <3> QED BY <3>1, <3>2
  <2>2. Strengths # {} /\ Strengths \subseteq Int
    BY <1>1, <1>2
  <2> HIDE DEF Strengths
  <2> QED BY <2>1, <2>2, Extremes
<1>4. m \in Tops
  <2>1. Tops # {}
    <3>1. PICK j \in i..Len(s) : s[j].authority = top
      BY <1>3
    <3> QED BY <3>1
  <2>2. Tops \subseteq i..n /\ Tops \subseteq Int
    BY <1>1
  <2> HIDE DEF Tops
  <2>3. IsFiniteSet(Tops)
    BY <1>2, <2>2, FS_Subset
  <2> QED BY <2>1, <2>2, <2>3, Extremes
<1>5. m \in i..n /\ \A k \in i..n : s[m].authority >= s[k].authority
  <2>1. m \in i..n /\ s[m].authority = top
    BY <1>1, <1>4
  <2> HIDE DEF top, m
  <2> QED BY <1>1, <1>3, <2>1
<1>6. Selected(s, i) = r
  BY DEF Selected
<1> HIDE DEF top, m
<1>7. /\ r \in [1..n -> T] /\ r[i] = s[m] /\ r[m] = s[i]
      /\ \A j \in 1..n \ {i, m} : r[j] = s[j]
  BY <1>5
<1> HIDE DEF r
<1>8. SameElements(r, s, n)
  <2>1. i \in 1..n /\ m \in 1..n
    BY <1>5
  <2>2. ASSUME NEW j \in 1..n PROVE (\E k \in 1..n : r[j] = s[k]) /\ (\E k \in 1..n : s[j] = r[k])
    BY <1>7, <2>1
  <2> QED BY <2>2 DEF SameElements
<1>9. Falling(r, i, n)
  <2>1. \A j \in 1..n : s[j].authority \in Int /\ r[j].authority \in Int
    BY <1>7
  <2>2. ASSUME NEW j \in 1..i, NEW k \in j..n PROVE r[j].authority >= r[k].authority
    <3>1. CASE j = i
      <4>1. r[k] = s[k] \/ r[k] = s[m] \/ r[k] = s[i]
        BY <1>7, <3>1
      <4>2. k \in i..n /\ i \in i..n
        BY <3>1
      <4> QED BY <1>5, <1>7, <3>1, <4>1, <4>2
    <3>2. CASE j # i
      <4>1. j \in 1..i - 1 /\ j \in 1..n \ {i, m} /\ k \in 1..n /\ i \in j..n /\ m \in j..n
        BY <1>5, <3>2
      <4>2. r[j] = s[j] /\ (r[k] = s[k] \/ r[k] = s[m] \/ r[k] = s[i])
        BY <1>7, <4>1
      <4>3. \A l \in j..n : s[j].authority >= s[l].authority
        BY <4>1 DEF Falling
      <4> QED BY <4>1, <4>2, <4>3
    <3> QED BY <3>1, <3>2
  <2> QED BY <2>2 DEF Falling
<1> QED BY <1>6, <1>7, <1>8, <1>9

\* Elements stay the same over two rounds.
LEMMA SameElementsTwice ==
    ASSUME NEW r, NEW g, NEW s, NEW n, SameElements(r, g, n), SameElements(g, s, n)
    PROVE  SameElements(r, s, n)
<1>1. ASSUME NEW i \in 1..n PROVE \E j \in 1..n : r[i] = s[j]
  BY DEF SameElements
<1>2. ASSUME NEW i \in 1..n PROVE \E j \in 1..n : s[i] = r[j]
  BY DEF SameElements
<1> QED BY <1>1, <1>2 DEF SameElements

\* The sort keeps the signals and leaves them by falling authority.
LEMMA SelectionSorts ==
    ASSUME NEW T, \A t \in T : t.authority \in Int, NEW s \in Seq(T)
    PROVE  /\ SelectionSort(s) \in [1..Len(s) -> T]
           /\ SameElements(SelectionSort(s), s, Len(s))
           /\ Falling(SelectionSort(s), Len(s), Len(s))
<1> DEFINE n == Len(s)
<1>1. n \in Nat /\ s \in [1..n -> T]
  OBVIOUS
<1>2. PICK f : Rounds(f, s, n) /\ SelectionSort(s) = f[n]
  BY <1>1, SortIsLastRound
<1> HIDE DEF n
<1> DEFINE Good(i) == f[i] \in [1..n -> T] /\ SameElements(f[i], s, n) /\ Falling(f[i], i, n)
           A == {i \in 0..n : Good(i)}
<1>3. f[0] = s /\ \A i \in 1..n : f[i] = Selected(f[i - 1], i)
  <2>1. \A i \in 0..n : f[i] = IF i = 0 THEN s ELSE Selected(f[i - 1], i)
    BY <1>2 DEF Rounds
  <2> QED BY <1>1, <2>1
<1>4. 0 \in A
  <2>1. SameElements(s, s, n) /\ Falling(s, 0, n)
    BY DEF SameElements, Falling
  <2> QED BY <1>1, <1>3, <2>1
<1>5. ASSUME NEW i \in 1..n, i - 1 \in A PROVE i \in A
  <2>1. f[i - 1] \in [1..n -> T] /\ SameElements(f[i - 1], s, n) /\ Falling(f[i - 1], i - 1, n)
    BY <1>5
  <2>2. f[i] = Selected(f[i - 1], i)
    BY <1>3
  <2> DEFINE g == f[i - 1]
  <2> HIDE DEF g
  <2>3. g \in [1..n -> T] /\ SameElements(g, s, n) /\ Falling(g, i - 1, n) /\ f[i] = Selected(g, i)
    BY <2>1, <2>2 DEF g
  <2>4. /\ Selected(g, i) \in [1..n -> T] /\ SameElements(Selected(g, i), g, n)
        /\ Falling(Selected(g, i), i, n)
    <3>1. \A t \in T : t.authority \in Int
      OBVIOUS
    <3>2. g \in [1..n -> T] /\ Falling(g, i - 1, n) /\ n \in Nat
      BY <1>1, <2>3
    <3> QED BY <3>1, <3>2, RoundSorts
  <2>5. SameElements(Selected(g, i), s, n)
    BY <2>3, <2>4, SameElementsTwice
  <2> QED BY <2>3, <2>4, <2>5
<1> HIDE DEF A
<1>6. \A i \in 0..n : i \in A
  BY <1>1, <1>4, <1>5, Ascending
<1>7. Good(n)
  BY <1>1, <1>6 DEF A
<1> QED BY <1>2, <1>7 DEF n

-----------------------------------------------------------------------------
(* What signals make of a path *)

\* A function on places is a sequence.
LEMMA PlacesAreSequence ==
    ASSUME NEW T, NEW n \in Nat, NEW s \in [1..n -> T]
    PROVE  s \in Seq(T) /\ Len(s) = n
OBVIOUS

\* A sequence after another.
LEMMA Concatenation ==
    ASSUME NEW T, NEW u \in Seq(T), NEW v \in Seq(T)
    PROVE  /\ u \o v \in Seq(T) /\ Len(u \o v) = Len(u) + Len(v)
           /\ \A i \in 1..Len(u) : (u \o v)[i] = u[i]
           /\ \A i \in Len(u) + 1..Len(u) + Len(v) : (u \o v)[i] = v[i - Len(u)]
OBVIOUS

BuiltinSignalSet == {RoleSignals[k] : k \in 1..8}
LearnedSignals ==
    [role : BuiltinTerms, authority : {n \in Int : n <= MaxLearnedPriority}, term : RuleId]
AnySignal == BuiltinSignalSet \cup LearnedSignals

\* The builtin signals: above the learned ones only roles of value.
LEMMA BuiltinSignalFacts ==
    /\ RoleSignals \in Seq(BuiltinSignalSet) /\ Len(RoleSignals) = 8
    /\ \A s \in BuiltinSignalSet :
          /\ s.authority \in Int
          /\ s.authority > MaxLearnedPriority <=>
                s.role \in {"system_application", "backup", "raw_source", "formal_archive", "project_work"}
    /\ \A s \in AnySignal : s.authority \in Int
<1>1. /\ Len(RoleSignals) = 8 /\ DOMAIN RoleSignals = 1..8
      /\ RoleSignals = [k \in 1..8 |-> RoleSignals[k]]
  BY DEF RoleSignals
<1>2. RoleSignals \in Seq(BuiltinSignalSet)
  <2>1. \A k \in 1..8 : RoleSignals[k] \in BuiltinSignalSet
    BY DEF BuiltinSignalSet
  <2>2. RoleSignals \in [1..8 -> BuiltinSignalSet]
    BY <1>1, <2>1
  <2> QED BY <2>2, PlacesAreSequence
<1>3. ASSUME NEW k \in 1..8
      PROVE  /\ RoleSignals[k].authority \in Int
             /\ RoleSignals[k].authority > MaxLearnedPriority <=>
                   RoleSignals[k].role \in
                      {"system_application", "backup", "raw_source", "formal_archive", "project_work"}
  <2>1. \/ RoleSignals[k] = Signal("system_application", 100)
        \/ RoleSignals[k] = Signal("backup", 95)
        \/ RoleSignals[k] = Signal("cache_derived", 10)
        \/ RoleSignals[k] = Signal("temporary", 20)
        \/ RoleSignals[k] = Signal("raw_source", 90)
        \/ RoleSignals[k] = Signal("formal_archive", 90)
        \/ RoleSignals[k] = Signal("project_work", 65)
        \/ RoleSignals[k] = Signal("unorganized", 45)
    BY DEF RoleSignals
  <2> QED BY <2>1 DEF Signal, MaxLearnedPriority
<1>4. \A s \in LearnedSignals : s.authority \in Int
  BY DEF LearnedSignals
<1> QED BY <1>1, <1>2, <1>3, <1>4 DEF BuiltinSignalSet, AnySignal

\* The signals of a classifier: the builtin ones among those learned, the
\* strongest first.
Ranked(a, n, learned) ==
    /\ n \in Nat /\ a \in [1..n -> AnySignal] /\ Falling(a, n, n)
    /\ \A i \in 1..n : a[i] \in BuiltinSignalSet \/ (\E j \in 1..Len(learned) : a[i] = learned[j])
    /\ \A s \in BuiltinSignalSet : \E i \in 1..n : a[i] = s

\* What the classifier starts from.
LEMMA ActiveRanked ==
    ASSUME NEW learned \in Seq(LearnedSignals)
    PROVE  \E n : Ranked(ActiveSignals(learned), n, learned)
<1> DEFINE s == RoleSignals \o learned
           n == Len(s)
           a == SelectionSort(s)
<1>1. /\ RoleSignals \in Seq(AnySignal) /\ learned \in Seq(AnySignal)
      /\ Len(RoleSignals) = 8 /\ Len(learned) \in Nat
  BY BuiltinSignalFacts DEF AnySignal
<1>2. s \in Seq(AnySignal) /\ n = 8 + Len(learned) /\ n \in Nat
  <2>1. s \in Seq(AnySignal) /\ n = Len(RoleSignals) + Len(learned)
    BY <1>1, Concatenation
  <2> HIDE DEF n, s
  <2> QED BY <1>1, <2>1
<1>3. /\ \A i \in 1..8 : s[i] = RoleSignals[i]
      /\ \A i \in 9..n : i - 8 \in 1..Len(learned) /\ s[i] = learned[i - 8]
  <2>1. /\ \A i \in 1..Len(RoleSignals) : s[i] = RoleSignals[i]
        /\ \A i \in Len(RoleSignals) + 1..Len(RoleSignals) + Len(learned) :
              s[i] = learned[i - Len(RoleSignals)]
    BY <1>1, Concatenation
  <2> HIDE DEF n, s
  <2> QED BY <1>1, <1>2, <2>1
<1>4. ActiveSignals(learned) = a
  BY DEF ActiveSignals
<1> HIDE DEF s
<1>5. a \in [1..n -> AnySignal] /\ SameElements(a, s, n) /\ Falling(a, n, n)
  BY <1>2, BuiltinSignalFacts, SelectionSorts
<1> HIDE DEF a, n
<1>6. ASSUME NEW i \in 1..n
      PROVE  a[i] \in BuiltinSignalSet \/ (\E j \in 1..Len(learned) : a[i] = learned[j])
  <2>1. PICK k \in 1..n : a[i] = s[k]
    BY <1>5 DEF SameElements
  <2>2. CASE k \in 1..8
    BY <1>3, <2>1, <2>2 DEF BuiltinSignalSet
  <2>3. CASE k \in 9..n
    BY <1>3, <2>1, <2>3
  <2> QED BY <1>2, <2>2, <2>3
<1>7. ASSUME NEW t \in BuiltinSignalSet PROVE \E i \in 1..n : a[i] = t
  <2>1. PICK k \in 1..8 : t = RoleSignals[k]
    BY DEF BuiltinSignalSet
  <2>2. k \in 1..n /\ s[k] = t
    BY <1>1, <1>2, <1>3, <2>1
  <2> QED BY <1>5, <2>2 DEF SameElements
<1>8. Ranked(a, n, learned)
  BY <1>2, <1>5, <1>6, <1>7 DEF Ranked
<1> QED BY <1>4, <1>8

\* A directory has the role of the strongest signal that it matches.
LEMMA ClassifyCases ==
    ASSUME NEW p, NEW a, NEW n, NEW learned, Ranked(a, n, learned), ~Matches(p, SensitiveTerm)
    PROVE  \/ /\ Classify(p, a) = Context("unknown", 50, FALSE)
              /\ \A i \in 1..n : ~Matches(p, a[i].term)
           \/ \E i \in 1..n :
                 /\ Matches(p, a[i].term)
                 /\ \A j \in 1..n : Matches(p, a[j].term) => a[i].authority >= a[j].authority
                 /\ Classify(p, a) = Context(a[i].role, a[i].authority,
                                             a[i].role \in {"system_application", "backup", "raw_source"})
<1> DEFINE hits == {i \in DOMAIN a : Matches(p, a[i].term)}
           i == Min(hits)
<1>1. n \in Nat /\ DOMAIN a = 1..n /\ Falling(a, n, n)
  BY DEF Ranked
<1>2. CASE hits = {}
  BY <1>1, <1>2 DEF Classify
<1>3. CASE hits # {}
  <2>1. IsFiniteSet(hits) /\ hits \subseteq Int
    <3>1. IsFiniteSet(1..n) /\ hits \in SUBSET (1..n)
      BY <1>1, FS_Interval
    <3>2. hits \subseteq Int
      BY <1>1
    <3> HIDE DEF hits
    <3> QED BY <3>1, <3>2, FS_Subset
  <2>2. i \in hits /\ \A j \in hits : i <= j
    <3> HIDE DEF hits
    <3> QED BY <1>3, <2>1, Extremes
  <2>3. Classify(p, a) = Context(a[i].role, a[i].authority,
                                 a[i].role \in {"system_application", "backup", "raw_source"})
    BY <1>3 DEF Classify
  <2> HIDE DEF i
  <2>4. i \in 1..n /\ Matches(p, a[i].term)
    BY <1>1, <2>2
  <2>5. ASSUME NEW j \in 1..n, Matches(p, a[j].term) PROVE a[i].authority >= a[j].authority
    <3>1. j \in i..n /\ i \in 1..n
      BY <1>1, <2>2, <2>4, <2>5
    <3> QED BY <1>1, <3>1 DEF Falling
  <2> QED BY <2>3, <2>4, <2>5
<1> QED BY <1>2, <1>3

\* The authority of a directory is a number.
LEMMA ClassifyAuthority ==
    ASSUME NEW p, NEW a, NEW n, NEW learned, Ranked(a, n, learned)
    PROVE  Classify(p, a).authority \in Int
<1>1. CASE Matches(p, SensitiveTerm)
  BY <1>1 DEF Classify, Context
<1>2. CASE ~Matches(p, SensitiveTerm)
  <2>1. \A i \in 1..n : a[i].authority \in Int
    BY BuiltinSignalFacts DEF Ranked
  <2> QED BY <1>2, <2>1, ClassifyCases DEF Context
<1> QED BY <1>1, <1>2

\* A directory that learning calls disposable has no value by the builtin
\* rules alone (K-008).
LEMMA DisposableByBuiltins ==
    ASSUME NEW learned \in Seq(LearnedSignals), NEW p,
           Classify(p, ActiveSignals(learned)).role \in {"temporary", "cache_derived"}
    PROVE  /\ ~Classify(p, BuiltinSignals).protected
           /\ Classify(p, BuiltinSignals).authority <= MaxLearnedPriority
<1> DEFINE Valued == {"system_application", "backup", "raw_source", "formal_archive", "project_work"}
<1>1. ~Matches(p, SensitiveTerm)
  BY DEF Classify, Context
<1>2. PICK a, n : a = ActiveSignals(learned) /\ Ranked(a, n, learned)
  BY ActiveRanked
<1>3. PICK b, m : b = BuiltinSignals /\ Ranked(b, m, << >>)
  <2>1. << >> \in Seq(LearnedSignals)
    OBVIOUS
  <2>2. PICK m : Ranked(ActiveSignals(<< >>), m, << >>)
    BY <2>1, ActiveRanked
  <2> QED BY <2>2 DEF BuiltinSignals
<1>4. PICK i \in 1..n : /\ a[i].role \in {"temporary", "cache_derived"}
                        /\ \A j \in 1..n : Matches(p, a[j].term) => a[i].authority >= a[j].authority
  BY <1>1, <1>2, ClassifyCases DEF Context
<1>5. a[i].authority <= MaxLearnedPriority /\ a[i].authority \in Int
  <2>1. CASE a[i] \in BuiltinSignalSet
    <3>1. a[i].authority \in Int /\ ~(a[i].authority > MaxLearnedPriority)
      BY <1>4, <2>1, BuiltinSignalFacts
    <3> QED BY <3>1 DEF MaxLearnedPriority
  <2>2. CASE \E j \in 1..Len(learned) : a[i] = learned[j]
    <3>1. a[i] \in LearnedSignals
      BY <2>2
    <3> QED BY <3>1 DEF LearnedSignals
  <2> QED BY <1>2, <2>1, <2>2 DEF Ranked
<1>6. CASE Classify(p, b) = Context("unknown", 50, FALSE)
  BY <1>3, <1>6 DEF Context, MaxLearnedPriority
<1>7. ASSUME NEW k \in 1..m, Matches(p, b[k].term),
             Classify(p, b) = Context(b[k].role, b[k].authority,
                                      b[k].role \in {"system_application", "backup", "raw_source"})
      PROVE  ~Classify(p, b).protected /\ Classify(p, b).authority <= MaxLearnedPriority
  <2>1. b[k] \in BuiltinSignalSet
    BY <1>3 DEF Ranked
  <2>2. PICK j \in 1..n : a[j] = b[k]
    BY <1>2, <2>1 DEF Ranked
  <2>3. a[i].authority >= b[k].authority
    BY <1>4, <1>7, <2>2
  <2>4. b[k].authority <= MaxLearnedPriority
    BY <1>5, <2>1, <2>3, BuiltinSignalFacts DEF MaxLearnedPriority
  <2>5. b[k].role \notin Valued
    BY <2>1, <2>4, BuiltinSignalFacts DEF MaxLearnedPriority
  <2>6. (b[k].role \in {"system_application", "backup", "raw_source"}) = FALSE
    BY <2>5
  <2>7. Classify(p, b) = Context(b[k].role, b[k].authority, FALSE)
    BY <1>7, <2>6
  <2> QED BY <2>4, <2>7 DEF Context
<1> QED BY <1>1, <1>3, <1>6, <1>7, ClassifyCases

-----------------------------------------------------------------------------
(* Duplicate groups and the copy that is kept *)

\* Picked elements are those at the places, each once.
LEMMA PickedElements ==
    ASSUME NEW s, NEW places, IsFiniteSet(places), places \subseteq Int
    PROVE  LET n == Cardinality(places)
           IN  /\ n \in Nat /\ DOMAIN Picked(s, places) = 1..n
               /\ Picked(s, places) = [i \in 1..n |-> Picked(s, places)[i]]
               /\ \E order \in [1..n -> places] :
                     /\ \A i \in 1..n : Picked(s, places)[i] = s[order[i]]
                     /\ \A i, j \in 1..n : order[i] = order[j] => i = j
<1> DEFINE n == Cardinality(places)
           rank == [i \in places |-> i]
           order == InOrder(places, rank)
<1>1. (\A i \in places : rank[i] \in Int) /\ (\A i, j \in places : rank[i] = rank[j] => i = j)
  OBVIOUS
<1>2. Picked(s, places) = [i \in DOMAIN order |-> s[order[i]]]
  BY DEF Picked
<1> HIDE DEF rank
<1>3. /\ n \in Nat /\ order \in [1..n -> places]
      /\ \A i, j \in 1..n : order[i] = order[j] => i = j
  BY <1>1, InOrderLists
<1> HIDE DEF order, n
<1>4. /\ DOMAIN Picked(s, places) = 1..n
      /\ \A i \in 1..n : Picked(s, places)[i] = s[order[i]]
      /\ Picked(s, places) = [i \in 1..n |-> Picked(s, places)[i]]
  BY <1>2, <1>3
<1> QED BY <1>3, <1>4 DEF n

\* Rows of the index, each path once.
Listed(files, n) ==
    /\ n \in Nat /\ DOMAIN files = 1..n
    /\ \A i \in 1..n : files[i].path \in Path /\ files[i].age \in Int
    /\ \A i, j \in 1..n : files[i].path = files[j].path => i = j

\* The rows of an index have their paths once.
LEMMA FilesAreListed ==
    ASSUME index \in Indexes
    PROVE  \E n : Listed(ListFiles, n)
<1> DEFINE S == DOMAIN index
           n == Cardinality(S)
           order == InOrder(S, PathRank)
<1>1. IsFiniteSet(S) /\ S \subseteq Path /\ \A p \in S : index[p].age \in Int
  BY IndexesAssumption
<1>2. (\A p \in S : PathRank[p] \in Int) /\ (\A p, q \in S : PathRank[p] = PathRank[q] => p = q)
  BY <1>1, PathAssumption
<1>3. ListFiles = [i \in DOMAIN order |-> [path |-> order[i], sha |-> index[order[i]].sha,
                                          object |-> index[order[i]].object, age |-> index[order[i]].age]]
  BY DEF ListFiles
<1>4. /\ n \in Nat /\ order \in [1..n -> S]
      /\ \A i, j \in 1..n : order[i] = order[j] => i = j
  BY <1>1, <1>2, InOrderLists
<1> HIDE DEF order, n
<1>5. /\ DOMAIN ListFiles = 1..n
      /\ \A i \in 1..n : ListFiles[i].path = order[i] /\ ListFiles[i].age = index[order[i]].age
  BY <1>3, <1>4
<1>6. Listed(ListFiles, n)
  BY <1>1, <1>4, <1>5 DEF Listed
<1> QED BY <1>6

\* A group has rows of the list, each path once, and one row at least.
LEMMA GroupsAreListed ==
    ASSUME NEW files, NEW n, Listed(files, n), NEW g \in DuplicateGroups(files)
    PROVE  \E k : k # 0 /\ Listed(g, k)
<1> DEFINE places(l) == {i \in DOMAIN files : GroupID(files[i]) = l}
<1>1. PICK j \in DOMAIN files : g = Picked(files, places(GroupID(files[j])))
  BY DEF DuplicateGroups
<1> DEFINE S == places(GroupID(files[j]))
           k == Cardinality(S)
<1>2. S \subseteq 1..n /\ S \subseteq Int /\ S # {}
  BY DEF Listed
<1>3. IsFiniteSet(1..n)
  <2>1. n \in Nat
    BY DEF Listed
  <2> QED BY <2>1, FS_Interval
<1>4. g = Picked(files, S)
  BY <1>1
<1> HIDE DEF S
<1>5. IsFiniteSet(S) /\ k # 0
  BY <1>2, <1>3, FS_Subset, FS_EmptySet
<1>6. k \in Nat /\ DOMAIN g = 1..k
  BY <1>2, <1>4, <1>5, PickedElements
<1>7. PICK order \in [1..k -> S] :
         /\ \A i \in 1..k : g[i] = files[order[i]]
         /\ \A i, l \in 1..k : order[i] = order[l] => i = l
  BY <1>2, <1>4, <1>5, PickedElements
<1> HIDE DEF k
<1>8. \A i \in 1..k : order[i] \in 1..n
  BY <1>2, <1>7
<1>9. Listed(g, k)
  BY <1>6, <1>7, <1>8 DEF Listed
<1> QED BY <1>5, <1>9

\* The planner keeps one of the copies.
LEMMA RetainedIsListed ==
    ASSUME NEW files, NEW k, Listed(files, k), k # 0,
           NEW active, NEW n, NEW learned, Ranked(active, n, learned)
    PROVE  \E i \in 1..k : ChooseRetain(files, active) = files[i]
<1> DEFINE score == [i \in DOMAIN files |-> Score(files[i], Classify(files[i].path, active))]
           Better(i, j) == \/ score[i] > score[j]
                           \/ score[i] = score[j] /\ files[i].age > files[j].age
                           \/ /\ score[i] = score[j] /\ files[i].age = files[j].age
                              /\ PathRank[files[i].path] < PathRank[files[j].path]
           Best == {i \in DOMAIN files : \A j \in DOMAIN files : ~Better(j, i)}
           R == {p \in (1..k) \X (1..k) : Better(p[1], p[2])}
<1>1. k \in Nat /\ DOMAIN files = 1..k
  BY DEF Listed
<1>2. ASSUME NEW i \in 1..k
      PROVE  score[i] \in Int /\ files[i].age \in Int /\ PathRank[files[i].path] \in Int
  <2>1. Classify(files[i].path, active).authority \in Int
    BY ClassifyAuthority
  <2>2. files[i].path \in Path /\ files[i].age \in Int
    BY DEF Listed
  <2>3. PathRank[files[i].path] \in Int /\ Depth[files[i].path] \in Int
    BY <2>2, PathAssumption
  <2>4. Score(files[i], Classify(files[i].path, active)) \in Int
    BY <2>1, <2>2, <2>3 DEF Score, Lower
  <2> QED BY <1>1, <2>2, <2>3, <2>4
<1>3. \A i, j \in 1..k : PathRank[files[i].path] = PathRank[files[j].path] => i = j
  BY PathAssumption DEF Listed
<1> HIDE DEF score
<1>4. \A i, j \in 1..k : <<i, j>> \in R <=> Better(i, j)
  OBVIOUS
<1>5. Orders(R, 1..k)
  <2>1. \A i \in 1..k : ~Better(i, i)
    BY <1>2
  <2>2. \A i, j, l \in 1..k : Better(i, j) /\ Better(j, l) => Better(i, l)
    BY <1>2
  <2>3. \A i, j \in 1..k : i = j \/ Better(i, j) \/ Better(j, i)
    BY <1>2, <1>3
  <2> HIDE DEF Better, R
  <2> QED BY <1>4, <2>1, <2>2, <2>3 DEF Orders
<1>6. Min(Best) \in Best
  <2>1. IsFiniteSet(1..k) /\ 1 \in 1..k
    BY <1>1, FS_Interval
  <2>2. PICK i \in 1..k : \A j \in 1..k : <<j, i>> \notin R
    BY <1>5, <2>1, FirstExists
  <2>3. Best # {} /\ Best \subseteq 1..k /\ Best \subseteq Int
    <3> HIDE DEF R
    <3>1. \A j \in 1..k : ~Better(j, i)
      BY <1>4, <2>2
    <3> HIDE DEF Better
    <3>2. i \in Best
      BY <1>1, <3>1
    <3>3. Best \subseteq 1..k
      BY <1>1
    <3> HIDE DEF Best
    <3> QED BY <1>1, <3>2, <3>3
  <2> HIDE DEF Best
  <2>4. IsFiniteSet(Best)
    BY <2>1, <2>3, FS_Subset
  <2> QED BY <2>3, <2>4, Extremes
<1>7. ChooseRetain(files, active) = files[Min(Best)]
  BY DEF ChooseRetain, score
<1> HIDE DEF Best
<1>8. Min(Best) \in 1..k
  BY <1>1, <1>6 DEF Best
<1> QED BY <1>7, <1>8

\* A group is set aside only when all its copies are disposable, and then one
\* of them is kept.
LEMMA SetAsideGroup ==
    ASSUME NEW learned \in Seq(LearnedSignals), NEW files, NEW k, Listed(files, k), k # 0,
           NEW plan, plan = BuildGroup(files, ActiveSignals(learned)), SetsAside(plan)
    PROVE  /\ plan.files = files /\ files[1].sha # "short"
           /\ ~AnchorsDiverge(files) /\ ~AnyDependencyProtected(files)
           /\ \A i \in 1..k : Classify(files[i].path, ActiveSignals(learned)).role
                                 \in {"temporary", "cache_derived"}
           /\ DOMAIN plan.actions = 1..k
           /\ \E r \in 1..k : \A i \in 1..k : plan.actions[i] = IF i = r THEN "KEEP" ELSE "QUARANTINE"
<1> DEFINE active == ActiveSignals(learned)
           contexts == {Classify(files[i].path, active) : i \in DOMAIN files}
           roles == {c.role : c \in contexts}
           retain == ChooseRetain(files, active).path
<1>1. k \in Nat /\ DOMAIN files = 1..k
  BY DEF Listed
<1>2. \A risk, p : ~SetsAside(Plan(files, risk, p, Review(files)))
  BY DEF SetsAside, Plan, Review
<1>3. /\ plan = Plan(files, "medium", retain, SetAside(files, retain))
      /\ files[1].sha # "short" /\ ~AnchorsDiverge(files) /\ ~AnyDependencyProtected(files)
      /\ roles \subseteq {"temporary", "cache_derived"}
  BY <1>2 DEF BuildGroup
<1>4. \A i \in 1..k : Classify(files[i].path, active).role \in {"temporary", "cache_derived"}
  BY <1>1, <1>3
<1>5. PICK n : Ranked(active, n, learned)
  BY ActiveRanked
<1> HIDE DEF active, contexts, roles
<1>6. PICK r \in 1..k : ChooseRetain(files, active) = files[r]
  BY <1>5, RetainedIsListed
<1>7. \A i \in 1..k : files[i].path = retain <=> i = r
  BY <1>6 DEF Listed
<1>8. plan.files = files /\ plan.actions = SetAside(files, retain)
  BY <1>3 DEF Plan
<1> HIDE DEF retain
<1>9. /\ DOMAIN plan.actions = 1..k
      /\ \A i \in 1..k : plan.actions[i] = IF i = r THEN "KEEP" ELSE "QUARANTINE"
  BY <1>1, <1>7, <1>8 DEF SetAside
<1> QED BY <1>3, <1>4, <1>8, <1>9 DEF active

\* The reader of a plan may rely on it.
LEMMA GroupIsJustified ==
    ASSUME NEW learned \in Seq(LearnedSignals), NEW files, NEW k, Listed(files, k), k # 0,
           NEW plan, plan = BuildGroup(files, ActiveSignals(learned))
    PROVE  PlanJustified(plan)
<1> SUFFICES ASSUME SetsAside(plan)
             PROVE  /\ Cardinality({i \in DOMAIN plan.actions : plan.actions[i] = "KEEP"}) = 1
                    /\ plan.files[1].sha # "short"
                    /\ ~AnchorsDiverge(plan.files)
                    /\ ~AnyDependencyProtected(plan.files)
                    /\ \A i \in DOMAIN plan.files :
                          LET c == Classify(plan.files[i].path, BuiltinSignals) IN
                          /\ ~c.protected
                          /\ c.authority <= MaxLearnedPriority
  BY DEF PlanJustified
<1>1. /\ plan.files = files /\ files[1].sha # "short"
      /\ ~AnchorsDiverge(files) /\ ~AnyDependencyProtected(files)
      /\ \A i \in 1..k : Classify(files[i].path, ActiveSignals(learned)).role
                            \in {"temporary", "cache_derived"}
      /\ DOMAIN plan.actions = 1..k
      /\ \E r \in 1..k : \A i \in 1..k : plan.actions[i] = IF i = r THEN "KEEP" ELSE "QUARANTINE"
  BY SetAsideGroup
<1>2. PICK r \in 1..k : \A i \in 1..k : plan.actions[i] = IF i = r THEN "KEEP" ELSE "QUARANTINE"
  BY <1>1
<1>3. {i \in DOMAIN plan.actions : plan.actions[i] = "KEEP"} = {r}
  BY <1>1, <1>2
<1>4. Cardinality({i \in DOMAIN plan.actions : plan.actions[i] = "KEEP"}) = 1
  BY <1>3, FS_Singleton
<1>5. \A i \in DOMAIN plan.files :
          /\ ~Classify(plan.files[i].path, BuiltinSignals).protected
          /\ Classify(plan.files[i].path, BuiltinSignals).authority <= MaxLearnedPriority
  BY <1>1, DisposableByBuiltins DEF Listed
<1> QED BY <1>1, <1>4, <1>5

\* What is set aside frees what the group reports.
LEMMA GroupFrees ==
    ASSUME NEW learned \in Seq(LearnedSignals), NEW files, NEW k, Listed(files, k), k # 0,
           NEW plan, plan = BuildGroup(files, ActiveSignals(learned)), SetsAside(plan),
           \A i \in DOMAIN plan.files : plan.files[i].object # Unreliable
    PROVE  Freed(plan) = ReclaimableCopies(plan.files)
<1> DEFINE Objects == {files[i].object : i \in 1..k}
           keys(action) == {plan.files[i].object : i \in {j \in DOMAIN plan.files : plan.actions[j] = action}}
           known == {i \in DOMAIN files : files[i].object # Unreliable}
<1>1. k \in Nat /\ DOMAIN files = 1..k /\ plan.files = files
  <2>1. plan.files = files
    BY SetAsideGroup
  <2> QED BY <2>1 DEF Listed
<1>2. PICK r \in 1..k : \A i \in 1..k : plan.actions[i] = IF i = r THEN "KEEP" ELSE "QUARANTINE"
  BY SetAsideGroup
<1>3. /\ IsFiniteSet(Objects) /\ Cardinality(Objects) \in Nat
      /\ files[r].object \in Objects
  <2> DEFINE f == [i \in 1..k |-> files[i].object]
  <2>1. Objects = {f[i] : i \in 1..k} /\ files[r].object \in Objects
    OBVIOUS
  <2>2. IsFiniteSet(1..k)
    BY <1>1, FS_Interval
  <2> HIDE DEF f, Objects
  <2> QED BY <2>1, <2>2, FiniteImage
<1>4. keys("QUARANTINE") \ keys("KEEP") = Objects \ {files[r].object}
  <2>1. keys("KEEP") = {files[r].object}
    BY <1>1, <1>2
  <2>2. /\ \A o \in keys("QUARANTINE") : o \in Objects
        /\ \A o \in Objects : o = files[r].object \/ o \in keys("QUARANTINE")
    BY <1>1, <1>2
  <2> HIDE DEF keys, Objects
  <2> QED BY <2>1, <2>2
<1>5. Cardinality(Objects \ {files[r].object}) = Cardinality(Objects) - 1
  <2> HIDE DEF Objects
  <2> QED BY <1>3, FS_RemoveElement
<1>6. Freed(plan) = Cardinality(Objects) - 1
  BY <1>4, <1>5 DEF Freed
<1>7. PhysicalCopies(files) = Cardinality(Objects)
  <2>1. known = 1..k /\ DOMAIN files \ known = {}
    BY <1>1
  <2>2. {files[i].object : i \in known} = Objects
    BY <2>1
  <2>3. PhysicalCopies(files) =
           Cardinality({files[i].object : i \in known}) + Cardinality(DOMAIN files \ known)
    BY DEF PhysicalCopies
  <2>4. Cardinality(DOMAIN files \ known) = 0
    BY <2>1, FS_EmptySet
  <2>5. Cardinality({files[i].object : i \in known}) = Cardinality(Objects)
    BY <2>2
  <2> DEFINE c == Cardinality({files[i].object : i \in known})
             d == Cardinality(DOMAIN files \ known)
             e == Cardinality(Objects)
  <2>6. PhysicalCopies(files) = c + d /\ c = e /\ d = 0 /\ e \in Nat
    BY <1>3, <2>3, <2>4, <2>5
  <2> HIDE DEF c, d, e
  <2> QED BY <2>6 DEF e
<1> QED BY <1>1, <1>6, <1>7 DEF ReclaimableCopies

-----------------------------------------------------------------------------
(* Plans from what was learned *)

\* The plans from an index and learned signals are sound, whatever was learned.
LEMMA BuiltPlansAreSound ==
    ASSUME index \in Indexes, signals \in Seq(LearnedSignals),
           NEW plan \in BuildPlans(ListFiles, signals)
    PROVE  /\ PlanJustified(plan)
           /\ SetsAside(plan) /\ (\A i \in DOMAIN plan.files : plan.files[i].object # Unreliable)
                => Freed(plan) = ReclaimableCopies(plan.files)
<1>1. PICK n : Listed(ListFiles, n)
  BY FilesAreListed
<1>2. PICK g \in DuplicateGroups(ListFiles) : plan = BuildGroup(g, ActiveSignals(signals))
  BY DEF BuildPlans
<1>3. PICK k : k # 0 /\ Listed(g, k)
  BY <1>1, GroupsAreListed
<1>4. PlanJustified(plan)
  BY <1>2, <1>3, GroupIsJustified
<1>5. ASSUME SetsAside(plan), \A i \in DOMAIN plan.files : plan.files[i].object # Unreliable
      PROVE  Freed(plan) = ReclaimableCopies(plan.files)
  BY <1>2, <1>3, <1>5, GroupFrees
<1> QED BY <1>4, <1>5

\* The rules there are: drafts are saved one by one.
FiniteRows == IsFiniteSet({r \in RuleId : rules[r] # NoRule})

\* Rows have a role and an authority.
RowsTyped ==
    \A r \in RuleId : rules[r] # NoRule => rules[r].role \in BuiltinTerms /\ rules[r].authority \in Int

\* Rules are listed by priority and name, each once.
LEMMA RulesAreListed ==
    ASSUME FiniteRows, RowsTyped
    PROVE  \E n \in Nat :
              /\ DOMAIN ListRules = 1..n
              /\ \A i \in 1..n :
                    /\ ListRules[i].role \in BuiltinTerms /\ ListRules[i].authority \in Int
                    /\ ListRules[i].term \in RuleId
<1> DEFINE ids == {r \in RuleId : rules[r] # NoRule}
           before(q, r) == \/ Priority(q) > Priority(r)
                           \/ Priority(q) = Priority(r) /\ TermRank[q] < TermRank[r]
           R == {p \in ids \X ids : before(p[1], p[2])}
           rank == [r \in ids |-> Cardinality({q \in ids : before(q, r)})]
           order == InOrder(ids, rank)
           n == Cardinality(ids)
<1>1. IsFiniteSet(ids)
  BY DEF FiniteRows
<1>2. ASSUME NEW r \in ids PROVE Priority(r) \in Int /\ TermRank[r] \in Int
  BY RankAssumption DEF RowsTyped, Priority, RuleId, Component
<1>3. \A q, r \in ids : TermRank[q] = TermRank[r] => q = r
  BY RankAssumption DEF RuleId, Component
<1>4. \A q, r \in ids : <<q, r>> \in R <=> before(q, r)
  OBVIOUS
<1>5. Orders(R, ids)
  <2>1. \A r \in ids : ~before(r, r)
    BY <1>2
  <2>2. \A p, q, r \in ids : before(p, q) /\ before(q, r) => before(p, r)
    BY <1>2
  <2>3. \A q, r \in ids : q = r \/ before(q, r) \/ before(r, q)
    BY <1>2, <1>3
  <2> HIDE DEF before, R, ids
  <2> QED BY <1>4, <2>1, <2>2, <2>3 DEF Orders
<1>6. \A r \in ids : rank[r] = Position(r, R, ids)
  <2>1. ASSUME NEW r \in ids PROVE {q \in ids : before(q, r)} = {q \in ids : <<q, r>> \in R}
    BY <1>4
  <2> QED BY <2>1 DEF Position
<1>7. ListRules = [i \in DOMAIN order |->
                     [status |-> rules[order[i]].status, enabled |-> rules[order[i]].enabled,
                      role |-> rules[order[i]].role, authority |-> rules[order[i]].authority,
                      term |-> order[i]]]
  BY DEF ListRules
<1> HIDE DEF R, rank
<1>8. (\A r \in ids : rank[r] \in Int) /\ (\A q, r \in ids : rank[q] = rank[r] => q = r)
  <2> HIDE DEF ids
  <2>1. Cardinality(ids) \in Nat /\ \A r \in ids : Position(r, R, ids) \in 0..Cardinality(ids) - 1
    BY <1>1, <1>5, PositionsIncrease
  <2>2. \A q, r \in ids : Position(q, R, ids) = Position(r, R, ids) => q = r
    BY <1>1, <1>5, PositionsAreTaken
  <2> QED BY <1>6, <2>1, <2>2
<1>9. n \in Nat /\ order \in [1..n -> ids]
  <2> HIDE DEF ids
  <2> QED BY <1>1, <1>8, InOrderLists
<1> HIDE DEF order, n
<1>10. \A i \in 1..n : order[i] \in RuleId /\ rules[order[i]] # NoRule
  BY <1>9
<1>11. /\ DOMAIN ListRules = 1..n
       /\ \A i \in 1..n : /\ ListRules[i].role = rules[order[i]].role
                          /\ ListRules[i].authority = rules[order[i]].authority
                          /\ ListRules[i].term = order[i]
  BY <1>7, <1>9
<1> QED BY <1>9, <1>10, <1>11 DEF RowsTyped

\* What the classifier takes from the rules never rises above directory roles.
LEMMA MergedSignals ==
    ASSUME FiniteRows, RowsTyped
    PROVE  Learned(ListRules) \in Seq(LearnedSignals)
<1> DEFINE rows == ListRules
           places == {i \in DOMAIN rows : rows[i].enabled /\ rows[i].status \in {"approved", "probation"}}
           live == Picked(rows, places)
           clamped == [i \in DOMAIN live |-> Clamp(DirectorySignal(live[i]))]
           m == Cardinality(places)
<1>1. PICK n \in Nat :
         /\ DOMAIN rows = 1..n
         /\ \A i \in 1..n : /\ rows[i].role \in BuiltinTerms /\ rows[i].authority \in Int
                            /\ rows[i].term \in RuleId
  BY RulesAreListed
<1>2. Learned(rows) = SelectionSort(clamped)
  BY DEF Learned
<1> HIDE DEF rows
<1>3. IsFiniteSet(places) /\ places \subseteq Int /\ places \subseteq 1..n
  <2>1. places \subseteq 1..n /\ IsFiniteSet(1..n)
    BY <1>1, FS_Interval
  <2> HIDE DEF places
  <2>2. IsFiniteSet(places)
    BY <2>1, FS_Subset
  <2> QED BY <2>1, <2>2
<1> HIDE DEF places
<1>4. m \in Nat /\ DOMAIN live = 1..m
  BY <1>3, PickedElements
<1>5. live = Picked(rows, places)
  OBVIOUS
<1> HIDE DEF live
<1>6. PICK order \in [1..m -> places] :
         /\ \A i \in 1..m : live[i] = rows[order[i]]
         /\ \A i, j \in 1..m : order[i] = order[j] => i = j
  BY <1>3, <1>5, PickedElements
<1> HIDE DEF m
<1>7. ASSUME NEW i \in 1..m PROVE Clamp(DirectorySignal(live[i])) \in LearnedSignals
  <2> DEFINE row == rows[order[i]]
  <2>1. row.role \in BuiltinTerms /\ row.authority \in Int /\ row.term \in RuleId
    <3>1. order[i] \in 1..n
      BY <1>3, <1>6
    <3> QED BY <1>1, <3>1
  <2>2. live[i] = row
    BY <1>6
  <2> HIDE DEF row
  <2> QED BY <2>1, <2>2 DEF Clamp, DirectorySignal, LearnedSignals, MaxLearnedPriority
<1>8. clamped \in Seq(LearnedSignals) /\ Len(clamped) = m
  <2>1. clamped \in [1..m -> LearnedSignals]
    BY <1>4, <1>7
  <2> HIDE DEF clamped
  <2> QED BY <1>4, <2>1, PlacesAreSequence
<1> HIDE DEF clamped
<1>9. SelectionSort(clamped) \in [1..m -> LearnedSignals]
  <2>1. \A s \in LearnedSignals : s.authority \in Int
    BY DEF LearnedSignals
  <2> QED BY <1>8, <2>1, SelectionSorts
<1>10. SelectionSort(clamped) \in Seq(LearnedSignals)
  BY <1>4, <1>9, PlacesAreSequence
<1> QED BY <1>2, <1>10 DEF rows

\* Finitely many rows, and signals no stronger than directory roles.
Merged == FiniteRows /\ signals \in Seq(LearnedSignals)

\* A step that adds one row at most leaves finitely many.
LEMMA OneRowAdded ==
    ASSUME FiniteRows, NEW r, \A q \in RuleId \ {r} : rules[q] = NoRule => rules'[q] = NoRule
    PROVE  FiniteRows'
<1> DEFINE old == {q \in RuleId : rules[q] # NoRule}
           new == {q \in RuleId : rules'[q] # NoRule}
<1>1. IsFiniteSet(old) /\ new \subseteq old \cup {r}
  BY DEF FiniteRows
<1> HIDE DEF old, new
<1>2. IsFiniteSet(old \cup {r})
  BY <1>1, FS_AddElement
<1>3. IsFiniteSet(new)
  BY <1>1, <1>2, FS_Subset
<1> QED BY <1>3 DEF new, FiniteRows

\* The decision about one rule.
LEMMA OneRowDecided ==
    ASSUME Sorts, FiniteRows, NEW r \in RuleId, NEW to, UpdateRuleStatus(r, to)
    PROVE  FiniteRows' /\ UNCHANGED signals
<1>1. \A q \in RuleId \ {r} : rules'[q] = rules[q]
  BY DEF Sorts, UpdateRuleStatus
<1>2. UNCHANGED signals
  BY DEF UpdateRuleStatus, Database
<1> QED BY <1>1, <1>2, OneRowAdded

\* Only a merge changes the signals.
LEMMA MergedStep ==
    ASSUME RInv, Merged, [Next]_vars
    PROVE  Merged'
<1>1. Sorts /\ Pending /\ FiniteRows /\ signals \in Seq(LearnedSignals)
  BY DEF RInv, Merged
<1>2. rules \in [RuleId -> Row \cup {NoRule}]
  BY <1>1 DEF Sorts
<1>3. CASE UNCHANGED <<rules, signals>>
  BY <1>1, <1>3 DEF Merged, FiniteRows
<1>4. CASE SaveDraft \/ SaveLowered
  <2>1. PICK r : \A q \in RuleId \ {r} : rules'[q] = rules[q]
    BY <1>2, <1>4 DEF SaveDraft, SaveLowered
  <2>2. UNCHANGED signals
    BY <1>4 DEF SaveDraft, SaveLowered, Database
  <2>3. FiniteRows'
    <3>1. \A q \in RuleId \ {r} : rules[q] = NoRule => rules'[q] = NoRule
      BY <2>1
    <3> QED BY <1>1, <3>1, OneRowAdded
  <2> QED BY <1>1, <2>2, <2>3 DEF Merged
<1>5. CASE DisableBatch
  <2>1. UNCHANGED signals
    BY <1>5 DEF DisableBatch, Database
  <2>2. \A q \in RuleId : rules[q] = NoRule => rules'[q] = NoRule
    BY Zenon, <1>5 DEF DisableBatch
  <2>3. FiniteRows'
    BY <1>1, <2>2, OneRowAdded
  <2> QED BY <1>1, <2>1, <2>3 DEF Merged
<1>6. CASE Decide
  <2>1. PICK r \in RuleId : UpdateRuleStatus(r, "probation") \/ UpdateRuleStatus(r, "rejected")
    BY <1>6 DEF Decide
  <2> QED BY <1>1, <2>1, OneRowDecided DEF Merged
<1>7. CASE ApproveNext
  <2>1. cmd \in Approval
    BY <1>1, <1>7, Kinds DEF Sorts, ApproveNext
  <2>2. PICK r \in RuleId : UpdateRuleStatus(r, "probation")
    BY <1>7, <2>1 DEF ApproveNext, Approval
  <2> QED BY <1>1, <2>2, OneRowDecided DEF Merged
<1>8. CASE Answer
  <2>1. cmd \in Session
    BY <1>1, <1>8, Kinds DEF Sorts, Answer
  <2>2. \/ \E r \in RuleId : \E to : UpdateRuleStatus(r, to)
        \/ UNCHANGED <<Database, rules>>
    BY <1>8, <2>1 DEF Answer, Session
  <2>3. CASE UNCHANGED <<Database, rules>>
    BY <1>3, <2>3 DEF Database
  <2> QED BY <1>1, <2>2, <2>3, OneRowDecided DEF Merged
<1>9. CASE MergeLearned
  <2>1. RowsTyped
    BY <1>2, NoRow DEF RowsTyped, Row
  <2>2. signals' \in Seq(LearnedSignals) /\ UNCHANGED rules
    BY <1>1, <1>9, <2>1, MergedSignals DEF MergeLearned
  <2> QED BY <1>1, <2>2 DEF Merged, FiniteRows
<1>10. CASE LearnStats \/ LearnCorpus \/ LearnFeedback
  BY <1>3, <1>10 DEF LearnStats, LearnCorpus, LearnFeedback, Learning, Database
<1>11. CASE SaveBatch \/ Stop \/ ApproveBatch \/ ReviewRules \/ Rescan \/ UNCHANGED vars
  BY <1>3, <1>11 DEF SaveBatch, Stop, ApproveBatch, ReviewRules, Rescan, vars, Database
<1> QED BY <1>4, <1>5, <1>6, <1>7, <1>8, <1>9, <1>10, <1>11 DEF Next

\* Whatever was learned and approved, however commands stop between their
\* rows, a plan sets aside only copies that no builtin rule protects, keeps
\* one of them, and frees what its duplicate group reports (planner.go:54,
\* duplicates.go:85, K-008).
THEOREM SetAsidesAreSound == Spec => []PlansAreSound
<1>1. Init => Merged
  <2>1. Init => {r \in RuleId : rules[r] # NoRule} = {} /\ signals = << >>
    BY DEF Init
  <2> QED BY <2>1, FS_EmptySet DEF Merged, FiniteRows
<1>2. RInv /\ Merged /\ [Next]_vars => Merged'
  BY MergedStep
<1>3. RInv /\ Merged => PlansAreSound
  BY BuiltPlansAreSound DEF RInv, Sorts, Merged, PlansAreSound
<1> QED BY <1>1, <1>2, <1>3, Invariance, PTL DEF Spec
=============================================================================
