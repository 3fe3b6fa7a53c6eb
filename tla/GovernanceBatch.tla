--------------------------- MODULE GovernanceBatch ---------------------------
(***************************************************************************)
(* Batch review decisions (internal/store/governance_batch.go, governed by *)
(* internal/app/governance.go): a preview of the groups that a decision    *)
(* would touch, its token with ten minutes to live, the commit under an    *)
(* idempotency key, item by item, and the single decisions that are saved  *)
(* beside it. The rows are durable; calls are lost in a crash.             *)
(*                                                                         *)
(* A decision stands for its type and reason, a subject for the version    *)
(* hash of the group's indexed members, contexts, rules and plans.         *)
(***************************************************************************)
EXTENDS Naturals, FiniteSets

CONSTANTS
  Groups,     \* groups of duplicates
  Requests,   \* the sets of groups that clients ask for together
  Decisions,  \* decisions with their reasons
  Batched,    \* those a batch can record: not the choice of a primary copy
  Tokens,     \* preview tokens, drawn at random and never twice
  Keys,       \* idempotency keys of the clients
  Callers,    \* calls into the service
  Versions,   \* versions of a subject
  Changing,   \* bound: the groups that change by other means than batches
  Gone,       \* a group with fewer than two members
  Undecided,
  Nobody,
  MaxLive,    \* bound on the previews that have not expired (1000)
  MaxSaves    \* bound on the revisions that single decisions reach

ASSUME ConstantsAssumption ==
  /\ Batched \subseteq Decisions /\ Requests \subseteq (SUBSET Groups) \ {{}}
  /\ Undecided \notin Decisions /\ Nobody \notin Callers \cup Keys /\ Gone \notin Versions
  /\ MaxLive \in Nat /\ MaxSaves \in Nat

VARIABLES
  subject,   \* version of a group's subject
  unsafe,    \* a recovery is pending or a job is active
  decision,  \* group_decisions
  preview,   \* governance_previews
  batch,     \* governance_batches
  outcome,   \* governance_outcomes
  audit,     \* rows of governance_decision_audit that record a decision
  mu,        \* SQLiteStore.governanceMu
  call       \* calls under way

vars == <<subject, unsafe, decision, preview, batch, outcome, audit, mu, call>>

-----------------------------------------------------------------------------
Eligibility == {"ELIGIBLE", "CONFLICT", "BLOCKED"}
Status == {"SAVED", "UNCHANGED", "CONFLICT", "BLOCKED"}

(* The items of a preview: what it saw of each group of the request.        *)
Item == [elig : Eligibility, version : Versions \cup {Gone}, rev : Nat]
Eligible(items) == {g \in DOMAIN items : items[g].elig = "ELIGIBLE"}

(* An item that is not eligible is never compared with the subject again.   *)
Refused(e) == [elig |-> e, version |-> Gone, rev |-> 0]

Idle == [pc |-> "idle", token |-> Nobody, key |-> Nobody, dec |-> Undecided,
         items |-> <<>>, todo |-> {}, sourced |-> FALSE]

At(c, pc) == call[c].pc = pc
Enter(c, r) == call' = [call EXCEPT ![c] = r]
Return(c) == Enter(c, Idle)

(* A decision replaces the former one, with its audit row.                  *)
Record(k, g, d) ==
  LET rev == decision[g].rev + 1 IN
  /\ decision' = [decision EXCEPT ![g] = [dec |-> d, rev |-> rev]]
  /\ audit' = audit \cup {[key |-> k, group |-> g, dec |-> d, rev |-> rev]}

FreeTokens == {t \in Tokens : preview[t].state = "none"}
LivePreviews == {t \in Tokens : preview[t].state = "live"}

\* Mutant of Unchanged: the revision of the decision is not compared.
UnchangedVersion(g, item) == subject[g] = item.version

(* The subject of a preview item is what it was.                            *)
Unchanged(g, item) == subject[g] = item.version /\ decision[g].rev = item.rev

Init ==
  /\ subject \in [Groups -> Versions]
  /\ unsafe = FALSE
  /\ decision = [g \in Groups |-> [dec |-> Undecided, rev |-> 0]]
  /\ preview = [t \in Tokens |-> [state |-> "none", dec |-> Undecided, items |-> <<>>]]
  /\ batch = [k \in Keys |-> [state |-> "none", token |-> Nobody]]
  /\ outcome = [k \in Keys |-> [g \in Groups |-> "none"]]
  /\ audit = {}
  /\ mu = Nobody
  /\ call = [c \in Callers |-> Idle]

-----------------------------------------------------------------------------
(* Preview.                                                                *)

(* One read transaction over the subjects; stale names the groups for which *)
(* the client sent a version or revision that has changed since.            *)
EvaluateGovernancePreview(c, d) ==
  /\ At(c, "idle") /\ ~unsafe
  /\ Cardinality({b \in Callers : call[b].pc \in {"evaluated", "recheck"}}) < Cardinality(FreeTokens)
  /\ \E gs \in Requests : \E stale \in SUBSET gs :
       Enter(c, [Idle EXCEPT !.pc = "evaluated", !.dec = d, !.items = [g \in gs |->
         IF subject[g] = Gone THEN Refused("BLOCKED")
         ELSE IF g \in stale THEN Refused("CONFLICT")
         ELSE [elig |-> "ELIGIBLE", version |-> subject[g], rev |-> decision[g].rev]]])
  /\ UNCHANGED <<subject, unsafe, decision, preview, batch, outcome, audit, mu>>

(* What verifyGovernanceSources finds of a group: it matches, or it changed, *)
(* is not authorised, not there, or beyond the limits of a check.           *)
Verified == BOOLEAN

(* Between the two the sources of the eligible groups are verified. Then   *)
(* the store looks at its capabilities, by a read of its own.               *)
BeginPersist(c) ==
  /\ At(c, "evaluated") /\ ~unsafe
  /\ Enter(c, [call[c] EXCEPT !.pc = "recheck", !.todo = DOMAIN call[c].items,
                              !.sourced = Eligible(call[c].items) # {}])
  /\ UNCHANGED <<subject, unsafe, decision, preview, batch, outcome, audit, mu>>

(* What the store and the source say of an item: the subject has changed,   *)
(* or its source does not match, is not authorised, not there or beyond the *)
(* limits.                                                                  *)
Rechecked(g, item, match) ==
  IF subject[g] = Gone \/ ~Unchanged(g, item) THEN Refused("CONFLICT")
  ELSE IF match THEN item ELSE Refused("BLOCKED")

(* Each subject is looked at again by a read of its own.                    *)
RecheckSubject(c, g) ==
  /\ At(c, "recheck") /\ g \in call[c].todo
  /\ \E match \in Verified :
       Enter(c, [call[c] EXCEPT !.todo = @ \ {g},
                                !.items[g] = Rechecked(g, call[c].items[g], match)])
  /\ UNCHANGED <<subject, unsafe, decision, preview, batch, outcome, audit, mu>>

(* One transaction, unless the checks left nothing eligible of what there   *)
(* was: the safety state, the number of live previews, and the preview.     *)
PersistGovernancePreview(c, t) ==
  /\ At(c, "recheck") /\ call[c].todo = {} /\ preview[t].state = "none"
  /\ ~unsafe /\ Cardinality(LivePreviews) < MaxLive
  /\ call[c].sourced => Eligible(call[c].items) # {}
  /\ preview' = [preview EXCEPT ![t] = [state |-> "live", dec |-> call[c].dec,
                                        items |-> call[c].items]]
  /\ Return(c)
  /\ UNCHANGED <<subject, unsafe, decision, batch, outcome, audit, mu>>

PreviewRejected(c) ==
  /\ call[c].pc \in {"evaluated", "recheck"}
  /\ Return(c)
  /\ UNCHANGED <<subject, unsafe, decision, preview, batch, outcome, audit, mu>>

-----------------------------------------------------------------------------
(* Commit.                                                                 *)

(* The sources of the preview are verified before the store takes its lock; *)
(* what that found of a group is chosen when its item is committed. Under   *)
(* the lock: capabilities, the batch of this key with the digest of the     *)
(* request, and the preview, which must not have expired, also when the     *)
(* batch exists and is only taken up again. Every other commit is refused   *)
(* or answered with the stored result.                                      *)
Commit(c, t, k) ==
  /\ At(c, "idle") /\ mu = Nobody /\ ~unsafe
  /\ preview[t].state = "live"
  /\ batch[k].state = "none" \/ batch[k] = [state |-> "IN_PROGRESS", token |-> t]
  /\ mu' = c
  /\ Enter(c, [Idle EXCEPT !.pc = IF batch[k].state = "none" THEN "insert" ELSE "items",
                           !.token = t, !.key = k, !.todo = DOMAIN preview[t].items])
  /\ UNCHANGED <<subject, unsafe, decision, preview, batch, outcome, audit>>

InsertBatch(c) ==
  /\ At(c, "insert") /\ ~unsafe
  /\ batch' = [batch EXCEPT ![call[c].key] = [state |-> "IN_PROGRESS", token |-> call[c].token]]
  /\ Enter(c, [call[c] EXCEPT !.pc = "items"])
  /\ UNCHANGED <<subject, unsafe, decision, preview, outcome, audit, mu>>

\* Mutant of Answer: the safety state was looked at when the commit began.
AnswerUnguarded(g, item, fresh, d) ==
  IF item.elig # "ELIGIBLE" THEN item.elig
  ELSE IF ~fresh THEN "BLOCKED"
  ELSE IF subject[g] = Gone \/ ~Unchanged(g, item) THEN "CONFLICT"
  ELSE IF decision[g].dec = d THEN "UNCHANGED" ELSE "SAVED"

(* What commitDecisionItem answers for a group, inside its transaction: the *)
(* safety state, the item of the preview, the freshness of its source, the  *)
(* subject and its revision, and whether anything changes at all.           *)
Answer(g, item, fresh, d) ==
  IF unsafe THEN "BLOCKED"
  ELSE IF item.elig # "ELIGIBLE" THEN item.elig
  ELSE IF ~fresh THEN "BLOCKED"
  ELSE IF subject[g] = Gone \/ ~Unchanged(g, item) THEN "CONFLICT"
  ELSE IF decision[g].dec = d THEN "UNCHANGED" ELSE "SAVED"

\* Mutant of CommitDecisionItem: an answered item is inserted again and the
\* primary key refuses it.
CommitAnsweredItem(c, g) ==
  LET k == call[c].key  p == preview[call[c].token] IN
  /\ At(c, "items") /\ g \in call[c].todo /\ outcome[k][g] = "none"
  /\ Enter(c, [call[c] EXCEPT !.todo = @ \ {g}])
  /\ \E fresh \in Verified :
       LET answer == Answer(g, p.items[g], fresh, p.dec) IN
       /\ outcome' = [outcome EXCEPT ![k][g] = answer]
       /\ IF answer = "SAVED" THEN Record(k, g, p.dec) ELSE UNCHANGED <<decision, audit>>
  /\ UNCHANGED <<subject, unsafe, preview, batch, mu>>

(* One transaction: decision, audit and outcome, or nothing when the item   *)
(* was answered by an earlier attempt.                                      *)
CommitDecisionItem(c, g) ==
  LET k == call[c].key  p == preview[call[c].token] IN
  /\ At(c, "items") /\ g \in call[c].todo
  /\ Enter(c, [call[c] EXCEPT !.todo = @ \ {g}])
  /\ IF outcome[k][g] # "none" THEN UNCHANGED <<decision, outcome, audit>>
     ELSE \E fresh \in Verified :
       LET answer == Answer(g, p.items[g], fresh, p.dec) IN
       /\ outcome' = [outcome EXCEPT ![k][g] = answer]
       /\ IF answer = "SAVED" THEN Record(k, g, p.dec) ELSE UNCHANGED <<decision, audit>>
  /\ UNCHANGED <<subject, unsafe, preview, batch, mu>>

(* The batch is complete when each of its items has an outcome.             *)
CompleteBatch(c) ==
  LET k == call[c].key IN
  /\ At(c, "items") /\ call[c].todo = {}
  /\ batch' = IF \A g \in DOMAIN preview[batch[k].token].items : outcome[k][g] # "none"
                THEN [batch EXCEPT ![k].state = "COMPLETE"] ELSE batch
  /\ mu' = Nobody
  /\ Return(c)
  /\ UNCHANGED <<subject, unsafe, decision, preview, outcome, audit>>

\* Mutant of CommitStops: the lock is kept.
CommitStopsLocked(c) ==
  /\ call[c].pc \in {"insert", "items"}
  /\ Return(c)
  /\ UNCHANGED <<subject, unsafe, decision, preview, batch, outcome, audit, mu>>

\* Mutant of CommitStops: the batch is completed although it stopped half way.
CommitStopsComplete(c) ==
  /\ call[c].pc \in {"insert", "items"}
  /\ mu' = Nobody
  /\ batch' = IF At(c, "items") THEN [batch EXCEPT ![call[c].key].state = "COMPLETE"] ELSE batch
  /\ Return(c)
  /\ UNCHANGED <<subject, unsafe, decision, preview, outcome, audit>>

(* A guard that fails at the insert, a cancelled context or a failing       *)
(* transaction ends the call where it is; what is recorded stays.           *)
CommitStops(c) ==
  /\ call[c].pc \in {"insert", "items"}
  /\ mu' = Nobody
  /\ Return(c)
  /\ UNCHANGED <<subject, unsafe, decision, preview, batch, outcome, audit>>

-----------------------------------------------------------------------------
(* Single decisions, and what happens around the calls.                    *)

(* One transaction under the lock. The client names the revision it read;   *)
(* every other one than the current is rejected, so only that one is here.  *)
SaveGroupDecision(g, d) ==
  /\ g \in Changing /\ decision[g].rev < MaxSaves
  /\ mu = Nobody /\ ~unsafe
  /\ Record(Nobody, g, d)
  /\ UNCHANGED <<subject, unsafe, preview, batch, outcome, mu, call>>

(* Scans, plans, rules and protected paths change what a subject hashes.    *)
SubjectChanges(g) ==
  /\ g \in Changing
  /\ \E v \in Versions \cup {Gone} : v # subject[g] /\ subject' = [subject EXCEPT ![g] = v]
  /\ UNCHANGED <<unsafe, decision, preview, batch, outcome, audit, mu, call>>

(* A job starts or ends, a plan or restore or purge becomes pending or not. *)
SafetyChanges ==
  /\ unsafe' = ~unsafe
  /\ UNCHANGED <<subject, decision, preview, batch, outcome, audit, mu, call>>

PreviewExpires(t) ==
  /\ preview[t].state = "live"
  /\ preview' = [preview EXCEPT ![t].state = "expired"]
  /\ UNCHANGED <<subject, unsafe, decision, batch, outcome, audit, mu, call>>

(* The process ends and is started again.                                   *)
Crash ==
  /\ \E c \in Callers : ~At(c, "idle")
  /\ mu' = Nobody
  /\ call' = [c \in Callers |-> Idle]
  /\ UNCHANGED <<subject, unsafe, decision, preview, batch, outcome, audit>>

-----------------------------------------------------------------------------
CommitStep(c) ==
  InsertBatch(c) \/ CompleteBatch(c) \/ \E g \in Groups : CommitDecisionItem(c, g)

Next ==
  \/ \E c \in Callers :
       \/ BeginPersist(c) \/ PreviewRejected(c)
       \/ \E g \in Groups : RecheckSubject(c, g)
       \/ CommitStep(c) \/ CommitStops(c)
       \/ \E d \in Batched : EvaluateGovernancePreview(c, d)
       \/ \E t \in Tokens : \/ PersistGovernancePreview(c, t)
                            \/ \E k \in Keys : Commit(c, t, k)
  \/ \E g \in Groups : SubjectChanges(g) \/ \E d \in Decisions : SaveGroupDecision(g, d)
  \/ \E t \in Tokens : PreviewExpires(t)
  \/ SafetyChanges \/ Crash

Spec == Init /\ [][Next]_vars

(* A commit that runs goes on; nothing else is promised to happen.          *)
FairSpec == Spec /\ \A c \in Callers : WF_vars(CommitStep(c))

-----------------------------------------------------------------------------
(* What readers are shown.                                                 *)

Asked(k) == IF batch[k].state = "none" THEN {} ELSE DOMAIN preview[batch[k].token].items

(* GetBatchDecisionResult: a group without an outcome counts as failed.     *)
Result(k) == [g \in Groups |-> IF outcome[k][g] = "none" THEN "FAILED" ELSE outcome[k][g]]

(* validateHistoryMembership: one batch that fails it hides the whole page. *)
Readable(k) ==
  /\ {g \in Groups : outcome[k][g] # "none"} \subseteq Asked(k)
  /\ batch[k].state = "COMPLETE" => \A g \in Asked(k) : outcome[k][g] # "none"

-----------------------------------------------------------------------------
(* Properties.                                                             *)

(* Every variable has its sort, and the lock is held by the calls that are  *)
(* between Commit and their end.                                      *)
TypeOK ==
  /\ subject \in [Groups -> Versions \cup {Gone}]
  /\ unsafe \in BOOLEAN
  /\ decision \in [Groups -> [dec : Decisions \cup {Undecided}, rev : Nat]]
  /\ DOMAIN preview = Tokens
  /\ \A t \in Tokens : /\ preview[t].state \in {"none", "live", "expired"}
                       /\ preview[t].dec \in Decisions \cup {Undecided}
                       /\ DOMAIN preview[t].items \subseteq Groups
                       /\ \A g \in DOMAIN preview[t].items : preview[t].items[g] \in Item
  /\ batch \in [Keys -> [state : {"none", "IN_PROGRESS", "COMPLETE"},
                         token : Tokens \cup {Nobody}]]
  /\ outcome \in [Keys -> [Groups -> Status \cup {"none"}]]
  /\ audit \subseteq [key : Keys \cup {Nobody}, group : Groups, dec : Decisions, rev : Nat]
  /\ \A c \in Callers : mu = c <=> call[c].pc \in {"insert", "items"}

(* The audit trail tells the decisions: the rows of a group number its      *)
(* revisions from one without a gap, the last one is the decision, and a    *)
(* batch has a row exactly for the groups it reports as saved. It saved     *)
(* only groups its preview found eligible, over exactly the revision the    *)
(* preview saw (governance_batch.go:295: "No last-write-wins"), through     *)
(* retries, second keys and other writers. The history page, which rejects  *)
(* everything when one batch is inconsistent (governance_history.go:87),    *)
(* can always be shown.                                                     *)
RecordsAgree ==
  /\ \A g \in Groups :
       LET saved == {a \in audit : a.group = g} IN
       /\ {a.rev : a \in saved} = 1..decision[g].rev
       /\ Cardinality(saved) = decision[g].rev
       /\ \A a \in saved : a.rev = decision[g].rev => a.dec = decision[g].dec
       /\ {a.key : a \in saved} \ {Nobody} = {k \in Keys : Result(k)[g] = "SAVED"}
  /\ \A a \in audit : a.key # Nobody =>
       LET p == preview[batch[a.key].token] IN
       /\ a.group \in Eligible(p.items) /\ a.dec = p.dec
       /\ a.rev = p.items[a.group].rev + 1
  /\ \A k \in Keys : Readable(k)

(* Nothing is decided while a job is active or a recovery is pending, also  *)
(* when that begins in the middle of a batch (governance_batch.go:270).     *)
DecidedWhenSafe == [][decision' # decision => ~unsafe]_vars

(* A batch is completed by a call of its key that runs without being        *)
(* interrupted, however many attempts stopped half way before               *)
(* (governance_batch.go:244).                                               *)
RetryCompletes ==
  \A k \in Keys :
    ( /\ []<>(\E c \in Callers : At(c, "items") /\ call[c].key = k)
      /\ <>[][~Crash /\ \A c \in Callers : ~CommitStops(c)]_vars )
    => <>(batch[k].state = "COMPLETE")

(* Recording implements the ledger: one revision per change, one answer per *)
(* item and request, and a save compares and sets in one step.              *)
Ledger == INSTANCE DecisionLedger WITH
  Group <- Groups, Decision <- Decisions, Request <- Keys,
  revision <- [g \in Groups |-> decision[g].rev],
  decided <- [g \in Groups |-> decision[g].dec],
  seen <- [k \in Keys |-> [g \in Asked(k) |-> preview[batch[k].token].items[g].rev]],
  answer <- [k \in Keys |-> Result(k)],
  closed <- {k \in Keys : batch[k].state = "COMPLETE"}

LedgerSpec == Ledger!Spec
=============================================================================
