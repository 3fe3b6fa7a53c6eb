------------------------- MODULE QuarantineLifecycle ------------------------
(***************************************************************************)
(* The life of quarantined files: registration, restore plans and purge    *)
(* plans with their approvals and journals, the executors that move a file *)
(* back or delete it, and the recovery of what a crash left unresolved.    *)
(*                                                                         *)
(* A file is named by its item.  Plans are numbered per item; a presented  *)
(* digest that does not match is refused without a trace, so the digests   *)
(* themselves are left out.  Executors run with a context that is never    *)
(* cancelled, as every caller's is.  RecoverPurges only reads.             *)
(***************************************************************************)
EXTENDS Naturals, FiniteSets

CONSTANTS
    Item,          \* quarantined files
    Worker,        \* processes with the database open
    SourcePath, SlotPath,
    Src,           \* Src[i]: source_path of an item
    Qar,           \* Qar[i]: quarantine_path of an item
    Protected,     \* items from protected directories
    Foreign,       \* content that other programs may write
    Sha,           \* digest of a content
    PurgeReleased, \* PurgeReleaseAllowed(): FALSE in the present build
    MaxRestores,   \* bound on restore plans of an item
    MaxPurges,     \* bound on purge plans of an item
    MaxEdits, MaxCrashes,
    None, Absent, Partial

RNr == 1..MaxRestores
PNr == 1..MaxPurges
StagePath == Item \X PNr     \* .purge-staging/<plan id>.stage
Path == SourcePath \cup SlotPath \cup StagePath
Content == Item \cup Foreign

ASSUME PathAssumption ==
    /\ Src \in [Item -> SourcePath]
    /\ Qar \in [Item -> SlotPath]
    /\ \A i, k \in Item : Qar[i] = Qar[k] => i = k
    /\ SourcePath \cap SlotPath = {}
    /\ (SourcePath \cup SlotPath) \cap StagePath = {}
ASSUME NamesAssumption ==
    /\ {Absent, Partial} \cap Content = {}
    /\ Absent # Partial
    /\ None \notin Worker \cup Item \cup Content \cup {Absent, Partial}
    /\ Foreign \cap Item = {}   \* a copy made elsewhere has a name of its own
ASSUME ShaAssumption == DOMAIN Sha = Content
ASSUME ProtectedAssumption == Protected \subseteq Item
ASSUME GateAssumption == PurgeReleased \in BOOLEAN
ASSUME BoundsAssumption ==
    /\ MaxRestores \in Nat /\ MaxPurges \in Nat
    /\ MaxEdits \in Nat /\ MaxCrashes \in Nat

VARIABLES
    \* the database
    status,      \* status[i]: quarantine_items.status, "NONE" without a row
    expired,     \* items whose retain_until has passed
    rplan, rlog, \* rplan[i][n], rlog[i][n]: restore_plans, restore_journal
    pplan, plog, \* pplan[i][n], plog[i][n]: purge_plans, purge_journal
    dry,         \* purge plans with a verified dry run
    planLocked,  \* ListExecutingPlans reports a source plan
    \* the file system
    data, harmed,
    \* the processes
    lock, job, edits, crashes

dbVars == <<status, expired, rplan, rlog, pplan, plog, dry, planLocked>>
fsVars == <<data, harmed>>
bounds == <<edits, crashes>>
vars == <<status, expired, rplan, rlog, pplan, plog, dry, planLocked,
          data, harmed, lock, job, edits, crashes>>

\* The values that the code writes.  STAGED, FAILED and an item's ROLLED_BACK
\* have names in the code and no writer.
Status == {"NONE", "QUARANTINED", "HOLD", "PURGE_ELIGIBLE", "RESTORED", "PURGED"}
Restorable == {"QUARANTINED", "HOLD", "PURGE_ELIGIBLE"}
Purgeable == {"QUARANTINED", "PURGE_ELIGIBLE"}
RPlan == {"NONE", "DRAFT", "APPROVED", "RESTORED", "ROLLED_BACK"}
RLog == {"none", "pending", "done", "rolled_back"}
PPlan == {"NONE", "DRAFT", "APPROVED", "PURGED", "ROLLED_BACK"}
PLog == {"none", "pending", "staged", "commit_pending", "committed"}
Active == {"pending", "staged", "commit_pending"}

\* Where a process may be; all but the planning points hold the lock.
Planning == {"drafting", "listed", "dryrun", "drymark"}
Restoring == {"validate", "begin"}
Moving == {"copy", "fill", "verify", "remove", "complete"}
Reconciling == {"probe", "reprobe", "rollback"}
Purging == {"pvalidate", "pbegin"}
Deleting == {"stage", "staged", "check", "commit", "unlink", "committed"}
Holding == {"recover"} \cup Restoring \cup Moving \cup Reconciling
               \cup Purging \cup Deleting
Pc == {"idle"} \cup Planning \cup Holding
Job == [pc : Pc,
        item : Item \cup {None},
        nr : Nat,                              \* the plan's number
        buf : Content \cup {None, Partial},    \* content read when it opened
        batch : SUBSET (Item \cup (Item \X RNr))]

Idle == [pc |-> "idle", item |-> None, nr |-> 0, buf |-> None, batch |-> {}]

Init ==
    /\ status = [i \in Item |-> "NONE"]
    /\ expired = {}
    /\ rplan = [i \in Item |-> [n \in RNr |-> "NONE"]]
    /\ rlog = [i \in Item |-> [n \in RNr |-> "none"]]
    /\ pplan = [i \in Item |-> [n \in PNr |-> "NONE"]]
    /\ plog = [i \in Item |-> [n \in PNr |-> "none"]]
    /\ dry = {}
    /\ planLocked = FALSE
    /\ data = [x \in Path |-> Absent]
    /\ harmed = {}
    /\ lock = None
    /\ job = [w \in Worker |-> Idle]
    /\ edits = 0
    /\ crashes = 0

-----------------------------------------------------------------------------
(* What the code reads. *)

\* ListPendingRestores, ListRecoverablePurges
Pending == {e \in Item \X RNr : rlog[e[1]][e[2]] = "pending"}
Unsettled == {e \in Item \X PNr : plog[e[1]][e[2]] \in Active}

\* requireNoRecovery
Clear == ~planLocked /\ Pending = {} /\ Unsettled = {}

HasHashOf(c, i) == c \in Content /\ Sha[c] = Sha[i]

\* A purge plan that stands in the way of another one
Planned(i) == \E n \in PNr : pplan[i][n] \in {"DRAFT", "APPROVED"}

\* ListPurgeCandidates, BuildPlans
Candidates == {i \in expired : status[i] \in Purgeable /\ ~Planned(i)}

\* The next unused number, if the bound leaves one
Unused(plans) == {n \in DOMAIN plans :
                    /\ plans[n] = "NONE"
                    /\ \A k \in DOMAIN plans : k < n => plans[k] # "NONE"}

\* restoreReservation: a pending row of an approved plan of a live item
Reservation(i, n) == /\ rlog[i][n] = "pending"
                     /\ rplan[i][n] = "APPROVED"
                     /\ status[i] \in Restorable

\* What a probe of both paths must find to prove that nothing was moved
Untouched(i) == HasHashOf(data[Qar[i]], i) /\ data[Src[i]] = Absent

-----------------------------------------------------------------------------
(* How a process moves on. *)

At(w, pc) == job[w].pc = pc
Goto(w, pc) == job' = [job EXCEPT ![w] = [@ EXCEPT !.pc = pc]]

Enter(w, pc, i, n) == job' = [job EXCEPT ![w] = [Idle EXCEPT !.pc = pc,
                                                !.item = i, !.nr = n]]

\* Mutant of Return: also a call without the lock, as a dry run, unlocks.
ReturnUnlocks(w) == /\ job' = [job EXCEPT ![w] = Idle]
                    /\ lock' = None

\* The call returns, and gives back the execution lock if it took it.
Return(w) == /\ job' = [job EXCEPT ![w] = Idle]
             /\ lock' = IF lock = w THEN None ELSE lock

Put(x, c) == data' = [data EXCEPT ![x] = c] /\ UNCHANGED harmed
DropOutput(x) == Put(x, Absent) \/ UNCHANGED fsVars

-----------------------------------------------------------------------------
(* Registration, and the source plans that share the recovery lock. *)

\* A source plan has moved a file to the quarantine and become VERIFIED.
Register(i) ==
    /\ lock = None /\ Clear
    /\ status[i] = "NONE"
    /\ data[Src[i]] = Absent /\ data[Qar[i]] = Absent
    /\ status' = [status EXCEPT ![i] = IF i \in Protected THEN "HOLD" ELSE "QUARANTINED"]
    /\ Put(Qar[i], i)
    /\ UNCHANGED <<expired, rplan, rlog, pplan, plog, dry, planLocked, lock, job, bounds>>

\* A run of source plans leaves one that needs recovery.
PlanStuck ==
    /\ lock = None /\ Clear
    /\ planLocked' = TRUE
    /\ UNCHANGED <<status, expired, rplan, rlog, pplan, plog, dry, fsVars, lock, job, bounds>>

PlanRecovered ==
    /\ lock = None /\ planLocked
    /\ planLocked' = FALSE
    /\ UNCHANGED <<status, expired, rplan, rlog, pplan, plog, dry, fsVars, lock, job, bounds>>

\* The clock passes retain_until.
Expire(i) ==
    /\ status[i] # "NONE" /\ i \notin expired
    /\ expired' = expired \cup {i}
    /\ UNCHANGED <<status, rplan, rlog, pplan, plog, dry, planLocked, fsVars, lock, job, bounds>>

-----------------------------------------------------------------------------
(* Restore plans. *)

\* CreateRestorePlan reads the item and builds the plan ...
DraftRestore(w, i) ==
    /\ At(w, "idle")
    /\ status[i] \in Restorable
    /\ Enter(w, "drafting", i, 0)
    /\ UNCHANGED <<dbVars, fsVars, lock, bounds>>

\* ... and stores it, whatever became of the item.
SaveRestorePlan(w) ==
    LET i == job[w].item
    IN  /\ At(w, "drafting")
        /\ \E n \in Unused(rplan[i]) : rplan' = [rplan EXCEPT ![i][n] = "DRAFT"]
        /\ Return(w)
        /\ UNCHANGED <<status, expired, rlog, pplan, plog, dry, planLocked, fsVars, bounds>>

ApproveRestorePlan(i, n) ==
    /\ rplan[i][n] = "DRAFT"
    /\ rplan' = [rplan EXCEPT ![i][n] = "APPROVED"]
    /\ UNCHANGED <<status, expired, rlog, pplan, plog, dry, planLocked, fsVars, lock, job, bounds>>

\* Mutant of StartRestore: the lock alone, without requireNoRecovery.
StartRestoreUngated(w, i, n) ==
    /\ At(w, "idle")
    /\ lock = None
    /\ rplan[i][n] = "APPROVED" /\ status[i] \in Restorable
    /\ lock' = w
    /\ Enter(w, "validate", i, n)
    /\ UNCHANGED <<dbVars, fsVars, bounds>>

\* ExecuteRestore takes the lock, looks for unresolved work and reads the
\* plan and its item; anything but an approved plan of a live item is refused.
StartRestore(w, i, n) ==
    /\ At(w, "idle")
    /\ lock = None /\ Clear
    /\ rplan[i][n] = "APPROVED" /\ status[i] \in Restorable
    /\ lock' = w
    /\ Enter(w, "validate", i, n)
    /\ UNCHANGED <<dbVars, fsVars, bounds>>

\* The destination is free and the quarantined file has its digest.
ValidateRestore(w) ==
    /\ At(w, "validate")
    /\ Untouched(job[w].item)
    /\ Goto(w, "begin")
    /\ UNCHANGED <<dbVars, fsVars, lock, bounds>>

BeginRestore(w) ==
    LET i == job[w].item
        n == job[w].nr
    IN  /\ At(w, "begin")
        /\ rplan[i][n] = "APPROVED" /\ status[i] \in Restorable
        /\ rlog[i][n] = "none"
        /\ \A k \in RNr : rlog[i][k] # "pending"
        /\ \A k \in PNr : pplan[i][k] # "APPROVED"
        /\ rlog' = [rlog EXCEPT ![i][n] = "pending"]
        /\ Goto(w, "copy")
        /\ UNCHANGED <<status, expired, rplan, pplan, plog, dry, planLocked, fsVars, lock, bounds>>

\* A check or the database refuses before anything is reserved.
Refused(w) ==
    /\ job[w].pc \in Planning \cup Restoring \cup Purging
    /\ Return(w)
    /\ UNCHANGED <<dbVars, fsVars, bounds>>

-----------------------------------------------------------------------------
(* MoveFile from the quarantine to the source path. *)

CopyOpens(w) ==
    LET i == job[w].item
    IN  /\ At(w, "copy")
        /\ data[Qar[i]] # Absent /\ data[Src[i]] = Absent
        /\ Put(Src[i], Partial)
        /\ job' = [job EXCEPT ![w] = [@ EXCEPT !.pc = "fill", !.buf = data[Qar[i]]]]
        /\ UNCHANGED <<dbVars, lock, bounds>>

CopyRefused(w) ==
    /\ At(w, "copy")
    /\ Goto(w, "probe")
    /\ UNCHANGED <<dbVars, fsVars, lock, bounds>>

\* The bytes of the opened file or of what replaced it, or a damaged copy
CopyFills(w) ==
    LET i == job[w].item
    IN  /\ At(w, "fill")
        /\ \/ /\ data[Src[i]] = Partial
              /\ \E c \in {job[w].buf, data[Qar[i]], Partial} \ {Absent} : Put(Src[i], c)
           \/ data[Src[i]] # Partial /\ UNCHANGED fsVars
        /\ Goto(w, "verify")
        /\ UNCHANGED <<dbVars, lock, bounds>>

\* Mutant of MoveFails: a failed move is taken for proof of rollback.
MoveFailsRolledBack(w) ==
    /\ job[w].pc \in {"fill", "verify", "remove"}
    /\ DropOutput(Src[job[w].item])
    /\ Goto(w, "rollback")
    /\ UNCHANGED <<dbVars, lock, bounds>>

\* The copy fails or does not verify, or the quarantined file cannot be
\* removed: the output is dropped, best effort, and the paths are probed.
MoveFails(w) ==
    /\ job[w].pc \in {"fill", "verify", "remove"}
    /\ DropOutput(Src[job[w].item])
    /\ Goto(w, "probe")
    /\ UNCHANGED <<dbVars, lock, bounds>>

\* Mutant of VerifyPasses: a copy without an error is taken for a good one.
VerifyTrustsCopy(w) ==
    /\ At(w, "verify")
    /\ data[Src[job[w].item]] # Absent
    /\ Goto(w, "remove")
    /\ UNCHANGED <<dbVars, fsVars, lock, bounds>>

VerifyPasses(w) ==
    LET i == job[w].item
    IN  /\ At(w, "verify")
        /\ HasHashOf(data[Src[i]], i)
        /\ Goto(w, "remove")
        /\ UNCHANGED <<dbVars, fsVars, lock, bounds>>

RemoveQuarantined(w) ==
    LET i == job[w].item
    IN  /\ At(w, "remove")
        /\ data[Qar[i]] # Absent
        /\ Put(Qar[i], Absent)
        /\ Goto(w, "complete")
        /\ UNCHANGED <<dbVars, lock, bounds>>

\* Journal, plan and item end together, and draft purge plans with them.
MarkRestoreCompleted(w) ==
    LET i == job[w].item
        n == job[w].nr
    IN  /\ At(w, "complete")
        /\ Reservation(i, n)
        /\ rlog' = [rlog EXCEPT ![i][n] = "done"]
        /\ rplan' = [rplan EXCEPT ![i][n] = "RESTORED"]
        /\ status' = [status EXCEPT ![i] = "RESTORED"]
        /\ pplan' = [pplan EXCEPT ![i] =
              [k \in PNr |-> IF @[k] = "DRAFT" THEN "ROLLED_BACK" ELSE @[k]]]
        /\ Return(w)
        /\ UNCHANGED <<expired, plog, dry, planLocked, fsVars, bounds>>

\* The file is home but that cannot be recorded: pending, for review.
CompleteFails(w) ==
    /\ At(w, "complete")
    /\ Return(w)
    /\ UNCHANGED <<dbVars, fsVars, bounds>>

-----------------------------------------------------------------------------
(* reconcileRestore, after a failed move and in recovery *)

StartRecoverRestores(w) ==
    /\ At(w, "idle")
    /\ lock = None
    /\ Pending # {}
    /\ lock' = w
    /\ job' = [job EXCEPT ![w] = [Idle EXCEPT !.pc = "recover", !.batch = Pending]]
    /\ UNCHANGED <<dbVars, fsVars, bounds>>

RecoverNext(w) ==
    /\ At(w, "recover")
    /\ \E e \in job[w].batch :
          job' = [job EXCEPT ![w] = [Idle EXCEPT !.pc = "probe", !.item = e[1],
                                     !.nr = e[2], !.batch = job[w].batch \ {e}]]
    /\ UNCHANGED <<dbVars, fsVars, lock, bounds>>

RecoverEnds(w) ==
    /\ At(w, "recover")
    /\ job[w].batch = {}
    /\ Return(w)
    /\ UNCHANGED <<dbVars, fsVars, bounds>>

\* Both paths are probed, and probed again before the record is made.
Probe(w) ==
    /\ job[w].pc \in {"probe", "reprobe"}
    /\ Untouched(job[w].item)
    /\ Goto(w, IF At(w, "probe") THEN "reprobe" ELSE "rollback")
    /\ UNCHANGED <<dbVars, fsVars, lock, bounds>>

\* Anything else leaves the reservation for a person to look at.
Blocked(w) ==
    /\ job[w].pc \in Reconciling
    /\ Goto(w, "recover")
    /\ UNCHANGED <<dbVars, fsVars, lock, bounds>>

\* Mutant of MarkRestoreRolledBack: the plan's state is written to the item too.
MarkItemRolledBack(w) ==
    LET i == job[w].item
        n == job[w].nr
    IN  /\ At(w, "rollback")
        /\ Reservation(i, n)
        /\ rlog' = [rlog EXCEPT ![i][n] = "rolled_back"]
        /\ rplan' = [rplan EXCEPT ![i][n] = "ROLLED_BACK"]
        /\ status' = [status EXCEPT ![i] = "ROLLED_BACK"]
        /\ Goto(w, "recover")
        /\ UNCHANGED <<expired, pplan, plog, dry, planLocked, fsVars, lock, bounds>>

MarkRestoreRolledBack(w) ==
    LET i == job[w].item
        n == job[w].nr
    IN  /\ At(w, "rollback")
        /\ Reservation(i, n)
        /\ rlog' = [rlog EXCEPT ![i][n] = "rolled_back"]
        /\ rplan' = [rplan EXCEPT ![i][n] = "ROLLED_BACK"]
        /\ Goto(w, "recover")
        /\ UNCHANGED <<status, expired, pplan, plog, dry, planLocked, fsVars, lock, bounds>>

-----------------------------------------------------------------------------
(* Purge plans, behind the release gate *)

\* createPlans lists the candidates ...
ListPurgeCandidates(w) ==
    /\ PurgeReleased
    /\ At(w, "idle")
    /\ Candidates # {}
    /\ job' = [job EXCEPT ![w] = [Idle EXCEPT !.pc = "listed", !.batch = Candidates]]
    /\ UNCHANGED <<dbVars, fsVars, lock, bounds>>

\* Mutant of SavePurgePlans: the list of candidates is not checked again.
SaveStalePurgePlans(w) ==
    LET new == job[w].batch
    IN  /\ At(w, "listed")
        /\ \A i \in new : Unused(pplan[i]) # {}
        /\ pplan' = [i \in Item |-> [n \in PNr |->
              IF i \in new /\ n \in Unused(pplan[i]) THEN "DRAFT" ELSE pplan[i][n]]]
        /\ status' = [i \in Item |-> IF i \in new THEN "PURGE_ELIGIBLE" ELSE status[i]]
        /\ Return(w)
        /\ UNCHANGED <<expired, rplan, rlog, plog, dry, planLocked, fsVars, bounds>>

\* ... and stores a plan for each, if each is still one.
SavePurgePlans(w) ==
    LET new == job[w].batch
    IN  /\ At(w, "listed")
        /\ \A i \in new : /\ ~Planned(i)
                          /\ status[i] \in Purgeable
                          /\ i \in expired
                          /\ Unused(pplan[i]) # {}
        /\ pplan' = [i \in Item |-> [n \in PNr |->
              IF i \in new /\ n \in Unused(pplan[i]) THEN "DRAFT" ELSE pplan[i][n]]]
        /\ status' = [i \in Item |-> IF i \in new THEN "PURGE_ELIGIBLE" ELSE status[i]]
        /\ Return(w)
        /\ UNCHANGED <<expired, rplan, rlog, plog, dry, planLocked, fsVars, bounds>>

ApprovePurgePlan(i, n) ==
    /\ PurgeReleased
    /\ pplan[i][n] = "DRAFT"
    /\ pplan' = [pplan EXCEPT ![i][n] = "APPROVED"]
    /\ UNCHANGED <<status, expired, rplan, rlog, plog, dry, planLocked, fsVars, lock, job, bounds>>

\* What validatePurgeSnapshot asks of the plan and the item
Eligible(i, n) == /\ pplan[i][n] = "APPROVED"
                  /\ status[i] = "PURGE_ELIGIBLE"
                  /\ i \in expired

\* A dry run takes no lock.
StartDryRun(w, i, n) ==
    /\ PurgeReleased
    /\ At(w, "idle")
    /\ Eligible(i, n)
    /\ Enter(w, "dryrun", i, n)
    /\ UNCHANGED <<dbVars, fsVars, lock, bounds>>

DryRunPasses(w) ==
    LET i == job[w].item
    IN  /\ At(w, "dryrun")
        /\ HasHashOf(data[Qar[i]], i)
        /\ Goto(w, "drymark")
        /\ UNCHANGED <<dbVars, fsVars, lock, bounds>>

MarkPurgeDryRunVerified(w) ==
    LET i == job[w].item
        n == job[w].nr
    IN  /\ At(w, "drymark")
        /\ pplan[i][n] = "APPROVED"
        /\ dry' = dry \cup {<<i, n>>}
        /\ Return(w)
        /\ UNCHANGED <<status, expired, rplan, rlog, pplan, plog, planLocked, fsVars, bounds>>

-----------------------------------------------------------------------------
(* ExecutePurge *)

StartPurge(w, i, n) ==
    /\ PurgeReleased
    /\ At(w, "idle")
    /\ lock = None /\ Clear
    /\ <<i, n>> \in dry
    /\ Eligible(i, n)
    /\ lock' = w
    /\ Enter(w, "pvalidate", i, n)
    /\ UNCHANGED <<dbVars, fsVars, bounds>>

ValidatePurge(w) ==
    LET i == job[w].item
    IN  /\ At(w, "pvalidate")
        /\ HasHashOf(data[Qar[i]], i)
        /\ data[<<i, job[w].nr>>] = Absent
        /\ Goto(w, "pbegin")
        /\ UNCHANGED <<dbVars, fsVars, lock, bounds>>

BeginPurge(w) ==
    LET i == job[w].item
        n == job[w].nr
    IN  /\ At(w, "pbegin")
        /\ pplan[i][n] = "APPROVED" /\ status[i] = "PURGE_ELIGIBLE"
        /\ plog[i][n] = "none"
        /\ plog' = [plog EXCEPT ![i][n] = "pending"]
        /\ Goto(w, "stage")
        /\ UNCHANGED <<status, expired, rplan, rlog, pplan, dry, planLocked, fsVars, lock, bounds>>

\* os.Rename into the staging directory
Stage(w) ==
    LET i == job[w].item
    IN  /\ At(w, "stage")
        /\ data[Qar[i]] # Absent
        /\ data' = [data EXCEPT ![Qar[i]] = Absent, ![<<i, job[w].nr>>] = data[Qar[i]]]
        /\ Goto(w, "staged")
        /\ UNCHANGED <<dbVars, harmed, lock, bounds>>

\* updatePurgeJournalStatus
MarkJournal(w, from, to) ==
    LET i == job[w].item
        n == job[w].nr
    IN  /\ plog[i][n] = from
        /\ plog' = [plog EXCEPT ![i][n] = to]
        /\ UNCHANGED <<status, expired, rplan, rlog, pplan, dry, planLocked, fsVars, lock, bounds>>

MarkPurgeStaged(w) ==
    At(w, "staged") /\ MarkJournal(w, "pending", "staged") /\ Goto(w, "check")

\* Mutant of CheckStaged: the staged file only has to exist.
CheckStagedExists(w) ==
    /\ At(w, "check")
    /\ data[<<job[w].item, job[w].nr>>] # Absent
    /\ Goto(w, "commit")
    /\ UNCHANGED <<dbVars, fsVars, lock, bounds>>

CheckStaged(w) ==
    LET i == job[w].item
    IN  /\ At(w, "check")
        /\ HasHashOf(data[<<i, job[w].nr>>], i)
        /\ Goto(w, "commit")
        /\ UNCHANGED <<dbVars, fsVars, lock, bounds>>

MarkPurgeCommitPending(w) ==
    At(w, "commit") /\ MarkJournal(w, "staged", "commit_pending") /\ Goto(w, "unlink")

\* SafeRemove, which nothing can take back
Unlink(w) ==
    LET x == <<job[w].item, job[w].nr>>
    IN  /\ At(w, "unlink")
        /\ data[x] # Absent
        /\ Put(x, Absent)
        /\ Goto(w, "committed")
        /\ UNCHANGED <<dbVars, lock, bounds>>

MarkPurgeCommitted(w) ==
    LET i == job[w].item
        n == job[w].nr
    IN  /\ At(w, "committed")
        /\ plog' = [plog EXCEPT ![i][n] = "committed"]
        /\ pplan' = [pplan EXCEPT ![i][n] = "PURGED"]
        /\ status' = [status EXCEPT ![i] = "PURGED"]
        /\ Return(w)
        /\ UNCHANGED <<expired, rplan, rlog, dry, planLocked, fsVars, bounds>>

\* Any failure after BeginPurge keeps the journal row active.
PurgeFails(w) ==
    /\ job[w].pc \in Deleting
    /\ Return(w)
    /\ UNCHANGED <<dbVars, fsVars, bounds>>

-----------------------------------------------------------------------------
(* What happens from outside *)

Crash(w) ==
    /\ crashes < MaxCrashes
    /\ ~At(w, "idle")
    /\ crashes' = crashes + 1
    /\ Return(w)
    /\ UNCHANGED <<dbVars, fsVars, edits>>

\* Another program writes or removes a file of the user or of the quarantine,
\* also one that a restore has half written.
ExternalEdit(x, c) ==
    /\ edits < MaxEdits
    /\ c # data[x]
    /\ edits' = edits + 1
    /\ data' = [data EXCEPT ![x] = c]
    /\ harmed' = harmed \cup {i \in Item : data[x] = i \/ (data[x] = Partial /\ Src[i] = x)}
    /\ UNCHANGED <<dbVars, lock, job, crashes>>

-----------------------------------------------------------------------------
RestoreStep(w) ==
    \/ ValidateRestore(w) \/ BeginRestore(w)
    \/ CopyOpens(w) \/ CopyRefused(w) \/ CopyFills(w) \/ MoveFails(w)
    \/ VerifyPasses(w) \/ RemoveQuarantined(w)
    \/ MarkRestoreCompleted(w) \/ CompleteFails(w)
    \/ RecoverNext(w) \/ RecoverEnds(w)
    \/ Probe(w) \/ Blocked(w) \/ MarkRestoreRolledBack(w)

PurgeStep(w) ==
    \/ ValidatePurge(w) \/ BeginPurge(w) \/ Stage(w) \/ MarkPurgeStaged(w)
    \/ CheckStaged(w) \/ MarkPurgeCommitPending(w) \/ Unlink(w)
    \/ MarkPurgeCommitted(w) \/ PurgeFails(w)

PlanStep(w) ==
    \/ SaveRestorePlan(w) \/ SavePurgePlans(w)
    \/ DryRunPasses(w) \/ MarkPurgeDryRunVerified(w)

\* The steps a started call takes by itself
Step(w) == RestoreStep(w) \/ PurgeStep(w) \/ PlanStep(w) \/ Refused(w)

Next ==
    \/ \E i \in Item : \/ Register(i) \/ Expire(i)
                       \/ \E n \in RNr : ApproveRestorePlan(i, n)
                       \/ \E n \in PNr : ApprovePurgePlan(i, n)
    \/ PlanStuck \/ PlanRecovered
    \/ \E w \in Worker :
          \/ \E i \in Item : \/ DraftRestore(w, i)
                             \/ \E n \in RNr : StartRestore(w, i, n)
                             \/ \E n \in PNr : StartDryRun(w, i, n) \/ StartPurge(w, i, n)
          \/ ListPurgeCandidates(w) \/ StartRecoverRestores(w)
          \/ Step(w)
          \/ Crash(w)
    \/ \E x \in SourcePath \cup SlotPath, c \in Foreign \cup {Absent} : ExternalEdit(x, c)

Spec == Init /\ [][Next]_vars

-----------------------------------------------------------------------------
(* Correctness *)

\* Every variable has values of its sort.
TypeOK ==
    /\ status \in [Item -> Status]
    /\ expired \subseteq Item
    /\ rplan \in [Item -> [RNr -> RPlan]]
    /\ rlog \in [Item -> [RNr -> RLog]]
    /\ pplan \in [Item -> [PNr -> PPlan]]
    /\ plog \in [Item -> [PNr -> PLog]]
    /\ dry \subseteq Item \X PNr
    /\ planLocked \in BOOLEAN
    /\ data \in [Path -> Content \cup {Absent, Partial}]
    /\ harmed \subseteq Item
    /\ lock \in Worker \cup {None}
    /\ job \in [Worker -> Job]
    /\ edits \in 0..MaxEdits
    /\ crashes \in 0..MaxCrashes

\* A registered file is complete at some path through every restore, failed
\* move, crash and reconciliation, unless another program destroyed a copy of
\* it, complete or half written, or its purge reached the point of no return.
EveryItemSurvives ==
    \A i \in Item \ harmed :
        \/ status[i] = "NONE"
        \/ \E x \in Path : data[x] = i
        \/ \E n \in PNr : plog[i][n] \in {"commit_pending", "committed"}

\* The execution lock and requireNoRecovery leave one unresolved piece of work
\* in the database: a source plan, a restore or a purge.
OneUnresolved ==
    /\ \A d, e \in Pending : d = e
    /\ \A d, e \in Unsettled : d = e
    /\ Pending = {} \/ Unsettled = {}
    /\ planLocked => Pending = {} /\ Unsettled = {}

\* What a process relies on at each point, and nobody checks again: the lock is
\* its own, nothing is unresolved before its reservation, its purge passed the
\* dry run, the journal tells how far that purge has come, and what it is about
\* to unlink is the staged file that it checked.
Knows(w) ==
    LET i == job[w].item
        n == job[w].nr
        pc == job[w].pc
    IN  /\ pc \in Holding => lock = w /\ job[w].batch \subseteq Item \X RNr
        /\ pc = "listed" => job[w].batch \subseteq Item
        /\ pc \notin {"idle", "recover", "listed"} => i \in Item
        /\ pc = "fill" => job[w].buf # None
        /\ pc \in Restoring \cup Moving \cup Reconciling => n \in RNr
        /\ pc \in {"dryrun", "drymark"} \cup Purging \cup Deleting => n \in PNr
        /\ pc \in Restoring \cup Purging => Clear
        /\ pc \in Purging \cup Deleting => <<i, n>> \in dry /\ i \in expired
        /\ pc \in Deleting => status[i] = "PURGE_ELIGIBLE"
        /\ pc \in {"stage", "staged"} => plog[i][n] = "pending"
        /\ pc \in {"check", "commit"} => plog[i][n] = "staged"
        /\ pc \in {"unlink", "committed"} => plog[i][n] = "commit_pending"
        /\ pc \in {"commit", "unlink"} => HasHashOf(data[<<i, n>>], i)

\* Every process may rely on what it was told, and no protected item ever comes
\* near a purge.
Agreement == /\ \A w \in Worker : Knows(w)
             /\ \A i \in Protected : status[i] \in {"NONE", "HOLD", "RESTORED"}

\* An item is RESTORED only when a file with its digest is at its source path
\* and the quarantined one is gone, however the restore was interrupted before.
\* A restore is ROLLED_BACK only when nothing of it is left at the destination
\* and the quarantined file is there with its digest, so that a new plan can
\* restore it: a failed move alone proves neither. A file that another program
\* changed is that program's concern.
RestoresAreReal ==
    [][\A i \in Item :
          /\ status[i] # "RESTORED" /\ status'[i] = "RESTORED" =>
                i \in harmed \/ (HasHashOf(data[Src[i]], i) /\ data[Qar[i]] # i)
          /\ \A n \in RNr :
                rplan[i][n] # "ROLLED_BACK" /\ rplan'[i][n] = "ROLLED_BACK" =>
                   /\ data[Src[i]] \notin {i, Partial}
                   /\ i \in harmed \/ HasHashOf(data[Qar[i]], i)]_vars

\* The unlink of a purge takes only a file with the digest of an item that was
\* never protected, whose retention is over, under a plan that passed its dry
\* run and whose row says that the file may be gone.
UnlinkAuthorised ==
    [][\A x \in StagePath : data[x] # Absent /\ data'[x] = Absent =>
          /\ plog[x[1]][x[2]] = "commit_pending"
          /\ x \in dry
          /\ x[1] \in expired \ Protected
          /\ status[x[1]] = "PURGE_ELIGIBLE"
          /\ HasHashOf(data[x], x[1])]_vars

\* What the rows of the database say of an item
FateOf(i) ==
    CASE status[i] = "NONE" -> "none"
      [] status[i] = "RESTORED" -> "restored"
      [] status[i] = "PURGED" -> "purged"
      [] OTHER -> IF \E n \in RNr : rlog[i][n] = "pending" THEN "restoring"
                  ELSE IF \E n \in PNr : plog[i][n] \in Active THEN "purging"
                  ELSE "kept"

Fate == INSTANCE ItemFate WITH fate <- [i \in Item |-> FateOf(i)]

\* The rows of the database implement the fate of each item.
FateSpec == Fate!Spec
=============================================================================
