---------------------------- MODULE PlanExecution ---------------------------
(***************************************************************************)
(* Execution of approved operation plans on the user's file system:        *)
(* ExecutionService.Execute and its Executor, the write-ahead journal and  *)
(* plan states in SQLite, the copy-verify-remove file primitives, in-run   *)
(* rollback, and crash recovery (Executor.Recover).                        *)
(*                                                                         *)
(* A file instance is named by the path it had when it was scanned, so a   *)
(* member of Source is both a path and the content first found there.  Two *)
(* instances are duplicates when Sha maps them to the same digest.         *)
(*                                                                         *)
(* DELETE runs the code of QUARANTINE and RENAME that of MOVE, so the      *)
(* model has three file actions; KEEP stands for KEEP, SKIP and REVIEW.    *)
(***************************************************************************)
EXTENDS Naturals, Sequences, FiniteSets

CONSTANTS
    Plan,        \* plan identifiers
    Worker,      \* callers of Execute and Recover on one database
    Source,      \* scanned paths, and the instances found at them
    Target,      \* destinations of MOVE and COPY actions
    Slot,        \* paths below the quarantine root
    Foreign,     \* content that other programs may write
    Size,        \* number of actions of a plan (padded with KEEP)
    Actions,     \* Actions[p][i]: the i-th action of plan p
    Candidates,  \* Candidates[s]: quarantine names of s, in collision order
    Sha,         \* SHA-256 digest of a content
    Critical,    \* plans of critical risk
    DbFaults,    \* TRUE: a database operation may fail
    Cancels,     \* TRUE: the caller's context may be cancelled
    MaxEdits,    \* bound on writes by other programs
    MaxCrashes,  \* bound on crashes of the process
    None, Absent, Partial

Index == 1..Size
Path == Source \cup Target \cup Slot
Content == Source \cup Foreign
Action == [kind : {"QUARANTINE", "MOVE", "COPY", "KEEP"},
           src : Source, dst : Target \cup {None}]

ASSUME SizeAssumption == Size \in Nat \ {0}
ASSUME NamesAssumption ==
    /\ None \notin Path
    /\ {None, Absent, Partial} \cap Content = {}
    /\ Absent # Partial
    /\ None \notin {Absent, Partial}
    /\ None \notin Plan
    /\ None \notin Worker
ASSUME ActionsAssumption ==
    /\ Actions \in [Plan -> [Index -> Action]]
    /\ \A p \in Plan, i \in Index :
          Actions[p][i].kind \in {"MOVE", "COPY"} => Actions[p][i].dst # None
ASSUME CandidatesAssumption == Candidates \in [Source -> Seq(Slot)]
\* The quarantine root lies outside every source root, and an action's
\* destination inside one.
ASSUME RootsAssumption == Slot \cap (Source \cup Target) = {}
\* A cold copy gets a name made of its plan's id, in a root of copies that does
\* not overlap the scanned one; the executor itself checks neither.
ASSUME CopiesAssumption ==
    \A p \in Plan, i \in Index :
       Actions[p][i].kind = "COPY" =>
          /\ Actions[p][i].dst \notin Source
          /\ \A k \in Index \ {i} : Actions[p][k].kind \in {"MOVE", "COPY"} =>
                Actions[p][k].dst # Actions[p][i].dst
\* A plan of the planner has one action for each file of a duplicate group; a
\* plan with a destination is a single rename or copy, onto a path that does
\* not exist.  The executor checks neither.
ASSUME PlansAssumption ==
    \A p \in Plan, i, k \in Index :
       Actions[p][i].kind # "KEEP" /\ Actions[p][k].kind # "KEEP" =>
          /\ i # k => Actions[p][i].src # Actions[p][k].src
          /\ Actions[p][i].kind \in {"MOVE", "COPY"} =>
                Actions[p][i].dst # Actions[p][k].src
ASSUME ShaAssumption == DOMAIN Sha = Content
\* What has the digest of a scanned file is a scanned content.
ASSUME ForeignAssumption == \A c \in Foreign, s \in Source : Sha[c] # Sha[s]
ASSUME CriticalAssumption == Critical \subseteq Plan
ASSUME FaultsAssumption == DbFaults \in BOOLEAN /\ Cancels \in BOOLEAN
ASSUME BoundsAssumption == MaxEdits \in Nat /\ MaxCrashes \in Nat

VARIABLES
    \* the database
    state,       \* state[p]: operation_plans.state, "NONE" before insertion
    journal,     \* journal[p][i]: the execution_journal row of an action
    items,       \* quarantine_items rows
    \* the file system
    data,        \* data[x]: what is stored at path x
    scanned,     \* source paths whose metadata is still that of the scan
    harmed,      \* instances of which another program destroyed a copy
    \* the processes
    lock,        \* holder of the execution lock
    job,         \* job[w]: the volatile state of worker w
    edits, crashes

dbVars == <<state, journal, items>>
fsVars == <<data, scanned, harmed>>
bounds == <<edits, crashes>>
vars == <<state, journal, items, data, scanned, harmed, lock, job,
          edits, crashes>>

State == {"NONE", "DRAFT", "APPROVED", "STALE_CHECKED", "EXECUTING",
          "VERIFIED", "ROLLED_BACK"}
Row == [status : {"none", "pending", "done", "failed"},
        rb : {"none", "done", "failed"},
        target : Path \cup {None}]
Item == [plan : Plan, index : Index, path : Path]
Pc == {"idle", "next", "check", "reserved", "claim", "act", "copy", "fill",
       "verify", "remove", "uncopy", "succeeded", "failed", "undo",
       "commit", "abort"}
Job == [pc : Pc,
        mode : {"do", "undo", "recover"},      \* what a file step is part of
        batch : SUBSET Plan,                   \* plans still to process
        plan : Plan \cup {None},
        idx : 0..(Size + 1),                   \* the action in progress
        from : Path \cup {None},               \* its file copy
        to : Path \cup {None},
        buf : Content \cup {None, Partial},    \* content read when it opened
        at : [Index -> Path \cup {None}],      \* rollbacks: where files went
        ok : BOOLEAN,                          \* every rollback confirmed
        cancelled : BOOLEAN]                   \* ctx.Err() # nil

NoRow == [status |-> "none", rb |-> "none", target |-> None]
Nowhere == [i \in Index |-> None]
Idle == [pc |-> "idle", mode |-> "do", batch |-> {}, plan |-> None, idx |-> 0,
         from |-> None, to |-> None, buf |-> None, at |-> Nowhere,
         ok |-> TRUE, cancelled |-> FALSE]

Init ==
    /\ state = [p \in Plan |-> "NONE"]
    /\ journal = [p \in Plan |-> [i \in Index |-> NoRow]]
    /\ items = {}
    /\ data = [x \in Path |-> IF x \in Source THEN x ELSE Absent]
    /\ scanned = Source
    /\ harmed = {}
    /\ lock = None
    /\ job = [w \in Worker |-> Idle]
    /\ edits = 0
    /\ crashes = 0

-----------------------------------------------------------------------------
(* What the code reads. *)

\* touchesFilesystem, journalTouchesFilesystem
Work(p) == {i \in Index : Actions[p][i].kind # "KEEP"}

Journaled(p) == \E i \in Index : journal[p][i].status # "none"

\* ListExecutingPlans: the recovery lock of the whole database
Reserved == {p \in Plan : \/ state[p] \in {"STALE_CHECKED", "EXECUTING"}
                          \/ state[p] = "APPROVED" /\ Journaled(p)}

\* VerifyFile, and the hash part of a snapshot
HasHashOf(c, s) == c \in Content /\ Sha[c] = Sha[s]

\* staleCheckAll: every file an action will touch is as it was scanned
Fresh(p) == \A i \in Work(p) :
               LET s == Actions[p][i].src
               IN  s \in scanned /\ HasHashOf(data[s], s)

\* ResolveCollision: the first candidate name that is free, if there is one
Free(s) == {k \in 1..Len(Candidates[s]) : data[Candidates[s][k]] = Absent}
FirstFree(s) == {Candidates[s][k] : k \in {n \in Free(s) : \A m \in Free(s) : n <= m}}

Destinations(a) == IF a.kind = "QUARANTINE" THEN FirstFree(a.src) ELSE {a.dst}

\* The guards of CompletePlanExecution.
CommitReady(p) == \A i \in Work(p) :
                     journal[p][i].status = "done" /\ journal[p][i].rb = "none"
AbortReady(p) == \A i \in Work(p) : journal[p][i].rb = "done"

\* recoverPlan refuses to touch files unless every row is settled
Uncertain(p) == \E i \in Work(p) :
                   /\ journal[p][i].rb # "done"
                   /\ ~(journal[p][i].status = "done" /\ journal[p][i].rb = "none")

\* A database operation with worker w's context
DbOk(w) == ~job[w].cancelled
DbErr(w) == DbFaults \/ job[w].cancelled

-----------------------------------------------------------------------------
(* How a worker moves on. *)

At(w, pc) == job[w].pc = pc

Goto(w, pc) == job' = [job EXCEPT ![w] = [@ EXCEPT !.pc = pc]]

\* The batch loop goes to its next plan.
NextOf(w) == [Idle EXCEPT !.pc = "next",
                          !.mode = IF job[w].mode = "recover" THEN "recover"
                                                              ELSE "do",
                          !.batch = job[w].batch \ {job[w].plan},
                          !.cancelled = job[w].cancelled]
Continue(w) == job' = [job EXCEPT ![w] = NextOf(w)] /\ UNCHANGED lock

\* Mutant of Stop: the lock file is not closed on the way out.
StopKeepsLock(w) == job' = [job EXCEPT ![w] = Idle] /\ UNCHANGED lock

\* LifecycleErr: the rest of the batch is skipped and the lock released.
Stop(w) == job' = [job EXCEPT ![w] = Idle] /\ lock' = None

\* After a failed plan the durable state is read again; if it cannot be
\* read, or still reserves the plan, the batch stops.
Settle(w) ==
    LET reserved == state'[job[w].plan] \in {"STALE_CHECKED", "EXECUTING"}
    IN  \/ ~reserved /\ DbOk(w) /\ Continue(w)
        \/ (reserved \/ DbErr(w)) /\ Stop(w)

SetState(p, s) == state' = [state EXCEPT ![p] = s] /\ UNCHANGED <<journal, items>>
SetRow(p, i, row) == journal' = [journal EXCEPT ![p][i] = row]
                     /\ UNCHANGED <<state, items>>

\* A worker writes c at path x (Absent: removes x).
Put(x, c) == /\ data' = [data EXCEPT ![x] = c]
             /\ scanned' = scanned \ {x}
             /\ UNCHANGED harmed

\* Best-effort os.Remove of an output, its error ignored
DropOutput(x) == Put(x, Absent) \/ UNCHANGED fsVars

-----------------------------------------------------------------------------
(* The callers: planning, approval, the start of a run. *)

SaveDraft(p) ==
    /\ state[p] = "NONE"
    /\ SetState(p, "DRAFT")
    /\ UNCHANGED <<fsVars, lock, job, bounds>>

Approve(p) ==
    /\ state[p] = "DRAFT"
    /\ p \notin Critical
    /\ Reserved = {}
    /\ SetState(p, "APPROVED")
    /\ UNCHANGED <<fsVars, lock, job, bounds>>

\* Takes the lock, refuses while anything needs recovery, and inserts the
\* plans of the approved file that the database does not have.
StartExecute(w, ps) ==
    /\ At(w, "idle")
    /\ lock = None
    /\ Reserved = {}
    /\ ps # {}
    /\ lock' = w
    /\ state' = [p \in Plan |-> IF p \in ps /\ state[p] = "NONE"
                                THEN "APPROVED" ELSE state[p]]
    /\ job' = [job EXCEPT ![w] = [Idle EXCEPT !.pc = "next", !.batch = ps]]
    /\ UNCHANGED <<journal, items, fsVars, bounds>>

\* The authoritative plan is read; only an approved one is executed.
NextPlan(w, p) ==
    /\ At(w, "next") /\ job[w].mode = "do" /\ p \in job[w].batch /\ DbOk(w)
    /\ job' = [job EXCEPT ![w] =
                  IF state[p] = "APPROVED"
                  THEN [@ EXCEPT !.plan = p, !.pc = "check"]
                  ELSE [@ EXCEPT !.batch = job[w].batch \ {p}]]
    /\ UNCHANGED <<dbVars, fsVars, lock, bounds>>

\* The batch is empty, or a plan cannot be loaded.
EndBatch(w) ==
    /\ At(w, "next")
    /\ job[w].batch = {} \/ (job[w].mode = "do" /\ DbErr(w))
    /\ Stop(w)
    /\ UNCHANGED <<dbVars, fsVars, bounds>>

-----------------------------------------------------------------------------
(* Executor.Execute up to the first file action. *)

\* validatePlanScope or the stale check itself fails: nothing has changed.
CheckFails(w) ==
    /\ At(w, "check")
    /\ UNCHANGED <<dbVars, fsVars, bounds>>
    /\ Settle(w)

\* A file changed since the scan: the approval is withdrawn.
Invalidate(w) ==
    LET p == job[w].plan
    IN  /\ At(w, "check")
        /\ ~Fresh(p)
        /\ \/ /\ DbOk(w) /\ state[p] = "APPROVED"
              /\ SetState(p, "DRAFT")
              /\ Settle(w)
           \/ /\ DbErr(w)
              /\ UNCHANGED dbVars
              /\ Stop(w)
        /\ UNCHANGED <<fsVars, bounds>>

\* CompareAndSwapPlanState APPROVED -> STALE_CHECKED
Reserve(w) ==
    LET p == job[w].plan
    IN  /\ At(w, "check")
        /\ Fresh(p)
        /\ DbOk(w) /\ state[p] = "APPROVED" /\ ~Journaled(p)
        /\ SetState(p, "STALE_CHECKED")
        /\ Goto(w, "reserved")
        /\ UNCHANGED <<fsVars, lock, bounds>>

ReserveFails(w) ==
    /\ At(w, "check")
    /\ Fresh(job[w].plan)
    /\ DbErr(w)
    /\ UNCHANGED <<dbVars, fsVars, bounds>>
    /\ Settle(w)

\* Mutant of BeginJournal: the row of the last action is left out.
BeginJournalShort(w) ==
    LET p == job[w].plan
    IN  /\ At(w, "reserved")
        /\ DbOk(w)
        /\ journal' = [journal EXCEPT ![p] =
              [i \in Index |-> IF i \in Work(p) /\ i < Size
                               THEN [NoRow EXCEPT !.status = "pending",
                                                  !.target = Actions[p][i].dst]
                               ELSE @[i]]]
        /\ Goto(w, "claim")
        /\ UNCHANGED <<state, items, fsVars, lock, bounds>>

\* One pending row for every file action, in one transaction
BeginJournal(w) ==
    LET p == job[w].plan
    IN  /\ At(w, "reserved")
        /\ DbOk(w)
        /\ journal' = [journal EXCEPT ![p] =
              [i \in Index |-> IF i \in Work(p) /\ @[i] = NoRow
                               THEN [NoRow EXCEPT !.status = "pending",
                                                  !.target = Actions[p][i].dst]
                               ELSE @[i]]]
        /\ Goto(w, "claim")
        /\ UNCHANGED <<state, items, fsVars, lock, bounds>>

\* The reservation is given back; if that fails too the batch stops.
BeginJournalFails(w) ==
    LET p == job[w].plan
    IN  /\ At(w, "reserved")
        /\ DbErr(w)
        /\ \/ /\ DbOk(w) /\ state[p] = "STALE_CHECKED" /\ ~Journaled(p)
              /\ SetState(p, "APPROVED")
              /\ Settle(w)
           \/ /\ UNCHANGED dbVars
              /\ Stop(w)
        /\ UNCHANGED <<fsVars, bounds>>

\* CompareAndSwapPlanState STALE_CHECKED -> EXECUTING
Claim(w) ==
    LET p == job[w].plan
    IN  /\ At(w, "claim")
        /\ DbOk(w) /\ state[p] = "STALE_CHECKED"
        /\ SetState(p, "EXECUTING")
        /\ job' = [job EXCEPT ![w] = [@ EXCEPT !.pc = "act", !.idx = 1]]
        /\ UNCHANGED <<fsVars, lock, bounds>>

\* Mutant of ClaimFails: the batch goes on although the plan stays reserved.
ClaimFailsGoesOn(w) ==
    /\ At(w, "claim")
    /\ DbErr(w)
    /\ UNCHANGED <<dbVars, fsVars, bounds>>
    /\ Continue(w)

ClaimFails(w) ==
    /\ At(w, "claim")
    /\ DbErr(w)
    /\ UNCHANGED <<dbVars, fsVars, bounds>>
    /\ Stop(w)

-----------------------------------------------------------------------------
(* The action loop. *)

ActFinished(w) ==
    /\ At(w, "act")
    /\ job[w].idx > Size
    /\ Goto(w, "commit")
    /\ UNCHANGED <<dbVars, fsVars, lock, bounds>>

ActCancelled(w) ==
    /\ At(w, "act")
    /\ job[w].idx \in Index
    /\ job[w].cancelled
    /\ job' = [job EXCEPT ![w] = [@ EXCEPT !.pc = "undo", !.mode = "undo"]]
    /\ UNCHANGED <<dbVars, fsVars, lock, bounds>>

\* Mutant of ActSkip: the loop's own increment comes on top.
ActSkipTwice(w) ==
    /\ At(w, "act")
    /\ job[w].idx \in Index \ Work(job[w].plan)
    /\ ~job[w].cancelled
    /\ job' = [job EXCEPT ![w] = [@ EXCEPT !.idx = job[w].idx + 2]]
    /\ UNCHANGED <<dbVars, fsVars, lock, bounds>>

ActSkip(w) ==
    /\ At(w, "act")
    /\ job[w].idx \in Index \ Work(job[w].plan)
    /\ ~job[w].cancelled
    /\ job' = [job EXCEPT ![w] = [@ EXCEPT !.idx = job[w].idx + 1]]
    /\ UNCHANGED <<dbVars, fsVars, lock, bounds>>

\* executeAction: the destination is chosen, then the file is copied to it.
\* An unsafe or exhausted quarantine name fails the action.
ActBegin(w) ==
    LET a == Actions[job[w].plan][job[w].idx]
    IN  /\ At(w, "act")
        /\ job[w].idx \in Work(job[w].plan)
        /\ ~job[w].cancelled
        /\ \/ \E dst \in Destinations(a) :
                 job' = [job EXCEPT ![w] = [@ EXCEPT !.pc = "copy",
                                            !.from = a.src, !.to = dst]]
           \/ /\ a.kind = "QUARANTINE"
              /\ Goto(w, "failed")
        /\ UNCHANGED <<dbVars, fsVars, lock, bounds>>

-----------------------------------------------------------------------------
(* MoveFile and CopyAndVerify, shared by actions and rollbacks. *)

\* CopyFile opens the source and creates the destination with O_EXCL.
CopyOpens(w) ==
    LET j == job[w]
    IN  /\ At(w, "copy")
        /\ data[j.from] # Absent
        /\ data[j.to] = Absent
        /\ Put(j.to, Partial)
        /\ job' = [job EXCEPT ![w] = [@ EXCEPT !.pc = "fill", !.buf = data[j.from]]]
        /\ UNCHANGED <<dbVars, lock, bounds>>

\* The source is missing, the destination exists, or the system refuses.
CopyRefused(w) ==
    /\ At(w, "copy")
    /\ Goto(w, "failed")
    /\ UNCHANGED <<dbVars, fsVars, lock, bounds>>

\* The bytes arrive: those of the file that was opened, those another program
\* left there meanwhile, or a damaged copy that no system call reported.
\* A destination replaced meanwhile keeps what the other program wrote.
CopyFills(w) ==
    LET j == job[w]
    IN  /\ At(w, "fill")
        /\ \/ /\ data[j.to] = Partial
              /\ \E c \in {j.buf, data[j.from], Partial} \ {Absent} : Put(j.to, c)
           \/ /\ data[j.to] # Partial
              /\ UNCHANGED fsVars
        /\ Goto(w, "verify")
        /\ UNCHANGED <<dbVars, lock, bounds>>

CopyFails(w) ==
    /\ At(w, "fill")
    /\ DropOutput(job[w].to)
    /\ Goto(w, "failed")
    /\ UNCHANGED <<dbVars, lock, bounds>>

\* Mutant of VerifyPasses: a copy without an error is taken for a good one.
VerifyTrustsCopy(w) ==
    LET j == job[w]
    IN  /\ At(w, "verify")
        /\ data[j.to] # Absent
        /\ Goto(w, IF Actions[j.plan][j.idx].kind = "COPY" THEN "succeeded" ELSE "remove")
        /\ UNCHANGED <<dbVars, fsVars, lock, bounds>>

\* VerifyFile against the digest recorded when the file was scanned; COPY
\* ends here, the other actions remove the source.
VerifyPasses(w) ==
    LET j == job[w]
        a == Actions[j.plan][j.idx]
    IN  /\ At(w, "verify")
        /\ HasHashOf(data[j.to], a.src)
        /\ Goto(w, IF a.kind = "COPY" THEN "succeeded" ELSE "remove")
        /\ UNCHANGED <<dbVars, fsVars, lock, bounds>>

VerifyFails(w) ==
    /\ At(w, "verify")
    /\ DropOutput(job[w].to)
    /\ Goto(w, "failed")
    /\ UNCHANGED <<dbVars, lock, bounds>>

\* SafeRemove of the source: no look at what is being removed
RemoveSource(w) ==
    LET j == job[w]
    IN  /\ At(w, "remove")
        /\ data[j.from] # Absent
        /\ Put(j.from, Absent)
        /\ Goto(w, "succeeded")
        /\ UNCHANGED <<dbVars, lock, bounds>>

RemoveFails(w) ==
    /\ At(w, "remove")
    /\ DropOutput(job[w].to)
    /\ Goto(w, "failed")
    /\ UNCHANGED <<dbVars, lock, bounds>>

\* The rollback of COPY removes the copy: unseen in the run that made it,
\* after a digest check in recovery.
RemoveCopy(w) ==
    LET j == job[w]
    IN  /\ At(w, "uncopy")
        /\ data[j.from] # Absent
        /\ j.mode = "recover" => HasHashOf(data[j.from], Actions[j.plan][j.idx].src)
        /\ Put(j.from, Absent)
        /\ Goto(w, "succeeded")
        /\ UNCHANGED <<dbVars, lock, bounds>>

RemoveCopyFails(w) ==
    /\ At(w, "uncopy")
    /\ Goto(w, "failed")
    /\ UNCHANGED <<dbVars, fsVars, lock, bounds>>

-----------------------------------------------------------------------------
(* What a finished or failed file step is recorded as. *)

\* MarkJournalDone: the next action waits for it.
MarkDone(w) ==
    LET j == job[w]
        i == j.idx
    IN  /\ At(w, "succeeded") /\ j.mode = "do"
        /\ DbOk(w)
        /\ SetRow(j.plan, i, [journal[j.plan][i] EXCEPT !.status = "done",
                                                        !.target = j.to])
        /\ job' = [job EXCEPT ![w] = [@ EXCEPT !.pc = "act", !.idx = i + 1,
                      !.at = [j.at EXCEPT ![i] = j.to],
                      !.from = None, !.to = None, !.buf = None]]
        /\ UNCHANGED <<fsVars, lock, bounds>>

MarkDoneFails(w) ==
    LET j == job[w]
    IN  /\ At(w, "succeeded") /\ j.mode = "do"
        /\ DbErr(w)
        /\ job' = [job EXCEPT ![w] = [@ EXCEPT !.pc = "undo", !.mode = "undo",
                      !.at = [j.at EXCEPT ![j.idx] = j.to]]]
        /\ UNCHANGED <<dbVars, fsVars, lock, bounds>>

\* MarkJournalFailed, whose own error is ignored; then the rollback starts.
MarkFailed(w) ==
    LET j == job[w]
    IN  /\ At(w, "failed") /\ j.mode = "do"
        /\ \/ /\ DbOk(w)
              /\ SetRow(j.plan, j.idx,
                        [journal[j.plan][j.idx] EXCEPT !.status = "failed"])
           \/ DbErr(w) /\ UNCHANGED dbVars
        /\ job' = [job EXCEPT ![w] = [@ EXCEPT !.pc = "undo", !.mode = "undo"]]
        /\ UNCHANGED <<fsVars, lock, bounds>>

\* rollbackAll and recoverPlan: the completed actions, last one first
UndoBegins(w) ==
    LET j == job[w]
    IN  /\ At(w, "undo")
        /\ \E i \in Index :
              LET a == Actions[j.plan][i]
              IN  /\ j.at[i] # None
                  /\ \A k \in Index : k > i => j.at[k] = None
                  /\ job' = [job EXCEPT ![w] = [@ EXCEPT
                        !.idx = i, !.from = j.at[i], !.buf = None,
                        !.pc = IF a.kind = "COPY" THEN "uncopy" ELSE "copy",
                        !.to = IF a.kind = "COPY" THEN None ELSE a.src]]
        /\ UNCHANGED <<dbVars, fsVars, lock, bounds>>

\* MarkJournalRolledBack with the outcome of the rollback.  A run goes on
\* with the other rollbacks whatever the outcome; recovery of this plan ends
\* unless the rollback is durably confirmed.
Undone(w, fine, saved) ==
    LET j == job[w]
    IN  /\ IF saved
           THEN /\ DbOk(w)
                /\ SetRow(j.plan, j.idx, [journal[j.plan][j.idx] EXCEPT
                              !.rb = IF fine THEN "done" ELSE "failed"])
           ELSE DbErr(w) /\ UNCHANGED dbVars
        /\ IF j.mode = "recover" /\ ~(fine /\ saved)
           THEN Continue(w)
           ELSE /\ job' = [job EXCEPT ![w] = [@ EXCEPT !.pc = "undo",
                              !.at = [j.at EXCEPT ![j.idx] = None],
                              !.ok = j.ok /\ fine /\ saved]]
                /\ UNCHANGED lock
        /\ UNCHANGED <<fsVars, bounds>>

UndoSucceeded(w) ==
    /\ At(w, "succeeded") /\ job[w].mode # "do"
    /\ \E saved \in BOOLEAN : Undone(w, TRUE, saved)

\* Mutant of UndoFailed: a failed rollback is recorded as a confirmed one.
UndoErrorIgnored(w) ==
    /\ At(w, "failed") /\ job[w].mode # "do"
    /\ \E saved \in BOOLEAN : Undone(w, TRUE, saved)

UndoFailed(w) ==
    /\ At(w, "failed") /\ job[w].mode # "do"
    /\ \E saved \in BOOLEAN : Undone(w, FALSE, saved)

\* Only a confirmed rollback may end as ROLLED_BACK; otherwise the plan
\* stays EXECUTING and the batch stops.
UndoEnds(w) ==
    /\ At(w, "undo")
    /\ job[w].at = Nowhere
    /\ IF job[w].ok THEN Goto(w, "abort") /\ UNCHANGED lock ELSE Stop(w)
    /\ UNCHANGED <<dbVars, fsVars, bounds>>

-----------------------------------------------------------------------------
(* CompletePlanExecution: the plan's end and its lifecycle rows together. *)

\* INSERT OR IGNORE: a path or an action that has a row gets no other.
Registered(p) ==
    items \cup {[plan |-> p, index |-> i, path |-> journal[p][i].target] :
                   i \in {k \in Work(p) :
                            /\ Actions[p][k].kind = "QUARANTINE"
                            /\ \A r \in items :
                                  /\ r.path # journal[p][k].target
                                  /\ r.plan # p \/ r.index # k}}

FinalizeVerified(w) ==
    LET p == job[w].plan
    IN  /\ At(w, "commit")
        /\ DbOk(w) /\ state[p] = "EXECUTING" /\ CommitReady(p)
        /\ state' = [state EXCEPT ![p] = "VERIFIED"]
        /\ items' = Registered(p)
        /\ Continue(w)
        /\ UNCHANGED <<journal, fsVars, bounds>>

FinalizeVerifiedFails(w) ==
    /\ At(w, "commit")
    /\ DbErr(w) \/ ~CommitReady(job[w].plan)
    /\ UNCHANGED <<dbVars, fsVars, bounds>>
    /\ Stop(w)

FinalizeRolledBack(w) ==
    LET p == job[w].plan
    IN  /\ At(w, "abort") /\ job[w].mode = "undo"
        /\ DbOk(w) /\ state[p] = "EXECUTING" /\ AbortReady(p)
        /\ SetState(p, "ROLLED_BACK")
        /\ Settle(w)
        /\ UNCHANGED <<fsVars, bounds>>

FinalizeRolledBackFails(w) ==
    /\ At(w, "abort") /\ job[w].mode = "undo"
    /\ DbErr(w) \/ ~AbortReady(job[w].plan)
    /\ UNCHANGED <<dbVars, fsVars, bounds>>
    /\ Stop(w)

-----------------------------------------------------------------------------
(* Executor.Recover; its context is never cancelled. *)

StartRecover(w) ==
    /\ At(w, "idle")
    /\ lock = None
    /\ Reserved # {}
    /\ lock' = w
    /\ job' = [job EXCEPT ![w] = [Idle EXCEPT !.pc = "next", !.mode = "recover",
                                              !.batch = Reserved]]
    /\ UNCHANGED <<dbVars, fsVars, bounds>>

Recovering(w, p) == At(w, "next") /\ job[w].mode = "recover" /\ p \in job[w].batch

Leave(w, p) == job' = [job EXCEPT ![w] = [@ EXCEPT !.batch = job[w].batch \ {p}]] /\ UNCHANGED lock

\* Mutant of RecoverReset: every interrupted plan goes back to review.
RecoverResetsAll(w, p) ==
    /\ Recovering(w, p)
    /\ state[p] \in {"STALE_CHECKED", "EXECUTING"}
    /\ SetState(p, "DRAFT")
    /\ Leave(w, p)
    /\ UNCHANGED <<fsVars, bounds>>

\* No row was written, so no file was touched: back to review.
RecoverReset(w, p) ==
    /\ Recovering(w, p)
    /\ state[p] \in {"STALE_CHECKED", "EXECUTING"}
    /\ ~Journaled(p)
    /\ SetState(p, "DRAFT")
    /\ Leave(w, p)
    /\ UNCHANGED <<fsVars, bounds>>

\* The plan stays locked: its outcome is uncertain, or the database fails.
RecoverSkip(w, p) ==
    /\ Recovering(w, p)
    /\ DbFaults \/ (Journaled(p) /\ Uncertain(p))
                \/ state[p] \notin {"STALE_CHECKED", "EXECUTING"}
    /\ Leave(w, p)
    /\ UNCHANGED <<dbVars, fsVars, bounds>>

\* Mutant of RecoverBegin: rows of unknown outcome are rolled back as well.
RecoverBeginsUncertain(w, p) ==
    /\ Recovering(w, p)
    /\ state[p] \in {"STALE_CHECKED", "EXECUTING"}
    /\ Journaled(p)
    /\ job' = [job EXCEPT ![w] = [@ EXCEPT !.plan = p, !.pc = "undo",
                  !.at = [i \in Index |-> IF journal[p][i].rb = "done"
                                          THEN None ELSE journal[p][i].target]]]
    /\ UNCHANGED <<dbVars, fsVars, lock, bounds>>

RecoverBegin(w, p) ==
    /\ Recovering(w, p)
    /\ state[p] \in {"STALE_CHECKED", "EXECUTING"}
    /\ Journaled(p)
    /\ ~Uncertain(p)
    /\ job' = [job EXCEPT ![w] = [@ EXCEPT !.plan = p, !.pc = "undo",
                  !.at = [i \in Index |-> IF journal[p][i].rb = "done"
                                          THEN None ELSE journal[p][i].target]]]
    /\ UNCHANGED <<dbVars, fsVars, lock, bounds>>

\* CompareAndSwapPlanState to ROLLED_BACK
RecoverEnd(w) ==
    LET p == job[w].plan
    IN  /\ At(w, "abort") /\ job[w].mode = "recover"
        /\ \/ /\ state[p] \in {"STALE_CHECKED", "EXECUTING"}
              /\ AbortReady(p)
              /\ SetState(p, "ROLLED_BACK")
           \/ (DbFaults \/ ~AbortReady(p)) /\ UNCHANGED dbVars
        /\ Continue(w)
        /\ UNCHANGED <<fsVars, bounds>>

-----------------------------------------------------------------------------
(* What happens to the processes from outside. *)

\* SIGINT or SIGTERM to a run of the command line program
Cancel(w) ==
    /\ Cancels
    /\ ~At(w, "idle") /\ job[w].mode # "recover" /\ ~job[w].cancelled
    /\ job' = [job EXCEPT ![w] = [@ EXCEPT !.cancelled = TRUE]]
    /\ UNCHANGED <<dbVars, fsVars, lock, bounds>>

\* The process dies: memory is lost and the lock file is released; the
\* database and the file system stay as they are.
Crash ==
    /\ crashes < MaxCrashes
    /\ lock # None
    /\ crashes' = crashes + 1
    /\ job' = [w \in Worker |-> Idle]
    /\ lock' = None
    /\ UNCHANGED <<dbVars, fsVars, edits>>

\* Another program overwrites, creates or deletes a file.  Overwriting in
\* place may leave size, time and inode as they were.
ExternalEdit(x, c) ==
    /\ edits < MaxEdits
    /\ c # data[x]
    /\ edits' = edits + 1
    /\ data' = [data EXCEPT ![x] = c]
    /\ \/ scanned' = scanned \ {x}
       \/ c # Absent /\ data[x] # Absent /\ scanned' = scanned
    /\ harmed' = harmed \cup ({data[x]} \cap Source)
    /\ UNCHANGED <<dbVars, lock, job, crashes>>

-----------------------------------------------------------------------------
FileStep(w) ==
    \/ CopyOpens(w) \/ CopyRefused(w) \/ CopyFills(w) \/ CopyFails(w)
    \/ VerifyPasses(w) \/ VerifyFails(w)
    \/ RemoveSource(w) \/ RemoveFails(w)
    \/ RemoveCopy(w) \/ RemoveCopyFails(w)

\* The steps a started job takes by itself
Step(w) ==
    \/ EndBatch(w)
    \/ \E p \in Plan : \/ NextPlan(w, p) \/ RecoverReset(w, p)
                       \/ RecoverSkip(w, p) \/ RecoverBegin(w, p)
    \/ CheckFails(w) \/ Invalidate(w) \/ Reserve(w) \/ ReserveFails(w)
    \/ BeginJournal(w) \/ BeginJournalFails(w) \/ Claim(w) \/ ClaimFails(w)
    \/ ActFinished(w) \/ ActCancelled(w) \/ ActSkip(w) \/ ActBegin(w)
    \/ FileStep(w)
    \/ MarkDone(w) \/ MarkDoneFails(w) \/ MarkFailed(w)
    \/ UndoBegins(w) \/ UndoSucceeded(w) \/ UndoFailed(w) \/ UndoEnds(w)
    \/ FinalizeVerified(w) \/ FinalizeVerifiedFails(w)
    \/ FinalizeRolledBack(w) \/ FinalizeRolledBackFails(w)
    \/ RecoverEnd(w)

Next ==
    \/ \E p \in Plan : SaveDraft(p) \/ Approve(p)
    \/ \E w \in Worker : \/ \E ps \in SUBSET Plan : StartExecute(w, ps)
                         \/ StartRecover(w)
                         \/ Step(w)
                         \/ Cancel(w)
    \/ Crash
    \/ \E x \in Path, c \in Foreign \cup {Absent} : ExternalEdit(x, c)

Spec == Init /\ [][Next]_vars

\* A job that was started is run to its end; nobody has to start one.
FairSpec == Spec /\ \A w \in Worker : WF_vars(Step(w))

-----------------------------------------------------------------------------
(* Correctness *)

\* Every variable has values of its sort, and every row stays within its
\* plan's actions.
TypeOK ==
    /\ state \in [Plan -> State]
    /\ journal \in [Plan -> [Index -> Row]]
    /\ items \subseteq Item
    /\ data \in [Path -> Content \cup {Absent, Partial}]
    /\ scanned \subseteq Source
    /\ harmed \subseteq Source
    /\ lock \in Worker \cup {None}
    /\ job \in [Worker -> Job]
    /\ edits \in 0..MaxEdits
    /\ crashes \in 0..MaxCrashes

\* Rows exist for file actions only, from BeginJournal on; they all exist once
\* the plan is EXECUTING, and nothing is recorded as done before that.
RowOK(p, i) ==
    LET r == journal[p][i]
    IN  /\ \/ i \notin Work(p)
           \/ state[p] \in {"NONE", "DRAFT", "APPROVED"}
           \/ r.status = "none"
           => r = NoRow
        /\ r.status = "done" => r.target \in Path
        /\ state[p] = "STALE_CHECKED" => r.status \in {"none", "pending"} /\ r.rb = "none"
        /\ state[p] = "EXECUTING" /\ i \in Work(p) => r.status # "none"
RowsOK == \A p \in Plan, i \in Index : RowOK(p, i)

\* Where a worker that has written EXECUTING may be
Filing == {"copy", "fill", "verify", "remove", "uncopy", "succeeded", "failed"}
Busy == Filing \cup {"act", "undo", "commit", "abort"}

\* What a job holds in memory agrees with what the database holds.
Agrees(j) ==
    LET p == j.plan
    IN  /\ j.pc \in {"check", "reserved", "claim", "act", "commit"} => j.mode = "do"
        /\ j.pc \in {"undo", "uncopy", "abort"} => j.mode # "do"
        /\ j.pc = "next" /\ j.mode # "recover" => Reserved = {}
        /\ j.pc \in {"next", "check", "reserved", "claim"} => j.at = Nowhere
        /\ j.pc = "check" => p \in Plan /\ Reserved = {}
        /\ j.pc \in {"reserved", "claim"} => p \in Plan /\ state[p] = "STALE_CHECKED"
        /\ j.pc = "claim" => \A i \in Work(p) : journal[p][i].status # "none"
        /\ j.pc \in Busy => /\ p \in Plan
                            /\ state[p] = "EXECUTING"
                            /\ \A i \in Index : j.at[i] # None =>
                                  i \in Work(p) /\ journal[p][i].rb # "done"
                            /\ j.mode = "do" =>
                                  \A i \in Work(p) : journal[p][i].rb = "none"
                            /\ j.mode = "recover" => ~Uncertain(p)
        /\ j.pc \in Filing => /\ j.idx \in Work(p)
                              /\ journal[p][j.idx].rb # "done"
        /\ j.pc \in Filing \ {"failed"} =>
              /\ j.from \in Path
              /\ j.mode = "do" => j.to \in Path
        /\ j.pc \in {"copy", "fill", "verify", "remove"} => j.to \in Path
        /\ j.pc = "fill" => j.buf # None

JobOK(w) == Agrees(job[w]) /\ (lock = w <=> job[w].pc # "idle")

\* A run and the database tell the same story: together with TypeOK and
\* OneReservation this is inductive.
Agreement == RowsOK /\ \A w \in Worker : JobOK(w)

\* Whatever fails, crashes or is cancelled between two file operations of a
\* move, a rollback or a recovery, some path still holds every scanned file
\* of which no other program destroyed a copy.
EveryFileSurvives ==
    \A s \in Source \ harmed : \E x \in Path : data[x] = s

\* The lock, the stop on an uncertain outcome and the refusal to start before
\* recovery leave at most one plan of the database reserved.
OneReservation == \A p, q \in Reserved : p = q

\* A file changes under the executor's hands only while its plan is EXECUTING
\* by the holder of the lock, with a durable journal row that names the file
\* and has not been settled by a rollback; recovery touches files only of a
\* plan with no uncertain row.
WriteAhead ==
    [][\A x \in Path : data'[x] # data[x] /\ edits' = edits =>
          /\ lock # None
          /\ LET j == job[lock]
                 row == journal[j.plan][j.idx]
             IN  /\ state[j.plan] = "EXECUTING"
                 /\ row.status # "none" /\ row.rb # "done"
                 /\ x \in {Actions[j.plan][j.idx].src, j.from, j.to}
                 /\ j.mode = "recover" => ~Uncertain(j.plan)]_vars

\* A plan becomes VERIFIED only when each of its files is, with the recorded
\* digest, at the path its journal row names, and a moved file is no longer at
\* its source path. It becomes ROLLED_BACK only when each of its files is back
\* at its source path with the recorded digest. A file that another program
\* changed is that program's concern.
OutcomesAreReal ==
    [][\A p \in Plan : state'[p] # state[p] =>
          \A i \in Work(p) :
             LET a == Actions[p][i]
             IN  /\ state'[p] = "VERIFIED" =>
                       \/ a.src \in harmed
                       \/ /\ HasHashOf(data[journal[p][i].target], a.src)
                          /\ a.kind # "COPY" => data[a.src] # a.src
                 /\ state'[p] = "ROLLED_BACK" =>
                       a.src \in harmed \/ HasHashOf(data[a.src], a.src)]_vars

\* No run and no recovery holds the execution lock for ever.
LockReleased == lock # None ~> lock = None

\* The durable journal and plan states implement the pipeline's promise.
Pipeline == INSTANCE PlanPipeline WITH
    FileWork <- [p \in Plan |-> Work(p)],
    applied <- [p \in Plan |-> {i \in Index :
                  journal[p][i].status = "done" /\ journal[p][i].rb # "done"}],
    undone <- [p \in Plan |-> {i \in Index : journal[p][i].rb = "done"}]

PipelineSpec == Pipeline!Spec

-----------------------------------------------------------------------------
(* What the documents say and the code does not do. *)

\* "already-executed actions are rolled back in reverse order before the plan
\* transitions to ROLLED_BACK" (executor.go): a run whose rollbacks are all
\* confirmed ends its plan.
ConfirmedRollbackEnds ==
    [][\A w \in Worker : At(w, "abort") /\ job[w].mode = "undo"
          /\ job'[w].pc # "abort" => state'[job[w].plan] = "ROLLED_BACK"]_vars
=============================================================================
