----------------------------- MODULE JobManager -----------------------------
(***************************************************************************)
(* Background jobs: JobManager (internal/jobs), the rows and events it     *)
(* keeps in the store, the scan job that runs under it                     *)
(* (internal/app/scan_job.go), and the sessions of the processes that open *)
(* the database: the owner lease and the recovery of jobs at opening.      *)
(*                                                                         *)
(* UpdateJobState reads a row, checks the transition and then writes       *)
(* without looking again, so each caller of it is two steps here.          *)
(***************************************************************************)
EXTENDS Naturals

CONSTANTS
  Jobs,       \* job ids
  Calls,      \* calls of JobManager.Run, each in a goroutine of its own
  Users,      \* calls of JobManager.RequestCancel
  Procs,      \* processes that open the database for writing
  Scoped,     \* processes whose scans have an AccessContext
  Nobody,
  MaxOpens    \* bound on the openings of the project

ASSUME NobodyAssumption ==
  Nobody \notin Jobs \cup Calls \cup Procs

ASSUME BoundsAssumption == MaxOpens \in Nat

VARIABLES
  row,      \* job_runs.state
  last,     \* the last event of a job in job_events
  owner,    \* holder of the flock on the owner file of the database
  sess,     \* where a process is in opening the project
  todo,     \* jobs that Recover still has to fail
  failing,  \* the job whose failed event Recover has to append
  active,   \* JobManager.active: job -> call that executes it
  mu,       \* JobManager.mu
  call,     \* Run calls
  user,     \* RequestCancel calls
  opens     \* number of openings, for the bound

vars == <<row, last, owner, sess, todo, failing, active, mu, call, user, opens>>

-----------------------------------------------------------------------------
(* States, events and the legal transitions (jobs.go).                     *)

Paused == {"PAUSED_AUTHORIZATION", "PAUSED_NETWORK"}
Terminal == Paused \cup {"COMPLETED", "FAILED", "CANCELLED"}
Live == {"QUEUED", "RUNNING", "CANCEL_REQUESTED"}
JobState == Live \cup Terminal

TerminalEvents == {"completed", "failed", "cancelled", "paused_authorization",
                   "paused_network"}
EventType == TerminalEvents \cup {"created", "note"}   \* stage, progress, warning: a note

CanTransitionTo(from, to) ==
  \/ from = "QUEUED" /\ to \in {"RUNNING", "CANCELLED", "FAILED"}
  \/ from = "RUNNING" /\ to \in Paused \cup {"CANCEL_REQUESTED", "COMPLETED", "FAILED"}
  \/ from = "CANCEL_REQUESTED" /\ to \in {"CANCELLED", "COMPLETED", "FAILED"}

(* The check of UpdateJobState: a same-state update changes the stage only. *)
Accepts(from, to) == CanTransitionTo(from, to) \/ from = to

(* The state and the event of what the job function returned.              *)
FinalState == [ok |-> "COMPLETED", cancelled |-> "CANCELLED", failed |-> "FAILED",
               authorization |-> "PAUSED_AUTHORIZATION", network |-> "PAUSED_NETWORK"]
FinalEvent == [ok |-> "completed", cancelled |-> "cancelled", failed |-> "failed",
               authorization |-> "paused_authorization", network |-> "paused_network"]
Outcomes == DOMAIN FinalState

-----------------------------------------------------------------------------
(* Run calls.                                                              *)

Idle == [pc |-> "idle", job |-> Nobody, proc |-> Nobody, ctx |-> "live",
         out |-> "ok", poller |-> FALSE]

CallPc == {"idle", "create", "queued", "start_read", "start_write", "announce", "body",
           "stage_write", "stage_event", "join", "summary", "self_read", "self_write",
           "final_read", "final_write", "final_event", "leave", "done"}

(* Inside the job function: the scan of ScanJobRunner.runScanJob.           *)
InBody == {"body", "stage_write", "stage_event", "join", "summary", "self_read",
           "self_write"}
Executing == InBody \cup {"announce", "final_read", "final_write", "final_event"}
HoldsSlot == Executing \cup {"start_read", "start_write", "leave"}
HoldsMu == {"start_read", "start_write"}

At(c, pc) == call[c].pc = pc
Goto(c, pc) == call' = [call EXCEPT ![c].pc = pc]
Done == [Idle EXCEPT !.pc = "done"]
Return(c) == call' = [call EXCEPT ![c] = Done]
AppendEvent(j, e) == last' = [last EXCEPT ![j] = e]
SetRow(j, s) == row' = [row EXCEPT ![j] = s]

Init ==
  /\ row = [j \in Jobs |-> "NONE"]
  /\ last = [j \in Jobs |-> "none"]
  /\ owner = Nobody
  /\ sess = [p \in Procs |-> "closed"]
  /\ todo = [p \in Procs |-> {}]
  /\ failing = [p \in Procs |-> Nobody]
  /\ active = [p \in Procs |-> [j \in Jobs |-> Nobody]]
  /\ mu = [p \in Procs |-> Nobody]
  /\ call = [c \in Calls |-> Idle]
  /\ user = [u \in Users |-> [pc |-> "idle", job |-> Nobody, target |-> Nobody,
                              proc |-> Nobody]]
  /\ opens = 0

(* What ListJobsByState finds for Recover.                                  *)
Unfinished == {j \in Jobs : row[j] \in Live}

-----------------------------------------------------------------------------
(* Opening and closing a project.                                          *)

\* Mutant of OpenProject: the owner lease is not taken into account.
OpenWithoutLease(p) ==
  /\ sess[p] = "closed"
  /\ opens < MaxOpens
  /\ owner' = p
  /\ sess' = [sess EXCEPT ![p] = "recovering"]
  /\ todo' = [todo EXCEPT ![p] = Unfinished]
  /\ opens' = opens + 1
  /\ UNCHANGED <<row, last, failing, active, mu, call, user>>

(* store.Open takes the owner lease without waiting; then the composition   *)
(* root makes a JobManager and calls Recover, which lists unfinished jobs.  *)
(* The desktop ignores an error of the list and opens anyway.               *)
OpenProject(p) ==
  /\ owner = Nobody
  /\ sess[p] = "closed"
  /\ opens < MaxOpens
  /\ owner' = p
  /\ sess' = [sess EXCEPT ![p] = "recovering"]
  /\ \E found \in {{}, Unfinished} :
       todo' = [todo EXCEPT ![p] = found]
  /\ opens' = opens + 1
  /\ UNCHANGED <<row, last, failing, active, mu, call, user>>

(* Recover writes FAILED for a job of its list, or skips it on an error.    *)
RecoverMark(p, j) ==
  /\ sess[p] = "recovering" /\ failing[p] = Nobody /\ j \in todo[p]
  /\ todo' = [todo EXCEPT ![p] = @ \ {j}]
  /\ \/ /\ Accepts(row[j], "FAILED")
        /\ SetRow(j, "FAILED")
        /\ failing' = [failing EXCEPT ![p] = j]
     \/ UNCHANGED <<row, failing>>
  /\ UNCHANGED <<last, owner, sess, active, mu, call, user, opens>>

(* The failed event of a recovered job; its error is ignored.               *)
RecoverEvent(p) ==
  /\ sess[p] = "recovering" /\ failing[p] # Nobody
  /\ AppendEvent(failing[p], "failed") \/ UNCHANGED last
  /\ failing' = [failing EXCEPT ![p] = Nobody]
  /\ UNCHANGED <<row, owner, sess, todo, active, mu, call, user, opens>>

OpenReady(p) ==
  /\ sess[p] = "recovering" /\ todo[p] = {} /\ failing[p] = Nobody
  /\ sess' = [sess EXCEPT ![p] = "open"]
  /\ UNCHANGED <<row, last, owner, todo, failing, active, mu, call, user, opens>>

(* CloseProject, or the end of the process. Closing does not wait for the   *)
(* jobs in the desktop: their goroutines go on, but the store they write to *)
(* is closed, and its manager is gone.                                      *)
EndSession(p) ==
  /\ sess[p] # "closed"
  /\ sess' = [sess EXCEPT ![p] = "closed"]
  /\ owner' = IF owner = p THEN Nobody ELSE owner
  /\ todo' = [todo EXCEPT ![p] = {}]
  /\ failing' = [failing EXCEPT ![p] = Nobody]
  /\ active' = [active EXCEPT ![p] = [j \in Jobs |-> Nobody]]
  /\ mu' = [mu EXCEPT ![p] = Nobody]
  /\ call' = [c \in Calls |-> IF call[c].proc = p THEN Done ELSE call[c]]
  /\ user' = [u \in Users |-> IF user[u].proc = p THEN [user[u] EXCEPT !.pc = "idle"]
                                                  ELSE user[u]]
  /\ UNCHANGED <<row, last, opens>>

-----------------------------------------------------------------------------
(* Create and Run.                                                         *)

\* Mutant of Create: the event is appended before the row is inserted.
CreateSwapped(c, j, p) ==
  /\ At(c, "idle") /\ sess[p] = "open" /\ row[j] = "NONE"
  /\ AppendEvent(j, "created")
  /\ call' = [call EXCEPT ![c] = [Idle EXCEPT !.pc = "create", !.job = j, !.proc = p]]
  /\ UNCHANGED <<row, owner, sess, todo, failing, active, mu, user, opens>>

(* Create writes the QUEUED row ...                                         *)
Create(c, j, p) ==
  /\ At(c, "idle") /\ sess[p] = "open" /\ row[j] = "NONE"
  /\ SetRow(j, "QUEUED")
  /\ call' = [call EXCEPT ![c] = [Idle EXCEPT !.pc = "create", !.job = j, !.proc = p]]
  /\ UNCHANGED <<last, owner, sess, todo, failing, active, mu, user, opens>>

(* ... and then its event; when that fails the caller has no id to run.     *)
CreateEvent(c) ==
  /\ At(c, "create")
  /\ \/ AppendEvent(call[c].job, "created") /\ Goto(c, "queued")
     \/ Return(c) /\ UNCHANGED last
  /\ UNCHANGED <<row, owner, sess, todo, failing, active, mu, user, opens>>

(* A second call of Run for a job that exists.                              *)
RunAgain(c, j, p) ==
  /\ At(c, "idle") /\ sess[p] = "open" /\ last[j] # "none"
  /\ call' = [call EXCEPT ![c] = [Idle EXCEPT !.pc = "queued", !.job = j, !.proc = p]]
  /\ UNCHANGED <<row, last, owner, sess, todo, failing, active, mu, user, opens>>

\* Mutant of RunEnters: the active map is overwritten without a look.
RunEntersAnyway(c) ==
  LET p == call[c].proc  j == call[c].job IN
  /\ At(c, "queued") /\ mu[p] = Nobody
  /\ active' = [active EXCEPT ![p][j] = c]
  /\ mu' = [mu EXCEPT ![p] = c]
  /\ Goto(c, "start_read")
  /\ UNCHANGED <<row, last, owner, sess, todo, failing, user, opens>>

(* Run reserves the slot under the manager's lock and keeps the lock.       *)
RunEnters(c) ==
  LET p == call[c].proc  j == call[c].job IN
  /\ At(c, "queued") /\ mu[p] = Nobody /\ active[p][j] = Nobody
  /\ active' = [active EXCEPT ![p][j] = c]
  /\ mu' = [mu EXCEPT ![p] = c]
  /\ Goto(c, "start_read")
  /\ UNCHANGED <<row, last, owner, sess, todo, failing, user, opens>>

RunRefused(c) ==
  LET p == call[c].proc  j == call[c].job IN
  /\ At(c, "queued") /\ mu[p] = Nobody /\ active[p][j] # Nobody
  /\ Return(c)
  /\ UNCHANGED <<row, last, owner, sess, todo, failing, active, mu, user, opens>>

(* UpdateJobState(RUNNING) was refused or failed.                           *)
StartFails(c) ==
  LET p == call[c].proc  j == call[c].job IN
  /\ call[c].pc \in HoldsMu
  /\ active' = [active EXCEPT ![p][j] = Nobody]
  /\ mu' = [mu EXCEPT ![p] = Nobody]
  /\ Return(c)
  /\ UNCHANGED <<row, last, owner, sess, todo, failing, user, opens>>

StartRead(c) ==
  /\ At(c, "start_read") /\ Accepts(row[call[c].job], "RUNNING")
  /\ Goto(c, "start_write")
  /\ UNCHANGED <<row, last, owner, sess, todo, failing, active, mu, user, opens>>

StartWrite(c) ==
  /\ At(c, "start_write")
  /\ SetRow(call[c].job, "RUNNING")
  /\ mu' = [mu EXCEPT ![call[c].proc] = Nobody]
  /\ Goto(c, "announce")
  /\ UNCHANGED <<last, owner, sess, todo, failing, active, user, opens>>

(* The event that says it runs; Run returns when it cannot be written, and  *)
(* leaves the row RUNNING. Then the job function and its poller start.      *)
Announce(c) ==
  /\ At(c, "announce")
  /\ \/ /\ AppendEvent(call[c].job, "note")
        /\ call' = [call EXCEPT ![c].pc = "body", ![c].poller = TRUE]
     \/ Goto(c, "leave") /\ UNCHANGED last
  /\ UNCHANGED <<row, owner, sess, todo, failing, active, mu, user, opens>>

-----------------------------------------------------------------------------
(* The job function: stages, the progress poller, the end of the scan.     *)

(* Reporter.SetStage; its errors are ignored and a cancelled context makes  *)
(* the database calls of the job fail.                                      *)
StageRead(c) ==
  /\ At(c, "body") /\ call[c].ctx = "live" /\ Accepts(row[call[c].job], "RUNNING")
  /\ Goto(c, "stage_write")
  /\ UNCHANGED <<row, last, owner, sess, todo, failing, active, mu, user, opens>>

StageWrite(c) ==
  /\ At(c, "stage_write")
  /\ \/ call[c].ctx = "live" /\ SetRow(call[c].job, "RUNNING") /\ Goto(c, "stage_event")
     \/ Goto(c, "body") /\ UNCHANGED row
  /\ UNCHANGED <<last, owner, sess, todo, failing, active, mu, user, opens>>

StageEvent(c) ==
  /\ At(c, "stage_event")
  /\ \/ call[c].ctx = "live" /\ AppendEvent(call[c].job, "note")
     \/ UNCHANGED last
  /\ Goto(c, "body")
  /\ UNCHANGED <<row, owner, sess, todo, failing, active, mu, user, opens>>

(* pollScanProgress: a tick may still be chosen after progressDone closed.  *)
Poll(c) ==
  /\ call[c].poller /\ call[c].ctx = "live"
  /\ AppendEvent(call[c].job, "note")
  /\ UNCHANGED <<row, owner, sess, todo, failing, active, mu, call, user, opens>>

PollEnds(c) ==
  /\ call[c].poller
  /\ At(c, "join") \/ call[c].ctx # "live"
  /\ call' = [call EXCEPT ![c].poller = FALSE]
  /\ UNCHANGED <<row, last, owner, sess, todo, failing, active, mu, user, opens>>

(* ScanService.Scan returns. It may finish without noticing a cancellation, *)
(* and reports one only if its context was cancelled.                       *)
ScanReturns(c) ==
  /\ At(c, "body")
  /\ \E o \in Outcomes :
       /\ o = "cancelled" => call[c].ctx # "live"
       /\ call' = [call EXCEPT ![c].pc = "join", ![c].out = o]
  /\ UNCHANGED <<row, last, owner, sess, todo, failing, active, mu, user, opens>>

(* wg.Wait: the poller has ended before anything else is recorded.          *)
Join(c) ==
  /\ At(c, "join") /\ ~call[c].poller
  /\ Goto(c, "summary")
  /\ UNCHANGED <<row, last, owner, sess, todo, failing, active, mu, user, opens>>

(* The scan summary as a warning and the last progress, on a context of     *)
(* their own; a completed scan whose summary is lost becomes a failure. A   *)
(* scan whose AccessContext exists requests its own cancellation.           *)
Summary(c) ==
  /\ At(c, "summary")
  /\ AppendEvent(call[c].job, "note") \/ UNCHANGED last
  /\ \E o \in {call[c].out} \cup (IF call[c].out = "ok" THEN {"failed"} ELSE {}) :
       call' = [call EXCEPT ![c].out = o,
                  ![c].pc = IF o = "cancelled" /\ call[c].proc \in Scoped
                              THEN "self_read" ELSE "final_read"]
  /\ UNCHANGED <<row, owner, sess, todo, failing, active, mu, user, opens>>

SelfRead(c) ==
  /\ At(c, "self_read")
  /\ \/ Accepts(row[call[c].job], "CANCEL_REQUESTED") /\ Goto(c, "self_write")
     \/ Goto(c, "final_read")
  /\ UNCHANGED <<row, last, owner, sess, todo, failing, active, mu, user, opens>>

SelfWrite(c) ==
  /\ At(c, "self_write")
  /\ SetRow(call[c].job, "CANCEL_REQUESTED") \/ UNCHANGED row
  /\ Goto(c, "final_read")
  /\ UNCHANGED <<last, owner, sess, todo, failing, active, mu, user, opens>>

(* AfterFunc: the access context ends and cancels the scan's context.       *)
AccessEnds(c) ==
  /\ call[c].pc \in {"body", "stage_write", "stage_event"}
  /\ call[c].proc \in Scoped /\ call[c].ctx = "live"
  /\ call' = [call EXCEPT ![c].ctx = "cancelled"]
  /\ UNCHANGED <<row, last, owner, sess, todo, failing, active, mu, user, opens>>

-----------------------------------------------------------------------------
(* The end of Run.                                                         *)

(* UpdateJobState(final): read and check ...                                *)
FinalRead(c) ==
  /\ At(c, "final_read") /\ Accepts(row[call[c].job], FinalState[call[c].out])
  /\ Goto(c, "final_write")
  /\ UNCHANGED <<row, last, owner, sess, todo, failing, active, mu, user, opens>>

(* ... and write.                                                           *)
FinalWrite(c) ==
  /\ At(c, "final_write")
  /\ SetRow(call[c].job, FinalState[call[c].out])
  /\ Goto(c, "final_event")
  /\ UNCHANGED <<last, owner, sess, todo, failing, active, mu, user, opens>>

(* The transition was refused, or a database call failed: Run returns.      *)
FinalFails(c) ==
  /\ call[c].pc \in {"final_read", "final_write", "final_event"}
  /\ Goto(c, "leave")
  /\ UNCHANGED <<row, last, owner, sess, todo, failing, active, mu, user, opens>>

EmitFinal(c) ==
  /\ At(c, "final_event")
  /\ AppendEvent(call[c].job, FinalEvent[call[c].out])
  /\ Goto(c, "leave")
  /\ UNCHANGED <<row, owner, sess, todo, failing, active, mu, user, opens>>

(* The deferred removal from the active map.                                *)
Leave(c) ==
  LET p == call[c].proc  j == call[c].job IN
  /\ At(c, "leave") /\ mu[p] = Nobody
  /\ active' = [active EXCEPT ![p][j] = Nobody]
  /\ Return(c)
  /\ UNCHANGED <<row, last, owner, sess, todo, failing, mu, user, opens>>

-----------------------------------------------------------------------------
(* RequestCancel.                                                          *)

(* The handle is looked up under the lock; a job without one is left alone. *)
RequestCancel(u, j, p) ==
  /\ user[u].pc = "idle" /\ sess[p] = "open"
  /\ mu[p] = Nobody /\ active[p][j] # Nobody
  /\ user' = [user EXCEPT ![u] = [pc |-> "read", job |-> j, target |-> active[p][j],
                                  proc |-> p]]
  /\ UNCHANGED <<row, last, owner, sess, todo, failing, active, mu, call, opens>>

\* Mutant of CancelRead: an error of the update ends the request.
CancelReadGivesUp(u) ==
  /\ user[u].pc = "read"
  /\ \/ /\ Accepts(row[user[u].job], "CANCEL_REQUESTED")
        /\ user' = [user EXCEPT ![u].pc = "write"]
     \/ user' = [user EXCEPT ![u].pc = "idle"]
  /\ UNCHANGED <<row, last, owner, sess, todo, failing, active, mu, call, opens>>

(* A refused or failed update does not stop it from cancelling.             *)
CancelRead(u) ==
  /\ user[u].pc = "read"
  /\ \/ /\ Accepts(row[user[u].job], "CANCEL_REQUESTED")
        /\ user' = [user EXCEPT ![u].pc = "write"]
     \/ user' = [user EXCEPT ![u].pc = "cancel"]
  /\ UNCHANGED <<row, last, owner, sess, todo, failing, active, mu, call, opens>>

CancelWrite(u) ==
  /\ user[u].pc = "write"
  /\ SetRow(user[u].job, "CANCEL_REQUESTED") \/ UNCHANGED row
  /\ user' = [user EXCEPT ![u].pc = "cancel"]
  /\ UNCHANGED <<last, owner, sess, todo, failing, active, mu, call, opens>>

CancelContext(u) ==
  /\ user[u].pc = "cancel"
  /\ \/ At(user[u].target, "done") /\ UNCHANGED call
     \/ ~At(user[u].target, "done") /\ call' = [call EXCEPT ![user[u].target].ctx = "cancelled"]
  /\ user' = [user EXCEPT ![u].pc = "idle"]
  /\ UNCHANGED <<row, last, owner, sess, todo, failing, active, mu, opens>>

-----------------------------------------------------------------------------
(* What a call of Run does by itself once it was made.                      *)
RunStep(c) ==
  \/ CreateEvent(c) \/ RunEnters(c) \/ RunRefused(c) \/ StartRead(c) \/ StartWrite(c)
  \/ StartFails(c) \/ Announce(c) \/ StageWrite(c) \/ StageEvent(c) \/ PollEnds(c)
  \/ Join(c) \/ Summary(c) \/ SelfRead(c) \/ SelfWrite(c) \/ FinalRead(c)
  \/ FinalWrite(c) \/ FinalFails(c) \/ EmitFinal(c) \/ Leave(c)

CancelStep(u) == CancelRead(u) \/ CancelWrite(u) \/ CancelContext(u)

Next ==
  \/ \E p \in Procs : \/ OpenProject(p) \/ RecoverEvent(p) \/ OpenReady(p)
                      \/ EndSession(p) \/ \E j \in Jobs : RecoverMark(p, j)
  \/ \E c \in Calls, j \in Jobs, p \in Procs : Create(c, j, p) \/ RunAgain(c, j, p)
  \/ \E c \in Calls : RunStep(c) \/ StageRead(c) \/ Poll(c) \/ ScanReturns(c)
                      \/ AccessEnds(c)
  \/ \E u \in Users, j \in Jobs, p \in Procs : RequestCancel(u, j, p)
  \/ \E u \in Users : CancelStep(u)

Spec == Init /\ [][Next]_vars

(* A goroutine goes on, a request that found its job goes on, and the scan  *)
(* returns once its context was cancelled. It need not return otherwise.    *)
Fairness ==
  /\ \A c \in Calls : WF_vars(RunStep(c))
  /\ \A c \in Calls : WF_vars(call[c].ctx # "live" /\ ScanReturns(c))
  /\ \A u \in Users : WF_vars(CancelStep(u))

FairSpec == Spec /\ Fairness

-----------------------------------------------------------------------------
(* Properties.                                                             *)

(* Every variable has its sort, and events are only logged for jobs that    *)
(* were created.                                                            *)
TypeOK ==
  /\ row \in [Jobs -> JobState \cup {"NONE"}]
  /\ last \in [Jobs -> EventType \cup {"none"}]
  /\ owner \in Procs \cup {Nobody}
  /\ sess \in [Procs -> {"closed", "recovering", "open"}]
  /\ todo \in [Procs -> SUBSET Jobs]
  /\ failing \in [Procs -> Jobs \cup {Nobody}]
  /\ active \in [Procs -> [Jobs -> Calls \cup {Nobody}]]
  /\ mu \in [Procs -> Calls \cup {Nobody}]
  /\ call \in [Calls -> [pc : CallPc, job : Jobs \cup {Nobody}, proc : Procs \cup {Nobody},
                         ctx : {"live", "cancelled"}, out : Outcomes, poller : BOOLEAN]]
  /\ user \in [Users -> [pc : {"idle", "read", "write", "cancel"}, job : Jobs \cup {Nobody},
                         target : Calls \cup {Nobody}, proc : Procs \cup {Nobody}]]
  /\ opens \in 0..MaxOpens
  /\ \A j \in Jobs : row[j] = "NONE" => last[j] = "none"

(* The active map, the lock and the lease say which calls are under way:    *)
(* a call past the reservation is the one in the map of its process, which  *)
(* owns the database and has finished its recovery; no two calls of Run     *)
(* execute the same job at the same time, in whatever processes they are    *)
(* (manager.go:150).                                                        *)
Agreement ==
  /\ \A p \in Procs : sess[p] # "closed" => owner = p
  /\ \A p \in Procs : sess[p] # "recovering" => todo[p] = {} /\ failing[p] = Nobody
  /\ \A c \in Calls :
       LET p == call[c].proc  j == call[c].job IN
       /\ call[c].pc \notin {"idle", "done"} => p \in Procs /\ j \in Jobs /\ sess[p] = "open"
       /\ call[c].pc \in HoldsSlot => active[p][j] = c
       /\ call[c].pc \in HoldsMu => mu[p] = c
  /\ \A p \in Procs, j \in Jobs :
       active[p][j] # Nobody =>
         LET c == active[p][j] IN
         call[c].proc = p /\ call[c].job = j /\ call[c].pc \in HoldsSlot
  /\ \A p \in Procs : mu[p] # Nobody => call[mu[p]].proc = p /\ call[mu[p]].pc \in HoldsMu
  /\ \A u \in Users : user[u].pc # "idle" => sess[user[u].proc] = "open"
  /\ \A c, d \in Calls :
       c # d /\ call[c].pc \in Executing /\ call[d].pc \in Executing =>
         call[c].job # call[d].job

(* A job has one end and has earned it. While a call executes it, nobody    *)
(* else ends it: its row changes by a step of that call, or into            *)
(* CANCEL_REQUESTED; Recover (manager.go:288) fails every unfinished job it *)
(* finds and would fail live ones if the store could be opened twice.       *)
(* Nothing is logged after the terminal event but the failure that a later  *)
(* recovery records: scan_job.go:133 waits for the poller. It becomes       *)
(* CANCELLED only out of a recorded request: neither a lost context nor the *)
(* function's word alone is enough (jobs.go:60).                            *)
EndsOnce ==
  [][/\ \A c \in Calls :
          LET j == call[c].job IN
          call[c].pc \in Executing /\ row'[j] # row[j] =>
            row'[j] = "CANCEL_REQUESTED" \/ call'[c] # call[c]
     /\ \A j \in Jobs :
          last[j] \in TerminalEvents /\ last'[j] # last[j] =>
            \E p \in Procs : failing[p] = j /\ sess[p] = "recovering"
     /\ \A j \in Jobs : row'[j] = "CANCELLED" /\ row[j] # "CANCELLED" =>
          row[j] = "CANCEL_REQUESTED"]_vars

(* A request that found the job running ends it, whatever happens to its    *)
(* own updates of the row (manager.go:253): Run returns and frees the slot. *)
CancelEnds ==
  \A c \in Calls :
    (\E u \in Users : user[u].pc = "read" /\ user[u].target = c) ~> call[c].pc = "done"

(* The documented state machine (jobs.go:30-39; IsTerminal: "no further     *)
(* state transitions are possible"): every change of a row is one of its    *)
(* transitions. UpdateJobState checks the state it read, not the one it     *)
(* overwrites.                                                              *)
LegalTransitions ==
  [][\A j \in Jobs : row[j] # "NONE" /\ row'[j] # row[j] =>
       CanTransitionTo(row[j], row'[j])]_vars
=============================================================================
