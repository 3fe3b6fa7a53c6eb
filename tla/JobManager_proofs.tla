-------------------------- MODULE JobManager_proofs --------------------------
(***************************************************************************)
(* Proofs about JobManager, for every set of jobs, calls, requests and     *)
(* processes and every number of openings.                                 *)
(***************************************************************************)
EXTENDS JobManager, TLAPS

Call == [pc : CallPc, job : Jobs \cup {Nobody}, proc : Procs \cup {Nobody},
         ctx : {"live", "cancelled"}, out : Outcomes, poller : BOOLEAN]

User == [pc : {"idle", "read", "write", "cancel"}, job : Jobs \cup {Nobody},
         target : Calls \cup {Nobody}, proc : Procs \cup {Nobody}]

Active(c) == call[c].pc \notin {"idle", "done"}

(* What a call knows of the row and of the last event of its job.           *)
CallKnows(c) ==
  LET j == call[c].job  pc == call[c].pc IN
  /\ Active(c) => row[j] # "NONE"
  /\ pc = "create" =>
       /\ last[j] = "none"
       /\ \A d \in Calls \ {c} : Active(d) => call[d].job # j
  /\ call[c].poller => pc \in {"body", "stage_write", "stage_event", "join"}
  /\ pc \in Executing \cup {"start_write"} => last[j] \notin TerminalEvents
  /\ pc \in Executing => row[j] \notin {"NONE", "QUEUED"}
  /\ pc = "final_event" => row[j] # "RUNNING"
  /\ pc = "final_write" /\ call[c].out = "cancelled" =>
       row[j] \in {"CANCEL_REQUESTED", "CANCELLED"}

(* A job with an end is not taken up again: a late cancellation may change  *)
(* its row, but not into one from which it could run.                       *)
JobKnows(j) == last[j] \in TerminalEvents => row[j] \notin {"NONE", "QUEUED", "RUNNING"}

UserKnows(u) ==
  user[u].pc # "idle" =>
    /\ user[u].job \in Jobs /\ user[u].target \in Calls /\ user[u].proc \in Procs
    /\ row[user[u].job] # "NONE"

History ==
  /\ \A c \in Calls : CallKnows(c)
  /\ \A j \in Jobs : JobKnows(j)
  /\ \A p \in Procs : failing[p] # Nobody => row[failing[p]] = "FAILED"
  /\ \A u \in Users : UserKnows(u)

IInv == TypeOK /\ Agreement /\ History

-----------------------------------------------------------------------------
(* The parts of Agreement.                                                  *)

ProcAgrees(p) ==
  /\ sess[p] # "closed" => owner = p
  /\ sess[p] # "recovering" => todo[p] = {} /\ failing[p] = Nobody
  /\ mu[p] # Nobody => call[mu[p]].proc = p /\ call[mu[p]].pc \in HoldsMu

SlotAgrees(p, j) ==
  active[p][j] # Nobody =>
    /\ call[active[p][j]].proc = p /\ call[active[p][j]].job = j
    /\ call[active[p][j]].pc \in HoldsSlot

CallAgrees(c) ==
  LET p == call[c].proc  j == call[c].job IN
  /\ Active(c) => p \in Procs /\ j \in Jobs /\ sess[p] = "open"
  /\ call[c].pc \in HoldsSlot => active[p][j] = c
  /\ call[c].pc \in HoldsMu => mu[p] = c

UserAgrees(u) == user[u].pc # "idle" => sess[user[u].proc] = "open"

(* Program points between the reservation and the removal.                  *)
LEMMA Points ==
  /\ HoldsMu \subseteq HoldsSlot /\ Executing \subseteq HoldsSlot /\ HoldsSlot \subseteq CallPc
  /\ {"idle", "create", "queued", "done"} \cap HoldsSlot = {}
  /\ HoldsMu \cap Executing = {} /\ HoldsMu = {"start_read", "start_write"}
  /\ CallPc = HoldsSlot \cup {"idle", "create", "queued", "done"}
  /\ HoldsSlot = Executing \cup HoldsMu \cup {"leave"}
  BY DEF HoldsMu, HoldsSlot, Executing, InBody, CallPc

(* The lease and the active map leave one executor for a job.               *)
LEMMA OneRunner ==
  ASSUME \A p \in Procs : ProcAgrees(p), \A c \in Calls : CallAgrees(c),
         NEW c \in Calls, NEW d \in Calls \ {c},
         call[c].pc \in HoldsSlot, Active(d), call[d].job = call[c].job
  PROVE  call[d].pc \notin HoldsSlot /\ call[d].proc = call[c].proc
  <1>1. Active(c)
    BY Points DEF Active
  <1>2. owner = call[c].proc /\ owner = call[d].proc
    BY <1>1 DEF ProcAgrees, CallAgrees
  <1>3. CallAgrees(c) /\ CallAgrees(d) /\ c # d /\ call[c].proc = call[d].proc
    BY <1>2
  <1>4. active[call[c].proc][call[c].job] = c
    BY <1>3 DEF CallAgrees
  <1>5. call[d].pc \in HoldsSlot => active[call[c].proc][call[c].job] = d
    BY <1>3 DEF CallAgrees
  <1> QED  BY <1>3, <1>4, <1>5

AllAgree ==
  /\ \A p \in Procs : ProcAgrees(p) /\ \A j \in Jobs : SlotAgrees(p, j)
  /\ \A c \in Calls : CallAgrees(c)
  /\ \A u \in Users : UserAgrees(u)

\* Agreement, as the model writes it, is the conjunction of its named parts.
LEMMA Parts == Agreement <=> AllAgree
  <1>1. Agreement => AllAgree
    BY DEF Agreement, AllAgree, ProcAgrees, SlotAgrees, CallAgrees, UserAgrees, Active
  <1>2. ASSUME AllAgree PROVE Agreement
    <2>1. ASSUME NEW c \in Calls, NEW d \in Calls, c # d,
                 call[c].pc \in Executing, call[d].pc \in Executing
          PROVE  call[c].job # call[d].job
      <3>1. call[c].pc \in HoldsSlot /\ call[d].pc \in HoldsSlot /\ Active(d)
        BY <2>1, Points DEF Active
      <3> QED  BY <1>2, <2>1, <3>1, OneRunner DEF AllAgree
    <2> QED  BY <1>2, <2>1 DEF AllAgree, Agreement, ProcAgrees, SlotAgrees, CallAgrees,
                                UserAgrees, Active
  <1> QED  BY <1>1, <1>2

(* The same after a step.                                                   *)
LEMMA PartsNext == Agreement' <=> AllAgree'
  BY Parts, PTL

(* While a call is under way nobody recovers.                               *)
LEMMA NoRecovery ==
  ASSUME Agreement, NEW c \in Calls, Active(c)
  PROVE  \A p \in Procs : sess[p] # "recovering" /\ todo[p] = {} /\ failing[p] = Nobody
  BY Parts DEF AllAgree, ProcAgrees, CallAgrees

-----------------------------------------------------------------------------
(* Records of calls.                                                        *)

\* What each field of the record of a call may be.
LEMMA CallFields ==
  ASSUME TypeOK, NEW c \in Calls
  PROVE  /\ call[c] \in Call
         /\ call[c].pc \in CallPc
         /\ call[c].job \in Jobs \cup {Nobody} /\ call[c].proc \in Procs \cup {Nobody}
         /\ call[c].out \in Outcomes /\ call[c].poller \in BOOLEAN
  <1>1. call[c] \in Call
    BY DEF TypeOK, Call
  <1> QED  BY <1>1 DEF Call

\* Replacing the record of one call leaves the other calls alone.
LEMMA CallUpdate ==
  ASSUME TypeOK, NEW c \in Calls, NEW r \in Call, call' = [call EXCEPT ![c] = r]
  PROVE  /\ call' \in [Calls -> Call]
         /\ call'[c] = r
         /\ \A d \in Calls \ {c} : call'[d] = call[d]
  BY DEF TypeOK, Call

(* Going on within a call.                                                  *)
Continues(c) ==
  /\ call' \in [Calls -> Call]
  /\ \A d \in Calls \ {c} : call'[d] = call[d]
  /\ call'[c].job = call[c].job /\ call'[c].proc = call[c].proc
  /\ Active(c) /\ call'[c].pc \notin {"idle", "done"}

\* A call that goes to another point keeps its job, process and outcome.
LEMMA GotoFacts ==
  ASSUME TypeOK, NEW c \in Calls, NEW pc \in CallPc, Goto(c, pc)
  PROVE  /\ call' \in [Calls -> Call]
         /\ \A d \in Calls \ {c} : call'[d] = call[d]
         /\ call'[c].pc = pc
         /\ call'[c].job = call[c].job /\ call'[c].proc = call[c].proc
         /\ call'[c].out = call[c].out /\ call'[c].poller = call[c].poller
  <1>1. [call[c] EXCEPT !.pc = pc] \in Call
    BY CallFields DEF Call
  <1>2. call' = [call EXCEPT ![c] = [call[c] EXCEPT !.pc = pc]]
    BY DEF Goto
  <1>3. /\ call' \in [Calls -> Call]
        /\ call'[c] = [call[c] EXCEPT !.pc = pc]
        /\ \A d \in Calls \ {c} : call'[d] = call[d]
    BY <1>1, <1>2, CallUpdate
  <1>4. call[c] \in Call
    BY CallFields
  <1> QED  BY <1>3, <1>4 DEF Call

\* The record of a call that has returned.
LEMMA DoneType == Done \in Call /\ Done.pc = "done" /\ Done.poller = FALSE /\ Done.proc = Nobody
  BY DEF Done, Idle, Call, CallPc, Outcomes, FinalState

\* A call returns, and the other calls stay where they are.
LEMMA ReturnFacts ==
  ASSUME TypeOK, NEW c \in Calls, Return(c)
  PROVE  /\ call' \in [Calls -> Call]
         /\ call'[c] = Done
         /\ \A d \in Calls \ {c} : call'[d] = call[d]
  <1>1. call' = [call EXCEPT ![c] = Done]
    BY DEF Return
  <1> QED  BY <1>1, CallUpdate, DoneType

\* What the tables of outcomes say of final states and terminal events.
LEMMA Tables ==
  /\ \A o \in Outcomes : /\ FinalEvent[o] \in TerminalEvents /\ FinalState[o] \in Terminal
                         /\ FinalState[o] = "CANCELLED" <=> o = "cancelled"
  /\ Outcomes = {"ok", "cancelled", "failed", "authorization", "network"}
  /\ "note" \notin TerminalEvents /\ "created" \notin TerminalEvents /\ "none" \notin TerminalEvents
  /\ TerminalEvents \cup {"note", "created"} = EventType /\ "failed" \in TerminalEvents
  /\ Terminal \cap {"NONE", "QUEUED", "RUNNING"} = {} /\ "FAILED" \in Terminal
  /\ Terminal \cup {"QUEUED", "RUNNING", "CANCEL_REQUESTED"} = JobState /\ "NONE" \notin JobState
  BY DEF Outcomes, FinalEvent, FinalState, Terminal, Paused, TerminalEvents, EventType,
         JobState, Live

-----------------------------------------------------------------------------
(* The steps of a call.                                                     *)

(* What other calls know survives a step of c that touches at most the row  *)
(* and the events of its job, and these only while it holds the slot, or as *)
(* the creator of the job.                                                  *)
LEMMA OthersKnow ==
  ASSUME IInv, NEW c \in Calls, NEW d \in Calls \ {c}, call'[d] = call[d],
         Active(c), call'[c].pc \notin {"idle", "done"} => call'[c].job = call[c].job,
         \A e \in Calls \ {c} : call'[e] = call[e],
         \A j \in Jobs \ {call[c].job} : row'[j] = row[j] /\ last'[j] = last[j],
         row'[call[c].job] # "NONE",
         \/ row'[call[c].job] = row[call[c].job] /\ last'[call[c].job] = last[call[c].job]
         \/ call[c].pc \in HoldsSlot \cup {"create"}
  PROVE  CallKnows(d)'
  <1>1. CallKnows(c) /\ CallKnows(d) /\ CallAgrees(c) /\ CallAgrees(d)
    BY Parts DEF AllAgree, IInv, History
  <1>2. CASE ~Active(d)
    BY <1>1, <1>2, Points DEF CallKnows, Active
  <1>3. CASE Active(d) /\ call[d].job # call[c].job
    <2>1. row'[call[d].job] = row[call[d].job] /\ last'[call[d].job] = last[call[d].job]
      BY <1>1, <1>3 DEF CallAgrees
    <2>2. ASSUME call[d].pc = "create", NEW e \in Calls \ {d}, Active(e)'
          PROVE  call'[e].job # call[d].job
      BY <1>1, <1>3, <2>2 DEF CallKnows, Active
    <2> QED  BY <1>1, <1>3, <2>1, <2>2 DEF CallKnows, Active
  <1>4. CASE Active(d) /\ call[d].job = call[c].job
    <2>1. call[d].pc # "create" /\ call[c].pc # "create"
      BY <1>1, <1>4 DEF CallKnows
    <2>2. CASE row'[call[c].job] = row[call[c].job] /\ last'[call[c].job] = last[call[c].job]
      BY <1>1, <1>4, <2>1, <2>2 DEF CallKnows, Active
    <2>3. CASE call[c].pc \in HoldsSlot
      <3>1. call[d].pc = "queued"
        BY <1>4, <2>1, <2>3, OneRunner, Parts, Points, CallFields DEF AllAgree, IInv, Active
      <3>2. ~call[d].poller
        BY <1>1, <3>1, CallFields DEF CallKnows, IInv
      <3> QED  BY <1>4, <3>1, <3>2, Points DEF CallKnows, Active
    <2> QED  BY <2>1, <2>2, <2>3
  <1> QED  BY <1>2, <1>3, <1>4

(* A step within a call keeps the agreement when it stays on its side of    *)
(* the reservation and of the lock.                                         *)
LEMMA AgreementKept ==
  ASSUME IInv, NEW c \in Calls, Continues(c),
         call[c].pc \in HoldsSlot <=> call'[c].pc \in HoldsSlot,
         call[c].pc \in HoldsMu <=> call'[c].pc \in HoldsMu,
         UNCHANGED <<owner, sess, todo, failing, active, mu>>,
         \A u \in Users : UserAgrees(u)'
  PROVE  Agreement'
  <1>0. TypeOK
    BY DEF IInv
  <1>1. ASSUME NEW d \in Calls PROVE CallAgrees(d)'
    BY <1>1, Parts DEF AllAgree, IInv, CallAgrees, Continues, Active
  <1>2. ASSUME NEW p \in Procs PROVE ProcAgrees(p)'
    <2>1. ProcAgrees(p) /\ mu[p] \in Calls \cup {Nobody}
      BY <1>0, Parts DEF AllAgree, IInv, TypeOK
    <2> QED  BY <2>1 DEF ProcAgrees, Continues
  <1>3. ASSUME NEW p \in Procs, NEW j \in Jobs PROVE SlotAgrees(p, j)'
    <2>1. SlotAgrees(p, j) /\ active[p][j] \in Calls \cup {Nobody}
      BY <1>0, Parts DEF AllAgree, IInv, TypeOK
    <2> QED  BY <2>1 DEF SlotAgrees, Continues
  <1> QED  BY <1>1, <1>2, <1>3, PartsNext DEF AllAgree

(* The other parts of History: the row and the last event of the job of a   *)
(* call change together.                                                    *)
LEMMA HistoryKept ==
  ASSUME IInv, NEW c \in Calls, Active(c), NEW i \in Jobs,
         \A d \in Calls : CallKnows(d)',
         \A j \in Jobs \ {i} : row'[j] = row[j] /\ last'[j] = last[j],
         JobKnows(i)', row'[i] # "NONE", UNCHANGED failing,
         \A u \in Users : user'[u] = user[u] \/ UserKnows(u)'
  PROVE  History'
  <1>1. ASSUME NEW j \in Jobs PROVE JobKnows(j)'
    BY <1>1 DEF IInv, History, JobKnows
  <1>2. ASSUME NEW u \in Users PROVE UserKnows(u)'
    BY <1>2 DEF IInv, History, UserKnows
  <1>3. \A p \in Procs : failing'[p] = Nobody
    BY NoRecovery DEF IInv
  <1> QED  BY <1>1, <1>2, <1>3 DEF History

(* Most steps of a call, in one lemma: it goes on, and writes the row and   *)
(* the last event of its job, or leaves them.                               *)
LEMMA CallStep ==
  ASSUME IInv, NEW c \in Calls, Continues(c), CallKnows(c)',
         call[c].pc \in HoldsSlot <=> call'[c].pc \in HoldsSlot,
         call[c].pc \in HoldsMu <=> call'[c].pc \in HoldsMu,
         UNCHANGED <<owner, sess, todo, failing, active, mu, opens>>,
         user' = user \/ /\ user' \in [Users -> [pc : {"idle", "read", "write", "cancel"},
                                job : Jobs \cup {Nobody}, target : Calls \cup {Nobody},
                                proc : Procs \cup {Nobody}]]
                         /\ \A u \in Users : UserKnows(u)' /\ UserAgrees(u)',
         NEW i \in Jobs, i = call[c].job, row'[i] # "NONE", JobKnows(i)',
         row' \in [Jobs -> JobState \cup {"NONE"}], last' \in [Jobs -> EventType \cup {"none"}],
         \A j \in Jobs \ {i} : row'[j] = row[j] /\ last'[j] = last[j],
         \/ row'[i] = row[i] /\ last'[i] = last[i]
         \/ call[c].pc \in HoldsSlot \cup {"create"}
  PROVE  IInv'
  <1>0. TypeOK
    BY DEF IInv
  <1>2. TypeOK'
    <2>1. call' \in [Calls -> Call]
      BY DEF Continues
    <2>2. \A j \in Jobs : row'[j] = "NONE" => last'[j] = "none"
      BY <1>0 DEF TypeOK
    <2>3. user' \in [Users -> [pc : {"idle", "read", "write", "cancel"}, job : Jobs \cup {Nobody},
                       target : Calls \cup {Nobody}, proc : Procs \cup {Nobody}]]
      BY <1>0 DEF TypeOK
    <2> QED  BY <1>0, <2>1, <2>2, <2>3 DEF TypeOK, Call
  <1>3. Agreement'
    <2>1. \A u \in Users : UserAgrees(u)'
      BY Parts DEF AllAgree, IInv, UserAgrees
    <2> QED  BY <2>1, AgreementKept
  <1>4. History'
    <2>1. ASSUME NEW d \in Calls PROVE CallKnows(d)'
      BY <2>1, OthersKnow DEF Continues
    <2>2. \A u \in Users : user'[u] = user[u] \/ UserKnows(u)'
      OBVIOUS
    <2> QED  BY <2>1, <2>2, HistoryKept DEF Continues
  <1> QED  BY <1>2, <1>3, <1>4 DEF IInv

(* A call that returns gives back what it holds.                            *)
LEMMA CallEnds ==
  ASSUME IInv, NEW c \in Calls, Active(c), Return(c),
         UNCHANGED <<row, last, owner, sess, todo, failing, user, opens>>,
         active' = IF call[c].pc \in HoldsSlot
                   THEN [active EXCEPT ![call[c].proc][call[c].job] = Nobody] ELSE active,
         mu' = IF call[c].pc \in HoldsMu THEN [mu EXCEPT ![call[c].proc] = Nobody] ELSE mu
  PROVE  IInv'
  <1> DEFINE p == call[c].proc
  <1>z. PICK i \in Jobs : i = call[c].job
    BY Parts DEF AllAgree, IInv, CallAgrees
  <1>0. TypeOK /\ p \in Procs /\ CallAgrees(c) /\ CallKnows(c)
    BY Parts DEF AllAgree, IInv, CallAgrees, History
  <1>1. /\ call' \in [Calls -> Call] /\ call'[c] = Done
        /\ \A d \in Calls \ {c} : call'[d] = call[d]
    BY <1>0, <1>z, ReturnFacts
  <1>2. call'[c].pc = "done" /\ ~call'[c].poller
    BY <1>1, DoneType
  <1>3. /\ active' \in [Procs -> [Jobs -> Calls \cup {Nobody}]]
        /\ \A q \in Procs, k \in Jobs : active'[q][k] =
             IF call[c].pc \in HoldsSlot /\ q = p /\ k = i THEN Nobody ELSE active[q][k]
    BY <1>0, <1>z DEF TypeOK
  <1>4. /\ mu' \in [Procs -> Calls \cup {Nobody}]
        /\ \A q \in Procs : mu'[q] = IF call[c].pc \in HoldsMu /\ q = p THEN Nobody ELSE mu[q]
    BY <1>0, <1>z DEF TypeOK
  <1>5. TypeOK'
    BY <1>0, <1>z, <1>1, <1>3, <1>4 DEF TypeOK, Call
  <1>6. Agreement'
    <2>1. ASSUME NEW d \in Calls PROVE CallAgrees(d)'
      <3>1. CASE d = c
        BY <1>2, <3>1, Points DEF CallAgrees, Active
      <3>2. CASE d # c
        <4>1. CallAgrees(d)
          BY Parts DEF AllAgree, IInv
        <4>2. call[d].pc \in HoldsSlot => Active(d) /\ call[d].job \in Jobs /\ call[d].proc \in Procs
          BY <4>1, Points DEF CallAgrees, Active
        <4>3. call[d].pc \in HoldsSlot =>
                active'[call[d].proc][call[d].job] = active[call[d].proc][call[d].job]
          BY <1>0, <1>z, <1>3, <3>2, <4>1, <4>2 DEF CallAgrees
        <4>4. call[d].pc \in HoldsMu => mu'[call[d].proc] = mu[call[d].proc]
          BY <1>0, <1>z, <1>4, <3>2, <4>1, <4>2, Points DEF CallAgrees
        <4> QED  BY <1>1, <3>2, <4>1, <4>3, <4>4 DEF CallAgrees, Active
      <3> QED  BY <3>1, <3>2
    <2>2. ASSUME NEW q \in Procs PROVE ProcAgrees(q)'
      <3>1. ProcAgrees(q) /\ mu[q] \in Calls \cup {Nobody}
        BY <1>0, <1>z, Parts DEF AllAgree, IInv, TypeOK
      <3>2. mu[q] = c => q = p /\ call[c].pc \in HoldsMu
        BY <3>1, NobodyAssumption DEF ProcAgrees
      <3> QED  BY <1>1, <1>4, <3>1, <3>2 DEF ProcAgrees
    <2>3. ASSUME NEW q \in Procs, NEW k \in Jobs PROVE SlotAgrees(q, k)'
      <3>1. SlotAgrees(q, k) /\ active[q][k] \in Calls \cup {Nobody}
        BY <1>0, <1>z, Parts DEF AllAgree, IInv, TypeOK
      <3>2. active[q][k] = c => q = p /\ k = i /\ call[c].pc \in HoldsSlot
        BY <1>z, <3>1, NobodyAssumption DEF SlotAgrees
      <3> QED  BY <1>1, <1>3, <3>1, <3>2 DEF SlotAgrees
    <2>4. ASSUME NEW u \in Users PROVE UserAgrees(u)'
      BY Parts DEF AllAgree, IInv, UserAgrees
    <2> QED  BY <2>1, <2>2, <2>3, <2>4, PartsNext DEF AllAgree
  <1>7. History'
    <2>1. ASSUME NEW d \in Calls PROVE CallKnows(d)'
      <3>1. CASE d = c
        BY <1>2, <3>1, Points DEF CallKnows, Active
      <3>2. CASE d # c
        BY <1>0, <1>z, <1>1, <1>2, <3>2, OthersKnow DEF CallKnows
      <3> QED  BY <3>1, <3>2
    <2>2. JobKnows(i)'
      BY <1>0, <1>z DEF IInv, History, JobKnows
    <2>3. row'[i] # "NONE"
      BY <1>0, <1>z DEF CallKnows
    <2> QED  BY <1>0, <1>z, <2>1, <2>2, <2>3, HistoryKept
  <1> QED  BY <1>5, <1>6, <1>7 DEF IInv

(* Going to another program point.                                          *)
LEMMA GotoContinues ==
  ASSUME TypeOK, NEW c \in Calls, Active(c), NEW pc \in CallPc \ {"idle", "done"}, Goto(c, pc)
  PROVE  Continues(c)
  BY GotoFacts DEF Continues

(* Nothing but the call changes.                                            *)
LEMMA CallMoves ==
  ASSUME IInv, NEW c \in Calls, Continues(c), CallKnows(c)',
         call[c].pc \in HoldsSlot <=> call'[c].pc \in HoldsSlot,
         call[c].pc \in HoldsMu <=> call'[c].pc \in HoldsMu,
         UNCHANGED <<row, last, owner, sess, todo, failing, active, mu, user, opens>>
  PROVE  IInv'
  <1>1. PICK i \in Jobs : i = call[c].job
    BY Parts DEF AllAgree, IInv, CallAgrees, Continues
  <1>2. /\ row' \in [Jobs -> JobState \cup {"NONE"}] /\ last' \in [Jobs -> EventType \cup {"none"}]
        /\ row'[i] # "NONE" /\ JobKnows(i)'
        /\ row'[i] = row[i] /\ last'[i] = last[i]
        /\ \A j \in Jobs \ {i} : row'[j] = row[j] /\ last'[j] = last[j]
    BY <1>1 DEF IInv, TypeOK, History, CallKnows, JobKnows, Continues
  <1>3. UNCHANGED <<owner, sess, todo, failing, active, mu, opens>> /\ user' = user
    OBVIOUS
  <1> QED  BY <1>1, <1>2, <1>3, CallStep

-----------------------------------------------------------------------------
(* Every action preserves the invariant.                                    *)

(* What is known of a call at hand.                                         *)
LEMMA AtHand ==
  ASSUME IInv, NEW c \in Calls
  PROVE  TypeOK /\ CallKnows(c) /\ CallAgrees(c)
  BY Parts DEF AllAgree, IInv, History

(* A step that only moves the call.                                         *)
LEMMA GotoStep ==
  ASSUME IInv, NEW c \in Calls, Active(c), NEW pc \in CallPc \ {"idle", "done"}, Goto(c, pc),
         UNCHANGED <<row, last, owner, sess, todo, failing, active, mu, user, opens>>,
         call[c].pc \in HoldsSlot <=> pc \in HoldsSlot,
         call[c].pc \in HoldsMu <=> pc \in HoldsMu,
         CallKnows(c)'
  PROVE  IInv'
  <1>1. Continues(c) /\ call'[c].pc = pc
    BY AtHand, GotoContinues, GotoFacts
  <1> QED  BY <1>1, CallMoves

\* Reading the row before the start changes nothing durable.
LEMMA StartReadStep ==
  ASSUME IInv, NEW c \in Calls, StartRead(c)
  PROVE  IInv'
  <1>1. Active(c) /\ call[c].pc = "start_read" /\ "start_write" \in CallPc
    BY DEF StartRead, At, Active, CallPc
  <1>2. call[c].job \in Jobs /\ last[call[c].job] \notin TerminalEvents
    BY <1>1, AtHand DEF CallAgrees, IInv, History, JobKnows, StartRead, Accepts, CanTransitionTo
  <1>3. CallKnows(c)'
    BY <1>1, <1>2, AtHand, GotoFacts, Points DEF CallKnows, StartRead, Active
  <1> QED  BY <1>1, <1>3, GotoStep, Points DEF StartRead

\* Reading the row before a stage is stored changes nothing durable.
LEMMA StageReadStep ==
  ASSUME IInv, NEW c \in Calls, StageRead(c)
  PROVE  IInv'
  <1>1. /\ Active(c) /\ call[c].pc = "body" /\ "stage_write" \in CallPc
        /\ {"body", "stage_write"} \subseteq Executing
    BY DEF StageRead, At, Active, CallPc, Executing, InBody
  <1>2. CallKnows(c)'
    BY <1>1, AtHand, GotoFacts DEF CallKnows, StageRead, Active
  <1> QED  BY <1>1, <1>2, GotoStep, Points DEF StageRead

\* The call has waited for its poller, which is gone from then on.
LEMMA JoinStep ==
  ASSUME IInv, NEW c \in Calls, Join(c)
  PROVE  IInv'
  <1>1. /\ Active(c) /\ call[c].pc = "join" /\ "summary" \in CallPc
        /\ {"join", "summary"} \subseteq Executing
    BY DEF Join, At, Active, CallPc, Executing, InBody
  <1>2. CallKnows(c)'
    BY <1>1, AtHand, GotoFacts DEF CallKnows, Join, Active
  <1> QED  BY <1>1, <1>2, GotoStep, Points DEF Join

\* A call may go on to request the cancellation of its own job, as the row it read accepts it.
LEMMA SelfReadStep ==
  ASSUME IInv, NEW c \in Calls, SelfRead(c)
  PROVE  IInv'
  <1>1. /\ Active(c) /\ call[c].pc = "self_read" /\ {"self_write", "final_read"} \subseteq CallPc
        /\ {"self_read", "self_write", "final_read"} \subseteq Executing
    BY DEF SelfRead, At, Active, CallPc, Executing, InBody
  <1>2. PICK pc \in {"self_write", "final_read"} : Goto(c, pc)
    BY DEF SelfRead
  <1>3. CallKnows(c)'
    BY <1>1, <1>2, AtHand, GotoFacts DEF CallKnows, SelfRead, Active
  <1> QED  BY <1>1, <1>2, <1>3, GotoStep, Points DEF SelfRead

\* Reading the row before the final state changes nothing durable.
LEMMA FinalReadStep ==
  ASSUME IInv, NEW c \in Calls, FinalRead(c)
  PROVE  IInv'
  <1>1. /\ Active(c) /\ call[c].pc = "final_read" /\ "final_write" \in CallPc
        /\ {"final_read", "final_write"} \subseteq Executing
    BY DEF FinalRead, At, Active, CallPc, Executing, InBody
  <1>2. call[c].out = "cancelled" => row[call[c].job] \in {"CANCEL_REQUESTED", "CANCELLED"}
    BY <1>1, AtHand DEF CallKnows, FinalRead, FinalState, Accepts, CanTransitionTo, Paused
  <1>3. CallKnows(c)'
    BY <1>1, <1>2, AtHand, GotoFacts DEF CallKnows, FinalRead, Active
  <1> QED  BY <1>1, <1>3, GotoStep, Points DEF FinalRead

\* A final write that fails leaves the row as it is; the call still leaves the active map.
LEMMA FinalFailsStep ==
  ASSUME IInv, NEW c \in Calls, FinalFails(c)
  PROVE  IInv'
  <1>1. /\ Active(c) /\ call[c].pc \in {"final_read", "final_write", "final_event"}
        /\ {"leave", "final_read", "final_write", "final_event"} \subseteq CallPc
        /\ {"final_read", "final_write", "final_event"} \subseteq Executing
        /\ "leave" \in HoldsSlot \ Executing
    BY DEF FinalFails, At, Active, CallPc, Executing, InBody, HoldsSlot
  <1>2. CallKnows(c)'
    BY <1>1, AtHand, GotoFacts, Points DEF CallKnows, FinalFails, Active
  <1> QED  BY <1>1, <1>2, GotoStep, Points DEF FinalFails

\* The poller of a call ends.
LEMMA PollEndsStep ==
  ASSUME IInv, NEW c \in Calls, PollEnds(c)
  PROVE  IInv'
  <1>1. Active(c) /\ CallKnows(c) /\ call[c].poller
    BY AtHand DEF PollEnds, CallKnows, Active
  <1>2. /\ Continues(c) /\ call'[c].pc = call[c].pc /\ ~call'[c].poller
        /\ call'[c].out = call[c].out
    BY ZenonT(30), <1>1, AtHand, CallFields DEF PollEnds, TypeOK, Continues, Call, Active
  <1>3. CallKnows(c)'
    BY <1>1, <1>2 DEF CallKnows, Continues, PollEnds, Active
  <1> QED  BY <1>2, <1>3, CallMoves DEF PollEnds

\* The scan hands its outcome to the call.
LEMMA ScanReturnsStep ==
  ASSUME IInv, NEW c \in Calls, ScanReturns(c)
  PROVE  IInv'
  <1>1. /\ Active(c) /\ CallKnows(c) /\ call[c].pc = "body" /\ {"join"} \subseteq CallPc
        /\ {"body", "join"} \subseteq Executing
    BY AtHand DEF ScanReturns, Active, At, CallPc, Executing, InBody
  <1>2. Continues(c) /\ call'[c].pc = "join" /\ call'[c].poller = call[c].poller
    <2>1. PICK o \in Outcomes : call' = [call EXCEPT ![c].pc = "join", ![c].out = o]
      BY DEF ScanReturns
    <2>2. call[c] \in Call /\ TypeOK
      BY AtHand, CallFields
    <2>3. [call[c] EXCEPT !.pc = "join", !.out = o] \in Call
      BY <1>1, <2>2 DEF Call
    <2>4. call' = [call EXCEPT ![c] = [call[c] EXCEPT !.pc = "join", !.out = o]]
      BY <2>1, <2>2 DEF Call
    <2>5. /\ call' \in [Calls -> Call]
          /\ call'[c] = [call[c] EXCEPT !.pc = "join", !.out = o]
          /\ \A d \in Calls \ {c} : call'[d] = call[d]
      BY <2>2, <2>3, <2>4, CallUpdate
    <2> QED  BY <1>1, <2>2, <2>5 DEF Call, Continues
  <1>3. CallKnows(c)'
    BY <1>1, <1>2 DEF CallKnows, Continues, ScanReturns, Active
  <1> QED  BY <1>1, <1>2, <1>3, CallMoves, Points DEF ScanReturns

\* The end of the access to a source cancels the context of a call.
LEMMA AccessEndsStep ==
  ASSUME IInv, NEW c \in Calls, AccessEnds(c)
  PROVE  IInv'
  <1>1. Active(c) /\ CallKnows(c)
    BY AtHand DEF AccessEnds, Active
  <1>2. /\ Continues(c) /\ call'[c].pc = call[c].pc /\ call'[c].poller = call[c].poller
        /\ call'[c].out = call[c].out
    BY SMTT(30), <1>1, AtHand, CallFields DEF AccessEnds, TypeOK, Continues, Call, Active
  <1>3. CallKnows(c)'
    BY <1>1, <1>2 DEF CallKnows, Continues, AccessEnds, Active
  <1> QED  BY <1>2, <1>3, CallMoves DEF AccessEnds

(* Writing the row or appending an event, and going on.                     *)
LEMMA SetRowFacts ==
  ASSUME TypeOK, NEW i \in Jobs, NEW s \in JobState, SetRow(i, s)
  PROVE  /\ row' \in [Jobs -> JobState \cup {"NONE"}] /\ row'[i] = s /\ row'[i] # "NONE"
         /\ \A j \in Jobs \ {i} : row'[j] = row[j]
  BY Tables DEF TypeOK, SetRow

\* An event becomes the last of its job and of no other.
LEMMA AppendEventFacts ==
  ASSUME TypeOK, NEW i \in Jobs, NEW e \in EventType, AppendEvent(i, e)
  PROVE  /\ last' \in [Jobs -> EventType \cup {"none"}] /\ last'[i] = e
         /\ \A j \in Jobs \ {i} : last'[j] = last[j]
  BY DEF TypeOK, AppendEvent

\* A call that is executing its job writes the row of that job, and nobody else's claim is touched.
LEMMA WriteStep ==
  ASSUME IInv, NEW c \in Calls, Continues(c), CallKnows(c)', call[c].pc \in HoldsSlot,
         call'[c].pc \in HoldsSlot, call[c].pc \in HoldsMu <=> call'[c].pc \in HoldsMu,
         NEW s \in JobState, SetRow(call[c].job, s),
         s \in {"QUEUED", "RUNNING"} => last[call[c].job] \notin TerminalEvents,
         UNCHANGED <<last, owner, sess, todo, failing, active, mu, opens>>, user' = user
  PROVE  IInv'
  <1>0. TypeOK /\ CallAgrees(c)
    BY AtHand
  <1>1. PICK i \in Jobs : i = call[c].job
    BY <1>0 DEF CallAgrees, Continues
  <1>2. /\ row' \in [Jobs -> JobState \cup {"NONE"}] /\ row'[i] = s /\ row'[i] # "NONE"
        /\ \A j \in Jobs \ {i} : row'[j] = row[j]
    BY <1>0, <1>1, SetRowFacts
  <1>3. last' \in [Jobs -> EventType \cup {"none"}] /\ \A j \in Jobs : last'[j] = last[j]
    BY <1>0 DEF TypeOK
  <1>4. JobKnows(i)'
    BY <1>1, <1>2, <1>3 DEF JobKnows
  <1>5. UNCHANGED <<owner, sess, todo, failing, active, mu, opens>>
    OBVIOUS
  <1> QED  BY <1>1, <1>2, <1>3, <1>4, <1>5, CallStep

\* A call logs an event of the job it executes or has just created.
LEMMA LogStep ==
  ASSUME IInv, NEW c \in Calls, Continues(c), CallKnows(c)',
         call[c].pc \in HoldsSlot \cup {"create"},
         call[c].pc \in HoldsSlot <=> call'[c].pc \in HoldsSlot,
         call[c].pc \in HoldsMu <=> call'[c].pc \in HoldsMu,
         NEW e \in EventType, AppendEvent(call[c].job, e),
         e \in TerminalEvents => row[call[c].job] \notin {"QUEUED", "RUNNING"},
         UNCHANGED <<row, owner, sess, todo, failing, active, mu, opens>>, user' = user
  PROVE  IInv'
  <1>0. TypeOK /\ CallAgrees(c) /\ CallKnows(c)
    BY AtHand
  <1>1. PICK i \in Jobs : i = call[c].job
    BY <1>0 DEF CallAgrees, Continues
  <1>2. /\ last' \in [Jobs -> EventType \cup {"none"}] /\ last'[i] = e
        /\ \A j \in Jobs \ {i} : last'[j] = last[j]
    BY <1>0, <1>1, AppendEventFacts
  <1>3. row' \in [Jobs -> JobState \cup {"NONE"}] /\ \A j \in Jobs : row'[j] = row[j]
    BY <1>0 DEF TypeOK
  <1>4. row'[i] # "NONE"
    BY <1>0, <1>1, <1>3 DEF CallKnows, Continues
  <1>5. JobKnows(i)'
    BY <1>1, <1>2, <1>3, <1>4 DEF JobKnows
  <1>6. UNCHANGED <<owner, sess, todo, failing, active, mu, opens>>
    OBVIOUS
  <1> QED  BY <1>1, <1>2, <1>3, <1>4, <1>5, <1>6, CallStep

(* An event that fails to be written leaves a step that only moves.         *)
LEMMA NoteOrNot ==
  ASSUME IInv, NEW c \in Calls, Continues(c), CallKnows(c)', call[c].pc \in HoldsSlot,
         call'[c].pc \in HoldsSlot, call[c].pc \in HoldsMu <=> call'[c].pc \in HoldsMu,
         AppendEvent(call[c].job, "note") \/ UNCHANGED last,
         UNCHANGED <<row, owner, sess, todo, failing, active, mu, opens>>, user' = user
  PROVE  IInv'
  <1>1. "note" \in EventType \ TerminalEvents
    BY Tables
  <1>2. CASE AppendEvent(call[c].job, "note")
    BY <1>1, <1>2, LogStep
  <1>3. CASE UNCHANGED last
    <2>1. UNCHANGED <<row, last, owner, sess, todo, failing, active, mu, user, opens>>
      BY <1>3
    <2> QED  BY <2>1, CallMoves
  <1> QED  BY <1>2, <1>3

(* The event of a step of c alone says nothing to c but whether it ended.   *)
LEMMA NoteKnows ==
  ASSUME IInv, NEW c \in Calls, Active(c), call[c].pc \in Executing,
         AppendEvent(call[c].job, "note") \/ UNCHANGED last
  PROVE  last'[call[c].job] \notin TerminalEvents
  <1>1. call[c].job \in Jobs /\ last[call[c].job] \notin TerminalEvents /\ TypeOK
    BY AtHand DEF CallAgrees, CallKnows
  <1>2. "note" \in EventType \ TerminalEvents
    BY Tables
  <1> QED  BY <1>1, <1>2, AppendEventFacts

\* A stage is stored by the call that executes the job.
LEMMA StageWriteStep ==
  ASSUME IInv, NEW c \in Calls, StageWrite(c)
  PROVE  IInv'
  <1>0. TypeOK /\ CallKnows(c) /\ CallAgrees(c)
    BY AtHand
  <1>1. /\ Active(c) /\ call[c].pc = "stage_write" /\ {"stage_event", "body"} \subseteq CallPc
        /\ {"stage_write", "stage_event", "body"} \subseteq Executing
    BY DEF StageWrite, At, Active, CallPc, Executing, InBody
  <1>2. PICK pc \in {"stage_event", "body"} :
          Goto(c, pc) /\ (SetRow(call[c].job, "RUNNING") \/ UNCHANGED row)
    BY DEF StageWrite
  <1>3. Continues(c) /\ call'[c].pc = pc /\ call'[c].poller = call[c].poller
    BY <1>0, <1>1, <1>2, GotoFacts DEF Continues
  <1>4. CASE UNCHANGED row
    <2>1. CallKnows(c)'
      BY <1>0, <1>1, <1>3, <1>4 DEF CallKnows, Continues, StageWrite, Active
    <2> QED  BY <1>1, <1>3, <1>4, <2>1, CallMoves, Points DEF StageWrite
  <1>5. CASE SetRow(call[c].job, "RUNNING")
    <2>1. "RUNNING" \in JobState /\ call[c].job \in Jobs
      BY <1>0, <1>1, Tables DEF CallAgrees
    <2>2. row'[call[c].job] = "RUNNING"
      BY <1>0, <1>5, <2>1, SetRowFacts
    <2>3. CallKnows(c)'
      BY <1>0, <1>1, <1>3, <2>2 DEF CallKnows, Continues, StageWrite, Active
    <2>4. last[call[c].job] \notin TerminalEvents
      BY <1>0, <1>1 DEF CallKnows
    <2> QED  BY <1>1, <1>3, <1>5, <2>1, <2>3, <2>4, WriteStep, Points DEF StageWrite
  <1> QED  BY <1>2, <1>4, <1>5

\* The event of a stage precedes the terminal event of its job.
LEMMA StageEventStep ==
  ASSUME IInv, NEW c \in Calls, StageEvent(c)
  PROVE  IInv'
  <1>1. /\ Active(c) /\ call[c].pc = "stage_event" /\ "body" \in CallPc
        /\ {"stage_event", "body"} \subseteq Executing
    BY DEF StageEvent, At, Active, CallPc, Executing, InBody
  <1>2. Continues(c) /\ call'[c].pc = "body" /\ call'[c].poller = call[c].poller
    BY <1>1, AtHand, GotoFacts DEF Continues, StageEvent
  <1>3. AppendEvent(call[c].job, "note") \/ UNCHANGED last
    BY DEF StageEvent
  <1>4. CallKnows(c)'
    BY <1>1, <1>2, <1>3, AtHand, NoteKnows DEF CallKnows, Continues, StageEvent, Active
  <1> QED  BY <1>1, <1>2, <1>3, <1>4, NoteOrNot, Points DEF StageEvent

\* The poller logs progress while its call executes the job.
LEMMA PollStep ==
  ASSUME IInv, NEW c \in Calls, Poll(c)
  PROVE  IInv'
  <1>1. /\ Active(c) /\ call[c].pc \in {"body", "stage_write", "stage_event", "join"}
        /\ {"body", "stage_write", "stage_event", "join"} \subseteq Executing
    BY AtHand DEF Poll, CallKnows, Active, Executing, InBody
  <1>2. Continues(c) /\ call' = call
    BY <1>1, AtHand DEF Continues, Poll, TypeOK, Call, Active
  <1>3. AppendEvent(call[c].job, "note")
    BY DEF Poll
  <1>4. CallKnows(c)'
    BY <1>1, <1>2, <1>3, AtHand, NoteKnows DEF CallKnows, Poll, Active
  <1> QED  BY <1>1, <1>2, <1>3, <1>4, NoteOrNot, Points DEF Poll

\* The summary is logged before the terminal event.
LEMMA SummaryStep ==
  ASSUME IInv, NEW c \in Calls, Summary(c)
  PROVE  IInv'
  <1>0. TypeOK /\ CallKnows(c) /\ call[c] \in Call
    BY AtHand, CallFields
  <1>1. /\ Active(c) /\ call[c].pc = "summary" /\ {"self_read", "final_read"} \subseteq CallPc
        /\ {"summary", "self_read", "final_read"} \subseteq Executing
    BY DEF Summary, At, Active, CallPc, Executing, InBody
  <1>2. PICK o \in Outcomes, pc \in {"self_read", "final_read"} :
          call' = [call EXCEPT ![c].out = o, ![c].pc = pc]
    <2>1. PICK o \in {call[c].out} \cup (IF call[c].out = "ok" THEN {"failed"} ELSE {}) :
            call' = [call EXCEPT ![c].out = o,
                       ![c].pc = IF o = "cancelled" /\ call[c].proc \in Scoped
                                   THEN "self_read" ELSE "final_read"]
      BY DEF Summary
    <2>2. o \in Outcomes
      BY <1>0, CallFields, Tables
    <2> QED  BY <2>1, <2>2
  <1>3. [call[c] EXCEPT !.out = o, !.pc = pc] \in Call
    BY <1>0, <1>1 DEF Call
  <1>4. call' = [call EXCEPT ![c] = [call[c] EXCEPT !.out = o, !.pc = pc]]
    BY <1>0, <1>2 DEF Call
  <1>5. /\ call' \in [Calls -> Call]
        /\ call'[c] = [call[c] EXCEPT !.out = o, !.pc = pc]
        /\ \A d \in Calls \ {c} : call'[d] = call[d]
    BY <1>0, <1>3, <1>4, CallUpdate
  <1>6. Continues(c) /\ call'[c].pc = pc /\ call'[c].poller = call[c].poller
    BY <1>0, <1>1, <1>5 DEF Call, Continues
  <1>7. AppendEvent(call[c].job, "note") \/ UNCHANGED last
    BY DEF Summary
  <1>8. CallKnows(c)'
    BY <1>0, <1>1, <1>6, <1>7, NoteKnows DEF CallKnows, Continues, Summary, Active
  <1> QED  BY ZenonT(30), <1>1, <1>6, <1>7, <1>8, NoteOrNot, Points DEF Summary

\* A cancelled call records the request in the row of the job it executes, before its final state.
LEMMA SelfWriteStep ==
  ASSUME IInv, NEW c \in Calls, SelfWrite(c)
  PROVE  IInv'
  <1>0. TypeOK /\ CallKnows(c) /\ CallAgrees(c)
    BY AtHand
  <1>1. /\ Active(c) /\ call[c].pc = "self_write" /\ "final_read" \in CallPc
        /\ {"self_write", "final_read"} \subseteq Executing
    BY DEF SelfWrite, At, Active, CallPc, Executing, InBody
  <1>2. Continues(c) /\ call'[c].pc = "final_read" /\ call'[c].poller = call[c].poller
    BY <1>0, <1>1, GotoFacts DEF Continues, SelfWrite
  <1>3. CASE UNCHANGED row
    <2>1. CallKnows(c)'
      BY <1>0, <1>1, <1>2, <1>3 DEF CallKnows, Continues, SelfWrite, Active
    <2> QED  BY <1>1, <1>2, <1>3, <2>1, CallMoves, Points DEF SelfWrite
  <1>4. CASE SetRow(call[c].job, "CANCEL_REQUESTED")
    <2>1. "CANCEL_REQUESTED" \in JobState /\ call[c].job \in Jobs
      BY <1>0, <1>1, Tables DEF CallAgrees
    <2>2. row'[call[c].job] = "CANCEL_REQUESTED"
      BY <1>0, <1>4, <2>1, SetRowFacts
    <2>3. CallKnows(c)'
      BY <1>0, <1>1, <1>2, <2>2 DEF CallKnows, Continues, SelfWrite, Active
    <2> QED  BY <1>1, <1>2, <1>4, <2>1, <2>3, WriteStep, Points DEF SelfWrite
  <1> QED  BY <1>3, <1>4 DEF SelfWrite

\* The final state is stored while the call still owns the job.
LEMMA FinalWriteStep ==
  ASSUME IInv, NEW c \in Calls, FinalWrite(c)
  PROVE  IInv'
  <1>0. TypeOK /\ CallKnows(c) /\ CallAgrees(c)
    BY AtHand
  <1>1. /\ Active(c) /\ call[c].pc = "final_write" /\ "final_event" \in CallPc
        /\ {"final_write", "final_event"} \subseteq Executing
    BY DEF FinalWrite, At, Active, CallPc, Executing, InBody
  <1>2. Continues(c) /\ call'[c].pc = "final_event" /\ call'[c].poller = call[c].poller
    BY <1>0, <1>1, GotoFacts DEF Continues, FinalWrite
  <1>3. PICK s \in Terminal : s = FinalState[call[c].out]
    BY <1>0, CallFields, Tables
  <1>4. s \in JobState /\ s \notin {"NONE", "QUEUED", "RUNNING"} /\ call[c].job \in Jobs
    BY <1>0, <1>1, Tables DEF CallAgrees
  <1>5. SetRow(call[c].job, s) /\ row'[call[c].job] = s
    BY <1>0, <1>3, <1>4, SetRowFacts DEF FinalWrite
  <1>6. CallKnows(c)'
    BY <1>0, <1>1, <1>2, <1>4, <1>5 DEF CallKnows, Continues, FinalWrite, Active
  <1> QED  BY <1>1, <1>2, <1>4, <1>5, <1>6, WriteStep, Points DEF FinalWrite

\* The terminal event follows the final state in the row.
LEMMA EmitFinalStep ==
  ASSUME IInv, NEW c \in Calls, EmitFinal(c)
  PROVE  IInv'
  <1>0. TypeOK /\ CallKnows(c) /\ CallAgrees(c)
    BY AtHand
  <1>1. /\ Active(c) /\ call[c].pc = "final_event" /\ {"leave"} \subseteq CallPc
        /\ "final_event" \in Executing /\ "leave" \in HoldsSlot \ Executing
    BY DEF EmitFinal, At, Active, CallPc, Executing, InBody, HoldsSlot
  <1>2. Continues(c) /\ call'[c].pc = "leave" /\ call'[c].poller = call[c].poller
    BY <1>0, <1>1, GotoFacts DEF Continues, EmitFinal
  <1>3. PICK e \in EventType : e = FinalEvent[call[c].out]
    BY <1>0, CallFields, Tables
  <1>4. row[call[c].job] \notin {"QUEUED", "RUNNING"} /\ AppendEvent(call[c].job, e)
    BY <1>0, <1>1, <1>3 DEF CallKnows, EmitFinal
  <1>5. CallKnows(c)'
    BY <1>0, <1>1, <1>2 DEF CallKnows, Continues, EmitFinal, Active
  <1> QED  BY <1>1, <1>2, <1>3, <1>4, <1>5, LogStep, Points DEF EmitFinal

\* The start is announced with RUNNING in the row, or the call leaves.
LEMMA AnnounceStep ==
  ASSUME IInv, NEW c \in Calls, Announce(c)
  PROVE  IInv'
  <1>0. TypeOK /\ CallKnows(c) /\ CallAgrees(c) /\ call[c] \in Call
    BY AtHand, CallFields
  <1>1. /\ Active(c) /\ call[c].pc = "announce" /\ {"leave", "body"} \subseteq CallPc
        /\ {"announce", "body"} \subseteq Executing /\ "leave" \in HoldsSlot \ Executing
    BY DEF Announce, At, Active, CallPc, Executing, InBody, HoldsSlot
  <1>2. CASE Goto(c, "leave") /\ UNCHANGED last
    <2>1. CallKnows(c)'
      BY <1>0, <1>1, <1>2, GotoFacts DEF CallKnows, Announce, Active
    <2> QED  BY <1>1, <1>2, <2>1, GotoStep, Points DEF Announce
  <1>3. CASE /\ AppendEvent(call[c].job, "note")
             /\ call' = [call EXCEPT ![c].pc = "body", ![c].poller = TRUE]
    <2>1. [call[c] EXCEPT !.pc = "body", !.poller = TRUE] \in Call
      BY <1>0, <1>1 DEF Call
    <2>2. call' = [call EXCEPT ![c] = [call[c] EXCEPT !.pc = "body", !.poller = TRUE]]
      BY <1>0, <1>3 DEF Call
    <2>3. /\ call' \in [Calls -> Call]
          /\ call'[c] = [call[c] EXCEPT !.pc = "body", !.poller = TRUE]
          /\ \A d \in Calls \ {c} : call'[d] = call[d]
      BY <1>0, <2>1, <2>2, CallUpdate
    <2>4. Continues(c) /\ call'[c].pc = "body"
      BY <1>0, <1>1, <2>3 DEF Call, Continues
    <2>5. CallKnows(c)'
      BY <1>0, <1>1, <1>3, <2>4, NoteKnows DEF CallKnows, Continues, Announce, Active
    <2> QED  BY <1>1, <1>3, <2>4, <2>5, NoteOrNot, Points DEF Announce
  <1> QED  BY <1>2, <1>3 DEF Announce

\* The creation is the first event of a job.
LEMMA CreateEventStep ==
  ASSUME IInv, NEW c \in Calls, CreateEvent(c)
  PROVE  IInv'
  <1>0. TypeOK /\ CallKnows(c) /\ CallAgrees(c)
    BY AtHand
  <1>1. Active(c) /\ call[c].pc = "create" /\ "queued" \in CallPc
    BY DEF CreateEvent, At, Active, CallPc
  <1>2. CASE Return(c) /\ UNCHANGED last
    BY <1>1, <1>2, CallEnds, Points DEF CreateEvent
  <1>3. CASE AppendEvent(call[c].job, "created") /\ Goto(c, "queued")
    <2>1. Continues(c) /\ call'[c].pc = "queued" /\ call'[c].poller = call[c].poller
      BY <1>0, <1>1, <1>3, GotoFacts DEF Continues
    <2>2. "created" \in EventType \ TerminalEvents
      BY Tables
    <2>3. CallKnows(c)'
      BY <1>0, <1>1, <2>1, Points DEF CallKnows, Continues, CreateEvent, Active
    <2> QED  BY <1>1, <1>3, <2>1, <2>2, <2>3, LogStep, Points DEF CreateEvent
  <1> QED  BY <1>2, <1>3 DEF CreateEvent

\* A refused or failed start and a call that is through leave the active map as they should.
LEMMA ReturnStep ==
  ASSUME IInv, NEW c \in Calls, RunRefused(c) \/ StartFails(c) \/ Leave(c)
  PROVE  IInv'
  <1>1. CASE RunRefused(c)
    BY <1>1, CallEnds, Points DEF RunRefused, At, Active
  <1>2. CASE StartFails(c)
    BY <1>2, CallEnds, Points DEF StartFails, Active
  <1>3. CASE Leave(c)
    BY <1>3, CallEnds, Points DEF Leave, At, Active
  <1> QED  BY <1>1, <1>2, <1>3

\* RUNNING is stored by the call in the active map.
LEMMA StartWriteStep ==
  ASSUME IInv, NEW c \in Calls, StartWrite(c)
  PROVE  IInv'
  <1> DEFINE p == call[c].proc
  <1>0. TypeOK /\ CallKnows(c) /\ CallAgrees(c)
    BY AtHand
  <1>1. /\ Active(c) /\ call[c].pc = "start_write" /\ "announce" \in CallPc \cap Executing
        /\ "announce" \in HoldsSlot \ HoldsMu
    BY DEF StartWrite, At, Active, CallPc, Executing, HoldsSlot, HoldsMu
  <1>2. PICK i \in Jobs : i = call[c].job /\ p \in Procs
    BY <1>0, <1>1 DEF CallAgrees
  <1>3. /\ Continues(c) /\ call'[c].pc = "announce" /\ call'[c].poller = call[c].poller
    BY <1>0, <1>1, GotoFacts DEF Continues, StartWrite
  <1>4. /\ row' \in [Jobs -> JobState \cup {"NONE"}] /\ row'[i] = "RUNNING"
        /\ \A j \in Jobs \ {i} : row'[j] = row[j]
    BY <1>0, <1>2, SetRowFacts, Tables DEF StartWrite
  <1>5. /\ mu' \in [Procs -> Calls \cup {Nobody}] /\ mu'[p] = Nobody /\ mu[p] = c
        /\ \A q \in Procs \ {p} : mu'[q] = mu[q]
    BY <1>0, <1>1, <1>2, Points DEF StartWrite, TypeOK, CallAgrees
  <1>6. UNCHANGED <<last, owner, sess, todo, failing, active, user, opens>>
    BY DEF StartWrite
  <1>7. TypeOK'
    <2>1. call' \in [Calls -> Call]
      BY <1>3 DEF Continues
    <2>2. \A j \in Jobs : row'[j] = "NONE" => last'[j] = "none"
      BY <1>0, <1>4, <1>6 DEF TypeOK
    <2> QED  BY <1>0, <1>4, <1>5, <1>6, <2>1, <2>2 DEF TypeOK, Call
  <1>8. Agreement'
    <2>1. ASSUME NEW d \in Calls PROVE CallAgrees(d)'
      <3>1. CASE d = c
        BY <1>0, <1>1, <1>3, <1>6, <3>1, Points DEF CallAgrees, Continues, Active
      <3>2. CASE d # c
        <4>1. CallAgrees(d)
          BY AtHand
        <4>2. call[d].pc \in HoldsMu => call[d].proc \in Procs \ {p}
          BY <1>5, <3>2, <4>1, Points DEF CallAgrees, Active
        <4> QED  BY <1>3, <1>5, <1>6, <3>2, <4>1, <4>2 DEF CallAgrees, Continues, Active
      <3> QED  BY <3>1, <3>2
    <2>2. ASSUME NEW q \in Procs PROVE ProcAgrees(q)'
      <3>1. ProcAgrees(q) /\ mu[q] \in Calls \cup {Nobody}
        BY <1>0, Parts DEF AllAgree, IInv, TypeOK
      <3>2. mu[q] = c => q = p
        BY <3>1, NobodyAssumption DEF ProcAgrees
      <3> QED  BY <1>3, <1>5, <1>6, <3>1, <3>2 DEF ProcAgrees, Continues
    <2>3. ASSUME NEW q \in Procs, NEW j \in Jobs PROVE SlotAgrees(q, j)'
      <3>1. SlotAgrees(q, j) /\ active[q][j] \in Calls \cup {Nobody}
        BY <1>0, Parts DEF AllAgree, IInv, TypeOK
      <3> QED  BY <1>1, <1>3, <1>6, <3>1 DEF SlotAgrees, Continues
    <2>4. ASSUME NEW u \in Users PROVE UserAgrees(u)'
      BY <1>6, Parts DEF AllAgree, IInv, UserAgrees
    <2> QED  BY <2>1, <2>2, <2>3, <2>4, PartsNext DEF AllAgree
  <1>9. History'
    <2>1. last'[i] \notin TerminalEvents
      BY <1>0, <1>1, <1>2, <1>6 DEF CallKnows
    <2>2. ASSUME NEW d \in Calls PROVE CallKnows(d)'
      <3>1. CASE d = c
        BY <1>0, <1>1, <1>2, <1>3, <1>4, <2>1, <3>1, Points DEF CallKnows, Continues, Active
      <3>2. CASE d # c
        <4>1. call[c].pc \in HoldsSlot
          BY <1>1, Points
        <4>2. \A j \in Jobs \ {call[c].job} : row'[j] = row[j] /\ last'[j] = last[j]
          BY <1>2, <1>4, <1>6
        <4> QED  BY <1>2, <1>3, <1>4, <3>2, <4>1, <4>2, OthersKnow DEF Continues
      <3> QED  BY <3>1, <3>2
    <2>3. JobKnows(i)'
      BY <2>1 DEF JobKnows
    <2> QED  BY <1>1, <1>4, <1>6, <2>2, <2>3, HistoryKept
  <1> QED  BY <1>7, <1>8, <1>9 DEF IInv

\* Entering the active map excludes every other call of the process, and the lease those of others.
LEMMA RunEntersStep ==
  ASSUME IInv, NEW c \in Calls, RunEnters(c)
  PROVE  IInv'
  <1> DEFINE p == call[c].proc
  <1>0. TypeOK /\ CallKnows(c) /\ CallAgrees(c)
    BY AtHand
  <1>1. /\ Active(c) /\ call[c].pc = "queued" /\ "start_read" \in CallPc \ Executing
        /\ "start_read" \in HoldsSlot \cap HoldsMu
    BY DEF RunEnters, At, Active, CallPc, Executing, HoldsSlot, HoldsMu, InBody
  <1>2. PICK i \in Jobs : i = call[c].job /\ p \in Procs
    BY <1>0, <1>1 DEF CallAgrees
  <1>3. /\ Continues(c) /\ call'[c].pc = "start_read" /\ call'[c].poller = call[c].poller
    BY <1>0, <1>1, GotoFacts DEF Continues, RunEnters
  <1>4. /\ active' \in [Procs -> [Jobs -> Calls \cup {Nobody}]] /\ active[p][i] = Nobody
        /\ \A q \in Procs, k \in Jobs : active'[q][k] = IF q = p /\ k = i THEN c ELSE active[q][k]
    BY <1>0, <1>2 DEF TypeOK, RunEnters
  <1>5. /\ mu' \in [Procs -> Calls \cup {Nobody}] /\ mu'[p] = c /\ mu[p] = Nobody
        /\ \A q \in Procs \ {p} : mu'[q] = mu[q]
    BY <1>0, <1>2 DEF RunEnters, TypeOK
  <1>6. UNCHANGED <<row, last, owner, sess, todo, failing, user, opens>>
    BY DEF RunEnters
  <1>7. TypeOK'
    <2>1. call' \in [Calls -> Call]
      BY <1>3 DEF Continues
    <2> QED  BY <1>0, <1>4, <1>5, <1>6, <2>1 DEF TypeOK, Call
  <1>8. Agreement'
    <2>1. ASSUME NEW d \in Calls PROVE CallAgrees(d)'
      <3>1. CASE d = c
        BY <1>0, <1>1, <1>2, <1>3, <1>4, <1>5, <1>6, <3>1 DEF CallAgrees, Continues, Active
      <3>2. CASE d # c
        <4>1. CallAgrees(d)
          BY AtHand
        <4>2. call[d].pc \in HoldsSlot =>
                Active(d) /\ call[d].job \in Jobs /\ call[d].proc \in Procs /\ d # Nobody
          BY <4>1, Points, NobodyAssumption DEF CallAgrees, Active
        <4>3. call[d].pc \in HoldsSlot =>
                active'[call[d].proc][call[d].job] = active[call[d].proc][call[d].job]
          BY <1>4, <4>1, <4>2 DEF CallAgrees
        <4>4. call[d].pc \in HoldsMu => mu'[call[d].proc] = mu[call[d].proc]
          BY <1>5, <4>1, <4>2, Points DEF CallAgrees
        <4> QED  BY <1>3, <1>6, <3>2, <4>1, <4>3, <4>4 DEF CallAgrees, Continues, Active
      <3> QED  BY <3>1, <3>2
    <2>2. ASSUME NEW q \in Procs PROVE ProcAgrees(q)'
      <3>1. ProcAgrees(q) /\ mu[q] \in Calls \cup {Nobody}
        BY <1>0, Parts DEF AllAgree, IInv, TypeOK
      <3>2. mu[q] # c
        BY <1>1, <3>1, Points, NobodyAssumption DEF ProcAgrees
      <3> QED  BY <1>1, <1>3, <1>5, <1>6, <3>1, <3>2 DEF ProcAgrees, Continues
    <2>3. ASSUME NEW q \in Procs, NEW j \in Jobs PROVE SlotAgrees(q, j)'
      <3>1. SlotAgrees(q, j) /\ active[q][j] \in Calls \cup {Nobody}
        BY <1>0, Parts DEF AllAgree, IInv, TypeOK
      <3>2. active[q][j] # c
        BY <1>1, <3>1, Points, NobodyAssumption DEF SlotAgrees
      <3> QED  BY <1>1, <1>2, <1>3, <1>4, <1>6, <3>1, <3>2 DEF SlotAgrees, Continues
    <2>4. ASSUME NEW u \in Users PROVE UserAgrees(u)'
      BY <1>6, Parts DEF AllAgree, IInv, UserAgrees
    <2> QED  BY <2>1, <2>2, <2>3, <2>4, PartsNext DEF AllAgree
  <1>9. History'
    <2>1. ASSUME NEW d \in Calls PROVE CallKnows(d)'
      <3>1. CASE d = c
        BY <1>0, <1>1, <1>3, <1>6, <3>1 DEF CallKnows, Continues, Active
      <3>2. CASE d # c
        BY <1>0, <1>3, <1>6, <3>2, OthersKnow DEF Continues, CallKnows
      <3> QED  BY <3>1, <3>2
    <2>2. JobKnows(i)' /\ row'[i] # "NONE"
      BY <1>0, <1>2, <1>1, <1>6 DEF IInv, History, JobKnows, CallKnows
    <2> QED  BY <1>1, <1>6, <2>1, <2>2, HistoryKept
  <1> QED  BY <1>7, <1>8, <1>9 DEF IInv

(* A call of Create or Run begins.                                          *)
LEMMA BeginFacts ==
  ASSUME TypeOK, NEW c \in Calls, NEW pc \in {"create", "queued"}, NEW j \in Jobs, NEW p \in Procs,
         call' = [call EXCEPT ![c] = [Idle EXCEPT !.pc = pc, !.job = j, !.proc = p]]
  PROVE  /\ call' \in [Calls -> Call]
         /\ call'[c].pc = pc /\ call'[c].job = j /\ call'[c].proc = p /\ ~call'[c].poller
         /\ \A d \in Calls \ {c} : call'[d] = call[d]
  <1> DEFINE r == [Idle EXCEPT !.pc = pc, !.job = j, !.proc = p]
  <1>1. r \in Call /\ r.pc = pc /\ r.job = j /\ r.proc = p /\ ~r.poller
    BY DEF Idle, Call, CallPc, Outcomes, FinalState
  <1> QED  BY <1>1, CallUpdate

\* A call that begins in an open process relies on nothing yet.
LEMMA BeginAgrees ==
  ASSUME IInv, NEW c \in Calls, NEW pc \in {"create", "queued"}, NEW j \in Jobs, NEW p \in Procs,
         call' = [call EXCEPT ![c] = [Idle EXCEPT !.pc = pc, !.job = j, !.proc = p]],
         At(c, "idle"), sess[p] = "open",
         UNCHANGED <<owner, sess, todo, failing, active, mu, user>>
  PROVE  Agreement'
  <1>0. TypeOK
    BY DEF IInv
  <1>1. /\ call'[c].pc = pc /\ call'[c].job = j /\ call'[c].proc = p
        /\ \A d \in Calls \ {c} : call'[d] = call[d]
    BY ZenonT(30), <1>0, BeginFacts
  <1>2. call[c].pc \notin HoldsSlot /\ pc \notin HoldsSlot /\ call[c].pc \notin HoldsMu
    BY Points DEF At
  <1>3. ASSUME NEW d \in Calls PROVE CallAgrees(d)'
    <2>1. CASE d = c
      BY <1>1, <1>2, <2>1, Points DEF CallAgrees, Active
    <2>2. CASE d # c
      BY <1>1, <2>2, AtHand DEF CallAgrees, Active
    <2> QED  BY <2>1, <2>2
  <1>4. ASSUME NEW q \in Procs PROVE ProcAgrees(q)'
    <2>1. ProcAgrees(q) /\ mu[q] \in Calls \cup {Nobody}
      BY <1>0, Parts DEF AllAgree, IInv, TypeOK
    <2>2. mu[q] # c
      BY <1>2, <2>1, NobodyAssumption DEF ProcAgrees
    <2> QED  BY <1>1, <2>1, <2>2 DEF ProcAgrees
  <1>5. ASSUME NEW q \in Procs, NEW k \in Jobs PROVE SlotAgrees(q, k)'
    <2>1. SlotAgrees(q, k) /\ active[q][k] \in Calls \cup {Nobody}
      BY <1>0, Parts DEF AllAgree, IInv, TypeOK
    <2>2. active[q][k] # c
      BY <1>2, <2>1, NobodyAssumption DEF SlotAgrees
    <2> QED  BY <1>1, <2>1, <2>2 DEF SlotAgrees
  <1>6. ASSUME NEW u \in Users PROVE UserAgrees(u)'
    BY Parts DEF AllAgree, IInv, UserAgrees
  <1> QED  BY <1>3, <1>4, <1>5, <1>6, PartsNext DEF AllAgree

\* A new job has a row and no event, and no call executes it yet.
LEMMA CreateStep ==
  ASSUME IInv, NEW c \in Calls, NEW j \in Jobs, NEW p \in Procs, Create(c, j, p)
  PROVE  IInv'
  <1>0. TypeOK /\ row[j] = "NONE" /\ last[j] = "none"
    BY DEF IInv, Create, TypeOK
  <1>1. /\ call' \in [Calls -> Call] /\ ~call'[c].poller
        /\ call'[c].pc = "create" /\ call'[c].job = j
        /\ \A d \in Calls \ {c} : call'[d] = call[d]
    BY <1>0, BeginFacts DEF Create
  <1>2. /\ row' \in [Jobs -> JobState \cup {"NONE"}] /\ row'[j] = "QUEUED"
        /\ \A k \in Jobs \ {j} : row'[k] = row[k]
    BY <1>0, SetRowFacts, Tables DEF Create
  <1>3. UNCHANGED <<last, owner, sess, todo, failing, active, mu, user, opens>>
    BY DEF Create
  <1>4. TypeOK'
    BY <1>0, <1>1, <1>2, <1>3 DEF TypeOK, Call
  <1>5. Agreement'
    BY BeginAgrees DEF Create
  <1>6. ASSUME NEW d \in Calls \ {c}, Active(d) PROVE call[d].job \in Jobs \ {j}
    BY <1>0, <1>6, AtHand DEF CallKnows, CallAgrees
  <1>7. ASSUME NEW d \in Calls PROVE CallKnows(d)'
    <2>1. CASE d = c
      BY <1>0, <1>1, <1>2, <1>3, <1>6, <2>1, Points, Tables DEF CallKnows, Active
    <2>2. CASE d # c /\ ~Active(d)
      BY <1>1, <2>2, AtHand, Points DEF CallKnows, Active
    <2>3. CASE d # c /\ Active(d)
      <3>1. row'[call[d].job] = row[call[d].job] /\ last'[call[d].job] = last[call[d].job]
        BY <1>2, <1>3, <1>6, <2>3
      <3> QED  BY <1>1, <1>6, <2>3, <3>1, AtHand DEF CallKnows, Active
    <2> QED  BY <2>1, <2>2, <2>3
  <1>8. ASSUME NEW k \in Jobs PROVE JobKnows(k)'
    BY <1>0, <1>2, <1>3, Tables DEF IInv, History, JobKnows
  <1>9. ASSUME NEW u \in Users PROVE UserKnows(u)'
    BY <1>2, <1>3 DEF IInv, History, UserKnows
  <1>10. ASSUME NEW q \in Procs, failing'[q] # Nobody PROVE row'[failing'[q]] = "FAILED"
    BY <1>0, <1>2, <1>3, <1>10 DEF IInv, History, TypeOK
  <1> QED  BY <1>4, <1>5, <1>7, <1>8, <1>9, <1>10 DEF IInv, History

\* A call for a job that exists executes nothing before its reservation.
LEMMA RunAgainStep ==
  ASSUME IInv, NEW c \in Calls, NEW j \in Jobs, NEW p \in Procs, RunAgain(c, j, p)
  PROVE  IInv'
  <1>0. TypeOK /\ row[j] # "NONE" /\ last[j] # "none"
    BY DEF IInv, RunAgain, TypeOK
  <1>1. /\ call' \in [Calls -> Call] /\ ~call'[c].poller
        /\ call'[c].pc = "queued" /\ call'[c].job = j
        /\ \A d \in Calls \ {c} : call'[d] = call[d]
    BY <1>0, BeginFacts DEF RunAgain
  <1>3. UNCHANGED <<row, last, owner, sess, todo, failing, active, mu, user, opens>>
    BY DEF RunAgain
  <1>4. TypeOK'
    BY <1>0, <1>1, <1>3 DEF TypeOK, Call
  <1>5. Agreement'
    BY BeginAgrees DEF RunAgain
  <1>7. ASSUME NEW d \in Calls PROVE CallKnows(d)'
    <2>1. CASE d = c
      BY <1>0, <1>1, <1>3, <2>1, Points DEF CallKnows, Active
    <2>2. CASE d # c
      BY <1>0, <1>1, <1>3, <2>2, AtHand DEF CallKnows, Active
    <2> QED  BY <2>1, <2>2
  <1>8. History'
    <2>1. \A k \in Jobs : JobKnows(k)'
      BY <1>3 DEF IInv, History, JobKnows
    <2>2. \A u \in Users : UserKnows(u)'
      BY <1>3 DEF IInv, History, UserKnows
    <2> QED  BY <1>3, <1>7, <2>1, <2>2 DEF IInv, History
  <1> QED  BY <1>4, <1>5, <1>8 DEF IInv

-----------------------------------------------------------------------------
(* Sessions.                                                                *)

(* Steps of opening: no call is under way, and only the sessions, and what  *)
(* Recover writes, change.                                                  *)
LEMMA OpeningStep ==
  ASSUME IInv, \A c \in Calls : ~Active(c), TypeOK',
         UNCHANGED <<active, mu, call, user>>,
         \A q \in Procs : /\ sess'[q] # "closed" => owner' = q
                          /\ sess'[q] # "recovering" => todo'[q] = {} /\ failing'[q] = Nobody
                          /\ sess[q] = "open" => sess'[q] = "open"
                          /\ failing'[q] # Nobody => row'[failing'[q]] = "FAILED",
         \A j \in Jobs : JobKnows(j)' /\ (row'[j] = "NONE" => row[j] = "NONE")
  PROVE  IInv'
  <1>1. \A c \in Calls : call[c].pc \notin HoldsSlot \cup HoldsMu \cup Executing
    BY Points DEF Active
  <1>2. Agreement'
    <2>1. \A c \in Calls : CallAgrees(c)'
      BY <1>1 DEF CallAgrees, Active
    <2>2. ASSUME NEW q \in Procs PROVE ProcAgrees(q)'
      BY Parts DEF AllAgree, IInv, ProcAgrees
    <2>3. \A q \in Procs, j \in Jobs : SlotAgrees(q, j)'
      BY Parts DEF AllAgree, IInv, SlotAgrees
    <2>4. ASSUME NEW u \in Users PROVE UserAgrees(u)'
      <3>1. UserAgrees(u) /\ UserKnows(u)
        BY Parts DEF AllAgree, IInv, History
      <3> QED  BY <3>1 DEF UserAgrees, UserKnows
    <2> QED  BY <2>1, <2>2, <2>3, <2>4, PartsNext DEF AllAgree
  <1>3. History'
    <2>1. ASSUME NEW c \in Calls PROVE CallKnows(c)'
      BY <1>1, AtHand, Points DEF CallKnows, Active
    <2>2. ASSUME NEW u \in Users PROVE UserKnows(u)'
      BY DEF IInv, History, UserKnows
    <2> QED  BY <2>1, <2>2 DEF History
  <1> QED  BY <1>2, <1>3 DEF IInv

\* Opening takes the lease, which no process holds, and lists the jobs to recover.
LEMMA OpenProjectStep ==
  ASSUME IInv, NEW p \in Procs, OpenProject(p)
  PROVE  IInv'
  <1>0. TypeOK
    BY DEF IInv
  <1>1. \A q \in Procs : sess[q] = "closed" /\ todo[q] = {} /\ failing[q] = Nobody
    BY Parts, NobodyAssumption DEF AllAgree, IInv, ProcAgrees, OpenProject
  <1>2. \A c \in Calls : ~Active(c)
    BY <1>1, AtHand DEF CallAgrees
  <1>3. /\ owner' = p /\ sess' \in [Procs -> {"closed", "recovering", "open"}]
        /\ sess'[p] = "recovering" /\ \A q \in Procs \ {p} : sess'[q] = sess[q]
        /\ opens' \in 0 .. MaxOpens
        /\ UNCHANGED <<row, last, failing, active, mu, call, user>>
    BY <1>0, BoundsAssumption DEF OpenProject, TypeOK
  <1>4. /\ todo' \in [Procs -> SUBSET Jobs] /\ \A q \in Procs \ {p} : todo'[q] = todo[q]
    BY <1>0 DEF OpenProject, TypeOK, Unfinished
  <1>5. TypeOK'
    BY <1>0, <1>3, <1>4 DEF TypeOK
  <1>6. \A j \in Jobs : JobKnows(j)'
    BY <1>3 DEF IInv, History, JobKnows
  <1> QED  BY <1>1, <1>2, <1>3, <1>4, <1>5, <1>6, OpeningStep

\* While a process recovers, it owns the lease and no call of any process executes a job.
LEMMA RecoveringFacts ==
  ASSUME IInv, NEW p \in Procs, sess[p] = "recovering"
  PROVE  /\ \A c \in Calls : ~Active(c)
         /\ owner = p /\ TypeOK
         /\ \A q \in Procs \ {p} : sess[q] = "closed" /\ todo[q] = {} /\ failing[q] = Nobody
  <1>1. \A q \in Procs : ProcAgrees(q)
    BY Parts DEF AllAgree, IInv
  <1>2. \A c \in Calls : ~Active(c)
    BY NoRecovery DEF IInv
  <1> QED  BY <1>1, <1>2 DEF IInv, ProcAgrees

\* Recovery fails a job that nobody executes.
LEMMA RecoverMarkStep ==
  ASSUME IInv, NEW p \in Procs, NEW j \in Jobs, RecoverMark(p, j)
  PROVE  IInv'
  <1>0. /\ \A c \in Calls : ~Active(c)
        /\ owner = p /\ TypeOK /\ sess[p] = "recovering" /\ failing[p] = Nobody
        /\ \A q \in Procs \ {p} : sess[q] = "closed" /\ todo[q] = {} /\ failing[q] = Nobody
    BY RecoveringFacts DEF RecoverMark
  <1>1. /\ todo' \in [Procs -> SUBSET Jobs] /\ \A q \in Procs \ {p} : todo'[q] = todo[q]
        /\ UNCHANGED <<last, owner, sess, active, mu, call, user, opens>>
    BY <1>0 DEF RecoverMark, TypeOK
  <1>2. CASE UNCHANGED <<row, failing>>
    <2>1. TypeOK'
      BY <1>0, <1>1, <1>2 DEF TypeOK
    <2>2. \A k \in Jobs : JobKnows(k)'
      BY <1>1, <1>2 DEF IInv, History, JobKnows
    <2> QED  BY <1>0, <1>1, <1>2, <2>1, <2>2, OpeningStep
  <1>3. CASE /\ Accepts(row[j], "FAILED") /\ SetRow(j, "FAILED")
             /\ failing' = [failing EXCEPT ![p] = j]
    <2>1. /\ row' \in [Jobs -> JobState \cup {"NONE"}] /\ row'[j] = "FAILED"
          /\ \A k \in Jobs \ {j} : row'[k] = row[k]
      BY <1>0, <1>3, SetRowFacts, Tables
    <2>2. row[j] # "NONE"
      BY <1>3 DEF Accepts, CanTransitionTo
    <2>3. /\ failing' \in [Procs -> Jobs \cup {Nobody}] /\ failing'[p] = j
          /\ \A q \in Procs \ {p} : failing'[q] = failing[q]
      BY <1>0, <1>3 DEF TypeOK
    <2>4. TypeOK'
      BY <1>0, <1>1, <2>1, <2>3 DEF TypeOK
    <2>5. ASSUME NEW k \in Jobs PROVE JobKnows(k)' /\ (row'[k] = "NONE" => row[k] = "NONE")
      BY <1>1, <2>1 DEF IInv, History, JobKnows
    <2> QED  BY <1>0, <1>1, <2>1, <2>3, <2>4, <2>5, OpeningStep
  <1> QED  BY <1>2, <1>3 DEF RecoverMark

\* The failure of a recovered job is logged by the process that stored it.
LEMMA RecoverEventStep ==
  ASSUME IInv, NEW p \in Procs, RecoverEvent(p)
  PROVE  IInv'
  <1>0. /\ \A c \in Calls : ~Active(c)
        /\ owner = p /\ TypeOK /\ sess[p] = "recovering" /\ failing[p] # Nobody
        /\ \A q \in Procs \ {p} : sess[q] = "closed" /\ todo[q] = {} /\ failing[q] = Nobody
    BY RecoveringFacts DEF RecoverEvent
  <1>1. PICK i \in Jobs : i = failing[p] /\ row[i] = "FAILED"
    BY <1>0 DEF IInv, History, TypeOK
  <1>2. /\ failing' \in [Procs -> Jobs \cup {Nobody}] /\ failing'[p] = Nobody
        /\ \A q \in Procs \ {p} : failing'[q] = failing[q]
        /\ UNCHANGED <<row, owner, sess, todo, active, mu, call, user, opens>>
    BY <1>0 DEF RecoverEvent, TypeOK
  <1>3. /\ last' \in [Jobs -> EventType \cup {"none"}]
        /\ \A j \in Jobs \ {i} : last'[j] = last[j]
    <2>1. CASE UNCHANGED last
      BY <1>0, <2>1 DEF TypeOK
    <2>2. CASE AppendEvent(i, "failed")
      BY <1>0, <2>2, AppendEventFacts, Tables
    <2> QED  BY <1>1, <2>1, <2>2 DEF RecoverEvent
  <1>4. TypeOK'
    BY <1>0, <1>1, <1>2, <1>3 DEF TypeOK
  <1>5. ASSUME NEW j \in Jobs PROVE JobKnows(j)'
    BY <1>1, <1>2, <1>3 DEF IInv, History, JobKnows
  <1> QED  BY <1>0, <1>2, <1>4, <1>5, OpeningStep

\* A process serves calls once its recovery has nothing left to do.
LEMMA OpenReadyStep ==
  ASSUME IInv, NEW p \in Procs, OpenReady(p)
  PROVE  IInv'
  <1>0. /\ \A c \in Calls : ~Active(c)
        /\ owner = p /\ TypeOK /\ todo[p] = {} /\ failing[p] = Nobody
        /\ \A q \in Procs \ {p} : sess[q] = "closed" /\ todo[q] = {} /\ failing[q] = Nobody
    BY RecoveringFacts DEF OpenReady
  <1>1. /\ sess' \in [Procs -> {"closed", "recovering", "open"}] /\ sess'[p] = "open"
        /\ \A q \in Procs \ {p} : sess'[q] = sess[q]
        /\ UNCHANGED <<row, last, owner, todo, failing, active, mu, call, user, opens>>
    BY <1>0 DEF OpenReady, TypeOK
  <1>2. TypeOK'
    BY <1>0, <1>1 DEF TypeOK
  <1>3. \A j \in Jobs : JobKnows(j)'
    BY <1>1 DEF IInv, History, JobKnows
  <1> QED  BY <1>0, <1>1, <1>2, <1>3, OpeningStep

\* The end of a session takes its calls and its lease away together.
LEMMA EndSessionStep ==
  ASSUME IInv, NEW p \in Procs, EndSession(p)
  PROVE  IInv'
  <1>0. TypeOK /\ p # Nobody
    BY NobodyAssumption DEF IInv
  <1>1. /\ call' \in [Calls -> Call]
        /\ \A c \in Calls : call'[c] = IF call[c].proc = p THEN Done ELSE call[c]
    BY <1>0, DoneType DEF EndSession, TypeOK, Call
  <1>2. /\ user' \in [Users -> [pc : {"idle", "read", "write", "cancel"}, job : Jobs \cup {Nobody},
                         target : Calls \cup {Nobody}, proc : Procs \cup {Nobody}]]
        /\ \A u \in Users : \/ user'[u] = user[u] /\ user[u].proc # p
                            \/ user'[u].pc = "idle"
    <2>1. user \in [Users -> User]
      BY <1>0 DEF TypeOK, User
    <2>2. \A u \in Users : [user[u] EXCEPT !.pc = "idle"] \in User
      BY <2>1 DEF User
    <2>3. \A u \in Users : [user[u] EXCEPT !.pc = "idle"].pc = "idle"
      BY <2>1 DEF User
    <2>4. user' \in [Users -> User]
      BY <2>1, <2>2 DEF EndSession
    <2>5. \A u \in Users : user'[u] = IF user[u].proc = p THEN [user[u] EXCEPT !.pc = "idle"]
                                                         ELSE user[u]
      BY DEF EndSession
    <2> QED  BY <2>3, <2>4, <2>5 DEF User
  <1>3. /\ sess' \in [Procs -> {"closed", "recovering", "open"}] /\ sess'[p] = "closed"
        /\ todo' \in [Procs -> SUBSET Jobs] /\ todo'[p] = {}
        /\ failing' \in [Procs -> Jobs \cup {Nobody}] /\ failing'[p] = Nobody
        /\ mu' \in [Procs -> Calls \cup {Nobody}] /\ mu'[p] = Nobody
        /\ \A q \in Procs \ {p} : /\ sess'[q] = sess[q] /\ todo'[q] = todo[q]
                                  /\ failing'[q] = failing[q] /\ mu'[q] = mu[q]
    BY <1>0 DEF EndSession, TypeOK
  <1>4. /\ active' \in [Procs -> [Jobs -> Calls \cup {Nobody}]]
        /\ \A j \in Jobs : active'[p][j] = Nobody
        /\ \A q \in Procs \ {p} : active'[q] = active[q]
    BY <1>0 DEF EndSession, TypeOK
  <1>5. owner' = (IF owner = p THEN Nobody ELSE owner) /\ UNCHANGED <<row, last, opens>>
    BY DEF EndSession
  <1>6. TypeOK'
    BY <1>0, <1>1, <1>2, <1>3, <1>4, <1>5 DEF TypeOK, Call
  <1>7. Agreement'
    <2>1. ASSUME NEW c \in Calls PROVE CallAgrees(c)'
      <3>1. CASE call[c].proc = p
        BY <1>1, <3>1, DoneType, Points DEF CallAgrees, Active
      <3>2. CASE call[c].proc # p
        <4>1. call'[c] = call[c] /\ CallAgrees(c) /\ (call[c].pc \in HoldsSlot => Active(c))
          BY <1>1, <3>2, AtHand, Points DEF Active
        <4> QED  BY <1>3, <1>4, <3>2, <4>1, Points DEF CallAgrees, Active
      <3> QED  BY <3>1, <3>2
    <2>2. ASSUME NEW q \in Procs PROVE ProcAgrees(q)'
      <3>1. ProcAgrees(q) /\ mu[q] \in Calls \cup {Nobody}
        BY <1>0, Parts DEF AllAgree, IInv, TypeOK
      <3> QED  BY <1>1, <1>3, <1>5, <3>1 DEF ProcAgrees
    <2>3. ASSUME NEW q \in Procs, NEW j \in Jobs PROVE SlotAgrees(q, j)'
      <3>1. SlotAgrees(q, j) /\ active[q][j] \in Calls \cup {Nobody}
        BY <1>0, Parts DEF AllAgree, IInv, TypeOK
      <3> QED  BY <1>1, <1>4, <3>1 DEF SlotAgrees
    <2>4. ASSUME NEW u \in Users PROVE UserAgrees(u)'
      <3>1. UserAgrees(u) /\ UserKnows(u)
        BY Parts DEF AllAgree, IInv, History
      <3> QED  BY <1>2, <1>3, <3>1 DEF UserAgrees, UserKnows
    <2> QED  BY <2>1, <2>2, <2>3, <2>4, PartsNext DEF AllAgree
  <1>8. ASSUME NEW c \in Calls PROVE CallKnows(c)'
    <2>1. CASE call[c].proc = p
      BY <1>1, <2>1, DoneType, Points DEF CallKnows, Active
    <2>2. CASE call[c].proc # p
      <3>1. \A d \in Calls : Active(d)' => Active(d) /\ call'[d] = call[d]
        BY <1>1, DoneType DEF Active
      <3> QED  BY <1>1, <1>5, <2>2, <3>1, AtHand DEF CallKnows, Active
    <2> QED  BY <2>1, <2>2
  <1>9. /\ \A j \in Jobs : JobKnows(j)'
        /\ \A q \in Procs : failing'[q] # Nobody => row'[failing'[q]] = "FAILED"
    BY <1>3, <1>5 DEF IInv, History, JobKnows
  <1>10. \A u \in Users : UserKnows(u)'
    BY <1>2, <1>5 DEF IInv, History, UserKnows
  <1> QED  BY <1>6, <1>7, <1>8, <1>9, <1>10 DEF IInv, History

-----------------------------------------------------------------------------
(* Requests.                                                                *)

(* A request moves; the row of its job becomes CANCEL_REQUESTED at most,    *)
(* and of the calls no more than a context changes.                         *)
LEMMA UserStep ==
  ASSUME IInv, NEW u \in Users, user' \in [Users -> User],
         \A v \in Users \ {u} : user'[v] = user[v],
         UserKnows(u)', UserAgrees(u)',
         call' \in [Calls -> Call],
         \A c \in Calls : /\ call'[c].pc = call[c].pc /\ call'[c].job = call[c].job
                          /\ call'[c].proc = call[c].proc /\ call'[c].out = call[c].out
                          /\ call'[c].poller = call[c].poller,
         UNCHANGED <<last, owner, sess, todo, failing, active, mu, opens>>,
         row' \in [Jobs -> JobState \cup {"NONE"}],
         \A j \in Jobs : \/ row'[j] = row[j]
                         \/ /\ row'[j] = "CANCEL_REQUESTED" /\ row[j] # "NONE"
                            /\ \A q \in Procs : failing[q] = Nobody
  PROVE  IInv'
  <1>0. TypeOK
    BY DEF IInv
  <1>1. TypeOK'
    BY <1>0 DEF TypeOK, Call, User
  <1>2. Agreement'
    <2>1. ASSUME NEW c \in Calls PROVE CallAgrees(c)'
      BY AtHand DEF CallAgrees, Active
    <2>2. ASSUME NEW q \in Procs PROVE ProcAgrees(q)'
      <3>1. ProcAgrees(q) /\ mu[q] \in Calls \cup {Nobody}
        BY <1>0, Parts DEF AllAgree, IInv, TypeOK
      <3> QED  BY <3>1 DEF ProcAgrees
    <2>3. ASSUME NEW q \in Procs, NEW j \in Jobs PROVE SlotAgrees(q, j)'
      <3>1. SlotAgrees(q, j) /\ active[q][j] \in Calls \cup {Nobody}
        BY <1>0, Parts DEF AllAgree, IInv, TypeOK
      <3> QED  BY <3>1 DEF SlotAgrees
    <2>4. ASSUME NEW v \in Users PROVE UserAgrees(v)'
      BY Parts DEF AllAgree, IInv, UserAgrees
    <2> QED  BY <2>1, <2>2, <2>3, <2>4, PartsNext DEF AllAgree
  <1>3. ASSUME NEW c \in Calls PROVE CallKnows(c)'
    <2>1. /\ Active(c) => call[c].job \in Jobs
          /\ \A d \in Calls : Active(d)' <=> Active(d)
      BY AtHand DEF CallAgrees, Active
    <2>2. CASE ~Active(c)
      BY <2>1, <2>2, AtHand, Points DEF CallKnows, Active
    <2>3. CASE Active(c)
      <3>1. PICK i \in Jobs : i = call[c].job /\ i = call'[c].job
        BY <2>1, <2>3
      <3>2. \/ row'[i] = row[i]
            \/ row'[i] = "CANCEL_REQUESTED"
        OBVIOUS
      <3> QED  BY <2>1, <2>3, <3>1, <3>2, AtHand DEF CallKnows, Active
    <2> QED  BY <2>2, <2>3
  <1>4. /\ \A j \in Jobs : JobKnows(j)'
        /\ \A q \in Procs : failing'[q] # Nobody => row'[failing'[q]] = "FAILED"
    BY <1>0 DEF IInv, History, JobKnows, TypeOK
  <1>5. ASSUME NEW v \in Users PROVE UserKnows(v)'
    BY <1>5 DEF IInv, History, UserKnows
  <1> QED  BY <1>1, <1>2, <1>3, <1>4, <1>5 DEF IInv, History

\* What a request to cancel under way knows of its job and process.
LEMMA UserFields ==
  ASSUME IInv, NEW u \in Users, user[u].pc # "idle"
  PROVE  /\ user[u] \in User /\ user[u].job \in Jobs /\ user[u].target \in Calls
         /\ user[u].proc \in Procs /\ row[user[u].job] # "NONE"
         /\ sess[user[u].proc] = "open" /\ \A q \in Procs : failing[q] = Nobody
  <1>1. UserKnows(u) /\ UserAgrees(u) /\ \A q \in Procs : ProcAgrees(q)
    BY Parts DEF AllAgree, IInv, History
  <1>2. user[u] \in User
    BY DEF IInv, TypeOK, User
  <1> QED  BY <1>1, <1>2 DEF UserKnows, UserAgrees, ProcAgrees

(* A request under way goes from one point to the next.                     *)
LEMMA UserGoto ==
  ASSUME IInv, NEW u \in Users, user[u].pc # "idle",
         NEW pc \in {"idle", "read", "write", "cancel"},
         user' = [user EXCEPT ![u].pc = pc],
         UNCHANGED sess, \A j \in Jobs : row[j] # "NONE" => row'[j] # "NONE"
  PROVE  /\ user' \in [Users -> User] /\ \A v \in Users \ {u} : user'[v] = user[v]
         /\ UserKnows(u)' /\ UserAgrees(u)'
  <1>1. user \in [Users -> User]
    BY DEF IInv, TypeOK, User
  <1>2. [user[u] EXCEPT !.pc = pc] \in User
    BY <1>1 DEF User
  <1>3. user' = [user EXCEPT ![u] = [user[u] EXCEPT !.pc = pc]]
    BY <1>1
  <1>4. /\ user' \in [Users -> User] /\ user'[u] = [user[u] EXCEPT !.pc = pc]
        /\ \A v \in Users \ {u} : user'[v] = user[v]
    BY <1>1, <1>2, <1>3
  <1>5. /\ user'[u].job = user[u].job /\ user'[u].target = user[u].target
        /\ user'[u].proc = user[u].proc
    BY <1>1, <1>4 DEF User
  <1> QED  BY <1>4, <1>5, UserFields DEF UserKnows, UserAgrees

\* A request to cancel takes its target from the active map.
LEMMA RequestCancelStep ==
  ASSUME IInv, NEW u \in Users, NEW j \in Jobs, NEW p \in Procs, RequestCancel(u, j, p)
  PROVE  IInv'
  <1>0. TypeOK /\ active[p][j] \in Calls
    BY DEF IInv, TypeOK, RequestCancel
  <1>1. PICK c \in Calls : c = active[p][j]
    BY <1>0
  <1>2. call[c].job = j /\ call[c].pc \in HoldsSlot
    BY <1>1, Parts, NobodyAssumption DEF AllAgree, IInv, SlotAgrees, RequestCancel
  <1>3. row[j] # "NONE"
    BY <1>2, AtHand, Points DEF CallKnows, Active
  <1>4. [pc |-> "read", job |-> j, target |-> c, proc |-> p] \in User
    BY DEF User
  <1>5. /\ user' \in [Users -> User]
        /\ user'[u] = [pc |-> "read", job |-> j, target |-> c, proc |-> p]
        /\ \A v \in Users \ {u} : user'[v] = user[v]
    BY <1>0, <1>1, <1>4 DEF RequestCancel, TypeOK, User
  <1>6. UNCHANGED <<row, last, owner, sess, todo, failing, active, mu, call, opens>>
        /\ sess[p] = "open"
    BY DEF RequestCancel
  <1>7. UserKnows(u)' /\ UserAgrees(u)'
    BY <1>3, <1>5, <1>6 DEF UserKnows, UserAgrees
  <1>8. call' \in [Calls -> Call] /\ row' \in [Jobs -> JobState \cup {"NONE"}]
    BY <1>0, <1>6 DEF TypeOK, Call
  <1> QED  BY <1>5, <1>6, <1>7, <1>8, UserStep

\* A request reads whether the row accepts it; the row may change before it is written.
LEMMA CancelReadStep ==
  ASSUME IInv, NEW u \in Users, CancelRead(u)
  PROVE  IInv'
  <1>1. PICK pc \in {"write", "cancel"} : user' = [user EXCEPT ![u].pc = pc]
    BY DEF CancelRead
  <1>2. UNCHANGED <<row, last, owner, sess, todo, failing, active, mu, call, opens>>
        /\ user[u].pc # "idle"
    BY DEF CancelRead
  <1>3. /\ user' \in [Users -> User] /\ \A v \in Users \ {u} : user'[v] = user[v]
        /\ UserKnows(u)' /\ UserAgrees(u)'
    BY <1>1, <1>2, UserGoto
  <1>4. call' \in [Calls -> Call] /\ row' \in [Jobs -> JobState \cup {"NONE"}]
    BY <1>2 DEF IInv, TypeOK, Call
  <1> QED  BY <1>2, <1>3, <1>4, UserStep

\* A request is stored in the row of its job, or the write fails.
LEMMA CancelWriteStep ==
  ASSUME IInv, NEW u \in Users, CancelWrite(u)
  PROVE  IInv'
  <1>0. TypeOK /\ user[u].pc # "idle" /\ \A q \in Procs : failing[q] = Nobody
    BY UserFields DEF IInv, CancelWrite
  <1>1. user' = [user EXCEPT ![u].pc = "cancel"]
    BY DEF CancelWrite
  <1>2. UNCHANGED <<last, owner, sess, todo, failing, active, mu, call, opens>>
    BY DEF CancelWrite
  <1>3. PICK i \in Jobs : i = user[u].job /\ row[i] # "NONE"
    BY <1>0, UserFields
  <1>4. /\ row' \in [Jobs -> JobState \cup {"NONE"}]
        /\ \A j \in Jobs : row'[j] = row[j] \/ (row'[j] = "CANCEL_REQUESTED" /\ row[j] # "NONE")
    <2>1. CASE SetRow(i, "CANCEL_REQUESTED")
      BY <1>0, <1>3, <2>1, SetRowFacts, Tables
    <2>2. CASE UNCHANGED row
      BY <1>0, <2>2 DEF TypeOK
    <2> QED  BY <1>3, <2>1, <2>2 DEF CancelWrite
  <1>5. /\ user' \in [Users -> User] /\ \A v \in Users \ {u} : user'[v] = user[v]
        /\ UserKnows(u)' /\ UserAgrees(u)'
    BY <1>0, <1>1, <1>2, <1>4, UserGoto
  <1>6. call' \in [Calls -> Call]
    BY <1>0, <1>2 DEF TypeOK, Call
  <1> QED  BY <1>0, <1>2, <1>4, <1>5, <1>6, UserStep

\* Cancelling the context reaches the call the request read, if that still runs.
LEMMA CancelContextStep ==
  ASSUME IInv, NEW u \in Users, CancelContext(u)
  PROVE  IInv'
  <1>0. TypeOK /\ user[u].pc # "idle"
    BY DEF IInv, CancelContext
  <1>1. user' = [user EXCEPT ![u].pc = "idle"]
    BY DEF CancelContext
  <1>2. UNCHANGED <<row, last, owner, sess, todo, failing, active, mu, opens>>
    BY DEF CancelContext
  <1>3. PICK t \in Calls : t = user[u].target
    BY <1>0, UserFields
  <1>4. /\ user' \in [Users -> User] /\ \A v \in Users \ {u} : user'[v] = user[v]
        /\ UserKnows(u)' /\ UserAgrees(u)'
    BY <1>0, <1>1, <1>2, UserGoto
  <1>5. /\ call' \in [Calls -> Call]
        /\ \A c \in Calls : /\ call'[c].pc = call[c].pc /\ call'[c].job = call[c].job
                            /\ call'[c].proc = call[c].proc /\ call'[c].out = call[c].out
                            /\ call'[c].poller = call[c].poller
    <2>1. CASE UNCHANGED call
      BY <1>0, <2>1 DEF TypeOK, Call
    <2>2. CASE call' = [call EXCEPT ![t].ctx = "cancelled"]
      <3>1. call[t] \in Call
        BY <1>0, CallFields
      <3>2. [call[t] EXCEPT !.ctx = "cancelled"] \in Call
        BY <3>1 DEF Call
      <3>3. call' = [call EXCEPT ![t] = [call[t] EXCEPT !.ctx = "cancelled"]]
        BY <2>2, <1>0 DEF TypeOK
      <3>4. /\ call' \in [Calls -> Call] /\ call'[t] = [call[t] EXCEPT !.ctx = "cancelled"]
            /\ \A d \in Calls \ {t} : call'[d] = call[d]
        BY <1>0, <3>2, <3>3, CallUpdate
      <3> QED  BY <3>1, <3>4 DEF Call
    <2> QED  BY <1>3, <2>1, <2>2 DEF CancelContext
  <1>6. row' \in [Jobs -> JobState \cup {"NONE"}]
    BY <1>0, <1>2 DEF TypeOK
  <1> QED  BY <1>2, <1>4, <1>5, <1>6, UserStep

-----------------------------------------------------------------------------
(* The invariant is inductive.                                              *)

\* The invariant holds initially.
LEMMA Initially == Init => IInv
  <1> SUFFICES ASSUME Init PROVE IInv
    OBVIOUS
  <1>1. Idle \in Call /\ Idle.pc = "idle" /\ ~Idle.poller
    BY DEF Idle, Call, CallPc, Outcomes, FinalState
  <1>2. TypeOK
    BY <1>1, BoundsAssumption DEF Init, TypeOK, Call
  <1>3. \A c \in Calls : call[c] = Idle
    BY DEF Init
  <1>4. AllAgree
    BY <1>1, <1>3, Points DEF AllAgree, ProcAgrees, SlotAgrees, CallAgrees, UserAgrees, Init, Active
  <1>5. History
    BY <1>1, <1>3, Points, Tables DEF History, CallKnows, JobKnows, UserKnows, Init, Active
  <1> QED  BY <1>2, <1>4, <1>5, Parts DEF IInv

\* Every step of a call keeps the invariant.
LEMMA RunSteps ==
  ASSUME IInv, NEW c \in Calls,
         RunStep(c) \/ StageRead(c) \/ Poll(c) \/ ScanReturns(c) \/ AccessEnds(c)
  PROVE  IInv'
  BY CreateEventStep, RunEntersStep, ReturnStep, StartReadStep, StartWriteStep, AnnounceStep,
     StageWriteStep, StageEventStep, PollEndsStep, JoinStep, SummaryStep, SelfReadStep,
     SelfWriteStep, FinalReadStep, FinalWriteStep, FinalFailsStep, EmitFinalStep,
     StageReadStep, PollStep, ScanReturnsStep, AccessEndsStep
     DEF RunStep

\* Every step keeps the invariant.
LEMMA NextStep == IInv /\ [Next]_vars => IInv'
  <1> SUFFICES ASSUME IInv, [Next]_vars PROVE IInv'
    OBVIOUS
  <1>1. ASSUME NEW p \in Procs,
               \/ OpenProject(p) \/ RecoverEvent(p) \/ OpenReady(p) \/ EndSession(p)
               \/ \E j \in Jobs : RecoverMark(p, j)
        PROVE  IInv'
    BY <1>1, OpenProjectStep, RecoverEventStep, OpenReadyStep, EndSessionStep, RecoverMarkStep
  <1>2. ASSUME NEW c \in Calls, NEW j \in Jobs, NEW p \in Procs,
               Create(c, j, p) \/ RunAgain(c, j, p)
        PROVE  IInv'
    BY <1>2, CreateStep, RunAgainStep
  <1>3. ASSUME NEW u \in Users, \/ \E j \in Jobs, p \in Procs : RequestCancel(u, j, p)
                                \/ CancelStep(u)
        PROVE  IInv'
    BY <1>3, RequestCancelStep, CancelReadStep, CancelWriteStep, CancelContextStep DEF CancelStep
  <1>4. CASE UNCHANGED vars
    BY <1>4 DEF vars, IInv, TypeOK, Agreement, History, CallKnows, JobKnows, UserKnows, Active
  <1> QED  BY <1>1, <1>2, <1>3, <1>4, RunSteps DEF Next

\* The invariant holds in every reachable state.
LEMMA Inductive == Spec => []IInv
  BY Initially, NextStep, PTL DEF Spec

-----------------------------------------------------------------------------
(* The theorems.                                                            *)

(* Every variable has its sort, and no event is logged for a job that was   *)
(* not created (Create inserts the row before its first event).             *)
THEOREM TypeCorrect == Spec => []TypeOK
  <1>1. IInv => TypeOK
    BY DEF IInv
  <1> QED  BY <1>1, Inductive, PTL

(* No two calls of Run execute one job, in whatever processes they are: a   *)
(* call past the reservation is the one in the map of its process, and that *)
(* process holds the lease of the database and has finished its recovery.   *)
THEOREM OneExecutor == Spec => []Agreement
  <1>1. IInv => Agreement
    BY DEF IInv
  <1> QED  BY <1>1, Inductive, PTL

-----------------------------------------------------------------------------
(* How a job ends.                                                          *)

(* Who writes the rows ...                                                  *)
LEMMA RowWriters ==
  ASSUME Next
  PROVE  \/ UNCHANGED row
         \/ \E p \in Procs, j \in Jobs : RecoverMark(p, j)
         \/ \E c \in Calls, j \in Jobs, p \in Procs : Create(c, j, p)
         \/ \E c \in Calls : StartWrite(c) \/ StageWrite(c) \/ SelfWrite(c) \/ FinalWrite(c)
         \/ \E u \in Users : CancelWrite(u)
  <1>1. ASSUME NEW c \in Calls, RunStep(c)
        PROVE  \/ UNCHANGED row
               \/ StartWrite(c) \/ StageWrite(c) \/ SelfWrite(c) \/ FinalWrite(c)
    BY <1>1 DEF RunStep, CreateEvent, RunEnters, RunRefused, StartRead, StartFails, Announce,
                StageEvent, PollEnds, Join, Summary, SelfRead, FinalRead, FinalFails, EmitFinal,
                Leave
  <1>2. ASSUME NEW c \in Calls, StageRead(c) \/ Poll(c) \/ ScanReturns(c) \/ AccessEnds(c)
        PROVE  UNCHANGED row
    BY <1>2 DEF StageRead, Poll, ScanReturns, AccessEnds
  <1>3. ASSUME NEW p \in Procs, OpenProject(p) \/ RecoverEvent(p) \/ OpenReady(p) \/ EndSession(p)
        PROVE  UNCHANGED row
    BY <1>3 DEF OpenProject, RecoverEvent, OpenReady, EndSession
  <1>4. ASSUME NEW c \in Calls, NEW j \in Jobs, NEW p \in Procs, RunAgain(c, j, p)
        PROVE  UNCHANGED row
    BY <1>4 DEF RunAgain
  <1>5. ASSUME NEW u \in Users, NEW j \in Jobs, NEW p \in Procs, RequestCancel(u, j, p)
        PROVE  UNCHANGED row
    BY <1>5 DEF RequestCancel
  <1>6. ASSUME NEW u \in Users, CancelStep(u)
        PROVE  UNCHANGED row \/ CancelWrite(u)
    BY <1>6 DEF CancelStep, CancelRead, CancelContext
  <1> QED  BY <1>1, <1>2, <1>3, <1>4, <1>5, <1>6 DEF Next

(* ... and who logs events.                                                 *)
LEMMA EventWriters ==
  ASSUME Next
  PROVE  \/ UNCHANGED last
         \/ \E p \in Procs : RecoverEvent(p)
         \/ \E c \in Calls : \/ CreateEvent(c) \/ Announce(c) \/ StageEvent(c) \/ Poll(c)
                             \/ Summary(c) \/ EmitFinal(c)
  <1>1. ASSUME NEW c \in Calls, RunStep(c)
        PROVE  \/ UNCHANGED last
               \/ CreateEvent(c) \/ Announce(c) \/ StageEvent(c) \/ Summary(c) \/ EmitFinal(c)
    BY <1>1 DEF RunStep, RunEnters, RunRefused, StartRead, StartWrite, StartFails, StageWrite,
                PollEnds, Join, SelfRead, SelfWrite, FinalRead, FinalWrite, FinalFails, Leave
  <1>2. ASSUME NEW c \in Calls, StageRead(c) \/ ScanReturns(c) \/ AccessEnds(c)
        PROVE  UNCHANGED last
    BY <1>2 DEF StageRead, ScanReturns, AccessEnds
  <1>3. ASSUME NEW p \in Procs,
               \/ OpenProject(p) \/ OpenReady(p) \/ EndSession(p)
               \/ \E j \in Jobs : RecoverMark(p, j)
        PROVE  UNCHANGED last
    BY <1>3 DEF OpenProject, RecoverMark, OpenReady, EndSession
  <1>4. ASSUME NEW c \in Calls, NEW j \in Jobs, NEW p \in Procs, Create(c, j, p) \/ RunAgain(c, j, p)
        PROVE  UNCHANGED last
    BY <1>4 DEF Create, RunAgain
  <1>5. ASSUME NEW u \in Users, \/ \E j \in Jobs, p \in Procs : RequestCancel(u, j, p)
                                \/ CancelStep(u)
        PROVE  UNCHANGED last
    BY <1>5 DEF RequestCancel, CancelStep, CancelRead, CancelWrite, CancelContext
  <1> QED  BY <1>1, <1>2, <1>3, <1>4, <1>5 DEF Next

(* Between its reading and its writing of the row a call holds the slot, so *)
(* nobody else writes a state or an end of that job.                        *)
LEMMA OwnRow ==
  ASSUME IInv, Next, NEW c \in Calls, call[c].pc \in Executing,
         row'[call[c].job] # row[call[c].job]
  PROVE  row'[call[c].job] = "CANCEL_REQUESTED" \/ call'[c] # call[c]
  <1>1. PICK j \in Jobs : j = call[c].job
    BY AtHand, Points DEF CallAgrees, Active
  <1>2. Active(c) /\ TypeOK /\ row[j] # "NONE"
    BY <1>1, AtHand, Points DEF CallKnows, Active
  <1>3. ASSUME NEW p \in Procs, NEW k \in Jobs, RecoverMark(p, k)
        PROVE  FALSE
    BY <1>2, <1>3, NoRecovery DEF IInv, RecoverMark
  <1>4. ASSUME NEW d \in Calls, NEW k \in Jobs, NEW p \in Procs, Create(d, k, p)
        PROVE  FALSE
    <2>1. row'[j] = row[j]
      BY <1>2, <1>4 DEF Create, SetRow, TypeOK
    <2> QED  BY <1>1, <2>1
  <1>5. ASSUME NEW d \in Calls, StartWrite(d) \/ StageWrite(d) \/ SelfWrite(d) \/ FinalWrite(d)
        PROVE  call'[c] # call[c]
    <2>1. call[d].pc \in HoldsSlot /\ Active(d)
      BY <1>5 DEF StartWrite, StageWrite, SelfWrite, FinalWrite, At, HoldsSlot, Executing, InBody,
                  Active
    <2>2. CASE d = c
      <3>1. PICK pc \in CallPc : Goto(c, pc) /\ pc # call[c].pc
        BY <1>5, <2>2 DEF StartWrite, StageWrite, SelfWrite, FinalWrite, At, CallPc
      <3> QED  BY <1>2, <3>1, GotoFacts
    <2>3. CASE d # c
      <3>1. call[d].job # j /\ call[d].job \in Jobs
        BY <1>1, <2>1, <2>3, OneRunner, Parts, Points, AtHand DEF AllAgree, IInv, CallAgrees
      <3>2. row'[j] = row[j]
        BY <1>2, <1>5, <3>1 DEF StartWrite, StageWrite, SelfWrite, FinalWrite, SetRow, TypeOK
      <3> QED  BY <1>1, <3>2
    <2> QED  BY <2>2, <2>3
  <1>6. ASSUME NEW u \in Users, CancelWrite(u)
        PROVE  row'[j] = "CANCEL_REQUESTED"
    BY <1>1, <1>2, <1>6 DEF CancelWrite, SetRow, TypeOK
  <1> QED  BY <1>1, <1>3, <1>4, <1>5, <1>6, RowWriters

(* After the terminal event nothing is logged, but by a recovery.           *)
LEMMA NothingAfterEnd ==
  ASSUME IInv, Next, NEW j \in Jobs, last[j] \in TerminalEvents, last'[j] # last[j]
  PROVE  \E p \in Procs : failing[p] = j /\ sess[p] = "recovering"
  <1>1. ASSUME NEW p \in Procs, RecoverEvent(p)
        PROVE  failing[p] = j /\ sess[p] = "recovering"
    BY <1>1 DEF RecoverEvent, AppendEvent, IInv, TypeOK
  <1>2. ASSUME NEW c \in Calls,
               \/ CreateEvent(c) \/ Announce(c) \/ StageEvent(c) \/ Poll(c)
               \/ Summary(c) \/ EmitFinal(c)
        PROVE  FALSE
    <2>1. \E e \in EventType : AppendEvent(call[c].job, e)
      BY <1>2, AtHand, CallFields, Tables
         DEF CreateEvent, Announce, StageEvent, Poll, Summary, EmitFinal, EventType
    <2>2. call[c].job = j
      BY <2>1 DEF AppendEvent, IInv, TypeOK
    <2>3. CallKnows(c)
      BY AtHand
    <2>4. call[c].pc \in Executing \cup {"create"}
      BY <1>2, <2>3 DEF CallKnows, CreateEvent, Announce, StageEvent, Poll, Summary, EmitFinal, At,
                        Executing, InBody
    <2> QED  BY <2>2, <2>3, <2>4, Tables DEF CallKnows
  <1> QED  BY <1>1, <1>2, EventWriters

(* CANCELLED is written over a recorded request only.                       *)
LEMMA CancelledWasRequested ==
  ASSUME IInv, Next, NEW j \in Jobs, row'[j] = "CANCELLED", row[j] # "CANCELLED"
  PROVE  row[j] = "CANCEL_REQUESTED"
  <1>0. TypeOK
    BY DEF IInv
  <1>1. ASSUME NEW i \in Jobs, NEW s \in JobState, SetRow(i, s)
        PROVE  i = j /\ s = "CANCELLED"
    BY <1>0, <1>1 DEF SetRow, TypeOK
  <1>2. ASSUME NEW p \in Procs, NEW k \in Jobs, RecoverMark(p, k) PROVE FALSE
    BY <1>1, <1>2, Tables DEF RecoverMark
  <1>3. ASSUME NEW d \in Calls, NEW k \in Jobs, NEW p \in Procs, Create(d, k, p) PROVE FALSE
    BY <1>1, <1>3, Tables DEF Create
  <1>4. ASSUME NEW u \in Users, CancelWrite(u) PROVE FALSE
    <2>1. user[u].job \in Jobs
      BY <1>4, UserFields DEF CancelWrite
    <2> QED  BY <1>1, <1>4, <2>1, Tables DEF CancelWrite
  <1>5. ASSUME NEW d \in Calls, StartWrite(d) \/ StageWrite(d) \/ SelfWrite(d) PROVE FALSE
    <2>1. call[d].job \in Jobs
      BY <1>5, AtHand DEF CallAgrees, StartWrite, StageWrite, SelfWrite, At, Active
    <2> QED  BY <1>1, <1>5, <2>1, Tables DEF StartWrite, StageWrite, SelfWrite
  <1>6. ASSUME NEW d \in Calls, FinalWrite(d) PROVE row[j] = "CANCEL_REQUESTED"
    <2>1. /\ call[d].job \in Jobs /\ call[d].pc = "final_write" /\ CallKnows(d)
          /\ call[d].out \in Outcomes
      BY <1>0, <1>6, AtHand, CallFields DEF CallAgrees, FinalWrite, At, Active
    <2>2. FinalState[call[d].out] \in JobState
      BY <2>1, Tables
    <2>3. call[d].job = j /\ FinalState[call[d].out] = "CANCELLED"
      BY <1>1, <1>6, <2>1, <2>2 DEF FinalWrite
    <2>4. call[d].out = "cancelled"
      BY <2>1, <2>3, Tables
    <2> QED  BY <2>1, <2>3, <2>4 DEF CallKnows
  <1> QED  BY <1>0, <1>2, <1>3, <1>4, <1>5, <1>6, RowWriters

(* A job has one end and has earned it: while a call executes a job nobody  *)
(* else ends it, after the terminal event only a later recovery logs its    *)
(* failure, and CANCELLED is written over a recorded request only           *)
(* (manager.go Run, Recover and RequestCancel; scan_job.go waits for the    *)
(* poller).                                                                 *)
THEOREM JobsEndOnce == Spec => EndsOnce
  <1> DEFINE A ==
        /\ \A c \in Calls :
             LET j == call[c].job IN
             call[c].pc \in Executing /\ row'[j] # row[j] =>
               row'[j] = "CANCEL_REQUESTED" \/ call'[c] # call[c]
        /\ \A j \in Jobs :
             last[j] \in TerminalEvents /\ last'[j] # last[j] =>
               \E p \in Procs : failing[p] = j /\ sess[p] = "recovering"
        /\ \A j \in Jobs : row'[j] = "CANCELLED" /\ row[j] # "CANCELLED" =>
             row[j] = "CANCEL_REQUESTED"
  <1>1. IInv /\ [Next]_vars => [A]_vars
    <2> SUFFICES ASSUME IInv, Next PROVE A
      OBVIOUS
    <2> QED  BY OwnRow, NothingAfterEnd, CancelledWasRequested
  <1> QED  BY <1>1, Inductive, PTL DEF Spec, EndsOnce
=============================================================================
