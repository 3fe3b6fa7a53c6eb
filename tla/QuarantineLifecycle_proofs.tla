--------------------- MODULE QuarantineLifecycle_proofs ---------------------
(***************************************************************************)
(* Proofs about QuarantineLifecycle, for every set of items and processes  *)
(* and every bound on plans, edits and crashes.                            *)
(***************************************************************************)
EXTENDS QuarantineLifecycle, TLAPS

IInv == TypeOK /\ OneUnresolved /\ Agreement

-----------------------------------------------------------------------------
(* The helpers of the actions *)

\* The volatile record of a call, field by field.
LEMMA JobFields ==
    ASSUME TypeOK, NEW w \in Worker
    PROVE  /\ job[w] \in Job
           /\ job[w].pc \in Pc /\ job[w].nr \in Nat
           /\ job[w].item \in Item \cup {None}
           /\ job[w].buf \in Content \cup {None, Partial}
           /\ job[w].batch \subseteq Item \cup (Item \X RNr)
  <1>1. job[w] \in Job  BY DEF TypeOK
  <1> QED  BY <1>1 DEF Job

\* Rewriting one record touches no other.
LEMMA JobUpdate ==
    ASSUME TypeOK, NEW w \in Worker, NEW r \in Job, job' = [job EXCEPT ![w] = r]
    PROVE  /\ job' \in [Worker -> Job]
           /\ job'[w] = r
           /\ \A v \in Worker \ {w} : job'[v] = job[v]
  BY DEF TypeOK

\* A process without a call has a record of the right sort.
LEMMA IdleType == Idle \in Job /\ Idle.pc = "idle" /\ Idle.batch = {}
  BY DEF Idle, Job, Pc

\* Moving on changes one program point and nothing else.
LEMMA GotoFacts ==
    ASSUME TypeOK, NEW w \in Worker, NEW pc \in Pc, Goto(w, pc)
    PROVE  /\ job' \in [Worker -> Job]
           /\ job'[w].pc = pc
           /\ job'[w].item = job[w].item /\ job'[w].nr = job[w].nr
           /\ job'[w].batch = job[w].batch
           /\ \A v \in Worker \ {w} : job'[v] = job[v]
  <1>1. [job[w] EXCEPT !.pc = pc] \in Job
    BY JobFields DEF Job
  <1>2. job' = [job EXCEPT ![w] = [job[w] EXCEPT !.pc = pc]]
    BY DEF Goto
  <1>3. /\ job' \in [Worker -> Job]
        /\ job'[w] = [job[w] EXCEPT !.pc = pc]
        /\ \A v \in Worker \ {w} : job'[v] = job[v]
    BY <1>1, <1>2, JobUpdate
  <1>4. job[w] \in Job
    BY JobFields
  <1> QED  BY <1>3, <1>4 DEF Job

\* A call that begins knows its item and its plan, and nothing else.
LEMMA EnterFacts ==
    ASSUME TypeOK, NEW w \in Worker, NEW pc \in Pc, NEW i \in Item, NEW n \in Nat,
           Enter(w, pc, i, n)
    PROVE  /\ job' \in [Worker -> Job]
           /\ job'[w].pc = pc /\ job'[w].item = i /\ job'[w].nr = n
           /\ job'[w].batch = {}
           /\ \A v \in Worker \ {w} : job'[v] = job[v]
  <1> DEFINE r == [Idle EXCEPT !.pc = pc, !.item = i, !.nr = n]
  <1>1. r \in Job /\ r.pc = pc /\ r.item = i /\ r.nr = n /\ r.batch = {}
    BY IdleType DEF Job, Idle
  <1>2. job' = [job EXCEPT ![w] = r]
    BY DEF Enter
  <1> QED  BY <1>1, <1>2, JobUpdate

\* A call that returns leaves no trace but the lock it gives back.
LEMMA ReturnFacts ==
    ASSUME TypeOK, NEW w \in Worker, Return(w)
    PROVE  /\ job' \in [Worker -> Job]
           /\ job'[w] = Idle
           /\ \A v \in Worker \ {w} : job'[v] = job[v]
           /\ lock' \in Worker \cup {None}
           /\ lock = w => lock' = None
           /\ lock # w => lock' = lock
  <1>1. job' = [job EXCEPT ![w] = Idle] /\ lock' = IF lock = w THEN None ELSE lock
    BY DEF Return
  <1> QED  BY <1>1, IdleType, JobUpdate DEF TypeOK

\* A process that does nothing relies on nothing.
LEMMA IdleKnows ==
    ASSUME NEW w \in Worker, job'[w] = Idle
    PROVE  Knows(w)'
  <1>1. job'[w].pc = "idle"
    BY IdleType
  <1> QED  BY <1>1 DEF Knows, Holding, Restoring, Moving, Reconciling, Purging, Deleting

\* The rows decide what is unresolved.
LEMMA SameRows ==
    ASSUME OneUnresolved, UNCHANGED <<rlog, plog, planLocked>>
    PROVE  OneUnresolved' /\ Pending' = Pending /\ Unsettled' = Unsettled /\ Clear' = Clear
  BY DEF OneUnresolved, Pending, Unsettled, Clear

-----------------------------------------------------------------------------
(* What the other processes know survives a step. *)

\* A step that changes neither rows nor staged files nor the lock
Quiet == /\ UNCHANGED <<rlog, plog, planLocked>>
         /\ \A x \in StagePath : data'[x] = data[x]
         /\ \A i \in Item : status[i] = "PURGE_ELIGIBLE" => status'[i] = "PURGE_ELIGIBLE"

\* Another process that holds the lock sees only quiet steps, and one that does
\* not relies on nothing that may change.
LEMMA OthersKnow ==
    ASSUME IInv, NEW w \in Worker \cup {None}, NEW v \in Worker \ {w}, job'[v] = job[v],
           dry \subseteq dry', expired \subseteq expired',
           lock \in {w, None} \/ (lock = v => lock' = v /\ Quiet)
    PROVE  Knows(v)'
  <1> DEFINE i == job[v].item
             n == job[v].nr
             pc == job[v].pc
  <1>1. Knows(v) /\ TypeOK /\ OneUnresolved
    BY DEF IInv, Agreement
  <1>2. CASE pc \notin Holding
    BY <1>1, <1>2 DEF Knows, Holding, Purging, Deleting, Restoring
  <1>3. CASE pc \in Holding
    <2>1. lock = v /\ lock' = v /\ Quiet
      BY <1>1, <1>3, NamesAssumption DEF Knows
    <2>2. Clear' = Clear
      BY <1>1, <2>1, SameRows DEF Quiet
    <2>3. pc \in {"commit", "unlink"} => <<i, n>> \in StagePath
      BY <1>1 DEF Knows, StagePath, Deleting
    <2>4. /\ pc = "fill" => job'[v].buf # None
          /\ pc \in Holding => lock' = v /\ job'[v].batch \subseteq Item \X RNr
          /\ pc = "listed" => job'[v].batch \subseteq Item
          /\ pc \notin {"idle", "recover", "listed"} => i \in Item
          /\ pc \in Restoring \cup Moving \cup Reconciling => n \in RNr
          /\ pc \in {"dryrun", "drymark"} \cup Purging \cup Deleting => n \in PNr
      BY <1>1, <2>1 DEF Knows
    <2>5. /\ pc \in Restoring \cup Purging => Clear'
          /\ pc \in Purging \cup Deleting => <<i, n>> \in dry' /\ i \in expired'
      BY <1>1, <2>2 DEF Knows
    <2>6. pc \in Deleting => status'[i] = "PURGE_ELIGIBLE"
      BY <1>1, <2>1 DEF Knows, Quiet, Deleting
    <2>7. /\ pc \in {"stage", "staged"} => plog'[i][n] = "pending"
          /\ pc \in {"check", "commit"} => plog'[i][n] = "staged"
          /\ pc \in {"unlink", "committed"} => plog'[i][n] = "commit_pending"
      BY <1>1, <2>1 DEF Knows, Quiet
    <2>8. pc \in {"commit", "unlink"} => HasHashOf(data'[<<i, n>>], i)
      BY <1>1, <2>1, <2>3 DEF Knows, Quiet
    <2> QED  BY <2>4, <2>5, <2>6, <2>7, <2>8 DEF Knows
  <1> QED  BY <1>2, <1>3

\* What is left to show of a step of one process
LEMMA Conclude ==
    ASSUME IInv, NEW w \in Worker \cup {None},
           TypeOK', OneUnresolved',
           w \in Worker => Knows(w)',
           \A v \in Worker \ {w} : job'[v] = job[v],
           dry \subseteq dry', expired \subseteq expired',
           \A v \in Worker \ {w} : lock \in {w, None} \/ (lock = v => lock' = v /\ Quiet),
           \A i \in Protected : status'[i] \in {"NONE", "HOLD", "RESTORED"}
    PROVE  IInv'
  <1>1. \A v \in Worker : Knows(v)'
    BY OthersKnow
  <1> QED  BY <1>1 DEF IInv, Agreement

\* A step that changes only the process and perhaps takes or gives the lock
LEMMA ControlStep ==
    ASSUME IInv, NEW w \in Worker, UNCHANGED <<dbVars, fsVars, bounds>>,
           job' \in [Worker -> Job], lock' \in Worker \cup {None},
           \A v \in Worker \ {w} : job'[v] = job[v],
           lock \in {w, None} \/ lock' = lock,
           Knows(w)'
    PROVE  IInv'
  <1>1. TypeOK /\ OneUnresolved /\ Agreement
    BY DEF IInv
  <1>2. TypeOK'
    BY <1>1 DEF TypeOK, dbVars, fsVars, bounds
  <1>3. OneUnresolved'
    BY <1>1, SameRows DEF dbVars
  <1>4. Quiet /\ dry' = dry /\ expired' = expired /\ status' = status
    BY DEF Quiet, dbVars, fsVars
  <1>5. \A i \in Protected : status'[i] \in {"NONE", "HOLD", "RESTORED"}
    BY <1>1, <1>4 DEF Agreement
  <1> QED  BY <1>2, <1>3, <1>4, <1>5, Conclude

\* A call that returns without writing anything
LEMMA ReturnStep ==
    ASSUME IInv, NEW w \in Worker, UNCHANGED <<dbVars, fsVars, bounds>>, Return(w)
    PROVE  IInv'
  <1>1. TypeOK
    BY DEF IInv
  <1> QED  BY <1>1, ReturnFacts, IdleKnows, ControlStep

\* Inside a move or a reconciliation a process relies only on its lock.
LEMMA MovingKnows ==
    ASSUME NEW w \in Worker, lock' = w,
           job'[w].batch \subseteq Item \X RNr,
           job'[w].pc \in {"recover"} \cup Moving \cup Reconciling,
           job'[w].pc # "recover" => job'[w].item \in Item /\ job'[w].nr \in RNr,
           job'[w].pc = "fill" => job'[w].buf # None
    PROVE  Knows(w)'
  BY DEF Knows, Moving, Reconciling, Restoring, Purging, Deleting

\* A process in a move or a reconciliation goes on within it.
LEMMA MovingGoes ==
    ASSUME IInv, NEW w \in Worker, job[w].pc \in {"recover"} \cup Moving \cup Reconciling,
           NEW pc \in {"recover"} \cup Moving \cup Reconciling, Goto(w, pc),
           pc # "recover" => job[w].pc # "recover", pc # "fill", lock' = lock
    PROVE  /\ job' \in [Worker -> Job] /\ Knows(w)'
           /\ lock = w
           /\ job[w].pc # "recover" => job[w].item \in Item /\ job[w].nr \in RNr
           /\ \A v \in Worker \ {w} : job'[v] = job[v]
  <1>1. TypeOK /\ Knows(w) /\ pc \in Pc
    BY DEF IInv, Agreement, Pc, Holding
  <1>2. /\ job' \in [Worker -> Job] /\ job'[w].pc = pc /\ job'[w].item = job[w].item
        /\ job'[w].nr = job[w].nr /\ job'[w].batch = job[w].batch
        /\ \A v \in Worker \ {w} : job'[v] = job[v]
    BY <1>1, GotoFacts
  <1>3. /\ lock = w /\ job[w].batch \subseteq Item \X RNr
        /\ job[w].pc # "recover" => job[w].item \in Item /\ job[w].nr \in RNr
    BY <1>1 DEF Knows, Holding, Moving, Reconciling
  <1> QED  BY <1>2, <1>3, MovingKnows

-----------------------------------------------------------------------------
(* The invariant, action by action *)

\* Calls that only check something, and calls that give up
LEMMA ChecksKeep ==
    ASSUME IInv, NEW w \in Worker
    PROVE  /\ Refused(w) \/ CompleteFails(w) \/ RecoverEnds(w) \/ PurgeFails(w) => IInv'
           /\ ValidateRestore(w) => IInv'
           /\ CopyRefused(w) \/ VerifyPasses(w) \/ Probe(w) \/ Blocked(w) => IInv'
           /\ DryRunPasses(w) => IInv'
           /\ ValidatePurge(w) => IInv'
           /\ CheckStaged(w) => IInv'
  <1>0. TypeOK /\ Knows(w)
    BY DEF IInv, Agreement
  <1>1. ASSUME Refused(w) \/ CompleteFails(w) \/ RecoverEnds(w) \/ PurgeFails(w)
        PROVE  IInv'
    BY <1>1, ReturnStep DEF Refused, CompleteFails, RecoverEnds, PurgeFails
  <1>2. ASSUME ValidateRestore(w) PROVE IInv'
    <2>1. "begin" \in Pc /\ Goto(w, "begin") /\ job[w].pc = "validate"
          /\ UNCHANGED <<dbVars, fsVars, lock, bounds>>
      BY <1>2 DEF ValidateRestore, At, Pc, Holding, Restoring
    <2>2. /\ job' \in [Worker -> Job] /\ job'[w].pc = "begin"
          /\ job'[w].item = job[w].item /\ job'[w].nr = job[w].nr
          /\ job'[w].batch = job[w].batch
          /\ \A v \in Worker \ {w} : job'[v] = job[v]
      BY <1>0, <2>1, GotoFacts
    <2>3. Clear' = Clear
      BY <2>1, SameRows DEF dbVars, IInv
    <2>4. Knows(w)'
      BY <1>0, <2>1, <2>2, <2>3 DEF Knows, Holding, Restoring, Moving, Reconciling, Purging, Deleting
    <2>5. lock' \in Worker \cup {None}
      BY <1>0, <2>1 DEF TypeOK
    <2> QED  BY <2>1, <2>2, <2>4, <2>5, ControlStep
  <1>3. ASSUME CopyRefused(w) \/ VerifyPasses(w) \/ Probe(w) \/ Blocked(w)
        PROVE  IInv'
    <2>1. PICK pc \in {"recover"} \cup Moving \cup Reconciling :
             /\ Goto(w, pc) /\ pc # "fill"
             /\ job[w].pc \in Moving \cup Reconciling
             /\ UNCHANGED <<dbVars, fsVars, lock, bounds>>
      BY <1>3 DEF CopyRefused, VerifyPasses, Probe, Blocked, At, Moving, Reconciling
    <2>2. /\ job' \in [Worker -> Job] /\ Knows(w)' /\ lock' = lock
          /\ \A v \in Worker \ {w} : job'[v] = job[v]
      BY <2>1, MovingGoes DEF Moving, Reconciling
    <2>3. lock' \in Worker \cup {None}
      BY <1>0, <2>1 DEF TypeOK
    <2> QED  BY <2>1, <2>2, <2>3, ControlStep
  <1>4. ASSUME DryRunPasses(w) PROVE IInv'
    <2>1. "drymark" \in Pc /\ Goto(w, "drymark") /\ job[w].pc = "dryrun"
          /\ UNCHANGED <<dbVars, fsVars, lock, bounds>>
      BY <1>4 DEF DryRunPasses, At, Pc, Planning
    <2>2. /\ job' \in [Worker -> Job] /\ job'[w].pc = "drymark"
          /\ job'[w].item = job[w].item /\ job'[w].nr = job[w].nr
          /\ \A v \in Worker \ {w} : job'[v] = job[v]
      BY <1>0, <2>1, GotoFacts
    <2>3. Knows(w)'
      BY <1>0, <2>1, <2>2
         DEF Knows, Holding, Restoring, Moving, Reconciling, Purging, Deleting
    <2>4. lock' \in Worker \cup {None}
      BY <1>0, <2>1 DEF TypeOK
    <2> QED  BY <2>1, <2>2, <2>3, <2>4, ControlStep
  <1>5. ASSUME ValidatePurge(w) PROVE IInv'
    <2>1. "pbegin" \in Pc /\ Goto(w, "pbegin") /\ job[w].pc = "pvalidate"
          /\ UNCHANGED <<dbVars, fsVars, lock, bounds>>
      BY <1>5 DEF ValidatePurge, At, Pc, Holding, Purging
    <2>2. /\ job' \in [Worker -> Job] /\ job'[w].pc = "pbegin"
          /\ job'[w].item = job[w].item /\ job'[w].nr = job[w].nr
          /\ job'[w].batch = job[w].batch
          /\ \A v \in Worker \ {w} : job'[v] = job[v]
      BY <1>0, <2>1, GotoFacts
    <2>3. Clear' = Clear /\ dry' = dry /\ expired' = expired
      BY <2>1, SameRows DEF dbVars, IInv
    <2>4. Knows(w)'
      BY <1>0, <2>1, <2>2, <2>3 DEF Knows, Holding, Restoring, Moving, Reconciling, Purging, Deleting
    <2>5. lock' \in Worker \cup {None}
      BY <1>0, <2>1 DEF TypeOK
    <2> QED  BY <2>1, <2>2, <2>4, <2>5, ControlStep
  <1>6. ASSUME CheckStaged(w) PROVE IInv'
    <2>1. "commit" \in Pc /\ Goto(w, "commit") /\ job[w].pc = "check"
          /\ UNCHANGED <<dbVars, fsVars, lock, bounds>>
          /\ HasHashOf(data[<<job[w].item, job[w].nr>>], job[w].item)
      BY <1>6 DEF CheckStaged, At, Pc, Holding, Deleting
    <2>2. /\ job' \in [Worker -> Job] /\ job'[w].pc = "commit"
          /\ job'[w].item = job[w].item /\ job'[w].nr = job[w].nr
          /\ job'[w].batch = job[w].batch
          /\ \A v \in Worker \ {w} : job'[v] = job[v]
      BY <1>0, <2>1, GotoFacts
    <2>3. dry' = dry /\ expired' = expired /\ status' = status /\ plog' = plog
          /\ data' = data
      BY <2>1 DEF dbVars, fsVars
    <2>4. Knows(w)'
      BY <1>0, <2>1, <2>2, <2>3 DEF Knows, Holding, Restoring, Moving, Reconciling, Purging, Deleting
    <2>5. lock' \in Worker \cup {None}
      BY <1>0, <2>1 DEF TypeOK
    <2> QED  BY <2>1, <2>2, <2>4, <2>5, ControlStep
  <1> QED  BY <1>1, <1>2, <1>3, <1>4, <1>5, <1>6

\* Calls that begin, and recovery going through its list
LEMMA StartsKeep ==
    ASSUME IInv, NEW w \in Worker
    PROVE  /\ \A i \in Item : DraftRestore(w, i) => IInv'
           /\ \A i \in Item, n \in RNr : StartRestore(w, i, n) => IInv'
           /\ \A i \in Item, n \in PNr : StartDryRun(w, i, n) \/ StartPurge(w, i, n) => IInv'
           /\ StartRecoverRestores(w) => IInv'
           /\ RecoverNext(w) => IInv'
           /\ ListPurgeCandidates(w) => IInv'
  <1>0. /\ TypeOK /\ Knows(w) /\ lock \in Worker \cup {None}
        /\ RNr \subseteq Nat /\ PNr \subseteq Nat
    BY BoundsAssumption DEF IInv, Agreement, TypeOK, RNr, PNr
  <1>1. ASSUME NEW i \in Item, DraftRestore(w, i) PROVE IInv'
    <2>1. /\ job' \in [Worker -> Job] /\ job'[w].pc = "drafting" /\ job'[w].item = i
          /\ \A v \in Worker \ {w} : job'[v] = job[v]
          /\ UNCHANGED <<dbVars, fsVars, lock, bounds>>
      BY <1>0, <1>1, EnterFacts DEF DraftRestore, Pc, Planning
    <2>2. Knows(w)'
      BY <2>1 DEF Knows, Holding, Restoring, Moving, Reconciling, Purging, Deleting
    <2> QED  BY <1>0, <2>1, <2>2, ControlStep
  <1>2. ASSUME NEW i \in Item, NEW n \in RNr, StartRestore(w, i, n) PROVE IInv'
    <2>1. /\ job' \in [Worker -> Job] /\ job'[w].pc = "validate" /\ job'[w].item = i
          /\ job'[w].nr = n /\ job'[w].batch = {}
          /\ \A v \in Worker \ {w} : job'[v] = job[v]
          /\ UNCHANGED <<dbVars, fsVars, bounds>>
          /\ lock = None /\ lock' = w /\ Clear
      BY <1>0, <1>2, EnterFacts DEF StartRestore, Pc, Holding, Restoring
    <2>2. Clear'
      BY <2>1, SameRows DEF dbVars, IInv
    <2>3. Knows(w)'
      BY <2>1, <2>2 DEF Knows, Holding, Restoring, Moving, Reconciling, Purging, Deleting
    <2> QED  BY <2>1, <2>3, ControlStep
  <1>3. ASSUME NEW i \in Item, NEW n \in PNr, StartDryRun(w, i, n) PROVE IInv'
    <2>1. /\ job' \in [Worker -> Job] /\ job'[w].pc = "dryrun" /\ job'[w].item = i
          /\ job'[w].nr = n
          /\ \A v \in Worker \ {w} : job'[v] = job[v]
          /\ UNCHANGED <<dbVars, fsVars, lock, bounds>>
      BY <1>0, <1>3, EnterFacts DEF StartDryRun, Pc, Planning
    <2>2. Knows(w)'
      BY <2>1 DEF Knows, Holding, Restoring, Moving, Reconciling, Purging, Deleting
    <2> QED  BY <1>0, <2>1, <2>2, ControlStep
  <1>4. ASSUME NEW i \in Item, NEW n \in PNr, StartPurge(w, i, n) PROVE IInv'
    <2>1. /\ job' \in [Worker -> Job] /\ job'[w].pc = "pvalidate" /\ job'[w].item = i
          /\ job'[w].nr = n /\ job'[w].batch = {}
          /\ \A v \in Worker \ {w} : job'[v] = job[v]
          /\ UNCHANGED <<dbVars, fsVars, bounds>>
          /\ lock = None /\ lock' = w /\ Clear
          /\ <<i, n>> \in dry /\ i \in expired
      BY <1>0, <1>4, EnterFacts DEF StartPurge, Eligible, Pc, Holding, Purging
    <2>2. Clear' /\ dry' = dry /\ expired' = expired
      BY <2>1, SameRows DEF dbVars, IInv
    <2>3. Knows(w)'
      BY <2>1, <2>2 DEF Knows, Holding, Restoring, Moving, Reconciling, Purging, Deleting
    <2> QED  BY <2>1, <2>3, ControlStep
  <1>5. ASSUME StartRecoverRestores(w) PROVE IInv'
    <2> DEFINE r == [Idle EXCEPT !.pc = "recover", !.batch = Pending]
    <2>1. r \in Job /\ r.pc = "recover" /\ r.batch = Pending
      BY DEF Idle, Job, Pc, Holding, Pending
    <2>2. job' = [job EXCEPT ![w] = r]
      BY <1>5 DEF StartRecoverRestores
    <2>3. /\ job' \in [Worker -> Job] /\ job'[w].pc = "recover"
          /\ job'[w].batch \subseteq Item \X RNr
          /\ \A v \in Worker \ {w} : job'[v] = job[v]
      BY <1>0, <2>1, <2>2, JobUpdate DEF Pending
    <2>4. lock = None /\ lock' = w /\ UNCHANGED <<dbVars, fsVars, bounds>>
      BY <1>5 DEF StartRecoverRestores
    <2> QED  BY <2>3, <2>4, MovingKnows, ControlStep
  <1>6. ASSUME RecoverNext(w) PROVE IInv'
    <2>1. job[w].pc = "recover" /\ UNCHANGED <<dbVars, fsVars, lock, bounds>>
      BY <1>6 DEF RecoverNext, At
    <2>2. lock = w /\ job[w].batch \subseteq Item \X RNr
      BY <1>0, <2>1 DEF Knows, Holding
    <2>3. PICK e \in job[w].batch :
             job' = [job EXCEPT ![w] = [Idle EXCEPT !.pc = "probe", !.item = e[1],
                                        !.nr = e[2], !.batch = job[w].batch \ {e}]]
      BY <1>6 DEF RecoverNext
    <2> DEFINE r == [Idle EXCEPT !.pc = "probe", !.item = e[1],
                                 !.nr = e[2], !.batch = job[w].batch \ {e}]
    <2>4. e[1] \in Item /\ e[2] \in Nat /\ e[2] \in RNr
      BY <1>0, <2>2
    <2>5. /\ r \in Job /\ r.pc = "probe" /\ r.item \in Item /\ r.nr \in RNr
          /\ r.batch \subseteq Item \X RNr
      BY <2>2, <2>4 DEF Idle, Job, Pc, Holding, Reconciling
    <2>6. /\ job' \in [Worker -> Job] /\ job'[w] = r
          /\ \A v \in Worker \ {w} : job'[v] = job[v]
      BY <1>0, <2>3, <2>5, JobUpdate
    <2>7. Knows(w)'
      BY <2>1, <2>2, <2>5, <2>6, MovingKnows DEF Reconciling
    <2> QED  BY <1>0, <2>1, <2>6, <2>7, ControlStep
  <1>7. ASSUME ListPurgeCandidates(w) PROVE IInv'
    <2> DEFINE r == [Idle EXCEPT !.pc = "listed", !.batch = Candidates]
    <2>1. Candidates \subseteq Item
      BY <1>0 DEF Candidates, TypeOK
    <2>2. r \in Job /\ r.pc = "listed" /\ r.batch \subseteq Item
      BY <2>1 DEF Idle, Job, Pc, Planning
    <2>3. job' = [job EXCEPT ![w] = r] /\ UNCHANGED <<dbVars, fsVars, lock, bounds>>
      BY <1>7 DEF ListPurgeCandidates
    <2>4. /\ job' \in [Worker -> Job] /\ job'[w].pc = "listed" /\ job'[w].batch \subseteq Item
          /\ \A v \in Worker \ {w} : job'[v] = job[v]
      BY <1>0, <2>2, <2>3, JobUpdate
    <2>5. Knows(w)'
      BY <2>4 DEF Knows, Holding, Restoring, Moving, Reconciling, Purging, Deleting
    <2> QED  BY <1>0, <2>3, <2>4, <2>5, ControlStep
  <1> QED  BY <1>1, <1>2, <1>3, <1>4, <1>5, <1>6, <1>7

\* A step of no process: what the processes know has to survive it.
LEMMA ConcludeOutside ==
    ASSUME IInv, TypeOK', OneUnresolved', UNCHANGED <<job, lock, dry>>,
           expired \subseteq expired',
           lock = None \/ Quiet,
           \A i \in Protected : status'[i] \in {"NONE", "HOLD", "RESTORED"}
    PROVE  IInv'
  BY Conclude, NamesAssumption

\* Registration, source plans, the clock, approvals and other programs
LEMMA OutsideKeeps ==
    ASSUME IInv
    PROVE  /\ \A i \in Item : Register(i) \/ Expire(i) => IInv'
           /\ PlanStuck \/ PlanRecovered => IInv'
           /\ \A i \in Item, n \in RNr : ApproveRestorePlan(i, n) => IInv'
           /\ \A i \in Item, n \in PNr : ApprovePurgePlan(i, n) => IInv'
           /\ \A w \in Worker : Crash(w) => IInv'
           /\ \A x \in SourcePath \cup SlotPath, c \in Foreign \cup {Absent} :
                 ExternalEdit(x, c) => IInv'
  <1>0. /\ TypeOK /\ OneUnresolved
        /\ \A i \in Protected : status[i] \in {"NONE", "HOLD", "RESTORED"}
    BY DEF IInv, Agreement
  <1>1. ASSUME NEW i \in Item, Register(i) PROVE IInv'
    <2>1. /\ lock = None /\ status[i] = "NONE"
          /\ status' = [status EXCEPT ![i] = IF i \in Protected THEN "HOLD" ELSE "QUARANTINED"]
          /\ data' = [data EXCEPT ![Qar[i]] = i] /\ harmed' = harmed
          /\ UNCHANGED <<expired, rplan, rlog, pplan, plog, dry, planLocked, lock, job,
                         edits, crashes>>
      BY <1>1 DEF Register, Put, bounds
    <2>2. TypeOK'
      BY <1>0, <2>1 DEF TypeOK, Status, Content
    <2>3. \A k \in Protected : status'[k] \in {"NONE", "HOLD", "RESTORED"}
      BY <1>0, <2>1, ProtectedAssumption DEF TypeOK
    <2> QED  BY <1>0, <2>1, <2>2, <2>3, SameRows, ConcludeOutside
  <1>2. ASSUME NEW i \in Item, Expire(i) PROVE IInv'
    <2>1. /\ expired' = expired \cup {i}
          /\ UNCHANGED <<status, rplan, rlog, pplan, plog, dry, planLocked, data, harmed,
                         lock, job, edits, crashes>>
      BY <1>2 DEF Expire, fsVars, bounds
    <2>2. TypeOK' /\ Quiet
      BY <1>0, <2>1 DEF TypeOK, Quiet
    <2> QED  BY <1>0, <2>1, <2>2, SameRows, ConcludeOutside
  <1>3. ASSUME PlanStuck \/ PlanRecovered PROVE IInv'
    <2>1. /\ lock = None /\ planLocked' \in BOOLEAN
          /\ planLocked' => Clear
          /\ UNCHANGED <<status, expired, rplan, rlog, pplan, plog, dry, data, harmed,
                         lock, job, edits, crashes>>
      BY <1>3 DEF PlanStuck, PlanRecovered, fsVars, bounds
    <2>2. TypeOK'
      BY <1>0, <2>1 DEF TypeOK
    <2>3. OneUnresolved'
      BY <1>0, <2>1 DEF OneUnresolved, Pending, Unsettled, Clear
    <2> QED  BY <1>0, <2>1, <2>2, <2>3, ConcludeOutside
  <1>4. ASSUME NEW i \in Item, NEW n \in RNr, ApproveRestorePlan(i, n) PROVE IInv'
    <2>1. /\ rplan' = [rplan EXCEPT ![i][n] = "APPROVED"]
          /\ UNCHANGED <<status, expired, rlog, pplan, plog, dry, planLocked, data, harmed,
                         lock, job, edits, crashes>>
      BY <1>4 DEF ApproveRestorePlan, fsVars, bounds
    <2>2. TypeOK' /\ Quiet
      BY <1>0, <2>1 DEF TypeOK, Quiet, RPlan
    <2> QED  BY <1>0, <2>1, <2>2, SameRows, ConcludeOutside
  <1>5. ASSUME NEW i \in Item, NEW n \in PNr, ApprovePurgePlan(i, n) PROVE IInv'
    <2>1. /\ pplan' = [pplan EXCEPT ![i][n] = "APPROVED"]
          /\ UNCHANGED <<status, expired, rplan, rlog, plog, dry, planLocked, data, harmed,
                         lock, job, edits, crashes>>
      BY <1>5 DEF ApprovePurgePlan, fsVars, bounds
    <2>2. TypeOK' /\ Quiet
      BY <1>0, <2>1 DEF TypeOK, Quiet, PPlan
    <2> QED  BY <1>0, <2>1, <2>2, SameRows, ConcludeOutside
  <1>6. ASSUME NEW w \in Worker, Crash(w) PROVE IInv'
    <2>1. /\ Return(w) /\ crashes < MaxCrashes /\ crashes' = crashes + 1
          /\ UNCHANGED <<status, expired, rplan, rlog, pplan, plog, dry, planLocked,
                         data, harmed, edits>>
      BY <1>6 DEF Crash, dbVars, fsVars
    <2>2. /\ job' \in [Worker -> Job] /\ lock' \in Worker \cup {None}
          /\ \A v \in Worker \ {w} : job'[v] = job[v]
          /\ Knows(w)' /\ (lock = w \/ lock' = lock)
      BY <1>0, <2>1, ReturnFacts, IdleKnows
    <2>3. crashes' \in 0..MaxCrashes
      BY <1>0, <2>1, BoundsAssumption DEF TypeOK
    <2>4. TypeOK' /\ Quiet
      BY <1>0, <2>1, <2>2, <2>3 DEF TypeOK, Quiet
    <2>5. OneUnresolved'
      BY <1>0, <2>1, SameRows
    <2> QED  BY <1>0, <2>1, <2>2, <2>4, <2>5, Conclude
  <1>7. ASSUME NEW x \in SourcePath \cup SlotPath, NEW c \in Foreign \cup {Absent},
               ExternalEdit(x, c)
        PROVE  IInv'
    <2>1. /\ edits < MaxEdits /\ edits' = edits + 1
          /\ data' = [data EXCEPT ![x] = c]
          /\ harmed' = harmed \cup {k \in Item : data[x] = k \/ (data[x] = Partial /\ Src[k] = x)}
          /\ UNCHANGED <<status, expired, rplan, rlog, pplan, plog, dry, planLocked,
                         lock, job, crashes>>
      BY <1>7 DEF ExternalEdit, dbVars
    <2>2. edits' \in 0..MaxEdits
      BY <1>0, <2>1, BoundsAssumption DEF TypeOK
    <2>3. TypeOK'
      BY <1>0, <2>1, <2>2 DEF TypeOK, Content
    <2>4. Quiet
      BY <1>0, <2>1, PathAssumption DEF Quiet, TypeOK, Path
    <2> QED  BY <1>0, <2>1, <2>3, <2>4, SameRows, ConcludeOutside
  <1> QED  BY <1>1, <1>2, <1>3, <1>4, <1>5, <1>6, <1>7

\* A restore moves its file and nothing else.
LEMMA MovesKeep ==
    ASSUME IInv, NEW w \in Worker,
           CopyOpens(w) \/ CopyFills(w) \/ MoveFails(w) \/ RemoveQuarantined(w)
    PROVE  IInv'
  <1> DEFINE i == job[w].item
  <1>0. TypeOK /\ OneUnresolved /\ Agreement /\ Knows(w)
    BY DEF IInv, Agreement
  <1>1. job[w].pc \in Moving /\ UNCHANGED <<dbVars, lock, bounds>>
    BY DEF CopyOpens, CopyFills, MoveFails, RemoveQuarantined, At, Moving
  <1>2. lock = w /\ i \in Item /\ job[w].nr \in RNr /\ job[w].batch \subseteq Item \X RNr
    BY <1>0, <1>1 DEF Knows, Holding, Moving
  <1>3. Src[i] \in Path /\ Qar[i] \in Path
    BY <1>2, PathAssumption DEF Path
  <1>4. data' \in [Path -> Content \cup {Absent, Partial}] /\ harmed' = harmed
    <2>1. ASSUME NEW x, NEW c \in Content \cup {Absent, Partial}, Put(x, c)
          PROVE  data' \in [Path -> Content \cup {Absent, Partial}] /\ harmed' = harmed
      BY <1>0, <2>1 DEF TypeOK, Put
    <2>2. CASE CopyOpens(w) \/ RemoveQuarantined(w)
      BY <2>1, <2>2 DEF CopyOpens, RemoveQuarantined
    <2>3. CASE MoveFails(w)
      BY <1>0, <2>1, <2>3 DEF MoveFails, DropOutput, fsVars, TypeOK
    <2>4. CASE CopyFills(w)
      <3>1. CASE UNCHANGED fsVars
        BY <1>0, <3>1 DEF fsVars, TypeOK
      <3>2. CASE ~(UNCHANGED fsVars)
        <4>1. PICK c \in {job[w].buf, data[Qar[i]], Partial} \ {Absent} : Put(Src[i], c)
          BY <2>4, <3>2 DEF CopyFills
        <4>2. data[Qar[i]] \in Content \cup {Absent, Partial}
          BY <1>0, <1>3 DEF TypeOK
        <4>3. job[w].buf \in Content \cup {Partial}
          BY <1>0, <2>4, JobFields DEF CopyFills, At, Knows
        <4> QED  BY <2>1, <4>1, <4>2, <4>3
      <3> QED  BY <3>1, <3>2
    <2> QED  BY <2>2, <2>3, <2>4
  <1>5. /\ job' \in [Worker -> Job] /\ Knows(w)'
        /\ \A v \in Worker \ {w} : job'[v] = job[v]
    <2>1. CASE CopyOpens(w)
      <3> DEFINE r == [job[w] EXCEPT !.pc = "fill", !.buf = data[Qar[i]]]
      <3>1. data[Qar[i]] \in Content \cup {Partial}
        BY <1>0, <1>3, <2>1 DEF CopyOpens, TypeOK
      <3>2. job[w] \in Job
        BY <1>0, JobFields
      <3>3. /\ r \in Job /\ r.pc = "fill" /\ r.buf = data[Qar[i]]
            /\ r.item = i /\ r.nr = job[w].nr /\ r.batch = job[w].batch
        BY <3>1, <3>2 DEF Job, Pc, Holding, Moving
      <3>4. job' = [job EXCEPT ![w] = r]
        BY <2>1 DEF CopyOpens
      <3>5. /\ job' \in [Worker -> Job] /\ job'[w] = r
            /\ \A v \in Worker \ {w} : job'[v] = job[v]
        BY <1>0, <3>3, <3>4, JobUpdate
      <3>6. /\ job'[w].pc = "fill" /\ job'[w].item \in Item /\ job'[w].nr \in RNr
            /\ job'[w].batch \subseteq Item \X RNr /\ job'[w].buf # None /\ lock' = w
        BY <1>1, <1>2, <3>1, <3>3, <3>5, NamesAssumption
      <3> QED  BY <3>5, <3>6, MovingKnows DEF Moving
    <2>2. CASE CopyFills(w) \/ MoveFails(w) \/ RemoveQuarantined(w)
      <3>1. PICK pc \in {"verify", "probe", "complete"} : Goto(w, pc)
        BY <2>2 DEF CopyFills, MoveFails, RemoveQuarantined
      <3> QED  BY <1>1, <3>1, MovingGoes DEF Moving, Reconciling
    <2> QED  BY <2>1, <2>2
  <1>6. TypeOK'
    BY <1>0, <1>1, <1>4, <1>5 DEF TypeOK, dbVars, bounds
  <1>7. OneUnresolved'
    BY <1>0, <1>1, SameRows DEF dbVars
  <1>8. \A k \in Protected : status'[k] \in {"NONE", "HOLD", "RESTORED"}
    BY <1>0, <1>1 DEF Agreement, dbVars
  <1> QED  BY <1>1, <1>2, <1>5, <1>6, <1>7, <1>8, Conclude DEF dbVars

-----------------------------------------------------------------------------
(* Steps that write the database *)

\* The ends of a restore; the reservation they require is the only one.
LEMMA RestoreRecordsKeep ==
    ASSUME IInv, NEW w \in Worker
    PROVE  /\ BeginRestore(w) => IInv'
           /\ MarkRestoreCompleted(w) => IInv'
           /\ MarkRestoreRolledBack(w) => IInv'
           /\ SaveRestorePlan(w) => IInv'
  <1> DEFINE i == job[w].item
             n == job[w].nr
  <1>0. /\ TypeOK /\ OneUnresolved /\ Knows(w) /\ lock \in Worker \cup {None}
        /\ \A k \in Protected : status[k] \in {"NONE", "HOLD", "RESTORED"}
    BY DEF IInv, Agreement, TypeOK
  <1>1. ASSUME BeginRestore(w) PROVE IInv'
    <2>1. /\ job[w].pc = "begin" /\ rlog' = [rlog EXCEPT ![i][n] = "pending"]
          /\ Goto(w, "copy")
          /\ UNCHANGED <<status, expired, rplan, pplan, plog, dry, planLocked, data, harmed,
                         lock, edits, crashes>>
      BY <1>1 DEF BeginRestore, At, fsVars, bounds
    <2>2. lock = w /\ Clear /\ i \in Item /\ n \in RNr /\ job[w].batch \subseteq Item \X RNr
      BY <1>0, <2>1 DEF Knows, Holding, Restoring
    <2>3. /\ job' \in [Worker -> Job] /\ job'[w].pc = "copy" /\ job'[w].item = i
          /\ job'[w].nr = n /\ job'[w].batch = job[w].batch
          /\ \A v \in Worker \ {w} : job'[v] = job[v]
      BY <1>0, <2>1, GotoFacts DEF Pc, Holding, Moving
    <2>4. TypeOK'
      BY <1>0, <2>1, <2>3 DEF TypeOK, RLog
    <2>5. OneUnresolved'
      <3>1. Pending = {} /\ Unsettled = {} /\ ~planLocked
        BY <2>2 DEF Clear
      <3>2. Unsettled' = {} /\ ~planLocked'
        BY <2>1, <3>1 DEF Unsettled
      <3>3. Pending' \subseteq {<<i, n>>}
        BY <1>0, <2>1, <3>1 DEF Pending, TypeOK
      <3> QED  BY <3>2, <3>3 DEF OneUnresolved
    <2>6. Knows(w)'
      BY <2>1, <2>2, <2>3, MovingKnows DEF Moving
    <2> QED  BY <1>0, <2>1, <2>2, <2>3, <2>4, <2>5, <2>6, Conclude
  <1>2. ASSUME MarkRestoreCompleted(w) PROVE IInv'
    <2>1. /\ job[w].pc = "complete" /\ Return(w)
          /\ rlog' = [rlog EXCEPT ![i][n] = "done"]
          /\ rplan' = [rplan EXCEPT ![i][n] = "RESTORED"]
          /\ status' = [status EXCEPT ![i] = "RESTORED"]
          /\ pplan' = [pplan EXCEPT ![i] =
                [k \in PNr |-> IF pplan[i][k] = "DRAFT" THEN "ROLLED_BACK" ELSE pplan[i][k]]]
          /\ UNCHANGED <<expired, plog, dry, planLocked, data, harmed, edits, crashes>>
      BY <1>2 DEF MarkRestoreCompleted, At, fsVars, bounds
    <2>2. lock = w /\ i \in Item
      BY <1>0, <2>1 DEF Knows, Holding, Moving
    <2>3. /\ job' \in [Worker -> Job] /\ lock' \in Worker \cup {None} /\ Knows(w)'
          /\ \A v \in Worker \ {w} : job'[v] = job[v]
      BY <1>0, <2>1, ReturnFacts, IdleKnows
    <2>4. TypeOK'
      <3>1. pplan' \in [Item -> [PNr -> PPlan]]
        BY <1>0, <2>1, <2>2 DEF TypeOK, PPlan
      <3>2. rlog' \in [Item -> [RNr -> RLog]] /\ rplan' \in [Item -> [RNr -> RPlan]]
            /\ status' \in [Item -> Status]
        BY <1>0, <2>1 DEF TypeOK, RLog, RPlan, Status
      <3> QED  BY <1>0, <2>1, <2>3, <3>1, <3>2 DEF TypeOK
    <2>5. OneUnresolved'
      <3>1. Pending' \subseteq Pending /\ Unsettled' = Unsettled /\ planLocked' = planLocked
        BY <1>0, <2>1 DEF Pending, Unsettled, TypeOK
      <3> QED  BY <1>0, <3>1 DEF OneUnresolved
    <2>6. \A k \in Protected : status'[k] \in {"NONE", "HOLD", "RESTORED"}
      BY <1>0, <2>1, ProtectedAssumption DEF TypeOK
    <2> QED  BY <2>1, <2>2, <2>3, <2>4, <2>5, <2>6, Conclude
  <1>3. ASSUME MarkRestoreRolledBack(w) PROVE IInv'
    <2>1. /\ job[w].pc = "rollback" /\ Goto(w, "recover")
          /\ rlog' = [rlog EXCEPT ![i][n] = "rolled_back"]
          /\ rplan' = [rplan EXCEPT ![i][n] = "ROLLED_BACK"]
          /\ UNCHANGED <<status, expired, pplan, plog, dry, planLocked, data, harmed,
                         lock, edits, crashes>>
      BY <1>3 DEF MarkRestoreRolledBack, At, fsVars, bounds
    <2>2. /\ job' \in [Worker -> Job] /\ Knows(w)' /\ lock = w
          /\ \A v \in Worker \ {w} : job'[v] = job[v]
      BY <2>1, MovingGoes DEF Reconciling
    <2>3. TypeOK'
      <3>1. rlog' \in [Item -> [RNr -> RLog]] /\ rplan' \in [Item -> [RNr -> RPlan]]
        BY <1>0, <2>1 DEF TypeOK, RLog, RPlan
      <3> QED  BY <1>0, <2>1, <2>2, <3>1 DEF TypeOK
    <2>4. OneUnresolved'
      <3>1. Pending' \subseteq Pending /\ Unsettled' = Unsettled /\ planLocked' = planLocked
        BY <1>0, <2>1 DEF Pending, Unsettled, TypeOK
      <3> QED  BY <1>0, <3>1 DEF OneUnresolved
    <2> QED  BY <1>0, <2>1, <2>2, <2>3, <2>4, Conclude
  <1>4. ASSUME SaveRestorePlan(w) PROVE IInv'
    <2>1. /\ Return(w)
          /\ \E k \in Unused(rplan[i]) : rplan' = [rplan EXCEPT ![i][k] = "DRAFT"]
          /\ UNCHANGED <<status, expired, rlog, pplan, plog, dry, planLocked, data, harmed,
                         edits, crashes>>
      BY <1>4 DEF SaveRestorePlan, fsVars, bounds
    <2>2. /\ job' \in [Worker -> Job] /\ lock' \in Worker \cup {None} /\ Knows(w)'
          /\ \A v \in Worker \ {w} : job'[v] = job[v]
          /\ lock = w \/ lock' = lock
      BY <1>0, <2>1, ReturnFacts, IdleKnows
    <2>3. rplan' \in [Item -> [RNr -> RPlan]]
      <3>1. PICK k \in Unused(rplan[i]) : rplan' = [rplan EXCEPT ![i][k] = "DRAFT"]
        BY <2>1
      <3> QED  BY <1>0, <3>1 DEF TypeOK, RPlan
    <2>4. TypeOK' /\ Quiet
      BY <1>0, <2>1, <2>2, <2>3 DEF TypeOK, Quiet
    <2> QED  BY <1>0, <2>1, <2>2, <2>4, SameRows, Conclude
  <1> QED  BY <1>1, <1>2, <1>3, <1>4

\* Planning, approving and rehearsing a purge
LEMMA PurgePlansKeep ==
    ASSUME IInv, NEW w \in Worker
    PROVE  /\ SavePurgePlans(w) => IInv'
           /\ MarkPurgeDryRunVerified(w) => IInv'
  <1>0. /\ TypeOK /\ OneUnresolved /\ Knows(w) /\ lock \in Worker \cup {None}
        /\ \A k \in Protected : status[k] \in {"NONE", "HOLD", "RESTORED"}
    BY DEF IInv, Agreement, TypeOK
  <1>1. ASSUME SavePurgePlans(w) PROVE IInv'
    <2> DEFINE new == job[w].batch
    <2>1. /\ Return(w)
          /\ \A k \in new : status[k] \in Purgeable
          /\ pplan' = [k \in Item |-> [n \in PNr |->
                IF k \in new /\ n \in Unused(pplan[k]) THEN "DRAFT" ELSE pplan[k][n]]]
          /\ status' = [k \in Item |-> IF k \in new THEN "PURGE_ELIGIBLE" ELSE status[k]]
          /\ UNCHANGED <<expired, rplan, rlog, plog, dry, planLocked, data, harmed,
                         edits, crashes>>
      BY <1>1 DEF SavePurgePlans, fsVars, bounds
    <2>2. /\ job' \in [Worker -> Job] /\ lock' \in Worker \cup {None} /\ Knows(w)'
          /\ \A v \in Worker \ {w} : job'[v] = job[v]
          /\ lock = w \/ lock' = lock
      BY <1>0, <2>1, ReturnFacts, IdleKnows
    <2>3. pplan' \in [Item -> [PNr -> PPlan]]
      BY <1>0, <2>1 DEF TypeOK, PPlan
    <2>4. status' \in [Item -> Status]
      BY <1>0, <2>1 DEF TypeOK, Status
    <2>5. TypeOK' /\ Quiet
      BY <1>0, <2>1, <2>2, <2>3, <2>4 DEF TypeOK, Quiet
    <2>6. \A k \in Protected : status'[k] \in {"NONE", "HOLD", "RESTORED"}
      BY <1>0, <2>1, ProtectedAssumption DEF Purgeable
    <2>7. OneUnresolved'
      BY <1>0, <2>1, SameRows
    <2> QED  BY <2>1, <2>2, <2>5, <2>6, <2>7, Conclude
  <1>2. ASSUME MarkPurgeDryRunVerified(w) PROVE IInv'
    <2>1. /\ job[w].pc = "drymark" /\ Return(w)
          /\ dry' = dry \cup {<<job[w].item, job[w].nr>>}
          /\ UNCHANGED <<status, expired, rplan, rlog, pplan, plog, planLocked, data, harmed,
                         edits, crashes>>
      BY <1>2 DEF MarkPurgeDryRunVerified, At, fsVars, bounds
    <2>2. /\ job' \in [Worker -> Job] /\ lock' \in Worker \cup {None} /\ Knows(w)'
          /\ \A v \in Worker \ {w} : job'[v] = job[v]
          /\ lock = w \/ lock' = lock
      BY <1>0, <2>1, ReturnFacts, IdleKnows
    <2>3. dry' \subseteq Item \X PNr
      BY <1>0, <2>1 DEF Knows, TypeOK
    <2>4. TypeOK' /\ Quiet
      BY <1>0, <2>1, <2>2, <2>3 DEF TypeOK, Quiet
    <2> QED  BY <1>0, <2>1, <2>2, <2>4, SameRows, Conclude
  <1> QED  BY <1>1, <1>2

\* The journal of a purge keeps pace with the file; nothing else is unresolved.
LEMMA PurgeRecordsKeep ==
    ASSUME IInv, NEW w \in Worker
    PROVE  /\ BeginPurge(w) => IInv'
           /\ Stage(w) => IInv'
           /\ MarkPurgeStaged(w) => IInv'
           /\ MarkPurgeCommitPending(w) => IInv'
           /\ Unlink(w) => IInv'
           /\ MarkPurgeCommitted(w) => IInv'
  <1> DEFINE i == job[w].item
             n == job[w].nr
  <1>0. /\ TypeOK /\ OneUnresolved /\ Knows(w) /\ lock \in Worker \cup {None}
        /\ \A k \in Protected : status[k] \in {"NONE", "HOLD", "RESTORED"}
    BY DEF IInv, Agreement, TypeOK
  \* What is known while the purge goes on
  <1> DEFINE Known == /\ lock = w /\ i \in Item /\ n \in PNr
                      /\ job[w].batch \subseteq Item \X RNr
                      /\ <<i, n>> \in dry /\ i \in expired
  <1>1. job[w].pc \in Purging \cup Deleting => Known
    BY <1>0 DEF Knows, Holding, Purging, Deleting
  <1>2. ASSUME NEW pc \in Deleting, Goto(w, pc)
        PROVE  /\ job' \in [Worker -> Job] /\ job'[w].pc = pc
               /\ job'[w].item = i /\ job'[w].nr = n /\ job'[w].batch = job[w].batch
               /\ \A v \in Worker \ {w} : job'[v] = job[v]
    BY <1>0, <1>2, GotoFacts DEF Pc, Holding
  <1>3. ASSUME BeginPurge(w) PROVE IInv'
    <2>1. /\ job[w].pc = "pbegin" /\ plog' = [plog EXCEPT ![i][n] = "pending"]
          /\ Goto(w, "stage") /\ status[i] = "PURGE_ELIGIBLE"
          /\ UNCHANGED <<status, expired, rplan, rlog, pplan, dry, planLocked, data, harmed,
                         lock, edits, crashes>>
      BY <1>3 DEF BeginPurge, At, fsVars, bounds
    <2>2. Known /\ Clear
      BY <1>0, <1>1, <2>1 DEF Knows, Purging
    <2>3. /\ job' \in [Worker -> Job] /\ job'[w].pc = "stage"
          /\ job'[w].item = i /\ job'[w].nr = n /\ job'[w].batch = job[w].batch
          /\ \A v \in Worker \ {w} : job'[v] = job[v]
      BY <1>2, <2>1 DEF Deleting
    <2>4. TypeOK'
      <3>1. plog' \in [Item -> [PNr -> PLog]]
        BY <1>0, <2>1 DEF TypeOK, PLog
      <3> QED  BY <1>0, <2>1, <2>3, <3>1 DEF TypeOK
    <2>5. OneUnresolved'
      <3>1. Pending' = {} /\ ~planLocked' /\ Unsettled = {}
        BY <2>1, <2>2 DEF Clear, Pending
      <3>2. Unsettled' \subseteq {<<i, n>>}
        BY <1>0, <2>1, <3>1 DEF Unsettled, TypeOK
      <3> QED  BY <3>1, <3>2 DEF OneUnresolved
    <2>6. plog'[i][n] = "pending"
      BY <1>0, <2>1, <2>2 DEF TypeOK
    <2>7. Knows(w)'
      BY <2>1, <2>2, <2>3, <2>6 DEF Knows, Restoring, Moving, Reconciling, Purging, Deleting
    <2> QED  BY <1>0, <2>1, <2>2, <2>3, <2>4, <2>5, <2>7, Conclude
  <1>4. ASSUME Stage(w) PROVE IInv'
    <2>1. /\ job[w].pc = "stage" /\ Goto(w, "staged")
          /\ data[Qar[i]] # Absent
          /\ data' = [data EXCEPT ![Qar[i]] = Absent, ![<<i, n>>] = data[Qar[i]]]
          /\ UNCHANGED <<status, expired, rplan, rlog, pplan, plog, dry, planLocked, harmed,
                         lock, edits, crashes>>
      BY <1>4 DEF Stage, At, dbVars, bounds
    <2>2. Known /\ status[i] = "PURGE_ELIGIBLE" /\ plog[i][n] = "pending"
      BY <1>0, <1>1, <2>1 DEF Knows, Deleting
    <2>3. /\ job' \in [Worker -> Job] /\ job'[w].pc = "staged"
          /\ job'[w].item = i /\ job'[w].nr = n /\ job'[w].batch = job[w].batch
          /\ \A v \in Worker \ {w} : job'[v] = job[v]
      BY <1>2, <2>1 DEF Deleting
    <2>4. TypeOK'
      <3>1. Qar[i] \in Path
        BY <2>2, PathAssumption DEF Path
      <3>2. data' \in [Path -> Content \cup {Absent, Partial}]
        BY <1>0, <2>1, <3>1 DEF TypeOK
      <3> QED  BY <1>0, <2>1, <2>3, <3>2 DEF TypeOK
    <2>5. OneUnresolved'
      BY <1>0, <2>1, SameRows
    <2>6. Knows(w)'
      BY <2>1, <2>2, <2>3 DEF Knows, Restoring, Moving, Reconciling, Purging, Deleting
    <2> QED  BY <1>0, <2>1, <2>2, <2>3, <2>4, <2>5, <2>6, Conclude
  <1>5. ASSUME NEW from \in Active, NEW to \in Active, MarkJournal(w, from, to), Known
        PROVE  /\ plog' \in [Item -> [PNr -> PLog]] /\ plog'[i][n] = to
               /\ OneUnresolved'
               /\ UNCHANGED <<status, expired, rplan, rlog, pplan, dry, planLocked, data, harmed,
                              lock, edits, crashes>>
    <2>1. /\ plog[i][n] = from /\ plog' = [plog EXCEPT ![i][n] = to]
          /\ UNCHANGED <<status, expired, rplan, rlog, pplan, dry, planLocked, data, harmed,
                         lock, edits, crashes>>
      BY <1>5 DEF MarkJournal, fsVars, bounds
    <2>2. plog' \in [Item -> [PNr -> PLog]] /\ plog'[i][n] = to
      BY <1>0, <1>5, <2>1 DEF TypeOK, PLog, Active
    <2>3. Unsettled' = Unsettled /\ Pending' = Pending
      BY <1>0, <1>5, <2>1 DEF TypeOK, Unsettled, Pending
    <2> QED  BY <1>0, <2>1, <2>2, <2>3 DEF OneUnresolved
  <1>6. ASSUME MarkPurgeStaged(w) PROVE IInv'
    <2>1. job[w].pc = "staged" /\ MarkJournal(w, "pending", "staged") /\ Goto(w, "check")
      BY <1>6 DEF MarkPurgeStaged, At
    <2>2. Known /\ status[i] = "PURGE_ELIGIBLE"
      BY <1>0, <1>1, <2>1 DEF Knows, Deleting
    <2>3. /\ job' \in [Worker -> Job] /\ job'[w].pc = "check"
          /\ job'[w].item = i /\ job'[w].nr = n /\ job'[w].batch = job[w].batch
          /\ \A v \in Worker \ {w} : job'[v] = job[v]
      BY <1>2, <2>1 DEF Deleting
    <2>4. /\ plog' \in [Item -> [PNr -> PLog]] /\ plog'[i][n] = "staged"
          /\ OneUnresolved'
          /\ UNCHANGED <<status, expired, rplan, rlog, pplan, dry, planLocked, data, harmed,
                         lock, edits, crashes>>
      BY <1>5, <2>1, <2>2 DEF Active
    <2>5. TypeOK'
      BY <1>0, <2>3, <2>4 DEF TypeOK
    <2>6. Knows(w)'
      BY <2>2, <2>3, <2>4 DEF Knows, Restoring, Moving, Reconciling, Purging, Deleting
    <2> QED  BY <1>0, <2>2, <2>3, <2>4, <2>5, <2>6, Conclude
  <1>7. ASSUME MarkPurgeCommitPending(w) PROVE IInv'
    <2>1. job[w].pc = "commit" /\ MarkJournal(w, "staged", "commit_pending")
          /\ Goto(w, "unlink")
      BY <1>7 DEF MarkPurgeCommitPending, At
    <2>2. Known /\ status[i] = "PURGE_ELIGIBLE" /\ HasHashOf(data[<<i, n>>], i)
      BY <1>0, <1>1, <2>1 DEF Knows, Deleting
    <2>3. /\ job' \in [Worker -> Job] /\ job'[w].pc = "unlink"
          /\ job'[w].item = i /\ job'[w].nr = n /\ job'[w].batch = job[w].batch
          /\ \A v \in Worker \ {w} : job'[v] = job[v]
      BY <1>2, <2>1 DEF Deleting
    <2>4. /\ plog' \in [Item -> [PNr -> PLog]] /\ plog'[i][n] = "commit_pending"
          /\ OneUnresolved'
          /\ UNCHANGED <<status, expired, rplan, rlog, pplan, dry, planLocked, data, harmed,
                         lock, edits, crashes>>
      BY <1>5, <2>1, <2>2 DEF Active
    <2>5. TypeOK'
      BY <1>0, <2>3, <2>4 DEF TypeOK
    <2>6. Knows(w)'
      BY <2>2, <2>3, <2>4 DEF Knows, Restoring, Moving, Reconciling, Purging, Deleting
    <2> QED  BY <1>0, <2>2, <2>3, <2>4, <2>5, <2>6, Conclude
  <1>8. ASSUME Unlink(w) PROVE IInv'
    <2>1. /\ job[w].pc = "unlink" /\ Goto(w, "committed")
          /\ data' = [data EXCEPT ![<<i, n>>] = Absent]
          /\ UNCHANGED <<status, expired, rplan, rlog, pplan, plog, dry, planLocked, harmed,
                         lock, edits, crashes>>
      BY <1>8 DEF Unlink, Put, At, dbVars, bounds
    <2>2. Known /\ status[i] = "PURGE_ELIGIBLE" /\ plog[i][n] = "commit_pending"
      BY <1>0, <1>1, <2>1 DEF Knows, Deleting
    <2>3. /\ job' \in [Worker -> Job] /\ job'[w].pc = "committed"
          /\ job'[w].item = i /\ job'[w].nr = n /\ job'[w].batch = job[w].batch
          /\ \A v \in Worker \ {w} : job'[v] = job[v]
      BY <1>2, <2>1 DEF Deleting
    <2>4. TypeOK'
      BY <1>0, <2>1, <2>3 DEF TypeOK
    <2>5. OneUnresolved'
      BY <1>0, <2>1, SameRows
    <2>6. Knows(w)'
      BY <2>1, <2>2, <2>3 DEF Knows, Restoring, Moving, Reconciling, Purging, Deleting
    <2> QED  BY <1>0, <2>1, <2>2, <2>3, <2>4, <2>5, <2>6, Conclude
  <1>9. ASSUME MarkPurgeCommitted(w) PROVE IInv'
    <2>1. /\ job[w].pc = "committed" /\ Return(w)
          /\ plog' = [plog EXCEPT ![i][n] = "committed"]
          /\ pplan' = [pplan EXCEPT ![i][n] = "PURGED"]
          /\ status' = [status EXCEPT ![i] = "PURGED"]
          /\ UNCHANGED <<expired, rplan, rlog, dry, planLocked, data, harmed, edits, crashes>>
      BY <1>9 DEF MarkPurgeCommitted, At, fsVars, bounds
    <2>2. Known /\ status[i] = "PURGE_ELIGIBLE"
      BY <1>0, <1>1, <2>1 DEF Knows, Deleting
    <2>3. /\ job' \in [Worker -> Job] /\ lock' \in Worker \cup {None} /\ Knows(w)'
          /\ \A v \in Worker \ {w} : job'[v] = job[v]
      BY <1>0, <2>1, ReturnFacts, IdleKnows
    <2>4. TypeOK'
      <3>1. plog' \in [Item -> [PNr -> PLog]] /\ pplan' \in [Item -> [PNr -> PPlan]]
            /\ status' \in [Item -> Status]
        BY <1>0, <2>1 DEF TypeOK, PLog, PPlan, Status
      <3> QED  BY <1>0, <2>1, <2>3, <3>1 DEF TypeOK
    <2>5. OneUnresolved'
      <3>1. Unsettled' \subseteq Unsettled /\ Pending' = Pending /\ planLocked' = planLocked
        BY <1>0, <2>1 DEF Pending, Unsettled, Active, TypeOK
      <3> QED  BY <1>0, <3>1 DEF OneUnresolved
    <2>6. \A k \in Protected : status'[k] \in {"NONE", "HOLD", "RESTORED"}
      BY <1>0, <2>1, <2>2 DEF TypeOK
    <2> QED  BY <2>1, <2>2, <2>3, <2>4, <2>5, <2>6, Conclude
  <1> QED  BY <1>3, <1>4, <1>6, <1>7, <1>8, <1>9

-----------------------------------------------------------------------------
(* The invariant holds *)

\* No process has started.
LEMMA InitHolds == Init => IInv
  <1> SUFFICES ASSUME Init PROVE IInv
    OBVIOUS
  <1>1. TypeOK
    <2>1. job \in [Worker -> Job]
      BY IdleType DEF Init
    <2>2. /\ status \in [Item -> Status]
          /\ rplan \in [Item -> [RNr -> RPlan]] /\ rlog \in [Item -> [RNr -> RLog]]
          /\ pplan \in [Item -> [PNr -> PPlan]] /\ plog \in [Item -> [PNr -> PLog]]
      BY DEF Init, Status, RPlan, RLog, PPlan, PLog
    <2>3. data \in [Path -> Content \cup {Absent, Partial}]
      BY DEF Init
    <2>4. edits \in 0..MaxEdits /\ crashes \in 0..MaxCrashes
      BY BoundsAssumption DEF Init
    <2>5. /\ expired \subseteq Item /\ harmed \subseteq Item /\ dry \subseteq Item \X PNr
          /\ planLocked \in BOOLEAN /\ lock \in Worker \cup {None}
      BY DEF Init
    <2> QED  BY <2>1, <2>2, <2>3, <2>4, <2>5 DEF TypeOK
  <1>2. OneUnresolved
    BY DEF Init, OneUnresolved, Pending, Unsettled, Active
  <1>3. ASSUME NEW w \in Worker PROVE Knows(w)
    <2>1. job[w].pc = "idle"
      BY IdleType DEF Init
    <2> QED  BY <2>1 DEF Knows, Holding, Restoring, Moving, Reconciling, Purging, Deleting
  <1>4. \A i \in Protected : status[i] \in {"NONE", "HOLD", "RESTORED"}
    BY ProtectedAssumption DEF Init
  <1> QED  BY <1>1, <1>2, <1>3, <1>4 DEF IInv, Agreement

\* Every step keeps it.
LEMMA StepKeeps == IInv /\ [Next]_vars => IInv'
  <1> SUFFICES ASSUME IInv, [Next]_vars PROVE IInv'
    OBVIOUS
  <1>1. CASE UNCHANGED vars
    <2>1. UNCHANGED <<status, expired, rplan, rlog, pplan, plog, dry, planLocked,
                      data, harmed, lock, job, edits, crashes>>
      BY <1>1 DEF vars
    <2>2. /\ TypeOK /\ OneUnresolved
          /\ \A i \in Protected : status[i] \in {"NONE", "HOLD", "RESTORED"}
      BY DEF IInv, Agreement
    <2>3. TypeOK' /\ Quiet
      BY <2>1, <2>2 DEF TypeOK, Quiet
    <2> QED  BY <2>1, <2>2, <2>3, SameRows, ConcludeOutside
  <1>2. ASSUME NEW w \in Worker, Step(w) PROVE IInv'
    <2>1. CASE RestoreStep(w)
      BY <2>1, ChecksKeep, StartsKeep, MovesKeep, RestoreRecordsKeep DEF RestoreStep
    <2>2. CASE PurgeStep(w)
      BY <2>2, ChecksKeep, PurgeRecordsKeep DEF PurgeStep
    <2>3. CASE PlanStep(w)
      BY <2>3, ChecksKeep, RestoreRecordsKeep, PurgePlansKeep DEF PlanStep
    <2>4. CASE Refused(w)
      BY <2>4, ChecksKeep
    <2> QED  BY <1>2, <2>1, <2>2, <2>3, <2>4 DEF Step
  <1>3. CASE Next
    BY <1>2, <1>3, OutsideKeeps, StartsKeep DEF Next
  <1> QED  BY <1>1, <1>3

\* So it holds throughout.
LEMMA Inductive == Spec => []IInv
  BY InitHolds, StepKeeps, PTL DEF Spec

\* Every variable keeps its sort, whatever the plans, the crashes and the edits.
THEOREM TypeCorrect == Spec => []TypeOK
  <1>1. IInv => TypeOK
    BY DEF IInv
  <1> QED  BY <1>1, Inductive, PTL

\* At most one source plan, restore or purge of a database is unresolved:
\* AcquireExecutionLock, requireNoRecovery under it, and every failure keeping
\* its row exclude a second one together.
THEOREM SingleUnresolved == Spec => []OneUnresolved
  <1>1. IInv => OneUnresolved
    BY DEF IInv
  <1> QED  BY <1>1, Inductive, PTL

\* What a running executor relies on stays true between its steps.
THEOREM CallsKnow == Spec => []Agreement
  <1>1. IInv => Agreement
    BY DEF IInv
  <1> QED  BY <1>1, Inductive, PTL

-----------------------------------------------------------------------------
(* The unlink of a purge *)

\* Only an unlink takes a file out of the staging directory.
LEMMA OnlyUnlink ==
    ASSUME IInv, Next, NEW x \in StagePath, data[x] # Absent, data'[x] = Absent
    PROVE  \E w \in Worker : Unlink(w) /\ x = <<job[w].item, job[w].nr>>
  <1>0. /\ TypeOK /\ Agreement /\ data \in [Path -> Content \cup {Absent, Partial}]
        /\ x \in Path /\ x \notin SourcePath \cup SlotPath
        /\ \A i \in Item : Src[i] \in SourcePath /\ Qar[i] \in SlotPath
    BY PathAssumption DEF IInv, TypeOK, Path
  <1>1. ~(UNCHANGED fsVars)
    BY DEF fsVars
  <1>2. ASSUME NEW y, NEW c, Put(y, c) PROVE x = y
    BY <1>0, <1>2 DEF Put
  <1>3. ASSUME NEW y, DropOutput(y) PROVE x = y
    BY <1>1, <1>2, <1>3 DEF DropOutput
  <1>4. ASSUME NEW i \in Item, Register(i) PROVE FALSE
    BY <1>0, <1>2, <1>4 DEF Register
  <1>5. ASSUME NEW y \in SourcePath \cup SlotPath, NEW c, ExternalEdit(y, c) PROVE FALSE
    BY <1>0, <1>5 DEF ExternalEdit
  <1>6. ASSUME NEW w \in Worker, RestoreStep(w) PROVE FALSE
    <2>1. job[w].pc \in Moving => job[w].item \in Item
      BY <1>0 DEF Agreement, Knows, Moving
    <2>2. job[w].pc \in Moving => x # Src[job[w].item] /\ x # Qar[job[w].item]
      BY <1>0, <2>1
    <2>3. ~CopyOpens(w) /\ ~CopyFills(w) /\ ~RemoveQuarantined(w)
      BY <1>1, <1>2, <2>2 DEF CopyOpens, CopyFills, RemoveQuarantined, At, Moving
    <2>4. ~MoveFails(w)
      BY <1>3, <2>2 DEF MoveFails, Moving
    <2>5. UNCHANGED fsVars
      BY <1>6, <2>3, <2>4
         DEF RestoreStep, ValidateRestore, BeginRestore, CopyRefused, VerifyPasses,
             MarkRestoreCompleted, CompleteFails, RecoverNext, RecoverEnds, Probe, Blocked,
             MarkRestoreRolledBack
    <2> QED  BY <1>1, <2>5
  <1>7. ASSUME NEW w \in Worker, PurgeStep(w)
        PROVE  Unlink(w) /\ x = <<job[w].item, job[w].nr>>
    <2>1. ~Stage(w)
      <3> SUFFICES ASSUME Stage(w) PROVE FALSE
        OBVIOUS
      <3> DEFINE i == job[w].item
                 y == <<i, job[w].nr>>
      <3>1. /\ data' = [data EXCEPT ![Qar[i]] = Absent, ![y] = data[Qar[i]]]
            /\ data[Qar[i]] # Absent /\ i \in Item
        BY <1>0 DEF Stage, At, Agreement, Knows
      <3>2. x # Qar[i]
        BY <1>0, <3>1
      <3> HIDE DEF y
      <3> QED  BY <1>0, <3>1, <3>2
    <2>2. Unlink(w)
      BY <1>1, <1>7, <2>1
         DEF PurgeStep, ValidatePurge, BeginPurge, MarkPurgeStaged, CheckStaged,
             MarkPurgeCommitPending, MarkJournal, MarkPurgeCommitted, PurgeFails
    <2> QED  BY <1>2, <2>2 DEF Unlink
  <1>8. ASSUME NEW w \in Worker, PlanStep(w) \/ Refused(w) \/ Crash(w) PROVE FALSE
    BY <1>1, <1>8 DEF PlanStep, SaveRestorePlan, SavePurgePlans, DryRunPasses,
                      MarkPurgeDryRunVerified, Refused, Crash
  <1> QED
    BY <1>1, <1>4, <1>5, <1>6, <1>7, <1>8
       DEF Next, Step, Expire, ApproveRestorePlan, ApprovePurgePlan, PlanStuck,
           PlanRecovered, DraftRestore, StartRestore, StartDryRun, StartPurge,
           ListPurgeCandidates, StartRecoverRestores

\* SafeRemove comes after the approval, the dry run, the check of the staged
\* file and the commit_pending row, for an item that was never protected.
THEOREM UnlinksAreAuthorised == Spec => UnlinkAuthorised
  <1> DEFINE A == \A x \in StagePath : data[x] # Absent /\ data'[x] = Absent =>
                    /\ plog[x[1]][x[2]] = "commit_pending"
                    /\ x \in dry
                    /\ x[1] \in expired \ Protected
                    /\ status[x[1]] = "PURGE_ELIGIBLE"
                    /\ HasHashOf(data[x], x[1])
  <1>1. IInv /\ [Next]_vars => [A]_vars
    <2> SUFFICES ASSUME IInv, Next, NEW x \in StagePath, data[x] # Absent, data'[x] = Absent
                 PROVE  /\ plog[x[1]][x[2]] = "commit_pending"
                        /\ x \in dry
                        /\ x[1] \in expired \ Protected
                        /\ status[x[1]] = "PURGE_ELIGIBLE"
                        /\ HasHashOf(data[x], x[1])
      OBVIOUS
    <2>1. PICK w \in Worker : Unlink(w) /\ x = <<job[w].item, job[w].nr>>
      BY OnlyUnlink
    <2>2. /\ Knows(w) /\ job[w].pc = "unlink"
          /\ \A i \in Protected : status[i] \in {"NONE", "HOLD", "RESTORED"}
      BY <2>1 DEF Unlink, At, IInv, Agreement
    <2>3. /\ plog[job[w].item][job[w].nr] = "commit_pending"
          /\ <<job[w].item, job[w].nr>> \in dry
          /\ job[w].item \in expired
          /\ status[job[w].item] = "PURGE_ELIGIBLE"
          /\ HasHashOf(data[<<job[w].item, job[w].nr>>], job[w].item)
      BY <2>2 DEF Knows, Purging, Deleting
    <2>4. job[w].item \notin Protected
      BY <2>2, <2>3
    <2> QED  BY <2>1, <2>3, <2>4
  <1> QED  BY <1>1, Inductive, PTL DEF Spec, UnlinkAuthorised

-----------------------------------------------------------------------------
(* The rows implement ItemFate. *)

\* The fate of an item is in its own rows.
LEMMA SameFate ==
    ASSUME NEW i \in Item, status'[i] = status[i], rlog'[i] = rlog[i], plog'[i] = plog[i]
    PROVE  FateOf(i)' = FateOf(i)
  BY DEF FateOf

\* A live item is between two fates exactly when a row of it is unresolved.
LEMMA LiveFate ==
    ASSUME NEW i \in Item, status[i] \in Restorable
    PROVE  /\ (\E n \in RNr : rlog[i][n] = "pending") => FateOf(i) = "restoring"
           /\ /\ \A n \in RNr : rlog[i][n] # "pending"
              /\ \E n \in PNr : plog[i][n] \in Active
              => FateOf(i) = "purging"
           /\ /\ \A n \in RNr : rlog[i][n] # "pending"
              /\ \A n \in PNr : plog[i][n] \notin Active
              => FateOf(i) = "kept"
  BY DEF FateOf, Restorable

\* The same after a step.
LEMMA LiveFateNext ==
    ASSUME NEW i \in Item, status'[i] \in Restorable
    PROVE  /\ (\E n \in RNr : rlog'[i][n] = "pending") => FateOf(i)' = "restoring"
           /\ /\ \A n \in RNr : rlog'[i][n] # "pending"
              /\ \E n \in PNr : plog'[i][n] \in Active
              => FateOf(i)' = "purging"
           /\ /\ \A n \in RNr : rlog'[i][n] # "pending"
              /\ \A n \in PNr : plog'[i][n] \notin Active
              => FateOf(i)' = "kept"
  BY DEF FateOf, Restorable

\* Without an unresolved row no item is between two fates.
LEMMA ClearFate ==
    ASSUME Clear
    PROVE  /\ Fate!InFlight = {}
           /\ \A i \in Item, n \in RNr : rlog[i][n] # "pending"
           /\ \A i \in Item, n \in PNr : plog[i][n] \notin Active
  <1>1. ASSUME NEW i \in Item, NEW n \in RNr PROVE rlog[i][n] # "pending"
    <2>1. <<i, n>> \in Item \X RNr /\ <<i, n>>[1] = i /\ <<i, n>>[2] = n
      OBVIOUS
    <2> QED  BY <2>1 DEF Clear, Pending
  <1>2. ASSUME NEW i \in Item, NEW n \in PNr PROVE plog[i][n] \notin Active
    <2>1. <<i, n>> \in Item \X PNr /\ <<i, n>>[1] = i /\ <<i, n>>[2] = n
      OBVIOUS
    <2> QED  BY <2>1 DEF Clear, Unsettled
  <1>3. ASSUME NEW i \in Item PROVE FateOf(i) \notin {"restoring", "purging"}
    BY <1>1, <1>2 DEF FateOf
  <1> QED  BY <1>1, <1>2, <1>3 DEF Fate!InFlight

\* A step on one item is a step of the abstract function at that item.
LEMMA OneBecomes ==
    ASSUME NEW i \in Item, NEW f, FateOf(i)' = f,
           \A k \in Item \ {i} : FateOf(k)' = FateOf(k)
    PROVE  Fate!Become(i, f)
  <1>1. [k \in Item |-> FateOf(k)'] = [[k \in Item |-> FateOf(k)] EXCEPT ![i] = f]
    OBVIOUS
  <1> QED  BY <1>1 DEF Fate!Become

\* Steps that move no item
LEMMA NobodyMoves ==
    ASSUME \A k \in Item : FateOf(k)' = FateOf(k)
    PROVE  UNCHANGED [k \in Item |-> FateOf(k)]
  OBVIOUS

\* The steps of a restore that write rows, as steps of its item's fate
LEMMA RestoreFates ==
    ASSUME IInv, NEW w \in Worker,
           BeginRestore(w) \/ MarkRestoreCompleted(w) \/ MarkRestoreRolledBack(w)
    PROVE  Fate!Next
  <1>0. TypeOK /\ OneUnresolved /\ Knows(w)
    BY DEF IInv, Agreement
  <1>1. job[w].pc \in {"begin", "complete", "rollback"}
    BY DEF BeginRestore, MarkRestoreCompleted, MarkRestoreRolledBack, At
  <1>2. PICK i \in Item, n \in RNr : i = job[w].item /\ n = job[w].nr
    BY <1>0, <1>1 DEF Knows, Restoring, Moving, Reconciling
  <1>3. CASE BeginRestore(w)
    <2>1. /\ status[i] \in Restorable /\ job[w].pc = "begin"
          /\ rlog' = [rlog EXCEPT ![i][n] = "pending"]
          /\ UNCHANGED <<status, plog>>
      BY <1>3, <1>2 DEF BeginRestore, At
    <2>2. Clear
      BY <1>0, <2>1 DEF Knows, Restoring
    <2>3. /\ rlog'[i][n] = "pending"
          /\ \A k \in Item \ {i} : rlog'[k] = rlog[k]
      BY <1>0, <2>1, <2>2 DEF TypeOK
    <2>4. FateOf(i) = "kept" /\ FateOf(i)' = "restoring" /\ Fate!InFlight = {}
      BY <2>1, <2>2, <2>3, ClearFate, LiveFate, LiveFateNext
    <2>5. Fate!Become(i, "restoring")
      BY <2>1, <2>2, <2>3, <2>4, SameFate, OneBecomes
    <2> QED  BY <2>2, <2>4, <2>5 DEF Fate!Next, Fate!Reserve
  <1>4. CASE MarkRestoreCompleted(w) \/ MarkRestoreRolledBack(w)
    <2>1. Reservation(i, n)
      BY <1>4, <1>2 DEF MarkRestoreCompleted, MarkRestoreRolledBack
    <2>3. FateOf(i) = "restoring" /\ status[i] \in Restorable
      BY <2>1, LiveFate DEF Reservation
    <2>4. CASE MarkRestoreCompleted(w)
      <3>1. /\ status'[i] = "RESTORED" /\ plog' = plog
            /\ \A k \in Item \ {i} : status'[k] = status[k] /\ rlog'[k] = rlog[k]
        BY <1>0, <1>2, <2>4 DEF MarkRestoreCompleted, TypeOK
      <3>2. FateOf(i)' = "restored"
        BY <3>1 DEF FateOf
      <3>3. Fate!Become(i, "restored")
        BY <3>1, <3>2, SameFate, OneBecomes
      <3> QED  BY <2>3, <3>3 DEF Fate!Next, Fate!Settle
    <2>5. CASE MarkRestoreRolledBack(w)
      <3>1. /\ status' = status /\ plog' = plog
            /\ rlog' = [rlog EXCEPT ![i][n] = "rolled_back"]
        BY <1>2, <2>5 DEF MarkRestoreRolledBack
      <3>2. <<i, n>> \in Pending
        BY <2>1 DEF Pending, Reservation
      <3>3. Unsettled = {} /\ \A d \in Pending : d = <<i, n>>
        BY <1>0, <3>2 DEF OneUnresolved
      <3>4. \A m \in PNr : plog[i][m] \notin Active
        <4> SUFFICES ASSUME NEW m \in PNr, plog[i][m] \in Active PROVE FALSE
          OBVIOUS
        <4>1. <<i, m>> \in Unsettled
          BY DEF Unsettled
        <4> QED  BY <3>3, <4>1
      <3>5. \A m \in RNr \ {n} : rlog[i][m] # "pending"
        <4> SUFFICES ASSUME NEW m \in RNr \ {n}, rlog[i][m] = "pending" PROVE FALSE
          OBVIOUS
        <4>1. <<i, m>> \in Pending
          BY DEF Pending
        <4> QED  BY <3>3, <4>1
      <3>6. /\ \A m \in RNr : rlog'[i][m] # "pending"
            /\ \A k \in Item \ {i} : rlog'[k] = rlog[k]
        BY <1>0, <3>1, <3>5 DEF TypeOK
      <3>7. FateOf(i)' = "kept"
        BY <2>3, <3>1, <3>4, <3>6, LiveFateNext
      <3>8. Fate!Become(i, "kept")
        BY <3>1, <3>6, <3>7, SameFate, OneBecomes
      <3> QED  BY <2>3, <3>8 DEF Fate!Next, Fate!GiveBack
    <2> QED  BY <1>4, <2>4, <2>5
  <1> QED  BY <1>3, <1>4

\* The steps of a purge that write rows; most leave its item between fates.
LEMMA PurgeFates ==
    ASSUME IInv, NEW w \in Worker,
           \/ BeginPurge(w) \/ MarkPurgeStaged(w) \/ MarkPurgeCommitPending(w)
           \/ MarkPurgeCommitted(w)
    PROVE  Fate!Next \/ UNCHANGED [k \in Item |-> FateOf(k)]
  <1>0. TypeOK /\ OneUnresolved /\ Knows(w)
    BY DEF IInv, Agreement
  <1>1. job[w].pc \in {"pbegin"} \cup Deleting
    BY DEF BeginPurge, MarkPurgeStaged, MarkPurgeCommitPending, MarkPurgeCommitted, At, Deleting
  <1>2. PICK i \in Item, n \in PNr : i = job[w].item /\ n = job[w].nr
    BY <1>0, <1>1 DEF Knows, Purging, Deleting
  <1>3. CASE BeginPurge(w)
    <2>1. /\ status[i] = "PURGE_ELIGIBLE" /\ job[w].pc = "pbegin"
          /\ plog' = [plog EXCEPT ![i][n] = "pending"]
          /\ UNCHANGED <<status, rlog>>
      BY <1>2, <1>3 DEF BeginPurge, At
    <2>2. Clear /\ status[i] \in Restorable /\ status'[i] \in Restorable
      BY <1>0, <1>2, <2>1 DEF Knows, Purging, Restorable
    <2>3. /\ plog'[i][n] \in Active
          /\ \A k \in Item \ {i} : plog'[k] = plog[k]
      BY <1>0, <1>2, <2>1 DEF TypeOK, Active
    <2>4. FateOf(i) = "kept" /\ FateOf(i)' = "purging" /\ Fate!InFlight = {}
      BY <1>2, <2>1, <2>2, <2>3, ClearFate, LiveFate, LiveFateNext
    <2>5. Fate!Become(i, "purging")
      BY <1>2, <2>1, <2>3, <2>4, SameFate, OneBecomes
    <2> QED  BY <1>2, <2>4, <2>5 DEF Fate!Next, Fate!Reserve
  <1>4. ASSUME plog[i][n] \in Active, status[i] = "PURGE_ELIGIBLE"
        PROVE  FateOf(i) = "purging" /\ \A m \in RNr : rlog[i][m] # "pending"
    <2>1. <<i, n>> \in Unsettled
      BY <1>2, <1>4 DEF Unsettled
    <2>2. Pending = {}
      BY <1>0, <2>1 DEF OneUnresolved
    <2>3. \A m \in RNr : rlog[i][m] # "pending"
      <3> SUFFICES ASSUME NEW m \in RNr, rlog[i][m] = "pending" PROVE FALSE
        OBVIOUS
      <3>1. <<i, m>> \in Pending
        BY <1>2 DEF Pending
      <3> QED  BY <2>2, <3>1
    <2>4. status[i] \in Restorable
      BY <1>4 DEF Restorable
    <2> QED  BY <1>2, <1>4, <2>3, <2>4, LiveFate
  <1>5. CASE MarkPurgeStaged(w) \/ MarkPurgeCommitPending(w)
    <2>1. PICK from \in {"pending", "staged"}, to \in {"staged", "commit_pending"} :
             MarkJournal(w, from, to) /\ job[w].pc \in {"staged", "commit"}
      BY <1>5 DEF MarkPurgeStaged, MarkPurgeCommitPending, At
    <2>2. /\ plog[i][n] \in Active /\ plog' = [plog EXCEPT ![i][n] = to]
          /\ UNCHANGED <<status, rlog>> /\ status[i] = "PURGE_ELIGIBLE"
      BY <1>0, <1>2, <2>1 DEF MarkJournal, Active, Knows, Deleting
    <2>3. /\ plog'[i][n] \in Active
          /\ \A k \in Item \ {i} : plog'[k] = plog[k]
      BY <1>0, <1>2, <2>1, <2>2 DEF TypeOK, Active
    <2>4. FateOf(i) = "purging" /\ FateOf(i)' = "purging"
      BY <1>2, <1>4, <2>2, <2>3, LiveFateNext DEF Restorable
    <2> QED  BY <2>2, <2>3, <2>4, SameFate, NobodyMoves
  <1>6. CASE MarkPurgeCommitted(w)
    <2>1. /\ job[w].pc = "committed" /\ rlog' = rlog
          /\ plog' = [plog EXCEPT ![i][n] = "committed"]
          /\ status' = [status EXCEPT ![i] = "PURGED"]
      BY <1>2, <1>6 DEF MarkPurgeCommitted, At
    <2>2. plog[i][n] \in Active /\ status[i] = "PURGE_ELIGIBLE"
      BY <1>0, <1>2, <2>1 DEF Knows, Deleting, Active
    <2>3. /\ status'[i] = "PURGED"
          /\ \A k \in Item \ {i} : plog'[k] = plog[k] /\ status'[k] = status[k]
      BY <1>0, <1>2, <2>1 DEF TypeOK
    <2>4. FateOf(i) = "purging" /\ FateOf(i)' = "purged"
      BY <1>4, <2>2, <2>3 DEF FateOf
    <2>5. Fate!Become(i, "purged")
      BY <1>2, <2>1, <2>3, <2>4, SameFate, OneBecomes
    <2> QED  BY <1>2, <2>4, <2>5 DEF Fate!Next, Fate!Settle
  <1> QED  BY <1>3, <1>5, <1>6

\* Registration, under the guards of a source plan's run
LEMMA RegisterFate ==
    ASSUME IInv, NEW i \in Item, Register(i)
    PROVE  Fate!Next
  <1>1. /\ Clear /\ status[i] = "NONE" /\ UNCHANGED <<rlog, plog>>
        /\ status' = [status EXCEPT ![i] = IF i \in Protected THEN "HOLD" ELSE "QUARANTINED"]
    BY DEF Register
  <1>2. /\ status'[i] \in Restorable
        /\ \A k \in Item \ {i} : status'[k] = status[k]
    BY <1>1 DEF IInv, TypeOK, Restorable
  <1>3. FateOf(i) = "none" /\ FateOf(i)' = "kept" /\ Fate!InFlight = {}
    BY <1>1, <1>2, ClearFate, LiveFateNext DEF FateOf
  <1>4. Fate!Become(i, "kept")
    BY <1>1, <1>2, <1>3, SameFate, OneBecomes
  <1> QED  BY <1>3, <1>4 DEF Fate!Next, Fate!Register

\* New purge plans only relabel live items: the list is checked again.
LEMMA PlansMoveNobody ==
    ASSUME IInv, NEW w \in Worker, SavePurgePlans(w)
    PROVE  UNCHANGED [k \in Item |-> FateOf(k)]
  <1> DEFINE new == job[w].batch
  <1>1. /\ \A k \in new : status[k] \in Purgeable
        /\ status' = [k \in Item |-> IF k \in new THEN "PURGE_ELIGIBLE" ELSE status[k]]
        /\ UNCHANGED <<rlog, plog>>
    BY DEF SavePurgePlans
  <1>2. ASSUME NEW k \in Item PROVE FateOf(k)' = FateOf(k)
    <2>1. CASE k \in new
      <3>1. status[k] \in Restorable /\ status'[k] \in Restorable
        BY <1>1, <2>1 DEF Purgeable, Restorable
      <3> QED  BY <1>1, <3>1, LiveFate, LiveFateNext
    <2>2. CASE k \notin new
      BY <1>1, <2>2, SameFate
    <2> QED  BY <2>1, <2>2
  <1> QED  BY <1>2, NobodyMoves

\* Every step of the program is a step of ItemFate or changes no fate.
LEMMA FateSteps == IInv /\ [Next]_vars => [Fate!Next]_[i \in Item |-> FateOf(i)]
  <1> SUFFICES ASSUME IInv, [Next]_vars
               PROVE  Fate!Next \/ UNCHANGED [k \in Item |-> FateOf(k)]
    OBVIOUS
  <1>1. ASSUME UNCHANGED <<status, rlog, plog>>
        PROVE  UNCHANGED [k \in Item |-> FateOf(k)]
    BY <1>1, SameFate, NobodyMoves
  <1>2. CASE UNCHANGED vars
    BY <1>1, <1>2 DEF vars
  <1>3. ASSUME NEW w \in Worker, RestoreStep(w)
        PROVE  Fate!Next \/ UNCHANGED [k \in Item |-> FateOf(k)]
    <2>1. CASE BeginRestore(w) \/ MarkRestoreCompleted(w) \/ MarkRestoreRolledBack(w)
      BY <2>1, RestoreFates
    <2>2. CASE ~(BeginRestore(w) \/ MarkRestoreCompleted(w) \/ MarkRestoreRolledBack(w))
      <3>1. UNCHANGED dbVars
        BY <1>3, <2>2
           DEF RestoreStep, ValidateRestore, CopyOpens, CopyRefused, CopyFills, MoveFails,
               VerifyPasses, RemoveQuarantined, CompleteFails, RecoverNext, RecoverEnds,
               Probe, Blocked
      <3> QED  BY <1>1, <3>1 DEF dbVars
    <2> QED  BY <2>1, <2>2
  <1>4. ASSUME NEW w \in Worker, PurgeStep(w)
        PROVE  Fate!Next \/ UNCHANGED [k \in Item |-> FateOf(k)]
    <2>1. CASE \/ BeginPurge(w) \/ MarkPurgeStaged(w) \/ MarkPurgeCommitPending(w)
               \/ MarkPurgeCommitted(w)
      BY <2>1, PurgeFates
    <2>2. CASE ValidatePurge(w) \/ Stage(w) \/ CheckStaged(w) \/ Unlink(w) \/ PurgeFails(w)
      <3>1. UNCHANGED dbVars
        BY <2>2 DEF ValidatePurge, Stage, CheckStaged, Unlink, PurgeFails
      <3> QED  BY <1>1, <3>1 DEF dbVars
    <2> QED  BY <1>4, <2>1, <2>2 DEF PurgeStep
  <1>5. ASSUME NEW w \in Worker, PlanStep(w) \/ Refused(w) \/ Crash(w)
        PROVE  Fate!Next \/ UNCHANGED [k \in Item |-> FateOf(k)]
    <2>1. CASE SavePurgePlans(w)
      BY <2>1, PlansMoveNobody
    <2>2. CASE \/ SaveRestorePlan(w) \/ DryRunPasses(w) \/ MarkPurgeDryRunVerified(w)
               \/ Refused(w) \/ Crash(w)
      <3>1. UNCHANGED <<status, rlog, plog>>
        BY <2>2 DEF SaveRestorePlan, DryRunPasses, MarkPurgeDryRunVerified, Refused, Crash,
                    dbVars
      <3> QED  BY <1>1, <3>1
    <2> QED  BY <1>5, <2>1, <2>2 DEF PlanStep
  <1>6. ASSUME NEW i \in Item, Register(i)
        PROVE  Fate!Next
    BY <1>6, RegisterFate
  <1>7. CASE Next
    <2>1. \/ \E i \in Item : Register(i)
          \/ \E w \in Worker : Step(w) \/ Crash(w)
          \/ UNCHANGED <<status, rlog, plog>>
      BY ZenonT(30), <1>7 DEF Next, Expire, ApproveRestorePlan, ApprovePurgePlan, PlanStuck,
           PlanRecovered, DraftRestore, StartRestore, StartDryRun, StartPurge,
           ListPurgeCandidates, StartRecoverRestores, ExternalEdit, dbVars
    <2> QED  BY <1>1, <1>3, <1>4, <1>5, <1>6, <2>1 DEF Step
  <1> QED  BY <1>2, <1>7

\* The rows of the database implement ItemFate: plans, approvals, lists that
\* have grown old, crashes and reconciliations give no item a second fate.
THEOREM RowsImplementFate == Spec => FateSpec
  <1>1. Init => Fate!Init
    BY DEF Init, Fate!Init, FateOf
  <1>2. IInv /\ [Next]_vars => [Fate!Next]_[i \in Item |-> FateOf(i)]
    BY FateSteps
  <1>3. Fate!Init /\ [][Fate!Next]_[i \in Item |-> FateOf(i)] => FateSpec
    BY DEF FateSpec, Fate!Spec
  <1>4. Spec => Fate!Init /\ [][Fate!Next]_[i \in Item |-> FateOf(i)]
    BY <1>1, <1>2, Inductive, PTL DEF Spec
  <1> QED  BY <1>3, <1>4, PTL

-----------------------------------------------------------------------------
(* Where the files are: EveryItemSurvives and RestoresAreReal *)

\* Nobody promises a file of this item: it is not registered, another program
\* destroyed a copy of it, or its purge may have unlinked it.
Excused(i) == \/ status[i] = "NONE"
              \/ i \in harmed
              \/ \E n \in PNr : plog[i][n] \in {"commit_pending", "committed"}

\* An item lies at its own paths only,
Located == \A i \in Item, x \in Path :
              data[x] = i => x \in {Src[i], Qar[i]} \cup ({i} \X PNr)
\* the journal knows of every staged file,
StagedActive == \A i \in Item, n \in PNr : data[<<i, n>>] # Absent => plog[i][n] \in Active
\* a committed purge is the end of its item,
Ended == \A i \in Item, n \in PNr : plog[i][n] = "committed" => status[i] = "PURGED"
\* and what is promised is somewhere.
Survives == \A i \in Item : Excused(i) \/ \E x \in Path : data[x] = i

\* Which copy is the promised one at each point of a restore and of a purge
Guarded == {"begin", "copy", "fill", "verify", "remove"}
Places(w) ==
    LET i == job[w].item
        n == job[w].nr
        pc == job[w].pc
    IN  /\ pc \in Guarded => Excused(i) \/ data[Qar[i]] = i
        /\ pc = "fill" => /\ data[Src[i]] \notin Item
                          /\ Excused(i) \/ data[Src[i]] = Partial
                          /\ job[w].buf \notin Item \ {i}
                          /\ Excused(i) \/ job[w].buf = i
        /\ pc = "verify" => Excused(i) \/ data[Src[i]] \in {i, Partial}
        /\ pc \in {"verify", "remove"} => data[Src[i]] \notin Item \ {i}
        /\ pc \in {"remove", "complete"} => Excused(i) \/ data[Src[i]] = i
        /\ pc = "complete" => data[Qar[i]] # i
        /\ pc \in {"reprobe", "rollback"} =>
              /\ data[Src[i]] \notin Item \cup {Partial}
              /\ rlog[i][n] = "pending" => Excused(i) \/ data[Qar[i]] = i
        /\ pc \in {"pbegin", "stage", "committed"} => data[<<i, n>>] = Absent

SInv == Located /\ StagedActive /\ Ended /\ Survives /\ \A w \in Worker : Places(w)

\* The points at which Places says anything
Placed == Guarded \cup {"complete", "reprobe", "rollback", "pbegin", "stage", "committed"}

\* The paths of an item are different from each other and from those of others,
\* but for the source path, which items may share.
LEMMA Geography ==
    ASSUME NEW i \in Item, NEW k \in Item
    PROVE  /\ Src[i] \in Path /\ Qar[i] \in Path
           /\ Src[i] # Qar[k] /\ (Qar[i] = Qar[k] => i = k)
           /\ \A n \in PNr : /\ <<i, n>> \in Path
                             /\ <<i, n>> # Src[k] /\ <<i, n>> # Qar[k]
  <1>1. Src[i] \in SourcePath /\ Qar[i] \in SlotPath /\ Src[k] \in SourcePath /\ Qar[k] \in SlotPath
    BY PathAssumption
  <1>2. \A n \in PNr : <<i, n>> \in StagePath
    BY DEF StagePath
  <1> QED  BY <1>1, <1>2, PathAssumption DEF Path

\* No item is the name of a missing or half-written file.
LEMMA Names ==
    ASSUME NEW i \in Item
    PROVE  i # Absent /\ i # Partial /\ i \notin Foreign
  BY NamesAssumption DEF Content

\* The slot and the staging paths of an item hold no other item.
LEMMA OwnPaths ==
    ASSUME Located, NEW i \in Item, NEW k \in Item
    PROVE  /\ data[Qar[i]] = k => k = i
           /\ \A n \in PNr : data[<<i, n>>] = k => k = i
  <1>1. ASSUME data[Qar[i]] = k PROVE k = i
    <2>1. Qar[i] \in {Src[k], Qar[k]} \cup ({k} \X PNr)
      BY <1>1, Geography DEF Located
    <2>2. \A n \in PNr : Qar[i] # <<k, n>>
      BY Geography
    <2> QED  BY <2>1, <2>2, Geography
  <1>2. ASSUME NEW n \in PNr, data[<<i, n>>] = k PROVE k = i
    <2>1. <<i, n>> \in {Src[k], Qar[k]} \cup ({k} \X PNr)
      BY <1>2, Geography DEF Located
    <2> QED  BY <2>1, Geography
  <1> QED  BY <1>1, <1>2

\* A file with the digest at the slot, nothing at the source path and no purge
\* under way: the file at the slot is the item itself.
LEMMA AtHome ==
    ASSUME IInv, SInv, NEW i \in Item, Unsettled = {}, data[Src[i]] = Absent
    PROVE  Excused(i) \/ data[Qar[i]] = i
  <1> SUFFICES ASSUME ~Excused(i) PROVE data[Qar[i]] = i
    OBVIOUS
  <1>1. PICK x \in Path : data[x] = i
    BY DEF SInv, Survives
  <1>2. x \in {Src[i], Qar[i]} \cup ({i} \X PNr)
    BY <1>1 DEF SInv, Located
  <1>3. x # Src[i]
    BY <1>1, Names
  <1>4. ASSUME NEW n \in PNr, x = <<i, n>> PROVE FALSE
    <2>1. plog[i][n] \in Active
      BY <1>1, <1>4, Names DEF SInv, StagedActive
    <2>2. <<i, n>> \in Item \X PNr /\ <<i, n>>[1] = i /\ <<i, n>>[2] = n
      OBVIOUS
    <2> QED  BY <2>1, <2>2 DEF Unsettled
  <1> QED  BY <1>1, <1>2, <1>3, <1>4

\* What a process knows of the paths is safe from the steps of others while it
\* holds the lock, and is nothing while it does not.
LEMMA OthersPlaces ==
    ASSUME IInv, NEW v \in Worker, Places(v), job'[v] = job[v],
           lock # v \/ (/\ data' = data /\ rlog' = rlog
                        /\ \A i \in Item : Excused(i) => Excused(i)')
    PROVE  Places(v)'
  <1>1. Knows(v)
    BY DEF IInv, Agreement
  <1>2. CASE job[v].pc \notin Placed
    BY <1>2 DEF Places, Placed, Guarded
  <1>3. CASE job[v].pc \in Placed
    <2>1. lock = v /\ job[v].item \in Item
      BY <1>1, <1>3 DEF Knows, Placed, Guarded, Holding, Restoring, Moving, Reconciling,
                        Purging, Deleting
    <2>2. /\ data' = data /\ rlog' = rlog
          /\ Excused(job[v].item) => Excused(job[v].item)'
      BY <2>1
    <2> QED  BY <2>2 DEF Places
  <1> QED  BY <1>2, <1>3

\* What is left to show of a step
LEMMA ConcludeFiles ==
    ASSUME IInv, SInv, NEW w \in Worker \cup {None},
           Located', StagedActive', Ended', Survives',
           w \in Worker => Places(w)',
           \A v \in Worker \ {w} : /\ job'[v] = job[v]
                                   /\ lock # v \/ (/\ data' = data /\ rlog' = rlog
                                                   /\ \A i \in Item : Excused(i) => Excused(i)')
    PROVE  SInv'
  <1>1. ASSUME NEW v \in Worker PROVE Places(v)'
    <2>1. CASE v = w
      BY <2>1
    <2>2. CASE v # w
      BY <2>2, OthersPlaces DEF SInv
    <2> QED  BY <2>1, <2>2
  <1> QED  BY <1>1 DEF SInv

\* An excuse lasts unless the item is registered.
LEMMA ExcusesLast ==
    ASSUME NEW i \in Item, status[i] = "NONE" => status'[i] = "NONE", harmed \subseteq harmed',
           \A n \in PNr : plog[i][n] \in {"commit_pending", "committed"} =>
                              plog'[i][n] \in {"commit_pending", "committed"}
    PROVE  Excused(i) => Excused(i)'
  BY DEF Excused

\* A step that leaves the files, the items and the purges alone
Still == UNCHANGED <<status, plog, data, harmed>>

\* A step of w that moves no file keeps every promise, if w keeps its own.
LEMMA StillStep ==
    ASSUME IInv, SInv, NEW w \in Worker \cup {None}, Still,
           w \in Worker => Places(w)',
           lock = w \/ rlog' = rlog,
           \A v \in Worker \ {w} : job'[v] = job[v]
    PROVE  SInv'
  <1>1. \A i \in Item : Excused(i)' = Excused(i)
    BY DEF Excused, Still
  <1>2. Located' /\ StagedActive' /\ Ended'
    BY DEF SInv, Still, Located, StagedActive, Ended
  <1>3. Survives'
    BY <1>1 DEF SInv, Still, Survives
  <1>4. ASSUME NEW v \in Worker \ {w}
        PROVE  lock # v \/ (/\ data' = data /\ rlog' = rlog
                            /\ \A i \in Item : Excused(i) => Excused(i)')
    BY <1>1 DEF Still
  <1> QED  BY <1>2, <1>3, <1>4, ConcludeFiles

\* A point at which nothing is promised
LEMMA NotPlaced ==
    ASSUME NEW w \in Worker, job'[w].pc \notin Placed
    PROVE  Places(w)'
  BY DEF Places, Placed, Guarded

\* A step that moves no file to a point at which nothing is promised.
LEMMA UnplacedStep ==
    ASSUME IInv, SInv, NEW w \in Worker, Still, rlog' = rlog \/ lock = w,
           job'[w].pc \notin Placed, \A v \in Worker \ {w} : job'[v] = job[v]
    PROVE  SInv'
  BY NotPlaced, StillStep

\* A process moves to a point at which nothing is promised.
LEMMA GoesUnplaced ==
    ASSUME IInv, SInv, NEW w \in Worker, Still, rlog' = rlog \/ lock = w,
           NEW pc \in Pc \ Placed, Goto(w, pc)
    PROVE  SInv'
  <1>1. TypeOK
    BY DEF IInv
  <1> QED  BY <1>1, GotoFacts, UnplacedStep

\* A call that returns promises nothing any more.
LEMMA ReturnUnplaced ==
    ASSUME IInv, SInv, NEW w \in Worker, Still, rlog' = rlog \/ lock = w, Return(w)
    PROVE  SInv'
  <1>1. TypeOK /\ "idle" \notin Placed
    BY DEF IInv, Placed, Guarded
  <1>2. job'[w].pc = "idle" /\ \A v \in Worker \ {w} : job'[v] = job[v]
    BY <1>1, ReturnFacts, IdleType
  <1> QED  BY <1>1, <1>2, UnplacedStep

\* Calls that end, give up or go on to something else
LEMMA StillSteps ==
    ASSUME IInv, SInv, NEW w \in Worker
    PROVE  /\ Refused(w) \/ CompleteFails(w) \/ RecoverEnds(w) \/ PurgeFails(w) \/ Crash(w)
                  \/ SaveRestorePlan(w) \/ MarkPurgeDryRunVerified(w) => SInv'
           /\ CopyRefused(w) \/ Blocked(w) \/ DryRunPasses(w) \/ CheckStaged(w) => SInv'
           /\ MarkRestoreRolledBack(w) => SInv'
           /\ StartRecoverRestores(w) \/ RecoverNext(w) \/ ListPurgeCandidates(w) => SInv'
           /\ \A i \in Item :
                 /\ DraftRestore(w, i) => SInv'
                 /\ \A n \in RNr : StartRestore(w, i, n) => SInv'
                 /\ \A n \in PNr : StartDryRun(w, i, n) \/ StartPurge(w, i, n) => SInv'
  <1>0. /\ TypeOK /\ Knows(w) /\ RNr \subseteq Nat /\ PNr \subseteq Nat
        /\ {"probe", "recover", "drymark", "commit", "drafting", "validate", "dryrun",
            "pvalidate"} \subseteq Pc \ Placed
    BY BoundsAssumption DEF IInv, Agreement, RNr, PNr, Pc, Planning, Holding, Restoring,
       Moving, Reconciling, Purging, Deleting, Placed, Guarded
  <1>1. ASSUME Refused(w) \/ CompleteFails(w) \/ RecoverEnds(w) \/ PurgeFails(w) \/ Crash(w)
                  \/ SaveRestorePlan(w) \/ MarkPurgeDryRunVerified(w)
        PROVE  SInv'
    <2>1. Still /\ rlog' = rlog /\ Return(w)
      BY <1>1 DEF Still, Refused, CompleteFails, RecoverEnds, PurgeFails, Crash,
                  SaveRestorePlan, MarkPurgeDryRunVerified, dbVars, fsVars
    <2> QED  BY <2>1, ReturnUnplaced
  <1>2. ASSUME CopyRefused(w) \/ Blocked(w) \/ DryRunPasses(w) \/ CheckStaged(w)
        PROVE  SInv'
    <2>1. /\ Still /\ rlog' = rlog
          /\ \E pc \in {"probe", "recover", "drymark", "commit"} : Goto(w, pc)
      BY <1>2 DEF Still, CopyRefused, Blocked, DryRunPasses, CheckStaged, dbVars, fsVars
    <2> QED  BY <1>0, <2>1, GoesUnplaced
  <1>3. ASSUME MarkRestoreRolledBack(w) PROVE SInv'
    <2>1. Still /\ Goto(w, "recover") /\ job[w].pc = "rollback"
      BY <1>3 DEF Still, MarkRestoreRolledBack, At, fsVars
    <2>2. lock = w
      BY <1>0, <2>1 DEF Knows, Holding, Reconciling
    <2> QED  BY <1>0, <2>1, <2>2, GoesUnplaced
  <1>4. ASSUME StartRecoverRestores(w) \/ RecoverNext(w) \/ ListPurgeCandidates(w)
        PROVE  SInv'
    <2>1. Still /\ rlog' = rlog
      BY <1>4 DEF Still, StartRecoverRestores, RecoverNext, ListPurgeCandidates, dbVars, fsVars
    <2>2. \E r : job' = [job EXCEPT ![w] = r] /\ r.pc \in {"recover", "probe", "listed"}
      <3>1. \A b : LET r == [Idle EXCEPT !.pc = "recover", !.batch = b]
                       q == [Idle EXCEPT !.pc = "listed", !.batch = b]
                   IN  r.pc = "recover" /\ q.pc = "listed"
        BY DEF Idle
      <3>2. \A i, n, b : LET r == [Idle EXCEPT !.pc = "probe", !.item = i, !.nr = n, !.batch = b]
                         IN  r.pc = "probe"
        BY DEF Idle
      <3>3. CASE StartRecoverRestores(w)
        BY <3>1, <3>3 DEF StartRecoverRestores
      <3>4. CASE RecoverNext(w)
        <4>1. PICK e \in job[w].batch :
                 job' = [job EXCEPT ![w] = [Idle EXCEPT !.pc = "probe", !.item = e[1],
                                            !.nr = e[2], !.batch = job[w].batch \ {e}]]
          BY <3>4 DEF RecoverNext
        <4> DEFINE r == [Idle EXCEPT !.pc = "probe", !.item = e[1],
                                     !.nr = e[2], !.batch = job[w].batch \ {e}]
        <4>2. r.pc = "probe" /\ job' = [job EXCEPT ![w] = r]
          BY <4>1, <3>2
        <4> QED  BY <4>2
      <3>5. CASE ListPurgeCandidates(w)
        BY <3>1, <3>5 DEF ListPurgeCandidates
      <3> QED  BY <1>4, <3>3, <3>4, <3>5
    <2>3. job'[w].pc \notin Placed /\ \A v \in Worker \ {w} : job'[v] = job[v]
      BY <1>0, <2>2 DEF TypeOK, Placed, Guarded
    <2> QED  BY <2>1, <2>3, UnplacedStep
  <1>5. ASSUME NEW i \in Item,
               \/ DraftRestore(w, i)
               \/ \E n \in RNr : StartRestore(w, i, n)
               \/ \E n \in PNr : StartDryRun(w, i, n) \/ StartPurge(w, i, n)
        PROVE  SInv'
    <2>1. Still /\ rlog' = rlog
      BY <1>5 DEF Still, DraftRestore, StartRestore, StartDryRun, StartPurge, dbVars, fsVars
    <2>2. \E pc \in {"drafting", "validate", "dryrun", "pvalidate"}, n \in Nat : Enter(w, pc, i, n)
      BY <1>0, <1>5 DEF DraftRestore, StartRestore, StartDryRun, StartPurge
    <2>3. job'[w].pc \notin Placed /\ \A v \in Worker \ {w} : job'[v] = job[v]
      BY <1>0, <2>2, EnterFacts
    <2> QED  BY <2>1, <2>3, UnplacedStep
  <1> QED  BY <1>1, <1>2, <1>3, <1>4, <1>5

\* Checks that let a process go on, and the reservation
LEMMA ChecksPlace ==
    ASSUME IInv, SInv, NEW w \in Worker
    PROVE  /\ ValidateRestore(w) \/ BeginRestore(w) => SInv'
           /\ VerifyPasses(w) => SInv'
           /\ Probe(w) => SInv'
           /\ ValidatePurge(w) => SInv'
  <1> DEFINE i == job[w].item
             n == job[w].nr
  <1>0. /\ TypeOK /\ OneUnresolved /\ Knows(w) /\ Places(w)
        /\ job[w].pc \notin {"idle", "recover", "listed"} => i \in Item
        /\ {"begin", "copy", "remove", "reprobe", "rollback", "pbegin"} \subseteq Pc
    BY DEF IInv, SInv, Agreement, Knows, Pc, Holding, Restoring, Moving, Reconciling, Purging
  <1>1. ASSUME ValidateRestore(w) \/ BeginRestore(w) PROVE SInv'
    <2>1. /\ Still /\ job[w].pc \in {"validate", "begin"}
          /\ \E pc \in {"begin", "copy"} : Goto(w, pc)
          /\ job[w].pc = "validate" => Untouched(i)
      BY <1>1 DEF Still, ValidateRestore, BeginRestore, At, dbVars, fsVars
    <2>2. lock = w /\ Clear /\ i \in Item
      BY <1>0, <2>1 DEF Knows, Holding, Restoring
    <2>3. Excused(i) \/ data[Qar[i]] = i
      BY <1>0, <2>1, <2>2, AtHome DEF Clear, Untouched, Places, Guarded
    <2>4. /\ job'[w].pc \in {"begin", "copy"} /\ job'[w].item = i
          /\ \A v \in Worker \ {w} : job'[v] = job[v]
      BY <1>0, <2>1, GotoFacts
    <2>5. UNCHANGED <<status, plog, data, harmed>>
      BY <2>1 DEF Still
    <2>6. Places(w)'
      BY <2>3, <2>4, <2>5 DEF Places, Guarded, Excused
    <2> QED  BY <2>1, <2>2, <2>4, <2>6, StillStep
  <1>2. ASSUME VerifyPasses(w) PROVE SInv'
    <2>1. /\ Still /\ rlog' = rlog /\ job[w].pc = "verify" /\ Goto(w, "remove")
          /\ HasHashOf(data[Src[i]], i)
      BY <1>2 DEF Still, VerifyPasses, At, dbVars, fsVars
    <2>2. data[Src[i]] # Partial
      BY <2>1, NamesAssumption DEF HasHashOf
    <2>3. /\ Excused(i) \/ data[Src[i]] = i
          /\ Excused(i) \/ data[Qar[i]] = i
          /\ data[Src[i]] \notin Item \ {i}
      BY <1>0, <2>1, <2>2 DEF Places, Guarded
    <2>4. /\ job'[w].pc = "remove" /\ job'[w].item = i
          /\ \A v \in Worker \ {w} : job'[v] = job[v]
      BY <1>0, <2>1, GotoFacts
    <2>5. UNCHANGED <<status, plog, data, harmed>>
      BY <2>1 DEF Still
    <2>6. Places(w)'
      BY <2>3, <2>4, <2>5 DEF Places, Guarded, Excused
    <2> QED  BY <2>1, <2>4, <2>6, StillStep
  <1>3. ASSUME Probe(w) PROVE SInv'
    <2>1. /\ Still /\ rlog' = rlog /\ job[w].pc \in {"probe", "reprobe"}
          /\ \E pc \in {"reprobe", "rollback"} : Goto(w, pc)
          /\ Untouched(i)
      BY <1>3 DEF Still, Probe, dbVars, fsVars
    <2>2. i \in Item /\ n \in RNr
      BY <1>0, <2>1 DEF Knows, Reconciling
    <2>3. rlog[i][n] = "pending" => Excused(i) \/ data[Qar[i]] = i
      <3> SUFFICES ASSUME rlog[i][n] = "pending" PROVE Excused(i) \/ data[Qar[i]] = i
        OBVIOUS
      <3>1. <<i, n>> \in Item \X RNr /\ <<i, n>>[1] = i /\ <<i, n>>[2] = n
        BY <2>2
      <3>2. Unsettled = {}
        BY <1>0, <3>1 DEF Pending, OneUnresolved
      <3> QED  BY <2>1, <2>2, <3>2, AtHome DEF Untouched
    <2>4. data[Src[i]] \notin Item \cup {Partial}
      BY <2>1, Names, NamesAssumption DEF Untouched
    <2>5. /\ job'[w].pc \in {"reprobe", "rollback"} /\ job'[w].item = i /\ job'[w].nr = n
          /\ \A v \in Worker \ {w} : job'[v] = job[v]
      BY <1>0, <2>1, GotoFacts
    <2>6. UNCHANGED <<status, plog, data, harmed, rlog>>
      BY <2>1 DEF Still
    <2>7. Places(w)'
      BY <2>3, <2>4, <2>5, <2>6 DEF Places, Guarded, Excused
    <2> QED  BY <2>1, <2>5, <2>7, StillStep
  <1>4. ASSUME ValidatePurge(w) PROVE SInv'
    <2>1. /\ Still /\ rlog' = rlog /\ Goto(w, "pbegin") /\ data[<<i, n>>] = Absent
      BY <1>4 DEF Still, ValidatePurge, dbVars, fsVars
    <2>2. /\ job'[w].pc = "pbegin" /\ job'[w].item = i /\ job'[w].nr = n
          /\ \A v \in Worker \ {w} : job'[v] = job[v]
      BY <1>0, <2>1, GotoFacts
    <2>3. data' = data
      BY <2>1 DEF Still
    <2>4. Places(w)'
      BY <2>1, <2>2, <2>3 DEF Places, Guarded
    <2> QED  BY <2>1, <2>2, <2>4, StillStep
  <1> QED  BY <1>1, <1>2, <1>3, <1>4

\* A step that writes rows of items or purges, by a process with the lock or by
\* one for which no point is placed
LEMMA RowsStep ==
    ASSUME IInv, SInv, NEW w \in Worker, data' = data, harmed' = harmed,
           \A i \in Item : status[i] = "NONE" => status'[i] = "NONE",
           \A i \in Item, n \in PNr : plog[i][n] \in {"commit_pending", "committed"} =>
                              plog'[i][n] \in {"commit_pending", "committed"},
           StagedActive', Ended', Places(w)',
           lock = w \/ rlog' = rlog,
           \A v \in Worker \ {w} : job'[v] = job[v]
    PROVE  SInv'
  <1>1. \A i \in Item : Excused(i) => Excused(i)'
    BY ExcusesLast
  <1>2. Located'
    BY DEF SInv, Located
  <1>3. Survives'
    BY <1>1 DEF SInv, Survives
  <1>4. ASSUME NEW v \in Worker \ {w}
        PROVE  lock # v \/ (/\ data' = data /\ rlog' = rlog
                            /\ \A i \in Item : Excused(i) => Excused(i)')
    BY <1>1
  <1> QED  BY <1>2, <1>3, <1>4, ConcludeFiles

\* The ends of restores and the records of a purge
LEMMA RecordsPlace ==
    ASSUME IInv, SInv, NEW w \in Worker
    PROVE  /\ MarkRestoreCompleted(w) => SInv'
           /\ SavePurgePlans(w) => SInv'
           /\ BeginPurge(w) => SInv'
           /\ MarkPurgeStaged(w) \/ MarkPurgeCommitPending(w) => SInv'
           /\ MarkPurgeCommitted(w) => SInv'
  <1> DEFINE i == job[w].item
             n == job[w].nr
  <1>0. /\ TypeOK /\ Knows(w) /\ Places(w) /\ StagedActive /\ Ended
        /\ {"stage", "check", "unlink"} \subseteq Pc /\ "idle" \notin Placed
    BY DEF IInv, SInv, Agreement, Pc, Holding, Deleting, Placed, Guarded
  <1>1. ASSUME MarkRestoreCompleted(w) PROVE SInv'
    <2>1. /\ job[w].pc = "complete" /\ Return(w) /\ status[i] \in Restorable
          /\ status' = [status EXCEPT ![i] = "RESTORED"]
          /\ plog' = plog /\ data' = data /\ harmed' = harmed
      BY <1>1 DEF MarkRestoreCompleted, Reservation, At, fsVars
    <2>2. lock = w /\ i \in Item
      BY <1>0, <2>1 DEF Knows, Holding, Moving
    <2>3. job'[w].pc = "idle" /\ \A v \in Worker \ {w} : job'[v] = job[v]
      BY <1>0, <2>1, ReturnFacts, IdleType
    <2>4. Places(w)'
      BY <1>0, <2>3, NotPlaced
    <2>5. StagedActive'
      BY <1>0, <2>1 DEF StagedActive
    <2>6. Ended' /\ \A k \in Item : status[k] = "NONE" => status'[k] = "NONE"
      BY <1>0, <2>1, <2>2 DEF Ended, Restorable, TypeOK
    <2> QED  BY <2>1, <2>2, <2>3, <2>4, <2>5, <2>6, RowsStep
  <1>2. ASSUME SavePurgePlans(w) PROVE SInv'
    <2>1. /\ Return(w)
          /\ \A k \in job[w].batch : status[k] \in Purgeable
          /\ status' = [k \in Item |-> IF k \in job[w].batch THEN "PURGE_ELIGIBLE" ELSE status[k]]
          /\ plog' = plog /\ rlog' = rlog /\ data' = data /\ harmed' = harmed
      BY <1>2 DEF SavePurgePlans, fsVars
    <2>2. job'[w].pc = "idle" /\ \A v \in Worker \ {w} : job'[v] = job[v]
      BY <1>0, <2>1, ReturnFacts, IdleType
    <2>3. Places(w)'
      BY <1>0, <2>2, NotPlaced
    <2>4. StagedActive'
      BY <1>0, <2>1 DEF StagedActive
    <2>5. Ended' /\ \A k \in Item : status[k] = "NONE" => status'[k] = "NONE"
      BY <1>0, <2>1 DEF Ended, Purgeable
    <2> QED  BY <2>1, <2>2, <2>3, <2>4, <2>5, RowsStep
  <1>3. ASSUME BeginPurge(w) PROVE SInv'
    <2>1. /\ job[w].pc = "pbegin" /\ Goto(w, "stage") /\ plog[i][n] = "none"
          /\ plog' = [plog EXCEPT ![i][n] = "pending"]
          /\ UNCHANGED <<status, rlog, data, harmed>>
      BY <1>3 DEF BeginPurge, At, fsVars
    <2>2. i \in Item /\ n \in PNr /\ data[<<i, n>>] = Absent
      BY <1>0, <2>1 DEF Knows, Purging, Places
    <2>3. /\ job'[w].pc = "stage" /\ job'[w].item = i /\ job'[w].nr = n
          /\ \A v \in Worker \ {w} : job'[v] = job[v]
      BY <1>0, <2>1, GotoFacts
    <2>4. Places(w)'
      BY <2>1, <2>2, <2>3 DEF Places, Guarded
    <2>5. StagedActive'
      BY <1>0, <2>1, <2>2 DEF StagedActive, Active, TypeOK
    <2>6. Ended'
      BY <1>0, <2>1, <2>2 DEF Ended, TypeOK
    <2>7. \A k \in Item, m \in PNr : plog[k][m] \in {"commit_pending", "committed"} =>
                                        plog'[k][m] = plog[k][m]
      BY <1>0, <2>1 DEF TypeOK
    <2> QED  BY <2>1, <2>3, <2>4, <2>5, <2>6, <2>7, RowsStep
  <1>4. ASSUME MarkPurgeStaged(w) \/ MarkPurgeCommitPending(w) PROVE SInv'
    <2>1. PICK to \in {"staged", "commit_pending"}, pc \in {"check", "unlink"} :
             /\ Goto(w, pc) /\ job[w].pc \in Deleting /\ plog[i][n] \in {"pending", "staged"}
             /\ plog' = [plog EXCEPT ![i][n] = to]
             /\ UNCHANGED <<status, rlog, data, harmed>>
      BY <1>4 DEF MarkPurgeStaged, MarkPurgeCommitPending, MarkJournal, At, Deleting, fsVars
    <2>2. i \in Item /\ n \in PNr
      BY <1>0, <2>1 DEF Knows, Deleting
    <2>3. job'[w].pc \in {"check", "unlink"} /\ \A v \in Worker \ {w} : job'[v] = job[v]
      BY <1>0, <2>1, GotoFacts
    <2>4. Places(w)'
      BY <2>3, NotPlaced DEF Placed, Guarded
    <2>5. StagedActive'
      BY <1>0, <2>1, <2>2 DEF StagedActive, Active, TypeOK
    <2>6. Ended'
      BY <1>0, <2>1, <2>2 DEF Ended, TypeOK
    <2>7. \A k \in Item, m \in PNr : plog[k][m] \in {"commit_pending", "committed"} =>
                                        plog'[k][m] = plog[k][m]
      BY <1>0, <2>1 DEF TypeOK
    <2> QED  BY <2>1, <2>3, <2>4, <2>5, <2>6, <2>7, RowsStep
  <1>5. ASSUME MarkPurgeCommitted(w) PROVE SInv'
    <2>1. /\ job[w].pc = "committed" /\ Return(w)
          /\ plog' = [plog EXCEPT ![i][n] = "committed"]
          /\ status' = [status EXCEPT ![i] = "PURGED"]
          /\ UNCHANGED <<rlog, data, harmed>>
      BY <1>5 DEF MarkPurgeCommitted, At, fsVars
    <2>2. /\ i \in Item /\ n \in PNr /\ data[<<i, n>>] = Absent
          /\ status[i] = "PURGE_ELIGIBLE"
      BY <1>0, <2>1 DEF Knows, Deleting, Places
    <2>3. job'[w].pc = "idle" /\ \A v \in Worker \ {w} : job'[v] = job[v]
      BY <1>0, <2>1, ReturnFacts, IdleType
    <2>4. Places(w)'
      BY <1>0, <2>3, NotPlaced
    <2>5. StagedActive'
      BY <1>0, <2>1, <2>2 DEF StagedActive, TypeOK
    <2>6. Ended'
      BY <1>0, <2>1, <2>2 DEF Ended, TypeOK
    <2>7. \A k \in Item, m \in PNr : plog[k][m] \in {"commit_pending", "committed"} =>
                                        plog'[k][m] \in {"commit_pending", "committed"}
      BY <1>0, <2>1 DEF TypeOK
    <2>8. \A k \in Item : status[k] = "NONE" => status'[k] = "NONE"
      BY <1>0, <2>1, <2>2 DEF TypeOK
    <2> QED  BY <2>1, <2>3, <2>4, <2>5, <2>6, <2>7, <2>8, RowsStep
  <1> QED  BY <1>1, <1>2, <1>3, <1>4, <1>5

\* A step of the process with the lock that writes one path of its item
LEMMA PutStep ==
    ASSUME IInv, SInv, NEW w \in Worker, lock = w, UNCHANGED <<status, plog, harmed>>,
           NEW i \in Item, NEW y \in Path,
           \A x \in Path \ {y} : data'[x] = data[x],
           data'[y] = Absent \/ (data'[y] \notin Item \ {i} /\ y \in {Src[i], Qar[i]}),
           \A k \in Item : data[y] = k =>
              Excused(k) \/ \E x \in Path \ {y} : data[x] = k,
           Places(w)', \A v \in Worker \ {w} : job'[v] = job[v]
    PROVE  SInv'
  <1>1. /\ data'[y] \notin Item \ {i}
        /\ data'[y] = i => y \in {Src[i], Qar[i]}
        /\ y \in StagePath => data'[y] = Absent
    <2>1. y \in StagePath => y \notin {Src[i], Qar[i]}
      BY PathAssumption
    <2>2. Absent \notin Item
      BY Names
    <2> QED  BY <2>1, <2>2
  <1>3. \A k \in Item : Excused(k)' = Excused(k)
    BY DEF Excused
  <1>4. Located'
    BY <1>1 DEF SInv, Located
  <1>5. StagedActive'
    <2> SUFFICES ASSUME NEW k \in Item, NEW n \in PNr, data'[<<k, n>>] # Absent
                 PROVE  plog'[k][n] \in Active
      BY DEF StagedActive
    <2>1. <<k, n>> \in Path /\ <<k, n>> \in StagePath
      BY Geography DEF StagePath
    <2>2. data[<<k, n>>] # Absent
      BY <1>1, <2>1
    <2> QED  BY <2>2 DEF SInv, StagedActive
  <1>6. Ended'
    BY DEF SInv, Ended
  <1>7. Survives'
    <2> SUFFICES ASSUME NEW k \in Item, ~Excused(k) PROVE \E x \in Path : data'[x] = k
      BY <1>3 DEF Survives
    <2>1. PICK x \in Path : data[x] = k
      BY DEF SInv, Survives
    <2> QED  BY <2>1
  <1>8. \A v \in Worker \ {w} : lock # v
    OBVIOUS
  <1> QED  BY <1>4, <1>5, <1>6, <1>7, <1>8, ConcludeFiles

\* The copy back, its failures and the removal of the quarantined file
LEMMA MovesPlace ==
    ASSUME IInv, SInv, NEW w \in Worker
    PROVE  /\ CopyOpens(w) => SInv'
           /\ CopyFills(w) => SInv'
           /\ MoveFails(w) => SInv'
           /\ RemoveQuarantined(w) => SInv'
  <1> DEFINE i == job[w].item
  <1>0. /\ TypeOK /\ Knows(w) /\ Places(w) /\ Located
        /\ {"fill", "verify", "probe", "complete"} \subseteq Pc
    BY DEF IInv, SInv, Agreement, Pc, Holding, Moving, Reconciling
  <1>1. job[w].pc \in Moving => lock = w /\ i \in Item
    BY <1>0 DEF Knows, Holding, Moving
  <1>2. ASSUME CopyOpens(w) PROVE SInv'
    <2>1. /\ job[w].pc = "copy" /\ data[Src[i]] = Absent
          /\ data' = [data EXCEPT ![Src[i]] = Partial]
          /\ job' = [job EXCEPT ![w] = [@ EXCEPT !.pc = "fill", !.buf = data[Qar[i]]]]
          /\ UNCHANGED <<status, plog, harmed>>
      BY <1>2 DEF CopyOpens, Put, At, dbVars
    <2>2. lock = w /\ i \in Item /\ (Excused(i) \/ data[Qar[i]] = i)
      BY <1>0, <1>1, <2>1 DEF Places, Guarded, Moving
    <2>3. /\ job'[w].pc = "fill" /\ job'[w].item = i /\ job'[w].buf = data[Qar[i]]
          /\ \A v \in Worker \ {w} : job'[v] = job[v]
      <3>1. job[w] \in Job
        BY <1>0, JobFields
      <3> DEFINE r == [job[w] EXCEPT !.pc = "fill", !.buf = data[Qar[i]]]
      <3>2. r.pc = "fill" /\ r.item = i /\ r.buf = data[Qar[i]]
        BY <3>1 DEF Job
      <3>3. job'[w] = r /\ \A v \in Worker \ {w} : job'[v] = job[v]
        BY <1>0, <2>1 DEF TypeOK
      <3> QED  BY <3>2, <3>3
    <2>4. data[Qar[i]] \notin Item \ {i}
      BY <1>0, <2>2, OwnPaths
    <2>5. data'[Src[i]] = Partial /\ data'[Qar[i]] = data[Qar[i]]
      BY <1>0, <2>1, <2>2, Geography DEF TypeOK
    <2>6. Places(w)'
      BY <2>1, <2>2, <2>3, <2>4, <2>5, Names DEF Places, Guarded, Excused
    <2>7. /\ Src[i] \in Path /\ Partial \notin Item
          /\ \A k \in Item : data[Src[i]] # k
          /\ \A x \in Path \ {Src[i]} : data'[x] = data[x]
      BY <1>0, <2>1, <2>2, Names, Geography DEF TypeOK
    <2> QED  BY <2>1, <2>2, <2>3, <2>5, <2>6, <2>7, PutStep
  <1>3. ASSUME CopyFills(w) PROVE SInv'
    <2>1. /\ job[w].pc = "fill" /\ Goto(w, "verify") /\ UNCHANGED <<status, plog>>
      BY <1>3 DEF CopyFills, At, dbVars
    <2>2. /\ lock = w /\ i \in Item /\ data[Src[i]] \notin Item
          /\ Excused(i) \/ data[Src[i]] = Partial
          /\ Excused(i) \/ data[Qar[i]] = i
          /\ job[w].buf \notin Item \ {i}
          /\ Excused(i) \/ job[w].buf = i
      BY <1>0, <1>1, <2>1 DEF Places, Guarded, Moving
    <2>3. /\ job'[w].pc = "verify" /\ job'[w].item = i
          /\ \A v \in Worker \ {w} : job'[v] = job[v]
      BY <1>0, <2>1, GotoFacts
    <2>4. CASE data[Src[i]] # Partial /\ UNCHANGED fsVars
      <3>1. Places(w)'
        BY <2>1, <2>2, <2>3, <2>4 DEF Places, Guarded, Excused, fsVars
      <3> QED  BY <1>3, <2>1, <2>3, <2>4, <3>1, StillStep DEF Still, CopyFills, fsVars, dbVars
    <2>5. CASE \E c \in {job[w].buf, data[Qar[i]], Partial} : Put(Src[i], c)
      <3>1. PICK c \in {job[w].buf, data[Qar[i]], Partial} : Put(Src[i], c)
        BY <2>5
      <3>2. data' = [data EXCEPT ![Src[i]] = c] /\ harmed' = harmed
        BY <3>1 DEF Put
      <3>3. c \notin Item \ {i} /\ (Excused(i) \/ c \in {i, Partial})
        BY <1>0, <2>2, OwnPaths, Names
      <3>4. data'[Src[i]] = c /\ data'[Qar[i]] = data[Qar[i]]
        BY <1>0, <2>2, <3>2, Geography DEF TypeOK
      <3>5. Places(w)'
        BY <2>1, <2>2, <2>3, <3>2, <3>3, <3>4 DEF Places, Guarded, Excused
      <3>6. /\ Src[i] \in Path /\ \A k \in Item : data[Src[i]] # k
            /\ \A x \in Path \ {Src[i]} : data'[x] = data[x]
        BY <1>0, <2>2, <3>2, Names, Geography DEF TypeOK
      <3> QED  BY <2>1, <2>2, <2>3, <3>2, <3>3, <3>4, <3>5, <3>6, PutStep
    <2> QED  BY <1>3, <2>4, <2>5 DEF CopyFills
  <1>4. ASSUME MoveFails(w) PROVE SInv'
    <2>1. /\ job[w].pc \in {"fill", "verify", "remove"} /\ Goto(w, "probe")
          /\ DropOutput(Src[i]) /\ UNCHANGED <<status, plog, rlog>>
      BY <1>4 DEF MoveFails, dbVars
    <2>2. /\ lock = w /\ i \in Item
          /\ Excused(i) \/ data[Qar[i]] = i
          /\ data[Src[i]] \notin Item \ {i}
      BY <1>0, <1>1, <2>1, Names DEF Places, Guarded, Moving
    <2>3. job'[w].pc = "probe" /\ \A v \in Worker \ {w} : job'[v] = job[v]
      BY <1>0, <2>1, GotoFacts
    <2>4. Places(w)'
      BY <2>3, NotPlaced DEF Placed, Guarded
    <2>5. CASE UNCHANGED fsVars
      BY <2>1, <2>3, <2>4, <2>5, StillStep DEF Still, fsVars
    <2>6. CASE Put(Src[i], Absent)
      <3>1. data' = [data EXCEPT ![Src[i]] = Absent] /\ harmed' = harmed
        BY <2>6 DEF Put
      <3>2. /\ Src[i] \in Path /\ Absent \notin Item
            /\ Qar[i] \in Path \ {Src[i]}
        BY <2>2, Names, Geography
      <3>3. \A k \in Item : data[Src[i]] = k =>
               Excused(k) \/ \E x \in Path \ {Src[i]} : data[x] = k
        BY <2>2, <3>2
      <3>4. data'[Src[i]] = Absent /\ \A x \in Path \ {Src[i]} : data'[x] = data[x]
        BY <1>0, <3>1, <3>2 DEF TypeOK
      <3> QED  BY <2>1, <2>2, <2>3, <2>4, <3>1, <3>2, <3>3, <3>4, PutStep
    <2> QED  BY <2>1, <2>5, <2>6 DEF DropOutput
  <1>5. ASSUME RemoveQuarantined(w) PROVE SInv'
    <2>1. /\ job[w].pc = "remove" /\ Goto(w, "complete")
          /\ data' = [data EXCEPT ![Qar[i]] = Absent] /\ UNCHANGED <<status, plog, harmed>>
      BY <1>5 DEF RemoveQuarantined, Put, At, dbVars
    <2>2. lock = w /\ i \in Item /\ (Excused(i) \/ data[Src[i]] = i)
      BY <1>0, <1>1, <2>1 DEF Places, Moving
    <2>3. /\ job'[w].pc = "complete" /\ job'[w].item = i
          /\ \A v \in Worker \ {w} : job'[v] = job[v]
      BY <1>0, <2>1, GotoFacts
    <2>4. data'[Qar[i]] = Absent /\ data'[Src[i]] = data[Src[i]]
      BY <1>0, <2>1, <2>2, Geography DEF TypeOK
    <2>5. /\ Qar[i] \in Path /\ Absent \notin Item
          /\ Src[i] \in Path \ {Qar[i]}
      BY <2>2, Names, Geography
    <2>6. Places(w)'
      BY <2>1, <2>2, <2>3, <2>4, <2>5 DEF Places, Guarded, Excused
    <2>7. \A k \in Item : data[Qar[i]] = k =>
             Excused(k) \/ \E x \in Path \ {Qar[i]} : data[x] = k
      BY <1>0, <2>2, <2>5, OwnPaths
    <2>8. \A x \in Path \ {Qar[i]} : data'[x] = data[x]
      BY <1>0, <2>1, <2>5 DEF TypeOK
    <2> QED  BY <2>1, <2>2, <2>3, <2>4, <2>5, <2>6, <2>7, <2>8, PutStep
  <1> QED  BY <1>2, <1>3, <1>4, <1>5

\* The rename into the staging directory, and the unlink there
LEMMA PurgePlaces ==
    ASSUME IInv, SInv, NEW w \in Worker
    PROVE  /\ Stage(w) => SInv'
           /\ Unlink(w) => SInv'
  <1> DEFINE i == job[w].item
             n == job[w].nr
  <1>0. /\ TypeOK /\ Knows(w) /\ Places(w) /\ Located /\ {"staged", "committed"} \subseteq Pc
    BY DEF IInv, SInv, Agreement, Pc, Holding, Deleting
  <1>1. ASSUME Stage(w) PROVE SInv'
    <2> DEFINE y == <<i, n>>
    <2>1. /\ job[w].pc = "stage" /\ Goto(w, "staged")
          /\ data' = [data EXCEPT ![Qar[i]] = Absent, ![y] = data[Qar[i]]]
          /\ UNCHANGED <<status, plog, harmed>>
      BY <1>1 DEF Stage, At, dbVars
    <2>2. /\ lock = w /\ i \in Item /\ n \in PNr /\ data[y] = Absent
          /\ plog[i][n] = "pending"
      BY <1>0, <2>1 DEF Knows, Holding, Deleting, Places
    <2>3. job'[w].pc = "staged" /\ \A v \in Worker \ {w} : job'[v] = job[v]
      BY <1>0, <2>1, GotoFacts
    <2>4. Places(w)'
      BY <2>3, NotPlaced DEF Placed, Guarded
    <2>5. y \in Path /\ Qar[i] \in Path /\ y # Qar[i] /\ y \in {i} \X PNr
      BY <2>2, Geography
    <2> HIDE DEF y
    <2>6. /\ data'[y] = data[Qar[i]] /\ data'[Qar[i]] = Absent
          /\ \A x \in Path \ {y, Qar[i]} : data'[x] = data[x]
      BY <1>0, <2>1, <2>5 DEF TypeOK
    <2>7. Located'
      <3> SUFFICES ASSUME NEW k \in Item, NEW x \in Path, data'[x] = k
                   PROVE  x \in {Src[k], Qar[k]} \cup ({k} \X PNr)
        BY DEF Located
      <3>1. k # Absent
        BY Names
      <3>2. CASE x = y
        <4>1. k = i
          BY <1>0, <2>2, <2>6, <3>2, OwnPaths
        <4> QED  BY <2>5, <3>2, <4>1
      <3>3. CASE x # y
        BY <1>0, <2>6, <3>1, <3>3 DEF Located
      <3> QED  BY <3>2, <3>3
    <2>8. StagedActive'
      <3> SUFFICES ASSUME NEW k \in Item, NEW m \in PNr, data'[<<k, m>>] # Absent
                   PROVE  plog[k][m] \in Active
        BY <2>1 DEF StagedActive
      <3>1. CASE <<k, m>> = y
        BY <2>2, <3>1 DEF y, Active
      <3>2. CASE <<k, m>> # y
        <4>1. data[<<k, m>>] # Absent
          BY <2>2, <2>6, <3>2, Geography
        <4> QED  BY <4>1 DEF SInv, StagedActive
      <3> QED  BY <3>1, <3>2
    <2>9. Ended' /\ \A k \in Item : Excused(k)' = Excused(k)
      BY <2>1 DEF SInv, Ended, Excused
    <2>10. Survives'
      <3> SUFFICES ASSUME NEW k \in Item, ~Excused(k) PROVE \E x \in Path : data'[x] = k
        BY <2>9 DEF Survives
      <3>1. PICK x \in Path : data[x] = k
        BY DEF SInv, Survives
      <3>2. x # y
        BY <2>2, <3>1, Names DEF y
      <3> QED  BY <2>5, <2>6, <3>1, <3>2
    <2>11. \A v \in Worker \ {w} : lock # v
      BY <2>2
    <2> QED  BY <2>3, <2>4, <2>7, <2>8, <2>9, <2>10, <2>11, ConcludeFiles
  <1>2. ASSUME Unlink(w) PROVE SInv'
    <2>1. /\ job[w].pc = "unlink" /\ Goto(w, "committed")
          /\ data' = [data EXCEPT ![<<i, n>>] = Absent] /\ UNCHANGED <<status, plog, harmed>>
      BY <1>2 DEF Unlink, Put, At, dbVars
    <2>2. lock = w /\ i \in Item /\ n \in PNr /\ plog[i][n] = "commit_pending"
      BY <1>0, <2>1 DEF Knows, Holding, Deleting
    <2>3. PICK y \in Path : y = <<i, n>>
      BY <2>2, Geography
    <2>4. \A k \in Item : data[y] = k => Excused(k)
      BY <1>0, <2>2, <2>3, OwnPaths DEF Excused
    <2>5. /\ job'[w].pc = "committed" /\ job'[w].item = i /\ job'[w].nr = n
          /\ \A v \in Worker \ {w} : job'[v] = job[v]
      BY <1>0, <2>1, GotoFacts
    <2>6. data'[y] = Absent /\ \A x \in Path \ {y} : data'[x] = data[x]
      BY <1>0, <2>1, <2>3 DEF TypeOK
    <2>7. Places(w)'
      BY <2>3, <2>5, <2>6 DEF Places, Guarded
    <2> QED  BY <2>1, <2>2, <2>3, <2>4, <2>5, <2>6, <2>7, PutStep
  <1> QED  BY <1>1, <1>2

\* Registration, source plans, the clock, approvals and other programs
LEMMA OutsidePlaces ==
    ASSUME IInv, SInv
    PROVE  /\ \A i \in Item : Register(i) => SInv'
           /\ \A i \in Item : Expire(i) => SInv'
           /\ PlanStuck \/ PlanRecovered => SInv'
           /\ \A i \in Item, n \in RNr : ApproveRestorePlan(i, n) => SInv'
           /\ \A i \in Item, n \in PNr : ApprovePurgePlan(i, n) => SInv'
           /\ \A x \in SourcePath \cup SlotPath, c \in Foreign \cup {Absent} :
                 ExternalEdit(x, c) => SInv'
  <1>0. TypeOK /\ None \notin Worker /\ StagedActive /\ Ended /\ Located /\ Survives
    BY NamesAssumption DEF IInv, SInv
  <1>1. ASSUME NEW i \in Item, Register(i) PROVE SInv'
    <2>1. /\ lock = None /\ status[i] = "NONE" /\ data[Qar[i]] = Absent
          /\ status' = [status EXCEPT ![i] = IF i \in Protected THEN "HOLD" ELSE "QUARANTINED"]
          /\ data' = [data EXCEPT ![Qar[i]] = i]
          /\ UNCHANGED <<harmed, plog, rlog, job>>
      BY <1>1 DEF Register, Put
    <2>2. /\ Qar[i] \in Path /\ data'[Qar[i]] = i
          /\ \A x \in Path \ {Qar[i]} : data'[x] = data[x]
      BY <1>0, <2>1, Geography DEF TypeOK
    <2>3. Located'
      BY <1>0, <2>2 DEF Located
    <2>4. StagedActive'
      <3> SUFFICES ASSUME NEW k \in Item, NEW n \in PNr, data'[<<k, n>>] # Absent
                   PROVE  plog[k][n] \in Active
        BY <2>1 DEF StagedActive
      <3>1. <<k, n>> \in Path \ {Qar[i]}
        BY Geography
      <3> QED  BY <1>0, <2>2, <3>1 DEF StagedActive
    <2>5. Ended'
      BY <1>0, <2>1 DEF Ended, TypeOK
    <2>6. Survives'
      <3> SUFFICES ASSUME NEW k \in Item PROVE Excused(k)' \/ \E x \in Path : data'[x] = k
        BY DEF Survives
      <3>1. CASE k = i
        BY <2>2, <3>1
      <3>2. CASE k # i
        <4>1. status'[k] = status[k]
          BY <1>0, <2>1, <3>2 DEF TypeOK
        <4>2. Excused(k) => Excused(k)'
          BY <2>1, <4>1, ExcusesLast
        <4>3. data[Qar[i]] # k
          BY <2>1, Names
        <4> QED  BY <1>0, <2>2, <4>2, <4>3 DEF Survives
      <3> QED  BY <3>1, <3>2
    <2>7. \A v \in Worker \ {None} : job'[v] = job[v] /\ lock # v
      BY <1>0, <2>1
    <2> QED  BY <1>0, <2>3, <2>4, <2>5, <2>6, <2>7, ConcludeFiles
  <1>2. ASSUME Still, rlog' = rlog, job' = job PROVE SInv'
    BY <1>0, <1>2, StillStep
  <1>3. ASSUME NEW x \in SourcePath \cup SlotPath, NEW c \in Foreign \cup {Absent},
               ExternalEdit(x, c)
        PROVE  SInv'
    <2>1. /\ data' = [data EXCEPT ![x] = c]
          /\ harmed' = harmed \cup {k \in Item : data[x] = k \/ (data[x] = Partial /\ Src[k] = x)}
          /\ UNCHANGED <<status, plog, rlog, job, lock>>
      BY <1>3 DEF ExternalEdit, dbVars
    <2>2. x \in Path /\ x \notin StagePath /\ c \notin Item \cup {Partial}
      BY NamesAssumption, PathAssumption DEF Path, Content
    <2>3. /\ data'[x] = c
          /\ \A y \in Path \ {x} : data'[y] = data[y]
          /\ \A y \in StagePath : y \in Path /\ data'[y] = data[y]
      BY <1>0, <2>1, <2>2 DEF TypeOK, Path
    <2>4. \A k \in Item : /\ Excused(k) => Excused(k)'
                          /\ data[x] = k => Excused(k)'
      BY <2>1 DEF Excused
    <2>5. Located'
      BY <1>0, <2>2, <2>3 DEF Located
    <2>6. StagedActive' /\ Ended'
      BY <1>0, <2>1, <2>3 DEF StagedActive, Ended, StagePath
    <2>7. Survives'
      BY <1>0, <2>3, <2>4 DEF Survives
    <2>8. ASSUME NEW v \in Worker PROVE Places(v)'
      <3> DEFINE i == job[v].item
                 n == job[v].nr
                 pc == job[v].pc
      <3>1. CASE pc \notin Placed
        BY <2>1, <3>1, NotPlaced
      <3>2. CASE pc \in Placed
        <4>1. Knows(v) /\ Places(v) /\ i \in Item
          BY <3>2 DEF IInv, SInv, Agreement, Knows, Placed, Guarded
        <4>2. Src[i] \in Path /\ Qar[i] \in Path /\ Src[i] # Qar[i]
          BY <4>1, Geography
        <4>3. pc \in {"pbegin", "stage", "committed"} => <<i, n>> \in StagePath
          BY <4>1 DEF Knows, Purging, Deleting, StagePath
        <4>4. \A y \in Path : data'[y] = data[y] \/ (data'[y] \notin Item \cup {Partial}
                                 /\ (data[y] = i => i \in harmed')
                                 /\ (data[y] = Partial /\ y = Src[i] => i \in harmed'))
          BY <2>1, <2>2, <2>3, <4>1
        <4>5. harmed \subseteq harmed' /\ UNCHANGED <<status, plog>>
          BY <2>1
        <4>6. /\ job'[v].item = i /\ job'[v].nr = n /\ job'[v].pc = pc
              /\ job'[v].buf = job[v].buf /\ rlog' = rlog
          BY <2>1
        <4> QED  BY <2>3, <4>1, <4>2, <4>3, <4>4, <4>5, <4>6 DEF Places, Guarded, Excused
      <3> QED  BY <3>1, <3>2
    <2> QED  BY <2>5, <2>6, <2>7, <2>8 DEF SInv
  <1> QED
    BY <1>1, <1>2, <1>3
       DEF Expire, PlanStuck, PlanRecovered, ApproveRestorePlan, ApprovePurgePlan, Still, fsVars

\* Nothing is registered yet.
LEMMA FilesInit == Init => SInv
  <1> SUFFICES ASSUME Init PROVE SInv
    OBVIOUS
  <1>1. Located /\ StagedActive /\ Ended
    <2>1. \A x \in Path : data[x] = Absent
      BY DEF Init
    <2>2. \A i \in Item, n \in PNr : <<i, n>> \in Path /\ plog[i][n] = "none"
      BY Geography DEF Init
    <2> QED  BY <2>1, <2>2, Names DEF Located, StagedActive, Ended
  <1>2. Survives
    BY DEF Init, Survives, Excused
  <1>3. ASSUME NEW w \in Worker PROVE Places(w)
    <2>1. job[w].pc = "idle"
      BY IdleType DEF Init
    <2> QED  BY <2>1 DEF Places, Guarded
  <1> QED  BY <1>1, <1>2, <1>3 DEF SInv

\* Every step keeps track of the files.
LEMMA FilesKept == IInv /\ SInv /\ [Next]_vars => SInv'
  <1> SUFFICES ASSUME IInv, SInv, [Next]_vars PROVE SInv'
    OBVIOUS
  <1>1. CASE UNCHANGED vars
    <2>1. Still /\ rlog' = rlog /\ job' = job
      BY <1>1 DEF Still, vars
    <2> QED  BY <2>1, StillStep, NamesAssumption
  <1>2. ASSUME NEW w \in Worker, Step(w) PROVE SInv'
    <2>1. CASE RestoreStep(w)
      BY <2>1, StillSteps, ChecksPlace, MovesPlace, RecordsPlace DEF RestoreStep
    <2>2. CASE PurgeStep(w)
      BY <2>2, StillSteps, ChecksPlace, PurgePlaces, RecordsPlace DEF PurgeStep
    <2>3. CASE PlanStep(w)
      BY <2>3, StillSteps, RecordsPlace DEF PlanStep
    <2>4. CASE Refused(w)
      BY <2>4, StillSteps
    <2> QED  BY <1>2, <2>1, <2>2, <2>3, <2>4 DEF Step
  <1>3. CASE Next
    BY <1>2, <1>3, OutsidePlaces, StillSteps DEF Next
  <1> QED  BY <1>1, <1>3

\* Where each file is, is known in every reachable state.
LEMMA FilesTracked == Spec => []SInv
  BY FilesInit, FilesKept, Inductive, PTL DEF Spec

\* MoveFile verifies the copy before it removes the quarantined file, only a
\* complete file is taken for an item, a failed move drops nothing but its own
\* output, and SafeRemove runs behind commit_pending: the file of every
\* registered item is at one of its paths until then.
THEOREM NoItemLost == Spec => []EveryItemSurvives
  <1>1. SInv => EveryItemSurvives
    BY DEF SInv, Survives, Excused, EveryItemSurvives
  <1> QED  BY <1>1, FilesTracked, PTL

-----------------------------------------------------------------------------
(* What the ends of a restore say *)

\* Only the two records of a restore's end write these states.
LEMMA OnlyRestoreEnds ==
    ASSUME TypeOK, Next, NEW i \in Item
    PROVE  /\ status[i] # "RESTORED" /\ status'[i] = "RESTORED" =>
                 \E w \in Worker : MarkRestoreCompleted(w) /\ job[w].item = i
           /\ \A n \in RNr :
                 rplan[i][n] # "ROLLED_BACK" /\ rplan'[i][n] = "ROLLED_BACK" =>
                    \E w \in Worker : /\ MarkRestoreRolledBack(w)
                                      /\ job[w].item = i /\ job[w].nr = n
  <1> DEFINE Goal ==
        /\ status[i] # "RESTORED" /\ status'[i] = "RESTORED" =>
              \E w \in Worker : MarkRestoreCompleted(w) /\ job[w].item = i
        /\ \A n \in RNr :
              rplan[i][n] # "ROLLED_BACK" /\ rplan'[i][n] = "ROLLED_BACK" =>
                 \E w \in Worker : /\ MarkRestoreRolledBack(w)
                                   /\ job[w].item = i /\ job[w].nr = n
  <1>1. status' = status /\ rplan' = rplan => Goal
    OBVIOUS
  <1>2. ASSUME NEW k \in Item, Register(k) PROVE Goal
    BY <1>2 DEF Register, TypeOK
  <1>3. ASSUME NEW k \in Item, NEW n \in RNr, ApproveRestorePlan(k, n) PROVE Goal
    BY <1>3 DEF ApproveRestorePlan, TypeOK
  <1>4. ASSUME NEW w \in Worker, MarkRestoreCompleted(w) PROVE Goal
    <2>1. /\ status' = [status EXCEPT ![job[w].item] = "RESTORED"]
          /\ rplan' = [rplan EXCEPT ![job[w].item][job[w].nr] = "RESTORED"]
      BY <1>4 DEF MarkRestoreCompleted
    <2>2. job[w].item # i => status'[i] = status[i]
      BY <2>1 DEF TypeOK
    <2>3. \A n \in RNr : rplan'[i][n] \in {rplan[i][n], "RESTORED"}
      BY <2>1 DEF TypeOK
    <2> QED  BY <1>4, <2>2, <2>3
  <1>5. ASSUME NEW w \in Worker, MarkRestoreRolledBack(w) PROVE Goal
    <2>1. /\ status' = status
          /\ rplan' = [rplan EXCEPT ![job[w].item][job[w].nr] = "ROLLED_BACK"]
      BY <1>5 DEF MarkRestoreRolledBack
    <2>2. \A n \in RNr : (job[w].item # i \/ job[w].nr # n) => rplan'[i][n] = rplan[i][n]
      BY <2>1 DEF TypeOK
    <2> QED  BY <1>5, <2>1, <2>2
  <1>6. ASSUME NEW w \in Worker, SaveRestorePlan(w) PROVE Goal
    <2>1. PICK n \in Unused(rplan[job[w].item]) :
             rplan' = [rplan EXCEPT ![job[w].item][n] = "DRAFT"]
      BY <1>6 DEF SaveRestorePlan
    <2>2. status' = status
      BY <1>6 DEF SaveRestorePlan
    <2>3. \A m \in RNr : rplan'[i][m] \in {rplan[i][m], "DRAFT"}
      BY <2>1 DEF TypeOK
    <2> QED  BY <2>2, <2>3
  <1>7. ASSUME NEW w \in Worker, SavePurgePlans(w) PROVE Goal
    BY <1>7 DEF SavePurgePlans, TypeOK
  <1>8. ASSUME NEW w \in Worker, MarkPurgeCommitted(w) PROVE Goal
    BY <1>8 DEF MarkPurgeCommitted, TypeOK
  <1>9. ASSUME NEW w \in Worker, Step(w) \/ Crash(w) PROVE Goal
    <2>1. CASE UNCHANGED <<status, rplan>>
      BY <2>1, <1>1
    <2> QED
      BY <1>9, <2>1, <1>4, <1>5, <1>6, <1>7, <1>8
         DEF Step, RestoreStep, PurgeStep, PlanStep, Refused, Crash, dbVars,
             ValidateRestore, BeginRestore, CopyOpens, CopyRefused, CopyFills, MoveFails,
             VerifyPasses, RemoveQuarantined, CompleteFails, RecoverNext, RecoverEnds,
             Probe, Blocked, ValidatePurge, BeginPurge, Stage, MarkPurgeStaged, MarkJournal,
             CheckStaged, MarkPurgeCommitPending, Unlink, PurgeFails, DryRunPasses,
             MarkPurgeDryRunVerified
  <1>10. Goal
    <2>1. CASE UNCHANGED <<status, rplan>>
      BY <2>1, <1>1
    <2> QED
      BY <2>1, <1>2, <1>3, <1>9
         DEF Next, Expire, ApprovePurgePlan, PlanStuck, PlanRecovered, DraftRestore,
             StartRestore, StartDryRun, StartPurge, ListPurgeCandidates,
             StartRecoverRestores, ExternalEdit, dbVars
  <1> QED  BY <1>10

\* A pending restore of a live item has no other excuse than another program.
LEMMA PendingExcuse ==
    ASSUME IInv, SInv, NEW i \in Item, NEW n \in RNr, Reservation(i, n), Excused(i)
    PROVE  i \in harmed
  <1>1. OneUnresolved /\ Ended
    BY DEF IInv, SInv
  <1>2. <<i, n>> \in Item \X RNr /\ <<i, n>>[1] = i /\ <<i, n>>[2] = n
    OBVIOUS
  <1>3. rlog[i][n] = "pending" /\ status[i] \notin {"NONE", "PURGED"}
    BY DEF Reservation, Restorable
  <1>4. Unsettled = {}
    BY <1>1, <1>2, <1>3 DEF OneUnresolved, Pending
  <1>5. ASSUME NEW m \in PNr, plog[i][m] = "commit_pending" PROVE FALSE
    <2>1. <<i, m>> \in Item \X PNr /\ <<i, m>>[1] = i /\ <<i, m>>[2] = m
      OBVIOUS
    <2> QED  BY <1>4, <1>5, <2>1 DEF Unsettled, Active
  <1>6. ASSUME NEW m \in PNr, plog[i][m] = "committed" PROVE FALSE
    BY <1>1, <1>3, <1>6 DEF Ended
  <1> QED  BY <1>3, <1>5, <1>6 DEF Excused

\* MarkRestoreCompleted follows a verified copy and the removal of the original,
\* MarkRestoreRolledBack two probes that found the quarantined file and no trace
\* of the copy; nothing but another program comes between.
THEOREM RestoresTellTheTruth == Spec => RestoresAreReal
  <1> DEFINE A == \A i \in Item :
          /\ status[i] # "RESTORED" /\ status'[i] = "RESTORED" =>
                i \in harmed \/ (HasHashOf(data[Src[i]], i) /\ data[Qar[i]] # i)
          /\ \A n \in RNr :
                rplan[i][n] # "ROLLED_BACK" /\ rplan'[i][n] = "ROLLED_BACK" =>
                   /\ data[Src[i]] \notin {i, Partial}
                   /\ i \in harmed \/ HasHashOf(data[Qar[i]], i)
  <1>1. IInv /\ SInv /\ [Next]_vars => [A]_vars
    <2> SUFFICES ASSUME IInv, SInv, Next, NEW i \in Item
                 PROVE  /\ status[i] # "RESTORED" /\ status'[i] = "RESTORED" =>
                              i \in harmed \/ (HasHashOf(data[Src[i]], i) /\ data[Qar[i]] # i)
                        /\ \A n \in RNr :
                              rplan[i][n] # "ROLLED_BACK" /\ rplan'[i][n] = "ROLLED_BACK" =>
                                 /\ data[Src[i]] \notin {i, Partial}
                                 /\ i \in harmed \/ HasHashOf(data[Qar[i]], i)
      OBVIOUS
    <2>1. TypeOK /\ HasHashOf(i, i)
      BY DEF IInv, HasHashOf, Content
    <2>2. ASSUME status[i] # "RESTORED", status'[i] = "RESTORED"
          PROVE  i \in harmed \/ (HasHashOf(data[Src[i]], i) /\ data[Qar[i]] # i)
      <3>1. PICK w \in Worker : MarkRestoreCompleted(w) /\ job[w].item = i
        BY <2>1, <2>2, OnlyRestoreEnds
      <3>2. job[w].pc = "complete" /\ Reservation(i, job[w].nr) /\ Knows(w) /\ Places(w)
        BY <3>1 DEF MarkRestoreCompleted, At, IInv, SInv, Agreement
      <3>3. job[w].nr \in RNr
        BY <3>2 DEF Knows, Moving
      <3>4. (Excused(i) \/ data[Src[i]] = i) /\ data[Qar[i]] # i
        BY <3>1, <3>2 DEF Places
      <3> QED  BY <2>1, <3>2, <3>3, <3>4, PendingExcuse
    <2>3. ASSUME NEW n \in RNr, rplan[i][n] # "ROLLED_BACK", rplan'[i][n] = "ROLLED_BACK"
          PROVE  /\ data[Src[i]] \notin {i, Partial}
                 /\ i \in harmed \/ HasHashOf(data[Qar[i]], i)
      <3>1. PICK w \in Worker : /\ MarkRestoreRolledBack(w)
                                /\ job[w].item = i /\ job[w].nr = n
        BY <2>1, <2>3, OnlyRestoreEnds
      <3>2. job[w].pc = "rollback" /\ Reservation(i, n) /\ Places(w)
        BY <3>1 DEF MarkRestoreRolledBack, At, SInv
      <3>3. /\ data[Src[i]] \notin Item \cup {Partial}
            /\ Excused(i) \/ data[Qar[i]] = i
        BY <3>1, <3>2 DEF Places, Reservation
      <3> QED  BY <2>1, <3>2, <3>3, PendingExcuse
    <2> QED  BY <2>2, <2>3
  <1> QED  BY <1>1, Inductive, FilesTracked, PTL DEF Spec, RestoresAreReal
=============================================================================
