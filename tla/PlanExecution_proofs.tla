------------------------ MODULE PlanExecution_proofs ------------------------
(***************************************************************************)
(* Proofs about PlanExecution, for every set of plans, files and workers   *)
(* and every bound on faults.                                              *)
(***************************************************************************)
EXTENDS PlanExecution, TLAPS

IInv == TypeOK /\ OneReservation /\ Agreement

-----------------------------------------------------------------------------
(* The types of what the helpers of the actions write *)

\* The volatile record of a job, field by field.
LEMMA JobFields ==
    ASSUME TypeOK, NEW w \in Worker
    PROVE  /\ job[w] \in Job
           /\ job[w].pc \in Pc /\ job[w].mode \in {"do", "undo", "recover"}
           /\ job[w].batch \subseteq Plan
           /\ job[w].plan \in Plan \cup {None}
           /\ job[w].idx \in 0..(Size + 1)
           /\ job[w].from \in Path \cup {None} /\ job[w].to \in Path \cup {None}
           /\ job[w].buf \in Content \cup {None, Partial}
           /\ job[w].at \in [Index -> Path \cup {None}]
           /\ job[w].ok \in BOOLEAN /\ job[w].cancelled \in BOOLEAN
  <1>1. job[w] \in Job  BY DEF TypeOK
  <1> QED  BY <1>1 DEF Job

\* A journal row, field by field.
LEMMA RowFields ==
    ASSUME TypeOK, NEW p \in Plan, NEW i \in Index
    PROVE  /\ journal[p][i] \in Row
           /\ journal[p][i].status \in {"none", "pending", "done", "failed"}
           /\ journal[p][i].rb \in {"none", "done", "failed"}
           /\ journal[p][i].target \in Path \cup {None}
  <1>1. journal[p][i] \in Row  BY DEF TypeOK
  <1> QED  BY <1>1 DEF Row

\* Rewriting one job's record with a record of the right sort keeps the sort.
LEMMA JobUpdate ==
    ASSUME TypeOK, NEW w \in Worker, NEW r \in Job, job' = [job EXCEPT ![w] = r]
    PROVE  job' \in [Worker -> Job]
  BY DEF TypeOK

\* A worker without a job has a record of the right sort.
LEMMA IdleType == Idle \in Job
  BY SizeAssumption DEF Idle, Job, Pc, Nowhere

\* Moving a job to another program point keeps the sort of its record.
LEMMA GotoType ==
    ASSUME TypeOK, NEW w \in Worker, NEW pc \in Pc, Goto(w, pc)
    PROVE  job' \in [Worker -> Job]
  <1>1. [job[w] EXCEPT !.pc = pc] \in Job
    BY JobFields DEF Job
  <1> QED  BY <1>1, JobUpdate DEF Goto

\* A job that goes on to its next plan keeps its sort, and so does the lock.
LEMMA ContinueType ==
    ASSUME TypeOK, NEW w \in Worker, Continue(w)
    PROVE  job' \in [Worker -> Job] /\ lock' \in Worker \cup {None}
  <1>1. ASSUME NEW m \in {"do", "undo", "recover"}, NEW b \in SUBSET Plan, NEW c \in BOOLEAN
        PROVE  [Idle EXCEPT !.pc = "next", !.mode = m, !.batch = b, !.cancelled = c] \in Job
    BY IdleType DEF Job, Pc
  <1>2. NextOf(w) \in Job
    BY <1>1, JobFields DEF NextOf
  <1> QED  BY <1>2, JobUpdate DEF Continue, TypeOK

\* A job that ends keeps its sort, and so does the lock it gives back.
LEMMA StopType ==
    ASSUME TypeOK, NEW w \in Worker, Stop(w)
    PROVE  job' \in [Worker -> Job] /\ lock' \in Worker \cup {None}
  <1>1. job' = [job EXCEPT ![w] = Idle] /\ lock' = None
    BY DEF Stop
  <1>2. job' \in [Worker -> Job]
    BY <1>1, IdleType, JobUpdate
  <1> QED  BY <1>1, <1>2

\* Both ways out of a plan keep the sorts of job and lock.
LEMMA SettleType ==
    ASSUME TypeOK, NEW w \in Worker, Settle(w)
    PROVE  job' \in [Worker -> Job] /\ lock' \in Worker \cup {None}
  BY ContinueType, StopType DEF Settle

\* CompareAndSwapPlanState writes a plan state and nothing else.
LEMMA SetStateType ==
    ASSUME TypeOK, NEW p, NEW s \in State, SetState(p, s)
    PROVE  state' \in [Plan -> State] /\ UNCHANGED <<journal, items>>
  BY DEF TypeOK, SetState

\* A journal mark writes one row and nothing else.
LEMMA SetRowType ==
    ASSUME TypeOK, NEW p \in Plan, NEW i \in Index, NEW r \in Row, SetRow(p, i, r)
    PROVE  journal' \in [Plan -> [Index -> Row]] /\ UNCHANGED <<state, items>>
  BY DEF TypeOK, SetRow

\* Creating, filling or removing a file keeps the sorts of the file system.
LEMMA PutType ==
    ASSUME TypeOK, NEW x, NEW c \in Content \cup {Absent, Partial}, Put(x, c)
    PROVE  /\ data' \in [Path -> Content \cup {Absent, Partial}]
           /\ scanned' \subseteq Source
           /\ harmed' \subseteq Source
  BY DEF TypeOK, Put

\* CopyAndVerify's removal of its output keeps the sorts of the file system.
LEMMA DropOutputType ==
    ASSUME TypeOK, NEW x, DropOutput(x)
    PROVE  /\ data' \in [Path -> Content \cup {Absent, Partial}]
           /\ scanned' \subseteq Source
           /\ harmed' \subseteq Source
  BY PutType DEF DropOutput, TypeOK, fsVars

\* Every name an action may write, ResolveCollision's included, is a path.
LEMMA DestinationsType ==
    ASSUME NEW p \in Plan, NEW i \in Work(p)
    PROVE  /\ Actions[p][i].src \in Path
           /\ Destinations(Actions[p][i]) \subseteq Path
  <1>1. i \in Index /\ Actions[p][i] \in Action
    BY ActionsAssumption DEF Work
  <1>2. /\ Actions[p][i].src \in Source
        /\ Actions[p][i].kind \in {"QUARANTINE", "MOVE", "COPY", "KEEP"}
        /\ Actions[p][i].dst \in Target \cup {None}
    BY <1>1 DEF Action
  <1>3. CASE Actions[p][i].kind = "QUARANTINE"
    <2>1. Candidates[Actions[p][i].src] \in Seq(Slot)
      BY <1>2, CandidatesAssumption
    <2> DEFINE C == Candidates[Actions[p][i].src]
    <2>2. \A k \in 1..Len(C) : C[k] \in Slot
      BY <2>1
    <2> QED  BY <1>2, <1>3, <2>2 DEF Destinations, FirstFree, Free, Path
  <1>4. CASE Actions[p][i].kind # "QUARANTINE"
    BY <1>1, <1>2, <1>4, ActionsAssumption DEF Destinations, Work, Path
  <1> QED  BY <1>3, <1>4

-----------------------------------------------------------------------------
(* Types are preserved, action by action *)

\* TypeOK through SaveDraft, Approve and the start and end of a batch.
LEMMA CallerTypes ==
    ASSUME TypeOK, Agreement
    PROVE  /\ \A p \in Plan : SaveDraft(p) \/ Approve(p) => TypeOK'
           /\ \A w \in Worker, ps \in SUBSET Plan : StartExecute(w, ps) => TypeOK'
           /\ \A w \in Worker, p \in Plan : NextPlan(w, p) => TypeOK'
           /\ \A w \in Worker : EndBatch(w) => TypeOK'
  <1>1. ASSUME NEW p \in Plan, SaveDraft(p) \/ Approve(p)
        PROVE  TypeOK'
    <2>1. state' \in [Plan -> State] /\ UNCHANGED <<journal, items>>
      BY <1>1, SetStateType DEF SaveDraft, Approve, State
    <2> QED  BY <1>1, <2>1 DEF SaveDraft, Approve, TypeOK, fsVars, bounds
  <1>2. ASSUME NEW w \in Worker, NEW ps \in SUBSET Plan, StartExecute(w, ps)
        PROVE  TypeOK'
    <2>1. [Idle EXCEPT !.pc = "next", !.batch = ps] \in Job
      BY IdleType DEF Job, Pc
    <2>2. job' \in [Worker -> Job]
      BY <1>2, <2>1, JobUpdate DEF StartExecute
    <2>3. state' \in [Plan -> State]
      BY <1>2 DEF StartExecute, TypeOK, State
    <2> QED  BY <1>2, <2>2, <2>3 DEF StartExecute, TypeOK, fsVars, bounds
  <1>3. ASSUME NEW w \in Worker, NEW p \in Plan, NextPlan(w, p)
        PROVE  TypeOK'
    <2>1. /\ [job[w] EXCEPT !.plan = p, !.pc = "check"] \in Job
          /\ [job[w] EXCEPT !.batch = job[w].batch \ {p}] \in Job
      BY ZenonT(30), JobFields DEF Job, Pc
    <2>2. ASSUME NEW r \in Job, job' = [job EXCEPT ![w] = r]
          PROVE  TypeOK'
      <3>1. job' \in [Worker -> Job]
        BY <2>2, JobUpdate
      <3> QED  BY <1>3, <3>1 DEF NextPlan, TypeOK, dbVars, fsVars, bounds
    <2>3. CASE state[p] = "APPROVED"
      BY <1>3, <2>1, <2>2, <2>3 DEF NextPlan
    <2>4. CASE state[p] # "APPROVED"
      BY <1>3, <2>1, <2>2, <2>4 DEF NextPlan
    <2> QED  BY <2>3, <2>4
  <1>4. ASSUME NEW w \in Worker, EndBatch(w)
        PROVE  TypeOK'
    BY <1>4, StopType DEF EndBatch, TypeOK, dbVars, fsVars, bounds
  <1> QED  BY <1>1, <1>2, <1>3, <1>4

\* TypeOK through stale check, reservation, journal and claim.
LEMMA PreparationTypes ==
    ASSUME TypeOK, Agreement, NEW w \in Worker
    PROVE  /\ CheckFails(w) => TypeOK'
           /\ Invalidate(w) => TypeOK'
           /\ Reserve(w) => TypeOK'
           /\ ReserveFails(w) => TypeOK'
           /\ BeginJournal(w) => TypeOK'
           /\ BeginJournalFails(w) => TypeOK'
           /\ Claim(w) => TypeOK'
           /\ ClaimFails(w) => TypeOK'
  <1>1. ASSUME CheckFails(w) PROVE TypeOK'
    BY <1>1, SettleType DEF CheckFails, TypeOK, dbVars, fsVars, bounds
  <1>2. ASSUME Invalidate(w) PROVE TypeOK'
    <2>1. state' \in [Plan -> State] /\ UNCHANGED <<journal, items>>
      BY <1>2, SetStateType DEF Invalidate, State, TypeOK, dbVars
    <2>2. job' \in [Worker -> Job] /\ lock' \in Worker \cup {None}
      BY <1>2, SettleType, StopType DEF Invalidate
    <2> QED  BY <1>2, <2>1, <2>2 DEF Invalidate, TypeOK, fsVars, bounds
  <1>3. ASSUME Reserve(w) PROVE TypeOK'
    <2>1. state' \in [Plan -> State] /\ UNCHANGED <<journal, items>>
      BY <1>3, SetStateType DEF Reserve, State
    <2>2. job' \in [Worker -> Job]
      BY <1>3, GotoType DEF Reserve, Pc
    <2> QED  BY <1>3, <2>1, <2>2 DEF Reserve, TypeOK, fsVars, bounds
  <1>4. ASSUME ReserveFails(w) PROVE TypeOK'
    BY <1>4, SettleType DEF ReserveFails, TypeOK, dbVars, fsVars, bounds
  <1>5. ASSUME BeginJournal(w) PROVE TypeOK'
    <2> DEFINE p == job[w].plan
    <2>1. p \in Plan
      BY <1>5 DEF BeginJournal, Agreement, JobOK, Agrees, At
    <2>2. ASSUME NEW i \in Work(p)
          PROVE  [NoRow EXCEPT !.status = "pending", !.target = Actions[p][i].dst] \in Row
      <3>1. Actions[p][i].dst \in Path \cup {None}
        BY <2>1, ActionsAssumption DEF Work, Action, Path
      <3> QED  BY <3>1 DEF NoRow, Row
    <2>3. \A i \in Index : journal'[p][i] \in Row
      BY <1>5, <2>1, <2>2, RowFields DEF BeginJournal, TypeOK
    <2>4. journal' \in [Plan -> [Index -> Row]]
      BY <1>5, <2>1, <2>2, RowFields DEF BeginJournal, TypeOK
    <2>5. job' \in [Worker -> Job]
      BY <1>5, GotoType DEF BeginJournal, Pc
    <2> QED  BY <1>5, <2>4, <2>5 DEF BeginJournal, TypeOK, fsVars, bounds
  <1>6. ASSUME BeginJournalFails(w) PROVE TypeOK'
    <2>1. state' \in [Plan -> State] /\ UNCHANGED <<journal, items>>
      BY <1>6, SetStateType DEF BeginJournalFails, State, TypeOK, dbVars
    <2>2. job' \in [Worker -> Job] /\ lock' \in Worker \cup {None}
      BY <1>6, SettleType, StopType DEF BeginJournalFails
    <2> QED  BY <1>6, <2>1, <2>2 DEF BeginJournalFails, TypeOK, fsVars, bounds
  <1>7. ASSUME Claim(w) PROVE TypeOK'
    <2>1. state' \in [Plan -> State] /\ UNCHANGED <<journal, items>>
      BY <1>7, SetStateType DEF Claim, State
    <2>2. 1 \in 0..(Size + 1)
      BY SizeAssumption
    <2>3. [job[w] EXCEPT !.pc = "act", !.idx = 1] \in Job
      BY ZenonT(30), <2>2, JobFields DEF Job, Pc
    <2>4. job' \in [Worker -> Job]
      BY <1>7, <2>3, JobUpdate DEF Claim
    <2> QED  BY <1>7, <2>1, <2>4 DEF Claim, TypeOK, fsVars, bounds
  <1>8. ASSUME ClaimFails(w) PROVE TypeOK'
    BY <1>8, StopType DEF ClaimFails, TypeOK, dbVars, fsVars, bounds
  <1> QED  BY <1>1, <1>2, <1>3, <1>4, <1>5, <1>6, <1>7, <1>8

\* TypeOK through the head of the action loop.
LEMMA ActionTypes ==
    ASSUME TypeOK, Agreement, NEW w \in Worker
    PROVE  /\ ActFinished(w) => TypeOK'
           /\ ActCancelled(w) => TypeOK'
           /\ ActSkip(w) => TypeOK'
           /\ ActBegin(w) => TypeOK'
  <1>1. ASSUME ActFinished(w) PROVE TypeOK'
    BY <1>1, GotoType DEF ActFinished, Pc, TypeOK, dbVars, fsVars, bounds
  <1>2. ASSUME ActCancelled(w) PROVE TypeOK'
    <2>1. [job[w] EXCEPT !.pc = "undo", !.mode = "undo"] \in Job
      BY ZenonT(30), JobFields DEF Job, Pc
    <2>2. job' \in [Worker -> Job]
      BY <1>2, <2>1, JobUpdate DEF ActCancelled
    <2> QED  BY <1>2, <2>2 DEF ActCancelled, TypeOK, dbVars, fsVars, bounds
  <1>3. ASSUME ActSkip(w) PROVE TypeOK'
    <2>1. job[w].idx + 1 \in 0..(Size + 1)
      BY <1>3, SizeAssumption DEF ActSkip, Index
    <2>2. [job[w] EXCEPT !.idx = job[w].idx + 1] \in Job
      BY <2>1, JobFields DEF Job
    <2>3. job' \in [Worker -> Job]
      BY <1>3, <2>2, JobUpdate DEF ActSkip
    <2> QED  BY <1>3, <2>3 DEF ActSkip, TypeOK, dbVars, fsVars, bounds
  <1>4. ASSUME ActBegin(w) PROVE TypeOK'
    <2> DEFINE a == Actions[job[w].plan][job[w].idx]
    <2>1. a.src \in Path /\ Destinations(a) \subseteq Path
      BY <1>4, DestinationsType DEF ActBegin, Agreement, JobOK, Agrees, At, Busy
    <2>2. ASSUME NEW d \in Path
          PROVE  [job[w] EXCEPT !.pc = "copy", !.from = a.src, !.to = d] \in Job
      BY ZenonT(30), <2>1, JobFields DEF Job, Pc
    <2>3. CASE Goto(w, "failed")
      BY <1>4, <2>3, GotoType DEF ActBegin, Pc, TypeOK, dbVars, fsVars, bounds
    <2>4. ASSUME NEW d \in Destinations(a),
                 job' = [job EXCEPT ![w] = [@ EXCEPT !.pc = "copy", !.from = a.src, !.to = d]]
          PROVE  TypeOK'
      <3>1. job' \in [Worker -> Job]
        BY <2>1, <2>2, <2>4, JobUpdate
      <3> QED  BY <1>4, <3>1 DEF ActBegin, TypeOK, dbVars, fsVars, bounds
    <2> QED  BY <1>4, <2>3, <2>4 DEF ActBegin
  <1> QED  BY <1>1, <1>2, <1>3, <1>4

\* TypeOK through every file primitive and its failures.
LEMMA FileTypes ==
    ASSUME TypeOK, Agreement, NEW w \in Worker, FileStep(w)
    PROVE  TypeOK'
  <1>1. CASE CopyOpens(w)
    <2>1. /\ job[w].from \in Path /\ job[w].to \in Path
      BY <1>1 DEF CopyOpens, Agreement, JobOK, Agrees, At, Busy, Filing
    <2>2. data[job[w].from] \in Content \cup {None, Partial}
      BY <1>1, <2>1 DEF CopyOpens, TypeOK
    <2>3. [job[w] EXCEPT !.pc = "fill", !.buf = data[job[w].from]] \in Job
      BY ZenonT(30), <2>2, JobFields DEF Job, Pc
    <2>4. job' \in [Worker -> Job]
      BY <1>1, <2>3, JobUpdate DEF CopyOpens
    <2> QED  BY <1>1, <2>4, PutType DEF CopyOpens, TypeOK, dbVars, bounds
  <1>2. CASE CopyRefused(w)
    BY <1>2, GotoType DEF CopyRefused, Pc, TypeOK, dbVars, fsVars, bounds
  <1>3. CASE CopyFills(w)
    <2>1. /\ job[w].from \in Path
          /\ job[w].buf \in Content \cup {Partial}
      BY <1>3, JobFields DEF CopyFills, Agreement, JobOK, Agrees, At, Busy, Filing
    <2>2. data[job[w].from] \in Content \cup {Absent, Partial}
      BY <2>1 DEF TypeOK
    <2>3. /\ data' \in [Path -> Content \cup {Absent, Partial}]
          /\ scanned' \subseteq Source
          /\ harmed' \subseteq Source
      BY <1>3, <2>1, <2>2, PutType DEF CopyFills, TypeOK, fsVars
    <2> QED  BY <1>3, <2>3, GotoType DEF CopyFills, Pc, TypeOK, dbVars, bounds
  <1>4. CASE CopyFails(w)
    BY <1>4, DropOutputType, GotoType DEF CopyFails, Pc, TypeOK, dbVars, bounds
  <1>5. CASE VerifyPasses(w)
    <2>1. job' \in [Worker -> Job]
      BY <1>5, GotoType DEF VerifyPasses, Pc
    <2> QED  BY <1>5, <2>1 DEF VerifyPasses, TypeOK, dbVars, fsVars, bounds
  <1>6. CASE VerifyFails(w)
    BY <1>6, DropOutputType, GotoType DEF VerifyFails, Pc, TypeOK, dbVars, bounds
  <1>7. CASE RemoveSource(w)
    BY <1>7, PutType, GotoType DEF RemoveSource, Pc, TypeOK, dbVars, bounds
  <1>8. CASE RemoveFails(w)
    BY <1>8, DropOutputType, GotoType DEF RemoveFails, Pc, TypeOK, dbVars, bounds
  <1>9. CASE RemoveCopy(w)
    BY <1>9, PutType, GotoType DEF RemoveCopy, Pc, TypeOK, dbVars, bounds
  <1>10. CASE RemoveCopyFails(w)
    BY <1>10, GotoType DEF RemoveCopyFails, Pc, TypeOK, dbVars, fsVars, bounds
  <1> QED  BY <1>1, <1>2, <1>3, <1>4, <1>5, <1>6, <1>7, <1>8, <1>9, <1>10
           DEF FileStep

\* TypeOK through the journal marks and the in-run rollback.
LEMMA RecordTypes ==
    ASSUME TypeOK, Agreement, NEW w \in Worker
    PROVE  /\ MarkDone(w) => TypeOK'
           /\ MarkDoneFails(w) => TypeOK'
           /\ MarkFailed(w) => TypeOK'
           /\ UndoBegins(w) => TypeOK'
           /\ UndoSucceeded(w) => TypeOK'
           /\ UndoFailed(w) => TypeOK'
           /\ UndoEnds(w) => TypeOK'
  <1> DEFINE j == job[w]
             p == j.plan
             i == j.idx
  <1>0. ASSUME j.pc \in {"succeeded", "failed"}
        PROVE  /\ p \in Plan /\ i \in Index /\ journal[p][i] \in Row
               /\ j.pc = "succeeded" /\ j.mode = "do" => j.to \in Path
    BY <1>0, RowFields DEF Agreement, JobOK, Agrees, Busy, Filing, Work
  <1>1. ASSUME MarkDone(w) PROVE TypeOK'
    <2>1. /\ p \in Plan /\ i \in Index /\ journal[p][i] \in Row
          /\ j.to \in Path
      BY <1>0, <1>1 DEF MarkDone, At
    <2>2. [journal[p][i] EXCEPT !.status = "done", !.target = j.to] \in Row
      BY <2>1 DEF Row
    <2>3. i + 1 \in 0..(Size + 1)
      BY <2>1, SizeAssumption DEF Index
    <2>4. [j.at EXCEPT ![i] = j.to] \in [Index -> Path \cup {None}]
      BY <2>1, JobFields
    <2>5. [j EXCEPT !.pc = "act", !.idx = i + 1, !.at = [j.at EXCEPT ![i] = j.to],
                    !.from = None, !.to = None, !.buf = None] \in Job
      BY ZenonT(30), <2>3, <2>4, JobFields DEF Job, Pc
    <2>6. job' \in [Worker -> Job]
      BY <1>1, <2>5, JobUpdate DEF MarkDone
    <2>7. journal' \in [Plan -> [Index -> Row]] /\ UNCHANGED <<state, items>>
      BY <1>1, <2>1, <2>2, SetRowType DEF MarkDone
    <2> QED  BY <1>1, <2>6, <2>7 DEF MarkDone, TypeOK, fsVars, bounds
  <1>2. ASSUME MarkDoneFails(w) PROVE TypeOK'
    <2>1. i \in Index /\ j.to \in Path
      BY <1>0, <1>2 DEF MarkDoneFails, At
    <2>2. [j.at EXCEPT ![i] = j.to] \in [Index -> Path \cup {None}]
      BY <2>1, JobFields
    <2>3. [j EXCEPT !.pc = "undo", !.mode = "undo",
                    !.at = [j.at EXCEPT ![i] = j.to]] \in Job
      BY ZenonT(30), <2>2, JobFields DEF Job, Pc
    <2>4. job' \in [Worker -> Job]
      BY <1>2, <2>3, JobUpdate DEF MarkDoneFails
    <2> QED  BY <1>2, <2>4 DEF MarkDoneFails, TypeOK, dbVars, fsVars, bounds
  <1>3. ASSUME MarkFailed(w) PROVE TypeOK'
    <2>1. p \in Plan /\ i \in Index /\ journal[p][i] \in Row
      BY <1>0, <1>3 DEF MarkFailed, At
    <2>2. [journal[p][i] EXCEPT !.status = "failed"] \in Row
      BY <2>1 DEF Row
    <2>3. journal' \in [Plan -> [Index -> Row]] /\ UNCHANGED <<state, items>>
      BY <1>3, <2>1, <2>2, SetRowType DEF MarkFailed, TypeOK, dbVars
    <2>4. [j EXCEPT !.pc = "undo", !.mode = "undo"] \in Job
      BY ZenonT(30), JobFields DEF Job, Pc
    <2>5. job' \in [Worker -> Job]
      BY <1>3, <2>4, JobUpdate DEF MarkFailed
    <2> QED  BY <1>3, <2>3, <2>5 DEF MarkFailed, TypeOK, fsVars, bounds
  <1>4. ASSUME UndoBegins(w) PROVE TypeOK'
    <2>1. p \in Plan
      BY <1>4 DEF UndoBegins, Agreement, JobOK, Agrees, At, Busy
    <2>2. PICK k \in Index :
             LET a == Actions[p][k]
             IN  /\ j.at[k] # None
                 /\ job' = [job EXCEPT ![w] = [@ EXCEPT
                        !.idx = k, !.from = j.at[k], !.buf = None,
                        !.pc = IF a.kind = "COPY" THEN "uncopy" ELSE "copy",
                        !.to = IF a.kind = "COPY" THEN None ELSE a.src]]
      BY <1>4 DEF UndoBegins
    <2> DEFINE a == Actions[p][k]
    <2>3. a.src \in Path
      BY <2>1, ActionsAssumption DEF Action, Path
    <2>4. k \in 0..(Size + 1)
      BY SizeAssumption DEF Index
    <2>5. ASSUME NEW pc \in Pc, NEW to \in Path \cup {None}
          PROVE  [j EXCEPT !.idx = k, !.from = j.at[k], !.buf = None,
                           !.pc = pc, !.to = to] \in Job
      BY <2>4, JobFields DEF Job
    <2>6. job' \in [Worker -> Job]
      BY <2>2, <2>3, <2>5, JobUpdate DEF Pc
    <2> QED  BY <1>4, <2>6 DEF UndoBegins, TypeOK, dbVars, fsVars, bounds
  <1>5. ASSUME NEW fine \in BOOLEAN, NEW saved \in BOOLEAN, Undone(w, fine, saved),
               j.pc \in {"succeeded", "failed"}
        PROVE  TypeOK'
    <2>1. p \in Plan /\ i \in Index /\ journal[p][i] \in Row
      BY <1>0, <1>5
    <2>2. [journal[p][i] EXCEPT !.rb = IF fine THEN "done" ELSE "failed"] \in Row
      BY <2>1 DEF Row
    <2>3. journal' \in [Plan -> [Index -> Row]] /\ UNCHANGED <<state, items>>
      BY <1>5, <2>1, <2>2, SetRowType DEF Undone, TypeOK, dbVars
    <2>4. [j.at EXCEPT ![i] = None] \in [Index -> Path \cup {None}]
      BY JobFields
    <2>5. (j.ok /\ fine /\ saved) \in BOOLEAN
      OBVIOUS
    <2>6. [j EXCEPT !.pc = "undo", !.at = [j.at EXCEPT ![i] = None],
                    !.ok = j.ok /\ fine /\ saved] \in Job
      BY ZenonT(30), <2>4, <2>5, JobFields DEF Job, Pc
    <2>7. job' \in [Worker -> Job] /\ lock' \in Worker \cup {None}
      BY <1>5, <2>6, JobUpdate, ContinueType DEF Undone, TypeOK
    <2> QED  BY <1>5, <2>3, <2>7 DEF Undone, TypeOK, fsVars, bounds
  <1>6. ASSUME UndoSucceeded(w) PROVE TypeOK'
    BY <1>5, <1>6 DEF UndoSucceeded, At
  <1>7. ASSUME UndoFailed(w) PROVE TypeOK'
    BY <1>5, <1>7 DEF UndoFailed, At
  <1>8. ASSUME UndoEnds(w) PROVE TypeOK'
    <2>1. job' \in [Worker -> Job] /\ lock' \in Worker \cup {None}
      BY <1>8, GotoType, StopType DEF UndoEnds, Pc, TypeOK
    <2> QED  BY <1>8, <2>1 DEF UndoEnds, TypeOK, dbVars, fsVars, bounds
  <1> QED  BY <1>1, <1>2, <1>3, <1>4, <1>6, <1>7, <1>8

\* TypeOK through CompletePlanExecution and its failures.
LEMMA FinalTypes ==
    ASSUME TypeOK, Agreement, NEW w \in Worker
    PROVE  /\ FinalizeVerified(w) => TypeOK'
           /\ FinalizeVerifiedFails(w) => TypeOK'
           /\ FinalizeRolledBack(w) => TypeOK'
           /\ FinalizeRolledBackFails(w) => TypeOK'
  <1>1. ASSUME FinalizeVerified(w) PROVE TypeOK'
    <2> DEFINE p == job[w].plan
    <2>1. p \in Plan /\ CommitReady(p)
      BY <1>1 DEF FinalizeVerified, Agreement, JobOK, Agrees, At, Busy
    <2>2. \A i \in Work(p) : i \in Index /\ journal[p][i].target \in Path
      BY <2>1 DEF CommitReady, Work, Agreement, RowsOK, RowOK
    <2>3. Registered(p) \subseteq Item
      BY <2>1, <2>2 DEF Registered, Item, TypeOK
    <2>4. state' \in [Plan -> State]
      BY <1>1 DEF FinalizeVerified, TypeOK, State
    <2>5. job' \in [Worker -> Job] /\ lock' \in Worker \cup {None}
      BY <1>1, ContinueType DEF FinalizeVerified
    <2> QED  BY <1>1, <2>3, <2>4, <2>5 DEF FinalizeVerified, TypeOK, fsVars, bounds
  <1>2. ASSUME FinalizeVerifiedFails(w) PROVE TypeOK'
    BY <1>2, StopType DEF FinalizeVerifiedFails, TypeOK, dbVars, fsVars, bounds
  <1>3. ASSUME FinalizeRolledBack(w) PROVE TypeOK'
    <2>1. state' \in [Plan -> State] /\ UNCHANGED <<journal, items>>
      BY <1>3, SetStateType DEF FinalizeRolledBack, State
    <2> QED  BY <1>3, <2>1, SettleType DEF FinalizeRolledBack, TypeOK, fsVars, bounds
  <1>4. ASSUME FinalizeRolledBackFails(w) PROVE TypeOK'
    BY <1>4, StopType DEF FinalizeRolledBackFails, TypeOK, dbVars, fsVars, bounds
  <1> QED  BY <1>1, <1>2, <1>3, <1>4

\* TypeOK through Recover.
LEMMA RecoveryTypes ==
    ASSUME TypeOK, Agreement, NEW w \in Worker
    PROVE  /\ StartRecover(w) => TypeOK'
           /\ \A p \in Plan : RecoverReset(w, p) => TypeOK'
           /\ \A p \in Plan : RecoverSkip(w, p) => TypeOK'
           /\ \A p \in Plan : RecoverBegin(w, p) => TypeOK'
           /\ RecoverEnd(w) => TypeOK'
  <1>1. ASSUME NEW p \in Plan, Leave(w, p)
        PROVE  job' \in [Worker -> Job] /\ UNCHANGED lock
    <2>1. [job[w] EXCEPT !.batch = job[w].batch \ {p}] \in Job
      BY JobFields DEF Job
    <2> QED  BY <1>1, <2>1, JobUpdate DEF Leave
  <1>2. ASSUME StartRecover(w) PROVE TypeOK'
    <2>1. [Idle EXCEPT !.pc = "next", !.mode = "recover", !.batch = Reserved] \in Job
      BY IdleType DEF Job, Pc, Reserved
    <2>2. job' \in [Worker -> Job]
      BY <1>2, <2>1, JobUpdate DEF StartRecover
    <2> QED  BY <1>2, <2>2 DEF StartRecover, TypeOK, dbVars, fsVars, bounds
  <1>3. ASSUME NEW p \in Plan, RecoverReset(w, p) PROVE TypeOK'
    <2>1. state' \in [Plan -> State] /\ UNCHANGED <<journal, items>>
      BY <1>3, SetStateType DEF RecoverReset, State
    <2> QED  BY <1>1, <1>3, <2>1 DEF RecoverReset, TypeOK, fsVars, bounds
  <1>4. ASSUME NEW p \in Plan, RecoverSkip(w, p) PROVE TypeOK'
    BY <1>1, <1>4 DEF RecoverSkip, TypeOK, dbVars, fsVars, bounds
  <1>5. ASSUME NEW p \in Plan, RecoverBegin(w, p) PROVE TypeOK'
    <2> DEFINE at == [i \in Index |-> IF journal[p][i].rb = "done"
                                     THEN None ELSE journal[p][i].target]
    <2>1. at \in [Index -> Path \cup {None}]
      BY RowFields
    <2>2. [job[w] EXCEPT !.plan = p, !.pc = "undo", !.at = at] \in Job
      BY ZenonT(30), <2>1, JobFields DEF Job, Pc
    <2>3. job' \in [Worker -> Job]
      BY <1>5, <2>2, JobUpdate DEF RecoverBegin
    <2> QED  BY <1>5, <2>3 DEF RecoverBegin, TypeOK, dbVars, fsVars, bounds
  <1>6. ASSUME RecoverEnd(w) PROVE TypeOK'
    <2>1. state' \in [Plan -> State] /\ UNCHANGED <<journal, items>>
      BY <1>6, SetStateType DEF RecoverEnd, State, TypeOK, dbVars
    <2> QED  BY <1>6, <2>1, ContinueType DEF RecoverEnd, TypeOK, fsVars, bounds
  <1> QED  BY <1>2, <1>3, <1>4, <1>5, <1>6

\* TypeOK through cancellation, a crash and an edit by another program.
LEMMA OutsideTypes ==
    ASSUME TypeOK
    PROVE  /\ \A w \in Worker : Cancel(w) => TypeOK'
           /\ Crash => TypeOK'
           /\ \A x \in Path, c \in Foreign \cup {Absent} : ExternalEdit(x, c) => TypeOK'
  <1>1. ASSUME NEW w \in Worker, Cancel(w) PROVE TypeOK'
    <2>1. [job[w] EXCEPT !.cancelled = TRUE] \in Job
      BY JobFields DEF Job
    <2>2. job' \in [Worker -> Job]
      BY <1>1, <2>1, JobUpdate DEF Cancel
    <2> QED  BY <1>1, <2>2 DEF Cancel, TypeOK, dbVars, fsVars, bounds
  <1>2. ASSUME Crash PROVE TypeOK'
    <2>1. job' \in [Worker -> Job]
      BY <1>2, IdleType DEF Crash
    <2> QED  BY <1>2, <2>1, BoundsAssumption DEF Crash, TypeOK, dbVars, fsVars
  <1>3. ASSUME NEW x \in Path, NEW c \in Foreign \cup {Absent}, ExternalEdit(x, c)
        PROVE  TypeOK'
    <2>1. c \in Content \cup {Absent, Partial}
      BY DEF Content
    <2>2. data' \in [Path -> Content \cup {Absent, Partial}]
      BY <1>3, <2>1 DEF ExternalEdit, TypeOK
    <2> QED  BY <1>3, <2>2, BoundsAssumption DEF ExternalEdit, TypeOK, dbVars
  <1> QED  BY <1>1, <1>2, <1>3

\* TypeOK is preserved by every step.
LEMMA TypeStep == ASSUME IInv, [Next]_vars PROVE TypeOK'
  <1>1. CASE UNCHANGED vars
    BY <1>1 DEF IInv, TypeOK, vars
  <1>2. ASSUME NEW w \in Worker, Step(w) PROVE TypeOK'
    BY <1>2, CallerTypes, PreparationTypes, ActionTypes, FileTypes, RecordTypes,
       FinalTypes, RecoveryTypes DEF Step, IInv
  <1>3. CASE Next
    BY <1>2, <1>3, CallerTypes, RecoveryTypes, OutsideTypes DEF Next, IInv
  <1> QED  BY <1>1, <1>3

-----------------------------------------------------------------------------
(* Agreement and the single reservation are preserved *)

\* What an action without a journal row looks like.
LEMMA NoRowFields == NoRow.status = "none" /\ NoRow.rb = "none" /\ NoRow.target = None
  BY DEF NoRow

\* What RowOK says of one row: exactly the actions with work have one.
LEMMA RowFacts ==
    ASSUME Agreement, NEW p \in Plan, NEW i \in Index
    PROVE  /\ i \notin Work(p) => journal[p][i] = NoRow
           /\ state[p] \in {"NONE", "DRAFT", "APPROVED"} => journal[p][i] = NoRow
           /\ journal[p][i].status = "none" => journal[p][i] = NoRow
           /\ journal[p][i].status = "done" => journal[p][i].target \in Path
           /\ state[p] = "STALE_CHECKED" =>
                 journal[p][i].status \in {"none", "pending"} /\ journal[p][i].rb = "none"
           /\ state[p] = "EXECUTING" /\ i \in Work(p) => journal[p][i].status # "none"
  <1>1. RowsOK  BY DEF Agreement
  <1> QED  BY <1>1 DEF RowsOK, RowOK

\* An approved plan has no row, so only plans past approval are reserved.
LEMMA NoRows ==
    ASSUME Agreement, NEW p \in Plan, state[p] \in {"NONE", "DRAFT", "APPROVED"}
    PROVE  ~Journaled(p) /\ p \notin Reserved
  <1>1. ASSUME NEW i \in Index PROVE journal[p][i].status = "none"
    <2>1. journal[p][i] = NoRow
      BY RowFacts
    <2> QED  BY <2>1, NoRowFields
  <1>2. ~Journaled(p)
    BY <1>1 DEF Journaled
  <1> QED  BY <1>2 DEF Reserved

\* A worker without a job has nothing to agree with.
LEMMA IdleAgrees ==
    ASSUME NEW w \in Worker, job'[w].pc = "idle", lock' # w
    PROVE  JobOK(w)'
  BY DEF JobOK, Agrees, Busy, Filing

\* Only one job runs, so a step of worker w concerns its own record alone.
LEMMA Frame ==
    ASSUME IInv, NEW w \in Worker, NEW r, job[w].pc # "idle",
           job' = [job EXCEPT ![w] = r], lock' \in {lock, None}, JobOK(w)'
    PROVE  \A v \in Worker : JobOK(v)'
  <1> SUFFICES ASSUME NEW v \in Worker, v # w PROVE JobOK(v)'
    OBVIOUS
  <1>1. lock = w /\ job[v].pc = "idle"
    BY DEF IInv, Agreement, JobOK, Agrees
  <1>2. job'[v].pc = "idle" /\ lock' # v
    BY <1>1, NamesAssumption DEF IInv, TypeOK
  <1> QED  BY <1>2, IdleAgrees

\* A job's step that leaves plan states and rows alone.
LEMMA Quiet ==
    ASSUME IInv, NEW w \in Worker, NEW r, job[w].pc # "idle",
           job' = [job EXCEPT ![w] = r], lock' \in {lock, None}, JobOK(w)',
           UNCHANGED <<state, journal>>
    PROVE  OneReservation' /\ Agreement'
  <1>1. RowsOK'
    BY DEF IInv, Agreement, RowsOK, RowOK
  <1>2. Reserved' = Reserved
    BY DEF Reserved, Journaled
  <1>3. OneReservation'
    BY <1>2 DEF IInv, OneReservation
  <1> QED  BY <1>1, <1>3, Frame DEF Agreement

\* The job that ends agrees with whatever it leaves.
LEMMA StopOK ==
    ASSUME IInv, NEW w \in Worker, Stop(w)
    PROVE  JobOK(w)'
  <1>1. job'[w] = Idle /\ lock' = None
    BY DEF Stop, IInv, TypeOK
  <1> QED  BY <1>1, NamesAssumption DEF JobOK, Agrees, Idle, Busy, Filing

\* A job that goes on to its next plan, in a run only with nothing reserved.
LEMMA ContinueOK ==
    ASSUME IInv, NEW w \in Worker, job[w].pc # "idle", Continue(w),
           job[w].mode # "recover" => Reserved' = {}
    PROVE  JobOK(w)'
  <1>1. job'[w] = NextOf(w) /\ lock' = lock /\ lock = w
    BY DEF Continue, IInv, TypeOK, Agreement, JobOK, Agrees
  <1>2. /\ job'[w].pc = "next" /\ job'[w].at = Nowhere
        /\ job'[w].mode = "recover" <=> job[w].mode = "recover"
    BY <1>1 DEF NextOf, Idle
  <1> QED  BY <1>1, <1>2 DEF JobOK, Agrees, Busy, Filing

\* The jobs that end or go on to their next plan, with the database unchanged
\* or with their plan no longer reserved
LEMMA Leaving ==
    ASSUME IInv, NEW w \in Worker, job[w].pc # "idle", RowsOK',
           Reserved' \subseteq Reserved,
           \/ Stop(w)
           \/ Continue(w) /\ (job[w].mode # "recover" => Reserved' = {})
    PROVE  OneReservation' /\ Agreement'
  <1>1. JobOK(w)'
    BY StopOK, ContinueOK
  <1>2. \E r : job' = [job EXCEPT ![w] = r] /\ lock' \in {lock, None}
    BY DEF Stop, Continue
  <1>3. OneReservation'
    BY DEF IInv, OneReservation
  <1> QED  BY <1>1, <1>2, <1>3, Frame DEF Agreement

\* A reservation that ends leaves none behind in a run.
LEMMA Released ==
    ASSUME IInv, NEW p \in Plan, NEW s \in {"DRAFT", "APPROVED", "VERIFIED", "ROLLED_BACK"},
           state' = [state EXCEPT ![p] = s], journal' = journal,
           s \in {"DRAFT", "APPROVED"} => ~Journaled(p)
    PROVE  RowsOK' /\ Reserved' = Reserved \ {p} /\ (p \in Reserved => Reserved' = {})
  <1>1. \A q \in Plan : state'[q] = IF q = p THEN s ELSE state[q]
    BY DEF IInv, TypeOK
  <1>2. s \in {"DRAFT", "APPROVED"} => \A i \in Index : journal[p][i] = NoRow
    <2> SUFFICES ASSUME s \in {"DRAFT", "APPROVED"}, NEW i \in Index
                 PROVE  journal[p][i] = NoRow
      OBVIOUS
    <2>1. journal[p][i].status = "none"
      BY DEF Journaled
    <2> QED  BY <2>1 DEF IInv, Agreement, RowsOK, RowOK
  <1>3. RowsOK'
    <2> SUFFICES ASSUME NEW q \in Plan, NEW i \in Index
                 PROVE  RowOK(q, i)'
      BY DEF RowsOK
    <2>0. Agreement
      BY DEF IInv
    <2>1. CASE q = p
      BY <1>1, <1>2, <2>0, <2>1, RowFacts DEF RowOK, NoRow
    <2>2. CASE q # p
      <3>1. state'[q] = state[q]
        BY <1>1, <2>2
      <3> QED  BY <2>0, <3>1 DEF Agreement, RowsOK, RowOK
    <2> QED  BY <2>1, <2>2
  <1>4. Reserved' = Reserved \ {p}
    BY <1>1 DEF Reserved, Journaled
  <1> QED  BY <1>3, <1>4 DEF IInv, OneReservation

\* Agreement through SaveDraft, Approve and the start and end of a batch.
LEMMA CallerAgreement ==
    ASSUME IInv
    PROVE  /\ \A p \in Plan : SaveDraft(p) \/ Approve(p) => OneReservation' /\ Agreement'
           /\ \A w \in Worker, ps \in SUBSET Plan :
                 StartExecute(w, ps) => OneReservation' /\ Agreement'
           /\ \A w \in Worker : StartRecover(w) => OneReservation' /\ Agreement'
  <1> USE DEF IInv
  <1>1. ASSUME NEW p \in Plan, SaveDraft(p) \/ Approve(p)
        PROVE  OneReservation' /\ Agreement'
    <2>1. PICK s \in {"DRAFT", "APPROVED"} :
             state' = [state EXCEPT ![p] = s] /\ UNCHANGED <<journal, lock, job>>
      BY <1>1 DEF SaveDraft, Approve, SetState
    <2>2. state[p] \in {"NONE", "DRAFT"} /\ ~Journaled(p)
      BY <1>1, NoRows DEF SaveDraft, Approve
    <2>3. RowsOK' /\ Reserved' = Reserved
      <3>1. p \notin Reserved
        BY <2>2 DEF Reserved
      <3> QED  BY <2>1, <2>2, <3>1, Released
    <2>4. \A q \in Plan : state'[q] = IF q = p THEN s ELSE state[q]
      BY <2>1 DEF TypeOK
    <2>5. ASSUME NEW w \in Worker PROVE JobOK(w)'
      <3>1. JobOK(w)
        BY DEF Agreement
      <3> QED  BY <2>1, <2>2, <2>3, <2>4, <3>1 DEF JobOK, Agrees, Uncertain, Busy, Filing
    <2>6. OneReservation'
      BY <2>3 DEF OneReservation
    <2> QED  BY <2>3, <2>5, <2>6 DEF Agreement
  <1>2. ASSUME NEW w \in Worker, NEW ps \in SUBSET Plan, StartExecute(w, ps)
        PROVE  OneReservation' /\ Agreement'
    <2>1. \A q \in Plan : state'[q] = IF q \in ps /\ state[q] = "NONE"
                                       THEN "APPROVED" ELSE state[q]
      BY <1>2 DEF StartExecute
    <2>2. UNCHANGED journal
      BY <1>2 DEF StartExecute
    <2>3. RowsOK'
      BY <2>1, <2>2 DEF Agreement, RowsOK, RowOK
    <2>4. Reserved' = {}
      <3>1. Reserved = {}
        BY <1>2 DEF StartExecute
      <3>2. \A q \in Plan : state[q] = "NONE" => ~Journaled(q)
        BY NoRows
      <3> QED  BY <2>1, <2>2, <3>1, <3>2 DEF Reserved, Journaled
    <2>5. /\ job'[w].pc = "next" /\ job'[w].at = Nowhere /\ lock' = w
          /\ \A v \in Worker : v # w => job'[v] = job[v] /\ job[v].pc = "idle"
      BY <1>2, NamesAssumption DEF StartExecute, Idle, TypeOK, Agreement, JobOK, Agrees
    <2>6. JobOK(w)'
      BY <2>4, <2>5 DEF JobOK, Agrees, Busy, Filing
    <2>7. ASSUME NEW v \in Worker, v # w PROVE JobOK(v)'
      BY <2>5, <2>7 DEF JobOK, Agrees, Busy, Filing
    <2>8. OneReservation'
      BY <2>4 DEF OneReservation
    <2> QED  BY <2>3, <2>6, <2>7, <2>8 DEF Agreement
  <1>3. ASSUME NEW w \in Worker, StartRecover(w)
        PROVE  OneReservation' /\ Agreement'
    <2>1. UNCHANGED <<state, journal>>
      BY <1>3 DEF StartRecover, dbVars
    <2>2. RowsOK'
      BY <2>1 DEF Agreement, RowsOK, RowOK
    <2>3. Reserved' = Reserved
      BY <2>1 DEF Reserved, Journaled
    <2>4. /\ job'[w].pc = "next" /\ job'[w].mode = "recover"
          /\ job'[w].at = Nowhere /\ lock' = w
          /\ \A v \in Worker : v # w => job'[v] = job[v] /\ job[v].pc = "idle"
      BY <1>3, NamesAssumption DEF StartRecover, Idle, TypeOK, Agreement, JobOK, Agrees
    <2>5. JobOK(w)'
      BY <2>4 DEF JobOK, Agrees, Busy, Filing
    <2>6. ASSUME NEW v \in Worker, v # w PROVE JobOK(v)'
      BY <2>4, <2>6 DEF JobOK, Agrees, Busy, Filing
    <2>7. OneReservation'
      BY <2>3 DEF OneReservation
    <2> QED  BY <2>2, <2>5, <2>6, <2>7 DEF Agreement
  <1> QED  BY <1>1, <1>2, <1>3

\* A step that changes neither plan states nor rows: only the new record of
\* the job is to be looked at.
LEMMA Moves ==
    ASSUME IInv, NEW w \in Worker, NEW r, job[w].pc # "idle", r.pc # "idle",
           job' = [job EXCEPT ![w] = r], lock' = lock,
           UNCHANGED <<state, journal>>, Agrees(r)
    PROVE  OneReservation' /\ Agreement'
  <1>1. job'[w] = r /\ lock = w
    BY DEF IInv, TypeOK, Agreement, JobOK
  <1>2. JobOK(w)'
    BY <1>1 DEF JobOK, Agrees, Reserved, Journaled, Uncertain
  <1> QED  BY <1>2, Quiet

\* A job that ends, or leaves a plan in recovery, with the database unchanged
LEMMA Unchanged ==
    ASSUME IInv, UNCHANGED <<state, journal>>
    PROVE  RowsOK' /\ Reserved' = Reserved
  <1>1. RowsOK'
    BY DEF IInv, Agreement, RowsOK, RowOK
  <1>2. Reserved' = Reserved
    BY DEF Reserved, Journaled
  <1> QED  BY <1>1, <1>2

\* A run that settled its plan leaves nothing reserved and goes on or ends.
LEMMA Settles ==
    ASSUME IInv, NEW w \in Worker, job[w].pc # "idle", RowsOK', Settle(w),
           Reserved' = {}
    PROVE  OneReservation' /\ Agreement'
  BY Leaving DEF Settle

\* A step that concerns the state and rows of one plan
LEMMA OnePlan ==
    ASSUME IInv, NEW p \in Plan,
           \A q \in Plan \ {p} : state'[q] = state[q] /\ journal'[q] = journal[q],
           \A i \in Index : RowOK(p, i)'
    PROVE  RowsOK' /\ Reserved' \ {p} = Reserved \ {p}
  <1>1. ASSUME NEW q \in Plan \ {p}, NEW i \in Index PROVE RowOK(q, i)'
    BY DEF IInv, Agreement, RowsOK, RowOK
  <1>2. Reserved' \ {p} = Reserved \ {p}
    BY DEF Reserved, Journaled
  <1> QED  BY <1>1, <1>2 DEF RowsOK

\* Agreement through stale check, reservation, journal and claim.
LEMMA PreparationAgreement ==
    ASSUME IInv, NEW w \in Worker, NEW p, p = job[w].plan
    PROVE  /\ CheckFails(w) => OneReservation' /\ Agreement'
           /\ Invalidate(w) => OneReservation' /\ Agreement'
           /\ Reserve(w) => OneReservation' /\ Agreement'
           /\ ReserveFails(w) => OneReservation' /\ Agreement'
           /\ BeginJournal(w) => OneReservation' /\ Agreement'
           /\ BeginJournalFails(w) => OneReservation' /\ Agreement'
           /\ Claim(w) => OneReservation' /\ Agreement'
           /\ ClaimFails(w) => OneReservation' /\ Agreement'
  <1>0. Agrees(job[w]) /\ Agreement
    BY DEF IInv, Agreement, JobOK
  <1>1. ASSUME At(w, "check") PROVE p \in Plan /\ Reserved = {} /\ job[w].pc # "idle"
    BY <1>0, <1>1 DEF At, Agrees
  <1>2. ASSUME At(w, "check"), UNCHANGED dbVars, Settle(w)
        PROVE  OneReservation' /\ Agreement'
    BY <1>1, <1>2, Unchanged, Settles DEF dbVars
  <1>3. ASSUME CheckFails(w) PROVE OneReservation' /\ Agreement'
    BY <1>2, <1>3 DEF CheckFails
  <1>4. ASSUME ReserveFails(w) PROVE OneReservation' /\ Agreement'
    BY <1>2, <1>4 DEF ReserveFails
  <1>5. ASSUME Invalidate(w) PROVE OneReservation' /\ Agreement'
    <2>1. At(w, "check")
      BY <1>5 DEF Invalidate
    <2>2. CASE UNCHANGED dbVars /\ Stop(w)
      BY <1>1, <2>1, <2>2, Unchanged, Leaving DEF dbVars
    <2>3. CASE state[p] = "APPROVED" /\ SetState(p, "DRAFT") /\ Settle(w)
      <3>1. ~Journaled(p)
        BY <1>0, <1>1, <2>1, <2>3, NoRows
      <3>2. RowsOK' /\ Reserved' = {}
        BY <1>1, <2>1, <2>3, <3>1, Released DEF SetState
      <3> QED  BY <1>1, <2>1, <2>3, <3>2, Settles
    <2> QED  BY <1>5, <2>2, <2>3 DEF Invalidate
  <1>6. ASSUME Reserve(w) PROVE OneReservation' /\ Agreement'
    <2>1. At(w, "check") /\ state[p] = "APPROVED" /\ UNCHANGED <<journal, lock>>
      BY <1>6 DEF Reserve, SetState
    <2>2. \A q \in Plan : state'[q] = IF q = p THEN "STALE_CHECKED" ELSE state[q]
      BY <1>6 DEF Reserve, SetState, IInv, TypeOK
    <2>3. \A i \in Index : journal[p][i] = NoRow
      BY <1>0, <1>1, <2>1, RowFacts
    <2>4. RowsOK' /\ Reserved' \ {p} = Reserved \ {p}
      <3>1. \A i \in Index : RowOK(p, i)'
        BY <1>1, <2>1, <2>2, <2>3, NoRowFields DEF RowOK
      <3> QED  BY <1>1, <2>1, <2>2, <3>1, OnePlan
    <2>5. OneReservation'
      BY <1>1, <2>1, <2>4 DEF OneReservation
    <2>6. job'[w] = [job[w] EXCEPT !.pc = "reserved"]
      BY <1>6 DEF Reserve, Goto, IInv, TypeOK
    <2>7. JobOK(w)'
      BY <1>0, <1>1, <2>1, <2>2, <2>6, JobFields DEF IInv, Agreement, JobOK, Agrees, At, Busy, Filing
    <2>8. \A v \in Worker : JobOK(v)'
      BY <1>1, <1>6, <2>1, <2>7, Frame DEF Reserve, Goto
    <2> QED  BY <2>4, <2>5, <2>8 DEF Agreement
  <1>7. ASSUME BeginJournal(w) PROVE OneReservation' /\ Agreement'
    <2>1. At(w, "reserved") /\ p \in Plan /\ state[p] = "STALE_CHECKED" /\ UNCHANGED <<state, lock>>
      BY <1>0, <1>7 DEF BeginJournal, At, Agrees
    <2>2. /\ \A q \in Plan \ {p} : journal'[q] = journal[q]
          /\ \A i \in Index : journal'[p][i] =
                IF i \in Work(p) /\ journal[p][i] = NoRow
                THEN [NoRow EXCEPT !.status = "pending", !.target = Actions[p][i].dst]
                ELSE journal[p][i]
      BY <1>7, <2>1 DEF BeginJournal, IInv, TypeOK
    <2>3. ASSUME NEW i \in Index
          PROVE  RowOK(p, i)' /\ (i \in Work(p) => journal'[p][i].status # "none")
      <3>1. RowOK(p, i)
        BY <1>0, <2>1 DEF Agreement, RowsOK
      <3>2. CASE i \in Work(p) /\ journal[p][i] = NoRow
        <4>1. journal'[p][i].status = "pending" /\ journal'[p][i].rb = "none"
          BY <2>2, <3>2 DEF NoRow
        <4> QED  BY <2>1, <3>2, <4>1 DEF RowOK
      <3>3. CASE ~(i \in Work(p) /\ journal[p][i] = NoRow)
        BY <2>1, <2>2, <3>1, <3>3 DEF RowOK
      <3> QED  BY <3>2, <3>3
    <2>4. RowsOK' /\ Reserved' \ {p} = Reserved \ {p}
      BY <2>1, <2>2, <2>3, OnePlan
    <2>5. p \in Reserved /\ p \in Reserved'
      BY <2>1 DEF Reserved
    <2>6. OneReservation'
      BY <2>4, <2>5 DEF IInv, OneReservation
    <2>7. job'[w] = [job[w] EXCEPT !.pc = "claim"]
      BY <1>7 DEF BeginJournal, Goto, IInv, TypeOK
    <2>8. JobOK(w)'
      BY <1>0, <2>1, <2>3, <2>7, JobFields DEF IInv, Agreement, JobOK, Agrees, Busy, Filing, At, Work
    <2>9. job[w].pc # "idle"
      BY <2>1 DEF At
    <2>10. \A v \in Worker : JobOK(v)'
      BY <1>7, <2>1, <2>8, <2>9, Frame DEF BeginJournal, Goto
    <2> QED  BY <2>4, <2>6, <2>10 DEF Agreement
  <1>8. ASSUME BeginJournalFails(w) PROVE OneReservation' /\ Agreement'
    <2>1. job[w].pc # "idle" /\ p \in Plan /\ state[p] = "STALE_CHECKED"
      BY <1>0, <1>8 DEF BeginJournalFails, At, Agrees
    <2>2. CASE UNCHANGED dbVars /\ Stop(w)
      BY <2>1, <2>2, Unchanged, Leaving DEF dbVars
    <2>3. CASE ~Journaled(p) /\ SetState(p, "APPROVED") /\ Settle(w)
      <3>1. p \in Reserved
        BY <2>1 DEF Reserved
      <3>2. RowsOK' /\ Reserved' = {}
        BY <2>1, <2>3, <3>1, Released DEF SetState
      <3> QED  BY <2>1, <2>3, <3>2, Settles
    <2> QED  BY <1>8, <2>2, <2>3 DEF BeginJournalFails
  <1>9. ASSUME Claim(w) PROVE OneReservation' /\ Agreement'
    <2>1. /\ job[w].pc = "claim" /\ p \in Plan /\ state[p] = "STALE_CHECKED"
          /\ UNCHANGED <<journal, lock>>
      BY <1>0, <1>9 DEF Claim, At, Agrees, SetState
    <2>2. \A q \in Plan : state'[q] = IF q = p THEN "EXECUTING" ELSE state[q]
      BY <1>9 DEF Claim, SetState, IInv, TypeOK
    <2>3. ASSUME NEW i \in Index
          PROVE  /\ RowOK(p, i)' /\ journal[p][i].rb = "none"
                 /\ i \in Work(p) => journal[p][i].status # "none"
      <3>1. RowOK(p, i)
        BY <1>0, <2>1 DEF Agreement, RowsOK
      <3>2. i \in Work(p) => journal[p][i].status # "none"
        BY <1>0, <2>1 DEF Agrees
      <3> QED  BY <2>1, <2>2, <3>1, <3>2 DEF RowOK
    <2>4. RowsOK' /\ Reserved' \ {p} = Reserved \ {p}
      BY <2>1, <2>2, <2>3, OnePlan
    <2>5. p \in Reserved /\ p \in Reserved'
      BY <2>1, <2>2 DEF Reserved
    <2>6. OneReservation'
      BY <2>4, <2>5 DEF IInv, OneReservation
    <2>7. job'[w] = [job[w] EXCEPT !.pc = "act", !.idx = 1] /\ job[w].mode = "do"
      BY <1>0, <1>9, <2>1 DEF Claim, Agrees, IInv, TypeOK
    <2>8. job'[w].at = Nowhere
      BY <1>0, <2>1, <2>7, JobFields DEF IInv, Agrees, Job
    <2>9. JobOK(w)'
      <3>1. /\ job'[w].pc = "act" /\ job'[w].mode = "do" /\ job'[w].plan = p
            /\ \A i \in Index : job'[w].at[i] = None
        BY <2>7, <2>8, JobFields DEF IInv, Job, Nowhere
      <3>2. state'[p] = "EXECUTING" /\ journal' = journal /\ lock' = lock
        BY <2>1, <2>2
      <3>3. \A i \in Work(p) : journal[p][i].rb = "none"
        BY <2>3 DEF Work
      <3>4. Agrees(job[w])'
        BY <2>1, <3>1, <3>2, <3>3 DEF Agrees, Busy, Filing
      <3> QED  BY <1>0, <2>1, <3>1, <3>2, <3>4 DEF IInv, Agreement, JobOK
    <2>10. \A v \in Worker : JobOK(v)'
      BY <1>9, <2>1, <2>9, Frame DEF Claim
    <2> QED  BY <2>4, <2>6, <2>10 DEF Agreement
  <1>10. ASSUME ClaimFails(w) PROVE OneReservation' /\ Agreement'
    BY <1>10, Unchanged, Leaving DEF ClaimFails, dbVars, At
  <1> QED  BY <1>3, <1>4, <1>5, <1>6, <1>7, <1>8, <1>9, <1>10

\* Agreement through the batch loop and the head of the action loop.
LEMMA LoopAgreement ==
    ASSUME IInv, NEW w \in Worker
    PROVE  /\ \A q \in Plan : NextPlan(w, q) => OneReservation' /\ Agreement'
           /\ EndBatch(w) => OneReservation' /\ Agreement'
           /\ ActFinished(w) => OneReservation' /\ Agreement'
           /\ ActCancelled(w) => OneReservation' /\ Agreement'
           /\ ActSkip(w) => OneReservation' /\ Agreement'
           /\ ActBegin(w) => OneReservation' /\ Agreement'
  <1>0. Agrees(job[w])
    BY DEF IInv, Agreement, JobOK
  <1>f. /\ job[w] \in Job /\ TypeOK
    BY JobFields DEF IInv
  <1>1. ASSUME NEW q \in Plan, NextPlan(w, q) PROVE OneReservation' /\ Agreement'
    <2>1. /\ Agrees([job[w] EXCEPT !.plan = q, !.pc = "check"])
          /\ Agrees([job[w] EXCEPT !.batch = job[w].batch \ {q}])
      BY <1>0, <1>1, <1>f DEF NextPlan, At, Agrees, Busy, Filing, Job
    <2>2. CASE state[q] = "APPROVED"
      BY <1>1, <1>f, <2>1, <2>2, Moves DEF NextPlan, At, Job, dbVars
    <2>3. CASE state[q] # "APPROVED"
      BY <1>1, <1>f, <2>1, <2>3, Moves DEF NextPlan, At, Job, dbVars
    <2> QED  BY <2>2, <2>3
  <1>2. ASSUME EndBatch(w) PROVE OneReservation' /\ Agreement'
    BY <1>2, Unchanged, Leaving DEF EndBatch, At, dbVars
  <1>3. ASSUME ActFinished(w) PROVE OneReservation' /\ Agreement'
    <2>1. Agrees([job[w] EXCEPT !.pc = "commit"])
      BY <1>0, <1>3, <1>f DEF ActFinished, At, Agrees, Busy, Filing, Job
    <2> QED  BY <1>3, <1>f, <2>1, Moves DEF ActFinished, Goto, At, Job, dbVars
  <1>4. ASSUME ActCancelled(w) PROVE OneReservation' /\ Agreement'
    <2>1. Agrees([job[w] EXCEPT !.pc = "undo", !.mode = "undo"])
      BY <1>0, <1>4, <1>f DEF ActCancelled, At, Agrees, Busy, Filing, Job
    <2> QED  BY <1>4, <1>f, <2>1, Moves DEF ActCancelled, At, Job, dbVars
  <1>5. ASSUME ActSkip(w) PROVE OneReservation' /\ Agreement'
    <2>1. Agrees([job[w] EXCEPT !.idx = job[w].idx + 1])
      BY <1>0, <1>5, <1>f DEF ActSkip, At, Agrees, Busy, Filing, Job
    <2> QED  BY <1>5, <1>f, <2>1, Moves DEF ActSkip, At, Job, dbVars
  <1>6. ASSUME ActBegin(w) PROVE OneReservation' /\ Agreement'
    <2> DEFINE a == Actions[job[w].plan][job[w].idx]
    <2>1. /\ a.src \in Path /\ Destinations(a) \subseteq Path
          /\ journal[job[w].plan][job[w].idx].rb # "done"
          /\ job[w].mode = "do" /\ job[w].pc = "act"
          /\ job[w].idx \in Work(job[w].plan)
      BY <1>0, <1>6, DestinationsType DEF ActBegin, At, Agrees, Busy
    <2>2. ASSUME NEW d \in Path
          PROVE  Agrees([job[w] EXCEPT !.pc = "copy", !.from = a.src, !.to = d])
      BY <1>0, <1>f, <2>1 DEF Agrees, Busy, Filing, Job
    <2>3. Agrees([job[w] EXCEPT !.pc = "failed"])
      BY <1>0, <1>f, <2>1 DEF Agrees, Busy, Filing, Job
    <2>4. CASE Goto(w, "failed")
      BY <1>6, <1>f, <2>3, <2>4, Moves DEF ActBegin, Goto, At, Job, dbVars
    <2>5. ASSUME NEW d \in Destinations(a),
                 job' = [job EXCEPT ![w] = [@ EXCEPT !.pc = "copy", !.from = a.src, !.to = d]]
          PROVE  OneReservation' /\ Agreement'
      BY <1>6, <1>f, <2>1, <2>2, <2>5, Moves DEF ActBegin, At, Job, dbVars
    <2> QED  BY <1>6, <2>4, <2>5 DEF ActBegin
  <1> QED  BY <1>1, <1>2, <1>3, <1>4, <1>5, <1>6

\* Agreement through the file primitives, which touch no durable record.
LEMMA FileAgreement ==
    ASSUME IInv, NEW w \in Worker, FileStep(w)
    PROVE  OneReservation' /\ Agreement'
  <1>0. Agrees(job[w])
    BY DEF IInv, Agreement, JobOK
  <1>f. /\ job[w] \in Job /\ TypeOK
    BY JobFields DEF IInv
  <1>1. CASE CopyOpens(w)
    <2>1. data[job[w].from] # None
      BY <1>0, <1>1, <1>f, NamesAssumption DEF CopyOpens, At, Agrees, Filing, TypeOK
    <2>2. Agrees([job[w] EXCEPT !.pc = "fill", !.buf = data[job[w].from]])
      BY <1>0, <1>1, <1>f, <2>1 DEF CopyOpens, At, Agrees, Busy, Filing, Job
    <2> QED  BY <1>1, <1>f, <2>2, Moves DEF CopyOpens, At, Job, dbVars
  <1>2. ASSUME NEW pc \in {"verify", "failed", "remove", "succeeded"}, Goto(w, pc),
               \/ job[w].pc \in {"copy", "fill"} /\ pc \in {"verify", "failed"}
               \/ job[w].pc = "verify"
               \/ job[w].pc \in {"remove", "uncopy"} /\ pc \in {"succeeded", "failed"},
               UNCHANGED <<dbVars, lock>>
        PROVE  OneReservation' /\ Agreement'
    <2>1. Agrees([job[w] EXCEPT !.pc = pc])
      BY <1>0, <1>2, <1>f DEF Agrees, Busy, Filing, Job
    <2> QED  BY <1>2, <1>f, <2>1, Moves DEF Goto, Job, dbVars
  <1>3. CASE CopyRefused(w) \/ CopyFills(w) \/ CopyFails(w)
    BY <1>2, <1>3 DEF CopyRefused, CopyFills, CopyFails, At
  <1>4. CASE VerifyPasses(w) \/ VerifyFails(w)
    BY <1>2, <1>4 DEF VerifyPasses, VerifyFails, At
  <1>5. CASE RemoveSource(w) \/ RemoveFails(w) \/ RemoveCopy(w) \/ RemoveCopyFails(w)
    BY <1>2, <1>5 DEF RemoveSource, RemoveFails, RemoveCopy, RemoveCopyFails, At
  <1> QED  BY <1>1, <1>3, <1>4, <1>5 DEF FileStep

\* A step that rewrites one row of a plan that stays EXECUTING
LEMMA RowStep ==
    ASSUME IInv, NEW p \in Plan, NEW i \in Work(p), NEW row \in Row,
           state[p] = "EXECUTING", SetRow(p, i, row),
           row.status # "none", row.status = "done" => row.target \in Path
    PROVE  /\ RowsOK' /\ OneReservation' /\ Reserved' = Reserved
           /\ UNCHANGED state /\ journal'[p][i] = row
           /\ \A k \in Index \ {i} : journal'[p][k] = journal[p][k]
  <1>0. i \in Index
    BY DEF Work
  <1>1. /\ \A q \in Plan \ {p} : journal'[q] = journal[q]
        /\ journal'[p][i] = row
        /\ \A k \in Index \ {i} : journal'[p][k] = journal[p][k]
        /\ UNCHANGED state
    BY <1>0 DEF SetRow, IInv, TypeOK
  <1>2. ASSUME NEW k \in Index PROVE RowOK(p, k)'
    <2>1. RowOK(p, k)
      BY DEF IInv, Agreement, RowsOK
    <2> QED  BY <1>1, <2>1 DEF RowOK
  <1>3. RowsOK' /\ Reserved' \ {p} = Reserved \ {p}
    BY <1>1, <1>2, OnePlan
  <1>4. p \in Reserved /\ p \in Reserved'
    BY <1>1 DEF Reserved
  <1>5. OneReservation'
    BY <1>3, <1>4 DEF IInv, OneReservation
  <1>6. Reserved' = Reserved
    BY <1>3, <1>4
  <1> QED  BY <1>1, <1>3, <1>5, <1>6

\* The job of such a step
LEMMA Records ==
    ASSUME IInv, NEW w \in Worker, NEW r, job[w].pc # "idle", RowsOK', OneReservation',
           job' = [job EXCEPT ![w] = r], lock' = lock
    PROVE  /\ job'[w] = r /\ lock' = w
           /\ JobOK(w)' => OneReservation' /\ Agreement'
  <1>1. job'[w] = r /\ lock' = w
    BY DEF IInv, TypeOK, Agreement, JobOK
  <1>2. ASSUME JobOK(w)' PROVE Agreement'
    BY <1>2, Frame DEF Agreement
  <1> QED  BY <1>1, <1>2

\* Agreement through the marks of an action that ran or failed.
LEMMA RecordAgreement ==
    ASSUME IInv, NEW w \in Worker, NEW p, p = job[w].plan, NEW i, i = job[w].idx
    PROVE  /\ MarkDone(w) => OneReservation' /\ Agreement'
           /\ MarkDoneFails(w) => OneReservation' /\ Agreement'
           /\ MarkFailed(w) => OneReservation' /\ Agreement'
  <1>0. Agrees(job[w])
    BY DEF IInv, Agreement, JobOK
  <1>f. /\ job[w] \in Job /\ TypeOK
    BY JobFields DEF IInv
  <1>1. ASSUME job[w].pc \in {"succeeded", "failed"}, job[w].mode = "do"
        PROVE  /\ p \in Plan /\ i \in Work(p) /\ i \in Index /\ state[p] = "EXECUTING"
               /\ job[w].pc = "succeeded" => job[w].to \in Path
               /\ journal[p][i] \in Row /\ journal[p][i].status # "none"
               /\ \A k \in Work(p) : journal[p][k].rb = "none"
               /\ \A k \in Index : job[w].at[k] # None => k \in Work(p)
    <2>1. /\ p \in Plan /\ i \in Work(p) /\ state[p] = "EXECUTING"
          /\ job[w].pc = "succeeded" => job[w].to \in Path
          /\ \A k \in Work(p) : journal[p][k].rb = "none"
          /\ \A k \in Index : job[w].at[k] # None => k \in Work(p)
      BY <1>0, <1>1 DEF Agrees, Busy, Filing
    <2>2. i \in Index
      BY <2>1 DEF Work
    <2>3. Agreement
      BY DEF IInv
    <2> QED  BY <1>f, <2>1, <2>2, <2>3, RowFields, RowFacts
  <1>2. ASSUME MarkDone(w) PROVE OneReservation' /\ Agreement'
    <2> DEFINE row == [journal[p][i] EXCEPT !.status = "done", !.target = job[w].to]
               at == [job[w].at EXCEPT ![i] = job[w].to]
               r == [job[w] EXCEPT !.pc = "act", !.idx = i + 1, !.at = at,
                                   !.from = None, !.to = None, !.buf = None]
    <2>1. job[w].pc = "succeeded" /\ job[w].mode = "do"
      BY <1>2 DEF MarkDone, At
    <2>2. row \in Row /\ row.status = "done" /\ row.target = job[w].to /\ row.rb = journal[p][i].rb
      BY <1>1, <2>1 DEF Row
    <2>3. SetRow(p, i, row) /\ job' = [job EXCEPT ![w] = r] /\ lock' = lock
      BY <1>2 DEF MarkDone
    <2> HIDE DEF row, r
    <2>a. /\ RowsOK' /\ OneReservation'
          /\ UNCHANGED state /\ journal'[p][i] = row
          /\ \A k \in Index \ {i} : journal'[p][k] = journal[p][k]
      BY <1>1, <2>1, <2>2, <2>3, RowStep
    <2>b. job[w].pc # "idle" /\ job' = [job EXCEPT ![w] = r] /\ lock' = lock
      BY <2>1, <2>3
    <2>4. /\ JobOK(w)' => OneReservation' /\ Agreement'
          /\ job'[w] = r /\ lock' = w
      BY <2>a, <2>b, Records
    <2>5. /\ r.pc = "act" /\ r.mode = "do" /\ r.plan = p
          /\ \A k \in Index : r.at[k] # None => k \in Work(p)
      BY <1>1, <1>f, <2>1 DEF r, Job
    <2>6. \A k \in Work(p) : journal'[p][k].rb = "none"
      BY <1>1, <2>1, <2>2, <2>a DEF Work
    <2>7. /\ job'[w].pc = "act" /\ job'[w].mode = "do" /\ job'[w].plan = p
          /\ \A k \in Index : job'[w].at[k] # None =>
                k \in Work(p) /\ journal'[p][k].rb # "done"
      BY <2>4, <2>5, <2>6
    <2>8. JobOK(w)'
      BY <1>1, <2>1, <2>a, <2>4, <2>6, <2>7 DEF JobOK, Agrees, Busy, Filing
    <2> QED  BY <2>4, <2>8
  <1>3. ASSUME MarkDoneFails(w) PROVE OneReservation' /\ Agreement'
    <2> DEFINE at == [job[w].at EXCEPT ![i] = job[w].to]
    <2>1. Agrees([job[w] EXCEPT !.pc = "undo", !.mode = "undo", !.at = at])
      BY <1>0, <1>1, <1>3, <1>f DEF MarkDoneFails, At, Agrees, Busy, Filing, Job
    <2> QED  BY <1>3, <1>f, <2>1, Moves DEF MarkDoneFails, At, Job, dbVars
  <1>4. ASSUME MarkFailed(w) PROVE OneReservation' /\ Agreement'
    <2> DEFINE r == [job[w] EXCEPT !.pc = "undo", !.mode = "undo"]
    <2>1. job[w].pc = "failed" /\ job[w].mode = "do"
      BY <1>4 DEF MarkFailed, At
    <2>2. CASE UNCHANGED dbVars
      <3>1. Agrees(r)
        BY <1>0, <1>f, <2>1 DEF Agrees, Busy, Filing, Job
      <3> QED  BY <1>4, <1>f, <2>1, <2>2, <3>1, Moves DEF MarkFailed, Job, dbVars
    <2>3. CASE SetRow(p, i, [journal[p][i] EXCEPT !.status = "failed"])
      <3> DEFINE row == [journal[p][i] EXCEPT !.status = "failed"]
      <3>1. row \in Row /\ row.status = "failed" /\ row.rb = journal[p][i].rb
        BY <1>1, <2>1 DEF Row
      <3>2. job' = [job EXCEPT ![w] = r] /\ lock' = lock
        BY <1>4 DEF MarkFailed
      <3>3. SetRow(p, i, row)
        BY <2>3
      <3> HIDE DEF row, r
      <3>a. /\ RowsOK' /\ OneReservation'
            /\ UNCHANGED state /\ journal'[p][i] = row
            /\ \A k \in Index \ {i} : journal'[p][k] = journal[p][k]
        BY <1>1, <2>1, <3>1, <3>2, <3>3, RowStep
      <3>b. job[w].pc # "idle" /\ job' = [job EXCEPT ![w] = r] /\ lock' = lock
        BY <2>1, <3>2
      <3>4. /\ JobOK(w)' => OneReservation' /\ Agreement'
            /\ job'[w] = r /\ lock' = w
        BY <3>a, <3>b, Records
      <3>5. r.pc = "undo" /\ r.mode = "undo" /\ r.plan = p /\ r.at = job[w].at
        BY <1>f, <2>1 DEF r, Job
      <3>6. \A k \in Work(p) : journal'[p][k].rb = "none"
        BY <1>1, <2>1, <3>1, <3>a DEF Work
      <3>7. /\ job'[w].pc = "undo" /\ job'[w].mode = "undo" /\ job'[w].plan = p
            /\ \A k \in Index : job'[w].at[k] # None =>
                  k \in Work(p) /\ journal'[p][k].rb # "done"
        BY <1>1, <2>1, <3>4, <3>5, <3>6
      <3>8. JobOK(w)'
        BY <1>1, <2>1, <3>a, <3>4, <3>6, <3>7 DEF JobOK, Agrees, Busy, Filing
      <3> QED  BY <3>4, <3>8
    <2> QED  BY <1>4, <2>2, <2>3 DEF MarkFailed
  <1> QED  BY <1>2, <1>3, <1>4

\* Agreement through the rollbacks and their marks, in a run and in recovery.
LEMMA UndoAgreement ==
    ASSUME IInv, NEW w \in Worker, NEW p, p = job[w].plan, NEW i, i = job[w].idx
    PROVE  /\ UndoBegins(w) => OneReservation' /\ Agreement'
           /\ UndoSucceeded(w) => OneReservation' /\ Agreement'
           /\ UndoFailed(w) => OneReservation' /\ Agreement'
           /\ UndoEnds(w) => OneReservation' /\ Agreement'
  <1>0. Agrees(job[w])
    BY DEF IInv, Agreement, JobOK
  <1>f. /\ job[w] \in Job /\ TypeOK /\ Agreement
    BY JobFields DEF IInv
  <1>1. ASSUME UndoBegins(w) PROVE OneReservation' /\ Agreement'
    <2>1. PICK k \in Index :
             /\ job[w].at[k] # None
             /\ job' = [job EXCEPT ![w] = [@ EXCEPT
                   !.idx = k, !.from = job[w].at[k], !.buf = None,
                   !.pc = IF Actions[job[w].plan][k].kind = "COPY" THEN "uncopy" ELSE "copy",
                   !.to = IF Actions[job[w].plan][k].kind = "COPY"
                          THEN None ELSE Actions[job[w].plan][k].src]]
      BY <1>1 DEF UndoBegins
    <2>2. /\ k \in Work(p) /\ journal[p][k].rb # "done" /\ job[w].pc = "undo"
          /\ p \in Plan /\ job[w].mode # "do"
      BY <1>0, <1>1, <2>1 DEF UndoBegins, At, Agrees, Busy
    <2>3. Actions[p][k].src \in Path /\ job[w].at[k] \in Path
      BY <1>f, <2>1, <2>2, DestinationsType DEF Job
    <2>4. CASE Actions[p][k].kind = "COPY"
      <3>1. Agrees([job[w] EXCEPT !.idx = k, !.from = job[w].at[k], !.buf = None,
                                  !.pc = "uncopy", !.to = None])
        BY <1>0, <1>f, <2>2, <2>3 DEF Agrees, Busy, Filing, Job
      <3> QED  BY <1>1, <1>f, <2>1, <2>2, <2>4, <3>1, Moves DEF UndoBegins, Job, dbVars
    <2>5. CASE Actions[p][k].kind # "COPY"
      <3>1. Agrees([job[w] EXCEPT !.idx = k, !.from = job[w].at[k], !.buf = None,
                                  !.pc = "copy", !.to = Actions[p][k].src])
        BY <1>0, <1>f, <2>2, <2>3 DEF Agrees, Busy, Filing, Job
      <3> QED  BY <1>1, <1>f, <2>1, <2>2, <2>5, <3>1, Moves DEF UndoBegins, Job, dbVars
    <2> QED  BY <2>4, <2>5
  <1>2. ASSUME NEW fine \in BOOLEAN, NEW saved \in BOOLEAN, Undone(w, fine, saved),
               job[w].pc \in {"succeeded", "failed"}, job[w].mode # "do"
        PROVE  OneReservation' /\ Agreement'
    <2>1. /\ p \in Plan /\ i \in Work(p) /\ i \in Index /\ state[p] = "EXECUTING"
          /\ journal[p][i] \in Row /\ journal[p][i].status # "none"
          /\ journal[p][i].status = "done" => journal[p][i].target \in Path
          /\ \A k \in Index : job[w].at[k] # None =>
                k \in Work(p) /\ journal[p][k].rb # "done"
          /\ job[w].mode = "recover" => ~Uncertain(p)
      <3>1. /\ p \in Plan /\ i \in Work(p) /\ state[p] = "EXECUTING"
            /\ \A k \in Index : job[w].at[k] # None =>
                  k \in Work(p) /\ journal[p][k].rb # "done"
            /\ job[w].mode = "recover" => ~Uncertain(p)
        BY <1>0, <1>2 DEF Agrees, Busy, Filing
      <3>2. i \in Index
        BY <3>1 DEF Work
      <3> QED  BY <1>f, <3>1, <3>2, RowFields, RowFacts
    <2> DEFINE row == [journal[p][i] EXCEPT !.rb = IF fine THEN "done" ELSE "failed"]
               r == [job[w] EXCEPT !.pc = "undo", !.at = [job[w].at EXCEPT ![i] = None],
                                   !.ok = job[w].ok /\ fine /\ saved]
    <2>2. /\ row \in Row /\ row.status = journal[p][i].status
          /\ row.target = journal[p][i].target
          /\ fine => row.rb = "done"
      BY <2>1 DEF Row
    <2>3. /\ r.pc = "undo" /\ r.mode = job[w].mode /\ r.plan = p
          /\ \A k \in Index : r.at[k] # None => k # i /\ job[w].at[k] # None
      BY <1>f DEF Job
    <2>4. CASE ~saved
      <3>1. UNCHANGED <<state, journal>>
        BY <1>2, <2>4 DEF Undone, dbVars
      <3>2. CASE job[w].mode = "recover"
        BY <1>2, <2>4, <3>1, <3>2, Unchanged, Leaving DEF Undone
      <3>3. CASE job[w].mode # "recover"
        <4>1. job' = [job EXCEPT ![w] = r] /\ lock' = lock
          BY <1>2, <2>4, <3>3 DEF Undone
        <4> HIDE DEF r
        <4>2. Agrees(r)
          BY <1>2, <2>1, <2>3, <3>3 DEF Agrees, Busy, Filing
        <4> QED  BY <1>2, <2>3, <3>1, <4>1, <4>2, Moves
      <3> QED  BY <3>2, <3>3
    <2>5. CASE saved
      <3>1. SetRow(p, i, row)
        BY <1>2, <2>5 DEF Undone
      <3> HIDE DEF row, r
      <3>2. /\ RowsOK' /\ OneReservation' /\ Reserved' = Reserved
            /\ UNCHANGED state /\ journal'[p][i] = row
            /\ \A k \in Index \ {i} : journal'[p][k] = journal[p][k]
        BY <2>1, <2>2, <3>1, RowStep
      <3>3. CASE job[w].mode = "recover" /\ ~fine
        BY <1>2, <2>5, <3>2, <3>3, Leaving DEF Undone
      <3>4. CASE job[w].mode # "recover" \/ fine
        <4>1. job[w].pc # "idle" /\ job' = [job EXCEPT ![w] = r] /\ lock' = lock
          BY <1>2, <2>5, <3>4 DEF Undone, r
        <4>2. /\ JobOK(w)' => OneReservation' /\ Agreement'
              /\ job'[w] = r /\ lock' = w
          BY <3>2, <4>1, Records
        <4>3. /\ job'[w].pc = "undo" /\ job'[w].mode # "do" /\ job'[w].plan = p
              /\ job'[w].mode = "recover" => job[w].mode = "recover"
              /\ \A k \in Index : job'[w].at[k] # None =>
                    k \in Work(p) /\ journal'[p][k].rb # "done"
          BY <1>2, <2>1, <2>3, <3>2, <4>2
        <4>4. job'[w].mode = "recover" => ~Uncertain(p)'
          <5> SUFFICES ASSUME job'[w].mode = "recover", NEW m \in Work(p),
                              journal'[p][m].rb # "done",
                              ~(journal'[p][m].status = "done" /\ journal'[p][m].rb = "none")
                       PROVE  FALSE
            BY DEF Uncertain, Work
          <5>1. fine /\ ~Uncertain(p)
            BY <2>1, <3>4, <4>3
          <5>2. m # i
            BY <2>2, <3>2, <5>1
          <5>3. journal'[p][m] = journal[p][m]
            BY <3>2, <5>2 DEF Work
          <5> QED  BY <5>1, <5>3 DEF Uncertain
        <4>5. JobOK(w)'
          BY <2>1, <3>2, <4>2, <4>3, <4>4 DEF JobOK, Agrees, Busy, Filing, Uncertain
        <4> QED  BY <4>2, <4>5
      <3> QED  BY <3>3, <3>4
    <2> QED  BY <2>4, <2>5
  <1>3. ASSUME UndoSucceeded(w) PROVE OneReservation' /\ Agreement'
    BY <1>2, <1>3 DEF UndoSucceeded, At
  <1>4. ASSUME UndoFailed(w) PROVE OneReservation' /\ Agreement'
    BY <1>2, <1>4 DEF UndoFailed, At
  <1>5. ASSUME UndoEnds(w) PROVE OneReservation' /\ Agreement'
    <2>1. CASE Stop(w)
      BY <1>5, <2>1, Unchanged, Leaving DEF UndoEnds, At, dbVars
    <2>2. CASE Goto(w, "abort") /\ UNCHANGED lock
      <3>1. Agrees([job[w] EXCEPT !.pc = "abort"])
        BY <1>0, <1>5, <1>f DEF UndoEnds, At, Agrees, Busy, Filing, Job
      <3> QED  BY <1>5, <1>f, <2>2, <3>1, Moves DEF UndoEnds, Goto, At, Job, dbVars
    <2> QED  BY <1>5, <2>1, <2>2 DEF UndoEnds
  <1> QED  BY <1>1, <1>3, <1>4, <1>5

\* Agreement through CompletePlanExecution and its failures.
LEMMA FinalAgreement ==
    ASSUME IInv, NEW w \in Worker, NEW p, p = job[w].plan
    PROVE  /\ FinalizeVerified(w) => OneReservation' /\ Agreement'
           /\ FinalizeVerifiedFails(w) => OneReservation' /\ Agreement'
           /\ FinalizeRolledBack(w) => OneReservation' /\ Agreement'
           /\ FinalizeRolledBackFails(w) => OneReservation' /\ Agreement'
  <1>0. Agrees(job[w])
    BY DEF IInv, Agreement, JobOK
  <1>1. ASSUME job[w].pc \in {"commit", "abort"}
        PROVE  p \in Plan /\ p \in Reserved /\ job[w].pc # "idle"
    BY <1>0, <1>1 DEF Agrees, Busy, Reserved
  <1>2. ASSUME FinalizeVerified(w) PROVE OneReservation' /\ Agreement'
    <2>1. RowsOK' /\ Reserved' = {}
      BY <1>1, <1>2, Released DEF FinalizeVerified, At
    <2> QED  BY <1>1, <1>2, <2>1, Leaving DEF FinalizeVerified, At
  <1>3. ASSUME FinalizeRolledBack(w) PROVE OneReservation' /\ Agreement'
    <2>1. RowsOK' /\ Reserved' = {}
      BY <1>1, <1>3, Released DEF FinalizeRolledBack, At, SetState
    <2> QED  BY <1>1, <1>3, <2>1, Settles DEF FinalizeRolledBack, At
  <1>4. ASSUME FinalizeVerifiedFails(w) \/ FinalizeRolledBackFails(w)
        PROVE  OneReservation' /\ Agreement'
    BY <1>1, <1>4, Unchanged, Leaving
       DEF FinalizeVerifiedFails, FinalizeRolledBackFails, At, dbVars
  <1> QED  BY <1>2, <1>3, <1>4

\* Agreement through Recover.
LEMMA RecoveryAgreement ==
    ASSUME IInv, NEW w \in Worker
    PROVE  /\ \A p \in Plan : RecoverReset(w, p) => OneReservation' /\ Agreement'
           /\ \A p \in Plan : RecoverSkip(w, p) => OneReservation' /\ Agreement'
           /\ \A p \in Plan : RecoverBegin(w, p) => OneReservation' /\ Agreement'
           /\ RecoverEnd(w) => OneReservation' /\ Agreement'
  <1>0. Agrees(job[w])
    BY DEF IInv, Agreement, JobOK
  <1>f. /\ job[w] \in Job /\ TypeOK /\ Agreement
    BY JobFields DEF IInv
  <1>1. ASSUME NEW p \in Plan, RecoverReset(w, p) PROVE OneReservation' /\ Agreement'
    <2>1. RowsOK' /\ Reserved' = Reserved \ {p}
      BY <1>1, Released DEF RecoverReset, SetState
    <2>2. OneReservation'
      BY <2>1 DEF IInv, OneReservation
    <2> DEFINE r == [job[w] EXCEPT !.batch = job[w].batch \ {p}]
    <2>3. job[w].pc # "idle" /\ job' = [job EXCEPT ![w] = r] /\ lock' = lock
      BY <1>1 DEF RecoverReset, Recovering, At, Leave
    <2>4. r.pc = "next" /\ r.mode = "recover" /\ r.at = Nowhere
      BY <1>0, <1>1, <1>f DEF RecoverReset, Recovering, At, Job, Agrees
    <2> HIDE DEF r
    <2>5. /\ JobOK(w)' => OneReservation' /\ Agreement'
          /\ job'[w] = r /\ lock' = w
      BY <2>1, <2>2, <2>3, Records
    <2>6. JobOK(w)'
      BY <2>4, <2>5 DEF JobOK, Agrees, Busy, Filing
    <2> QED  BY <2>5, <2>6
  <1>2. ASSUME NEW p \in Plan, RecoverSkip(w, p) PROVE OneReservation' /\ Agreement'
    <2>1. Agrees([job[w] EXCEPT !.batch = job[w].batch \ {p}])
      BY <1>0, <1>2, <1>f DEF RecoverSkip, Recovering, At, Agrees, Busy, Filing, Job
    <2> QED  BY <1>2, <1>f, <2>1, Moves DEF RecoverSkip, Recovering, At, Leave, Job, dbVars
  <1>3. ASSUME NEW p \in Plan, RecoverBegin(w, p) PROVE OneReservation' /\ Agreement'
    <2> DEFINE at == [i \in Index |-> IF journal[p][i].rb = "done"
                                     THEN None ELSE journal[p][i].target]
               r == [job[w] EXCEPT !.plan = p, !.pc = "undo", !.at = at]
    <2>1. /\ job' = [job EXCEPT ![w] = r] /\ job[w].pc = "next" /\ job[w].mode = "recover"
          /\ state[p] \in {"STALE_CHECKED", "EXECUTING"} /\ Journaled(p) /\ ~Uncertain(p)
          /\ UNCHANGED <<state, journal, lock>>
      BY <1>3 DEF RecoverBegin, Recovering, At, dbVars
    <2>2. state[p] = "EXECUTING"
      <3>1. PICK i \in Index : journal[p][i].status # "none"
        BY <2>1 DEF Journaled
      <3>2. i \in Work(p)
        BY <1>f, <3>1, RowFacts, NoRowFields
      <3>3. journal[p][i].rb = "done" \/ journal[p][i].status = "done"
        BY <2>1, <3>2 DEF Uncertain
      <3> QED  BY <1>f, <2>1, <3>1, <3>3, RowFacts
    <2>3. ASSUME NEW i \in Index, at[i] # None
          PROVE  i \in Work(p) /\ journal[p][i].rb # "done"
      BY <1>f, <2>3, RowFacts, NoRowFields
    <2>4. r.pc = "undo" /\ r.mode = "recover" /\ r.plan = p /\ r.at = at
      BY <1>f, <2>1 DEF Job
    <2> HIDE DEF at, r
    <2>5. Agrees(r)
      BY <2>1, <2>2, <2>3, <2>4 DEF Agrees, Busy, Filing
    <2> QED  BY <2>1, <2>4, <2>5, Moves
  <1>4. ASSUME RecoverEnd(w) PROVE OneReservation' /\ Agreement'
    <2>1. PICK p \in Plan : p = job[w].plan
      BY <1>0, <1>4 DEF RecoverEnd, At, Agrees, Busy
    <2>2. job[w].pc # "idle" /\ job[w].mode = "recover" /\ Continue(w)
      BY <1>4 DEF RecoverEnd, At
    <2>3. CASE UNCHANGED dbVars
      BY <2>2, <2>3, Unchanged, Leaving DEF dbVars
    <2>4. CASE SetState(p, "ROLLED_BACK")
      <3>1. RowsOK' /\ Reserved' = Reserved \ {p}
        BY <2>4, Released DEF SetState
      <3> QED  BY <2>2, <3>1, Leaving
    <2> QED  BY <1>4, <2>1, <2>3, <2>4 DEF RecoverEnd
  <1> QED  BY <1>1, <1>2, <1>3, <1>4

\* Agreement through cancellation, a crash and an edit by another program.
LEMMA OutsideAgreement ==
    ASSUME IInv
    PROVE  /\ \A w \in Worker : Cancel(w) => OneReservation' /\ Agreement'
           /\ Crash => OneReservation' /\ Agreement'
           /\ \A x \in Path, c \in Foreign \cup {Absent} :
                 ExternalEdit(x, c) => OneReservation' /\ Agreement'
  <1>1. ASSUME NEW w \in Worker, Cancel(w) PROVE OneReservation' /\ Agreement'
    <2>1. Agrees(job[w]) /\ job[w] \in Job
      BY JobFields DEF IInv, Agreement, JobOK
    <2>2. Agrees([job[w] EXCEPT !.cancelled = TRUE])
      BY <2>1 DEF Agrees, Busy, Filing, Job
    <2> QED  BY <1>1, <2>1, <2>2, Moves DEF Cancel, At, Job, dbVars
  <1>2. ASSUME Crash PROVE OneReservation' /\ Agreement'
    <2>1. RowsOK' /\ Reserved' = Reserved
      BY <1>2, Unchanged DEF Crash, dbVars
    <2>2. OneReservation'
      BY <2>1 DEF IInv, OneReservation
    <2>3. ASSUME NEW w \in Worker PROVE JobOK(w)'
      BY <1>2, IdleAgrees, NamesAssumption DEF Crash, Idle
    <2> QED  BY <2>1, <2>2, <2>3 DEF Agreement
  <1>3. ASSUME UNCHANGED <<state, journal, lock, job>> PROVE OneReservation' /\ Agreement'
    <2>1. RowsOK' /\ Reserved' = Reserved
      BY <1>3, Unchanged
    <2>2. OneReservation'
      BY <2>1 DEF IInv, OneReservation
    <2>3. ASSUME NEW w \in Worker PROVE JobOK(w)'
      <3>1. JobOK(w)
        BY DEF IInv, Agreement
      <3> QED  BY <1>3, <2>1, <3>1 DEF JobOK, Agrees, Uncertain
    <2> QED  BY <2>1, <2>2, <2>3 DEF Agreement
  <1>4. ASSUME NEW x \in Path, NEW c \in Foreign \cup {Absent}, ExternalEdit(x, c)
        PROVE  OneReservation' /\ Agreement'
    BY <1>3, <1>4 DEF ExternalEdit, dbVars
  <1> QED  BY <1>1, <1>2, <1>4

\* The durable half of the inductive invariant is preserved by every step.
LEMMA AgreementStep == ASSUME IInv, [Next]_vars PROVE OneReservation' /\ Agreement'
  <1>1. CASE UNCHANGED vars
    <2>1. RowsOK' /\ Reserved' = Reserved
      BY <1>1, Unchanged DEF vars
    <2>2. ASSUME NEW w \in Worker PROVE JobOK(w)'
      <3>1. JobOK(w)
        BY DEF IInv, Agreement
      <3> QED  BY <1>1, <2>1, <3>1 DEF vars, JobOK, Agrees, Uncertain
    <2> QED  BY <2>1, <2>2 DEF IInv, OneReservation, Agreement
  <1>2. ASSUME NEW w \in Worker, Step(w) PROVE OneReservation' /\ Agreement'
    <2>1. CASE \/ EndBatch(w) \/ (\E p \in Plan : NextPlan(w, p))
               \/ ActFinished(w) \/ ActCancelled(w) \/ ActSkip(w) \/ ActBegin(w)
      BY <2>1, LoopAgreement
    <2>2. CASE \/ CheckFails(w) \/ Invalidate(w) \/ Reserve(w) \/ ReserveFails(w)
               \/ BeginJournal(w) \/ BeginJournalFails(w) \/ Claim(w) \/ ClaimFails(w)
      BY <2>2, PreparationAgreement
    <2>3. CASE FileStep(w)
      BY <2>3, FileAgreement
    <2>4. CASE MarkDone(w) \/ MarkDoneFails(w) \/ MarkFailed(w)
      BY <2>4, RecordAgreement
    <2>5. CASE UndoBegins(w) \/ UndoSucceeded(w) \/ UndoFailed(w) \/ UndoEnds(w)
      BY <2>5, UndoAgreement
    <2>6. CASE \/ FinalizeVerified(w) \/ FinalizeVerifiedFails(w)
               \/ FinalizeRolledBack(w) \/ FinalizeRolledBackFails(w)
      BY <2>6, FinalAgreement
    <2>7. CASE \/ \E p \in Plan : RecoverReset(w, p) \/ RecoverSkip(w, p) \/ RecoverBegin(w, p)
               \/ RecoverEnd(w)
      BY <2>7, RecoveryAgreement
    <2> QED  BY <1>2, <2>1, <2>2, <2>3, <2>4, <2>5, <2>6, <2>7 DEF Step
  <1>3. CASE Next
    BY <1>2, <1>3, CallerAgreement, OutsideAgreement DEF Next
  <1> QED  BY <1>1, <1>3

-----------------------------------------------------------------------------
(* The theorems *)

\* An empty project satisfies the inductive invariant.
LEMMA Initially == Init => IInv
  <1> SUFFICES ASSUME Init PROVE IInv
    OBVIOUS
  <1>1. TypeOK
    BY IdleType, NamesAssumption, BoundsAssumption
       DEF Init, TypeOK, State, Row, NoRow, Path, Content
  <1>2. ASSUME NEW p \in Plan
        PROVE  state[p] = "NONE" /\ \A i \in Index : journal[p][i] = NoRow
    BY DEF Init
  <1>3. RowsOK /\ Reserved = {}
    <2>1. ASSUME NEW p \in Plan, NEW i \in Index PROVE RowOK(p, i)
      BY <1>2, NoRowFields DEF RowOK
    <2>2. Reserved = {}
      BY <1>2 DEF Reserved
    <2> QED  BY <2>1, <2>2 DEF RowsOK
  <1>4. ASSUME NEW w \in Worker PROVE JobOK(w)
    BY NamesAssumption DEF Init, JobOK, Agrees, Busy, Filing, Idle
  <1> QED  BY <1>1, <1>3, <1>4 DEF IInv, OneReservation, Agreement

\* The inductive invariant holds in every behaviour.
LEMMA Inductive == Spec => []IInv
  <1>1. IInv /\ [Next]_vars => IInv'
    BY TypeStep, AgreementStep DEF IInv
  <1> QED  BY <1>1, Initially, PTL DEF Spec

\* Whatever plans, files, workers and faults there are, every variable keeps
\* its sort: in particular a journal row never leaves its plan's actions, and a
\* worker's paths are always those of files it may touch.
THEOREM TypeCorrect == Spec => []TypeOK
  <1>1. IInv => TypeOK
    BY DEF IInv
  <1> QED  BY <1>1, Inductive, PTL

\* At most one plan of the database is reserved or executing, through crashes,
\* lost writes, cancellations and concurrent callers: CompareAndSwapPlanState,
\* the execution lock and checkRecoveryLock exclude a second one together.
THEOREM SingleReservation == Spec => []OneReservation
  <1>1. IInv => OneReservation
    BY DEF IInv
  <1> QED  BY <1>1, Inductive, PTL

\* A run's memory and the durable journal never disagree about which plan is
\* executing, which rows exist and which actions may still be undone.
THEOREM RunAgreesWithJournal == Spec => []Agreement
  <1>1. IInv => Agreement
    BY DEF IInv
  <1> QED  BY <1>1, Inductive, PTL

\* What a file step of a worker touches, and what is durable when it does
LEMMA FileStepCovered ==
    ASSUME IInv, NEW w \in Worker, FileStep(w), NEW x \in Path, data'[x] # data[x]
    PROVE  /\ lock = w
           /\ state[job[w].plan] = "EXECUTING"
           /\ journal[job[w].plan][job[w].idx].status # "none"
           /\ journal[job[w].plan][job[w].idx].rb # "done"
           /\ x \in {job[w].from, job[w].to}
           /\ job[w].mode = "recover" => ~Uncertain(job[w].plan)
  <1>1. Agreement /\ JobOK(w) /\ TypeOK
    BY DEF IInv, Agreement
  <1>2. job[w].pc \in {"copy", "fill", "verify", "remove", "uncopy"}
    BY DEF FileStep, CopyOpens, CopyRefused, CopyFills, CopyFails, VerifyPasses,
           VerifyFails, RemoveSource, RemoveFails, RemoveCopy, RemoveCopyFails, At
  <1>3. /\ lock = w /\ job[w].plan \in Plan /\ state[job[w].plan] = "EXECUTING"
        /\ job[w].idx \in Work(job[w].plan)
        /\ journal[job[w].plan][job[w].idx].rb # "done"
        /\ job[w].mode = "recover" => ~Uncertain(job[w].plan)
    BY <1>1, <1>2 DEF JobOK, Agrees, Busy, Filing
  <1>4. journal[job[w].plan][job[w].idx].status # "none"
    BY <1>1, <1>3, RowFacts DEF Work
  <1>5. ASSUME NEW y, NEW c, Put(y, c) PROVE x = y
    BY <1>1, <1>5 DEF Put, TypeOK
  <1>6. ~(UNCHANGED fsVars)
    BY DEF fsVars
  <1>7. x \in {job[w].from, job[w].to}
    BY <1>5, <1>6 DEF FileStep, CopyOpens, CopyRefused, CopyFills, CopyFails, VerifyPasses,
           VerifyFails, RemoveSource, RemoveFails, RemoveCopy, RemoveCopyFails, DropOutput
  <1> QED  BY <1>3, <1>4, <1>7

\* Steps that are not file steps leave the files alone.
LEMMA OtherSteps ==
    ASSUME NEW w \in Worker, Step(w), ~FileStep(w)
    PROVE  UNCHANGED fsVars
  BY DEF Step, EndBatch, NextPlan, RecoverReset, RecoverSkip, RecoverBegin,
         CheckFails, Invalidate, Reserve, ReserveFails, BeginJournal,
         BeginJournalFails, Claim, ClaimFails, ActFinished, ActCancelled, ActSkip,
         ActBegin, MarkDone, MarkDoneFails, MarkFailed, UndoBegins, UndoSucceeded,
         UndoFailed, Undone, UndoEnds, FinalizeVerified, FinalizeVerifiedFails,
         FinalizeRolledBack, FinalizeRolledBackFails, RecoverEnd

\* No file changes under the executor's hands before its journal row and the
\* EXECUTING state are durable (BeginJournal, then the claim), nor after its
\* rollback was recorded, nor in a recovery whose outcome is uncertain.
THEOREM JournaledBeforeTouched == Spec => WriteAhead
  <1> DEFINE A == \A x \in Path : data'[x] # data[x] /\ edits' = edits =>
                    /\ lock # None
                    /\ LET j == job[lock]
                           row == journal[j.plan][j.idx]
                       IN  /\ state[j.plan] = "EXECUTING"
                           /\ row.status # "none" /\ row.rb # "done"
                           /\ x \in {Actions[j.plan][j.idx].src, j.from, j.to}
                           /\ j.mode = "recover" => ~Uncertain(j.plan)
  <1>1. IInv /\ [Next]_vars => [A]_vars
    <2> SUFFICES ASSUME IInv, Next, NEW x \in Path, data'[x] # data[x], edits' = edits
                 PROVE  /\ lock # None
                        /\ LET j == job[lock]
                               row == journal[j.plan][j.idx]
                           IN  /\ state[j.plan] = "EXECUTING"
                               /\ row.status # "none" /\ row.rb # "done"
                               /\ x \in {Actions[j.plan][j.idx].src, j.from, j.to}
                               /\ j.mode = "recover" => ~Uncertain(j.plan)
      OBVIOUS
    <2>1. ASSUME UNCHANGED fsVars PROVE FALSE
      BY <2>1 DEF fsVars
    <2>2. ASSUME NEW y \in Path, NEW c \in Foreign \cup {Absent}, ExternalEdit(y, c)
          PROVE  FALSE
      BY <2>2 DEF ExternalEdit, IInv, TypeOK
    <2>3. PICK w \in Worker : FileStep(w)
      BY <2>1, <2>2, OtherSteps
         DEF Next, SaveDraft, Approve, StartExecute, StartRecover, Cancel, Crash
    <2> QED  BY <2>3, FileStepCovered, NamesAssumption
  <1> QED  BY <1>1, Inductive, PTL DEF Spec, WriteAhead

-----------------------------------------------------------------------------
(* No file is lost *)

\* The scanned files that are the executor's to keep
Kept == Source \ harmed

\* Where an action puts its file
Route(a) == IF a.kind = "QUARANTINE" THEN Slot ELSE {a.dst}

\* The copies a run has made or is making, and those its rollback, or one that
\* a recovery may start, is going to remove without a look at them.
Flight(j, p, i) ==
    /\ j.plan = p
    /\ \/ j.pc \in Busy /\ j.at[i] # None
       \/ j.pc \in {"fill", "verify", "succeeded"} /\ j.mode = "do" /\ j.idx = i
Recorded(p, i) == journal[p][i].status = "done" /\ journal[p][i].rb = "none"
LiveCopy(p, i) ==
    /\ Actions[p][i].kind = "COPY"
    /\ state[p] = "EXECUTING"
    /\ Recorded(p, i) \/ \E w \in Worker : Flight(job[w], p, i)
Copies == {x \in Path : \E p \in Plan, i \in Index : LiveCopy(p, i) /\ x = Actions[p][i].dst}

\* Each kept file is somewhere else than in a copy that may be removed.
Outside == \A s \in Kept : \E x \in Path \ Copies : data[x] = s

\* Rows and jobs name the files of their own actions.
RowsRouted ==
    \A p \in Plan : \A i \in Work(p) :
       journal[p][i].status = "done" => journal[p][i].target \in Route(Actions[p][i])
JobRouted(j) ==
    LET a == Actions[j.plan][j.idx]
    IN  /\ j.pc \in Busy =>
              \A i \in Work(j.plan) : j.at[i] # None => j.at[i] \in Route(Actions[j.plan][i])
        /\ j.pc \in Filing \ {"failed"} /\ j.mode = "do" =>
              j.from = a.src /\ j.to \in Route(a)
        /\ j.pc \in Filing \ {"failed"} /\ j.mode # "do" => j.from \in Route(a)
        /\ j.pc \in {"copy", "fill", "verify", "remove"} /\ j.mode # "do" =>
              j.to = a.src /\ a.kind # "COPY"
        /\ j.pc = "uncopy" => a.kind = "COPY" /\ j.at[j.idx] # None
        /\ j.pc = "remove" => a.kind # "COPY"

\* Between opening its source and removing it, MoveFile never holds the only
\* copy of a kept file where it would remove it: before the verification the
\* destination holds nothing else than what the source holds, and after it they
\* hold the same.
Twin(j) ==
    /\ j.pc \in {"fill", "verify", "remove"} => j.from # j.to
    /\ j.pc = "fill" =>
          /\ data[j.to] \notin Source
          /\ data[j.from] \in Kept \/ j.buf \in Kept => j.buf = data[j.from]
    /\ j.pc = "verify" =>
          /\ data[j.to] \in Kept => data[j.from] = data[j.to]
          /\ data[j.from] \in Kept /\ data[j.to] \in Source => data[j.from] = data[j.to]
    /\ j.pc = "remove" =>
          /\ data[j.to] \in Kept => data[j.from] = data[j.to]
          /\ data[j.from] \in Kept => data[j.from] = data[j.to]

JobsKeep == \A w \in Worker : JobRouted(job[w]) /\ Twin(job[w])
SInv == Outside /\ RowsRouted /\ JobsKeep

\* While one worker runs, the others have no job.
LEMMA OthersIdle ==
    ASSUME IInv, NEW w \in Worker, job[w].pc # "idle"
    PROVE  lock = w /\ \A v \in Worker \ {w} : job[v].pc = "idle"
  BY DEF IInv, Agreement, JobOK

\* A job between its plans' file work has nothing in flight.
LEMMA Resting ==
    ASSUME NEW j, j.pc \notin Busy
    PROVE  JobRouted(j) /\ Twin(j) /\ \A p, i : ~Flight(j, p, i)
  BY DEF JobRouted, Twin, Flight, Busy, Filing

\* What a step of worker w leaves to show: the job's new record, the rows, and
\* that the files outside the copies still hold every kept file.
LEMMA Survive ==
    ASSUME IInv, SInv, NEW w \in Worker, NEW r,
           \A v \in Worker \ {w} : job[v].pc = "idle",
           job' = [job EXCEPT ![w] = r],
           RowsRouted', JobRouted(r), Twin(r)', Outside'
    PROVE  SInv'
  <1>1. job'[w] = r /\ \A v \in Worker \ {w} : job'[v] = job[v]
    BY DEF IInv, TypeOK
  <1>2. ASSUME NEW v \in Worker \ {w} PROVE (JobRouted(job[v]) /\ Twin(job[v]))'
    <2>1. job'[v].pc = "idle"
      BY <1>1
    <2> QED  BY <2>1 DEF JobRouted, Twin, Busy, Filing
  <1>3. (JobRouted(job[w]) /\ Twin(job[w]))'
    BY <1>1 DEF JobRouted, Twin
  <1>4. JobsKeep'
    BY <1>2, <1>3 DEF JobsKeep
  <1> QED  BY <1>4 DEF SInv

\* The copies that may be removed after a step were so before it, but for those
\* that the step's new rows or the job's new record add.
LEMMA CopiesGrow ==
    ASSUME IInv, NEW w \in Worker, NEW r, NEW S,
           \A v \in Worker \ {w} : job[v].pc = "idle",
           job' = [job EXCEPT ![w] = r],
           \A p \in Plan, i \in Index :
              /\ Actions[p][i].kind = "COPY"
              /\ state'[p] = "EXECUTING"
              /\ Recorded(p, i)' \/ Flight(r, p, i)
              => LiveCopy(p, i) \/ Actions[p][i].dst \in S
    PROVE  Copies' \subseteq Copies \cup S
  <1>1. job'[w] = r /\ \A v \in Worker \ {w} : job'[v] = job[v]
    BY DEF IInv, TypeOK
  <1>2. \A v \in Worker \ {w}, p \in Plan, i \in Index : ~Flight(job'[v], p, i)
    BY <1>1 DEF Flight, Busy, Filing
  <1>3. ASSUME NEW p \in Plan, NEW i \in Index, LiveCopy(p, i)'
        PROVE  LiveCopy(p, i) \/ Actions[p][i].dst \in S
    <2>1. Recorded(p, i)' \/ \E v \in Worker : Flight(job'[v], p, i)
      BY <1>3 DEF LiveCopy
    <2>2. Recorded(p, i)' \/ Flight(r, p, i)
      BY <1>1, <1>2, <2>1
    <2>3. Actions[p][i].kind = "COPY" /\ state'[p] = "EXECUTING"
      BY <1>3 DEF LiveCopy
    <2> QED  BY <2>2, <2>3
  <1> QED  BY <1>3 DEF Copies

\* A step that touches no file
LEMMA QuietSurvives ==
    ASSUME IInv, SInv, NEW w \in Worker, NEW r,
           \A v \in Worker \ {w} : job[v].pc = "idle",
           job' = [job EXCEPT ![w] = r], UNCHANGED fsVars,
           \A p \in Plan, i \in Index :
              /\ Actions[p][i].kind = "COPY"
              /\ state'[p] = "EXECUTING"
              /\ Recorded(p, i)' \/ Flight(r, p, i)
              => LiveCopy(p, i),
           RowsRouted', JobRouted(r), Twin(r)
    PROVE  SInv'
  <1>1. Copies' \subseteq Copies \cup {}
    BY CopiesGrow
  <1>2. data' = data /\ harmed' = harmed
    BY DEF fsVars
  <1>3. Outside'
    BY <1>1, <1>2 DEF SInv, Outside, Kept
  <1>4. Twin(r)'
    BY <1>2 DEF Twin, Kept
  <1> QED  BY <1>3, <1>4, Survive

\* A job that leaves its plan's file work, or has not begun it, while no row
\* becomes a done one and no plan with such a row EXECUTING.
LEMMA RestingSurvives ==
    ASSUME IInv, SInv, NEW w \in Worker, NEW r, r.pc \notin Busy,
           \A v \in Worker \ {w} : job[v].pc = "idle",
           job' = [job EXCEPT ![w] = r], UNCHANGED fsVars,
           \A p \in Plan : \A i \in Work(p) : journal'[p][i].status = "done" =>
              /\ journal[p][i].status = "done"
              /\ journal'[p][i].target = journal[p][i].target
              /\ journal'[p][i].rb = "none" => journal[p][i].rb = "none"
              /\ state'[p] = "EXECUTING" => state[p] = "EXECUTING"
    PROVE  SInv'
  <1>1. JobRouted(r) /\ Twin(r) /\ \A p, i : ~Flight(r, p, i)
    BY Resting
  <1>2. RowsRouted'
    BY DEF RowsRouted, SInv
  <1>3. ASSUME NEW p \in Plan, NEW i \in Index, Actions[p][i].kind = "COPY",
               state'[p] = "EXECUTING", Recorded(p, i)'
        PROVE  LiveCopy(p, i)
    <2>1. i \in Work(p)
      BY <1>3 DEF Work
    <2> QED  BY <1>3, <2>1 DEF Recorded, LiveCopy
  <1> QED  BY <1>1, <1>2, <1>3, QuietSurvives

\* A step of a job on its plan's files that writes nothing
LEMMA MovingSurvives ==
    ASSUME IInv, SInv, NEW w \in Worker, NEW r, job[w].pc # "idle",
           job' = [job EXCEPT ![w] = r], UNCHANGED fsVars, UNCHANGED dbVars,
           \A p \in Plan, i \in Index : Flight(r, p, i) =>
              Flight(job[w], p, i) \/ Recorded(p, i) \/ Actions[p][i].kind # "COPY",
           JobRouted(r), Twin(r)
    PROVE  SInv'
  <1>1. \A v \in Worker \ {w} : job[v].pc = "idle"
    BY OthersIdle
  <1>2. RowsRouted'
    BY DEF RowsRouted, SInv, dbVars
  <1>3. \A p \in Plan, i \in Index :
          /\ Actions[p][i].kind = "COPY"
          /\ state'[p] = "EXECUTING"
          /\ Recorded(p, i)' \/ Flight(r, p, i)
          => LiveCopy(p, i)
    BY DEF Recorded, LiveCopy, dbVars
  <1> QED  BY <1>1, <1>2, <1>3, QuietSurvives

\* Kept files through planning, approval, and the start and end of a batch.
LEMMA CallersKeep ==
    ASSUME IInv, SInv
    PROVE  /\ \A p \in Plan : SaveDraft(p) \/ Approve(p) => SInv'
           /\ \A w \in Worker, ps \in SUBSET Plan : StartExecute(w, ps) => SInv'
           /\ \A w \in Worker : StartRecover(w) => SInv'
           /\ \A w \in Worker : EndBatch(w) => SInv'
           /\ \A w \in Worker, p \in Plan : NextPlan(w, p) => SInv'
  <1>1. ASSUME NEW p \in Plan, SaveDraft(p) \/ Approve(p) PROVE SInv'
    <2>1. PICK s \in {"DRAFT", "APPROVED"} :
            state' = [state EXCEPT ![p] = s] /\ UNCHANGED <<journal, lock, job, fsVars>>
      BY <1>1 DEF SaveDraft, Approve, SetState
    <2>2. \A q \in Plan : state'[q] = "EXECUTING" => state[q] = "EXECUTING"
      BY <2>1 DEF IInv, TypeOK
    <2>3. Copies' \subseteq Copies
      BY <2>1, <2>2 DEF Copies, LiveCopy, Recorded, Flight
    <2> QED  BY <2>1, <2>3 DEF SInv, Outside, RowsRouted, JobsKeep, JobRouted, Twin, Kept, fsVars
  <1>2. ASSUME NEW w \in Worker, NEW ps \in SUBSET Plan, StartExecute(w, ps) PROVE SInv'
    <2> DEFINE r == [Idle EXCEPT !.pc = "next", !.batch = ps]
    <2>1. /\ lock = None /\ job' = [job EXCEPT ![w] = r]
          /\ UNCHANGED <<journal, fsVars>>
          /\ \A p \in Plan : state'[p] = "EXECUTING" => state[p] = "EXECUTING"
      BY <1>2 DEF StartExecute, IInv, TypeOK
    <2>2. \A v \in Worker \ {w} : job[v].pc = "idle"
      BY <2>1, NamesAssumption DEF IInv, Agreement, JobOK
    <2>3. r.pc \notin Busy
      BY DEF Idle, Busy, Filing
    <2> HIDE DEF r
    <2> QED  BY <2>1, <2>2, <2>3, RestingSurvives
  <1>3. ASSUME NEW w \in Worker, StartRecover(w) PROVE SInv'
    <2> DEFINE r == [Idle EXCEPT !.pc = "next", !.mode = "recover", !.batch = Reserved]
    <2>1. /\ lock = None /\ job' = [job EXCEPT ![w] = r]
          /\ UNCHANGED <<state, journal, fsVars>>
      BY <1>3 DEF StartRecover, dbVars
    <2>2. \A v \in Worker \ {w} : job[v].pc = "idle"
      BY <2>1, NamesAssumption DEF IInv, Agreement, JobOK
    <2>3. r.pc \notin Busy
      BY DEF Idle, Busy, Filing
    <2> HIDE DEF r
    <2> QED  BY <2>1, <2>2, <2>3, RestingSurvives
  <1>4. ASSUME NEW w \in Worker, EndBatch(w) PROVE SInv'
    <2>1. /\ job' = [job EXCEPT ![w] = Idle] /\ job[w].pc # "idle"
          /\ UNCHANGED <<state, journal, fsVars>>
      BY <1>4 DEF EndBatch, Stop, At, dbVars
    <2>2. Idle.pc \notin Busy
      BY DEF Idle, Busy, Filing
    <2> QED  BY <2>1, <2>2, OthersIdle, RestingSurvives
  <1>5. ASSUME NEW w \in Worker, NEW p \in Plan, NextPlan(w, p) PROVE SInv'
    <2> DEFINE r == IF state[p] = "APPROVED"
                    THEN [job[w] EXCEPT !.plan = p, !.pc = "check"]
                    ELSE [job[w] EXCEPT !.batch = job[w].batch \ {p}]
    <2>1. /\ job' = [job EXCEPT ![w] = r] /\ job[w].pc = "next"
          /\ UNCHANGED <<state, journal, fsVars>>
      BY <1>5 DEF NextPlan, At, dbVars
    <2>2. r.pc \in {"check", "next"}
      BY <2>1, JobFields DEF IInv, Job
    <2> HIDE DEF r
    <2>3. r.pc \notin Busy
      BY <2>2 DEF Busy, Filing
    <2> QED  BY <2>1, <2>3, OthersIdle, RestingSurvives
  <1> QED  BY <1>1, <1>2, <1>3, <1>4, <1>5

\* A job that ends or goes on to its next plan is not among the files.
LEMMA LeavingSurvives ==
    ASSUME IInv, SInv, NEW w \in Worker, job[w].pc # "idle", Stop(w) \/ Continue(w),
           UNCHANGED fsVars,
           \A p \in Plan : \A i \in Work(p) : journal'[p][i].status = "done" =>
              /\ journal[p][i].status = "done"
              /\ journal'[p][i].target = journal[p][i].target
              /\ journal'[p][i].rb = "none" => journal[p][i].rb = "none"
              /\ state'[p] = "EXECUTING" => state[p] = "EXECUTING"
    PROVE  SInv'
  <1>1. Idle.pc \notin Busy /\ NextOf(w).pc \notin Busy
    BY DEF Idle, NextOf, Busy, Filing
  <1>2. \E r : job' = [job EXCEPT ![w] = r] /\ r.pc \notin Busy
    BY <1>1 DEF Stop, Continue
  <1> QED  BY <1>2, OthersIdle, RestingSurvives

\* Kept files through the stale check, the reservation, the journal's first
\* rows and the claim: none of them says that a file was moved.
LEMMA PreparationKeeps ==
    ASSUME IInv, SInv, NEW w \in Worker, NEW p, p = job[w].plan
    PROVE  /\ CheckFails(w) => SInv'
           /\ Invalidate(w) => SInv'
           /\ Reserve(w) => SInv'
           /\ ReserveFails(w) => SInv'
           /\ BeginJournal(w) => SInv'
           /\ BeginJournalFails(w) => SInv'
           /\ Claim(w) => SInv'
           /\ ClaimFails(w) => SInv'
  <1>0. Agrees(job[w]) /\ TypeOK /\ Agreement
    BY DEF IInv, Agreement, JobOK
  <1>1. ASSUME job[w].pc # "idle", Stop(w) \/ Continue(w), UNCHANGED <<fsVars, journal>>,
               UNCHANGED state \/ \E s \in {"DRAFT", "APPROVED"} : SetState(p, s)
        PROVE  SInv'
    <2>1. \A q \in Plan : state'[q] = "EXECUTING" => state[q] = "EXECUTING"
      BY <1>0, <1>1 DEF SetState, TypeOK
    <2> QED  BY <1>1, <2>1, LeavingSurvives
  <1>2. CheckFails(w) \/ ReserveFails(w) \/ Invalidate(w) \/ BeginJournalFails(w) \/ ClaimFails(w)
          => SInv'
    BY <1>1 DEF CheckFails, ReserveFails, Invalidate, BeginJournalFails, ClaimFails, Settle,
                SetState, At, dbVars
  <1>3. ASSUME Reserve(w) PROVE SInv'
    <2>1. /\ job' = [job EXCEPT ![w] = [job[w] EXCEPT !.pc = "reserved"]]
          /\ job[w].pc = "check" /\ UNCHANGED <<fsVars, journal>>
          /\ \A q \in Plan : state'[q] = "EXECUTING" => state[q] = "EXECUTING"
      BY <1>0, <1>3 DEF Reserve, Goto, At, SetState, TypeOK
    <2>2. [job[w] EXCEPT !.pc = "reserved"].pc \notin Busy
      BY <1>0, JobFields DEF Job, Busy, Filing
    <2> QED  BY <2>1, <2>2, OthersIdle, RestingSurvives
  <1>4. ASSUME BeginJournal(w) PROVE SInv'
    <2>1. /\ job' = [job EXCEPT ![w] = [job[w] EXCEPT !.pc = "claim"]]
          /\ job[w].pc = "reserved" /\ UNCHANGED <<fsVars, state>> /\ p \in Plan
      BY <1>0, <1>4 DEF BeginJournal, Goto, At, Agrees
    <2>2. [job[w] EXCEPT !.pc = "claim"].pc \notin Busy
      BY <1>0, JobFields DEF Job, Busy, Filing
    <2>3. ASSUME NEW q \in Plan, NEW i \in Work(q), journal'[q][i].status = "done"
          PROVE  journal'[q][i] = journal[q][i]
      <3>1. i \in Index
        BY DEF Work
      <3>2. CASE q # p
        BY <1>0, <1>4, <3>2 DEF BeginJournal, TypeOK
      <3>3. CASE q = p
        BY <1>0, <1>4, <2>1, <2>3, <3>1, <3>3 DEF BeginJournal, NoRow, TypeOK
      <3> QED  BY <3>2, <3>3
    <2> QED  BY ZenonT(30), <2>1, <2>2, <2>3, OthersIdle, RestingSurvives
  <1>5. ASSUME Claim(w) PROVE SInv'
    <2> DEFINE r == [job[w] EXCEPT !.pc = "act", !.idx = 1]
    <2>1. /\ job' = [job EXCEPT ![w] = r] /\ job[w].pc = "claim" /\ p \in Plan
          /\ state[p] = "STALE_CHECKED" /\ job[w].at = Nowhere
          /\ UNCHANGED fsVars /\ UNCHANGED journal
          /\ \A q \in Plan \ {p} : state'[q] = state[q]
      BY <1>0, <1>5 DEF Claim, At, Agrees, SetState, TypeOK
    <2>2. r.pc = "act" /\ r.at = Nowhere /\ r.plan = p
      BY <1>0, <2>1, JobFields DEF Job
    <2> HIDE DEF r
    <2>3. JobRouted(r) /\ Twin(r)
      BY <2>2 DEF JobRouted, Twin, Busy, Filing, Nowhere, Work
    <2>4. RowsRouted'
      BY <2>1 DEF SInv, RowsRouted
    <2>5. ASSUME NEW q \in Plan, NEW i \in Index, Actions[q][i].kind = "COPY",
                 state'[q] = "EXECUTING", Recorded(q, i)' \/ Flight(r, q, i)
          PROVE  LiveCopy(q, i)
      <3>1. ~Flight(r, q, i)
        BY <2>2 DEF Flight, Nowhere
      <3>2. journal[q][i].status = "done" /\ Recorded(q, i)
        BY <2>1, <2>5, <3>1 DEF Recorded
      <3>3. q # p
        BY <1>0, <2>1, <3>2, RowFacts
      <3> QED  BY <2>1, <2>5, <3>2, <3>3 DEF LiveCopy
    <2> QED  BY <2>1, <2>3, <2>4, <2>5, OthersIdle, QuietSurvives
  <1> QED  BY <1>2, <1>3, <1>4, <1>5

\* What a job is doing with its plan, once the plan is EXECUTING.
LEMMA BusyFacts ==
    ASSUME IInv, SInv, NEW w \in Worker, job[w].pc \in Busy
    PROVE  /\ job[w].plan \in Plan /\ state[job[w].plan] = "EXECUTING"
           /\ lock = w /\ JobRouted(job[w]) /\ Twin(job[w]) /\ Agrees(job[w])
           /\ \A v \in Worker \ {w} : job[v].pc = "idle"
           /\ \A i \in Index : job[w].at[i] # None => i \in Work(job[w].plan)
           /\ \A i \in Work(job[w].plan) : job[w].at[i] # None =>
                 job[w].at[i] \in Route(Actions[job[w].plan][i])
  <1>1. job[w].pc # "idle"
    BY DEF Busy, Filing
  <1>2. Agrees(job[w]) /\ JobRouted(job[w]) /\ Twin(job[w])
    BY DEF IInv, Agreement, JobOK, SInv, JobsKeep
  <1> QED  BY <1>1, <1>2, OthersIdle DEF Agrees, JobRouted

\* Kept files through the loop over a plan's actions.
LEMMA LoopKeeps ==
    ASSUME IInv, SInv, NEW w \in Worker
    PROVE  /\ ActFinished(w) => SInv'
           /\ ActCancelled(w) => SInv'
           /\ ActSkip(w) => SInv'
           /\ ActBegin(w) => SInv'
  <1>f. job[w] \in Job
    BY JobFields DEF IInv
  <1>1. ASSUME NEW r, job[w].pc = "act", r.pc \in {"commit", "undo", "act", "failed"},
               r.at = job[w].at, r.plan = job[w].plan,
               job' = [job EXCEPT ![w] = r], UNCHANGED <<fsVars, dbVars>>
        PROVE  SInv'
    <2>1. JobRouted(job[w]) /\ job[w].pc \in Busy
      BY <1>1 DEF SInv, JobsKeep, Busy
    <2>2. JobRouted(r) /\ Twin(r)
      BY <1>1, <2>1 DEF JobRouted, Twin, Busy, Filing
    <2>3. \A p \in Plan, i \in Index : Flight(r, p, i) => Flight(job[w], p, i)
      BY <1>1, <2>1 DEF Flight
    <2> QED  BY <1>1, <2>2, <2>3, MovingSurvives
  <1>2. ASSUME ActFinished(w) PROVE SInv'
    <2> DEFINE r == [job[w] EXCEPT !.pc = "commit"]
    <2>1. r.pc = "commit" /\ r.at = job[w].at /\ r.plan = job[w].plan
      BY <1>f DEF Job
    <2>2. job[w].pc = "act" /\ job' = [job EXCEPT ![w] = r] /\ UNCHANGED <<fsVars, dbVars>>
      BY <1>2 DEF ActFinished, Goto, At
    <2> HIDE DEF r
    <2> QED  BY <1>1, <2>1, <2>2
  <1>3. ASSUME ActCancelled(w) PROVE SInv'
    <2> DEFINE r == [job[w] EXCEPT !.pc = "undo", !.mode = "undo"]
    <2>1. r.pc = "undo" /\ r.at = job[w].at /\ r.plan = job[w].plan
      BY <1>f DEF Job
    <2>2. job[w].pc = "act" /\ job' = [job EXCEPT ![w] = r] /\ UNCHANGED <<fsVars, dbVars>>
      BY <1>3 DEF ActCancelled, At
    <2> HIDE DEF r
    <2> QED  BY <1>1, <2>1, <2>2
  <1>4. ASSUME ActSkip(w) PROVE SInv'
    <2> DEFINE r == [job[w] EXCEPT !.idx = job[w].idx + 1]
    <2>1. r.pc = job[w].pc /\ r.at = job[w].at /\ r.plan = job[w].plan
      BY <1>f DEF Job
    <2>2. job[w].pc = "act" /\ job' = [job EXCEPT ![w] = r] /\ UNCHANGED <<fsVars, dbVars>>
      BY <1>4 DEF ActSkip, At
    <2> HIDE DEF r
    <2> QED  BY <1>1, <2>1, <2>2
  <1>5. ASSUME ActBegin(w) PROVE SInv'
    <2>1. job[w].pc = "act" /\ job[w].idx \in Work(job[w].plan) /\ UNCHANGED <<fsVars, dbVars>>
      BY <1>5 DEF ActBegin, At
    <2>2. job[w].pc \in Busy
      BY <2>1 DEF Busy
    <2>3. JobRouted(job[w]) /\ job[w].mode = "do" /\ job[w].plan \in Plan
      BY <2>1, <2>2, BusyFacts DEF Agrees
    <2>4. CASE Goto(w, "failed")
      <3> DEFINE r == [job[w] EXCEPT !.pc = "failed"]
      <3>1. r.pc = "failed" /\ r.at = job[w].at /\ r.plan = job[w].plan
        BY <1>f DEF Job
      <3>2. job' = [job EXCEPT ![w] = r]
        BY <2>4 DEF Goto
      <3> HIDE DEF r
      <3> QED  BY <1>1, <2>1, <3>1, <3>2
    <2>5. ASSUME NEW p, p = job[w].plan, NEW i, i = job[w].idx,
                 NEW d \in Destinations(Actions[p][i]), NEW r,
                 r = [job[w] EXCEPT !.pc = "copy", !.from = Actions[p][i].src, !.to = d],
                 job' = [job EXCEPT ![w] = r]
          PROVE  SInv'
      <3>1. /\ r.pc = "copy" /\ r.mode = "do" /\ r.plan = p /\ r.idx = i
            /\ r.at = job[w].at /\ r.from = Actions[p][i].src /\ r.to = d
        BY <1>f, <2>3, <2>5 DEF Job
      <3>2. d \in Route(Actions[p][i])
        <4>1. Actions[p][i] \in Action
          BY <2>1, <2>3, <2>5, ActionsAssumption DEF Work
        <4>2. Candidates[Actions[p][i].src] \in Seq(Slot)
          BY <4>1, CandidatesAssumption DEF Action
        <4>3. \A k \in 1..Len(Candidates[Actions[p][i].src]) : Candidates[Actions[p][i].src][k] \in Slot
          BY <4>2
        <4> QED  BY ZenonT(30), <2>5, <4>3 DEF Destinations, FirstFree, Free, Route
      <3>3. JobRouted(r) /\ Twin(r)
        BY <2>2, <2>3, <2>5, <3>1, <3>2 DEF JobRouted, Twin, Busy, Filing
      <3>4. \A q \in Plan, k \in Index : Flight(r, q, k) => Flight(job[w], q, k)
        BY <2>2, <2>5, <3>1 DEF Flight
      <3> QED  BY <2>1, <2>5, <3>3, <3>4, MovingSurvives
    <2> QED  BY <1>5, <2>4, <2>5 DEF ActBegin
  <1> QED  BY <1>2, <1>3, <1>4, <1>5

\* Kept files through the marks of actions that ran or failed.
LEMMA RecordsKeep ==
    ASSUME IInv, SInv, NEW w \in Worker, NEW p, p = job[w].plan, NEW i, i = job[w].idx
    PROVE  /\ MarkDone(w) => SInv'
           /\ MarkDoneFails(w) => SInv'
           /\ MarkFailed(w) => SInv'
  <1>f. job[w] \in Job /\ TypeOK
    BY JobFields DEF IInv
  <1>1. ASSUME MarkDone(w) \/ MarkDoneFails(w)
        PROVE  /\ job[w].pc = "succeeded" /\ job[w].pc \in Busy /\ job[w].mode = "do"
               /\ p \in Plan /\ i \in Work(p) /\ i \in Index /\ state[p] = "EXECUTING"
               /\ JobRouted(job[w])
               /\ job[w].to \in Route(Actions[p][i])
               /\ \A v \in Worker \ {w} : job[v].pc = "idle"
               /\ Flight(job[w], p, i)
    <2>1. job[w].pc = "succeeded" /\ job[w].mode = "do"
      BY <1>1 DEF MarkDone, MarkDoneFails, At
    <2>2. job[w].pc \in Busy
      BY <2>1 DEF Busy, Filing
    <2>3. /\ p \in Plan /\ i \in Work(p) /\ state[p] = "EXECUTING" /\ JobRouted(job[w])
          /\ \A v \in Worker \ {w} : job[v].pc = "idle"
      BY <2>1, <2>2, BusyFacts DEF Agrees, Filing
    <2>4. job[w].to \in Route(Actions[p][i])
      BY <2>1, <2>3 DEF JobRouted, Filing
    <2> QED  BY <2>1, <2>2, <2>3, <2>4 DEF Flight, Work
  <1>2. ASSUME MarkDone(w) PROVE SInv'
    <2> DEFINE row == [journal[p][i] EXCEPT !.status = "done", !.target = job[w].to]
               at == [job[w].at EXCEPT ![i] = job[w].to]
               r == [job[w] EXCEPT !.pc = "act", !.idx = i + 1, !.at = at,
                                   !.from = None, !.to = None, !.buf = None]
    <2>1. /\ journal' = [journal EXCEPT ![p][i] = row] /\ UNCHANGED <<state, fsVars>>
          /\ job' = [job EXCEPT ![w] = r]
      BY <1>2 DEF MarkDone, SetRow
    <2>2. r.pc = "act" /\ r.at = at /\ r.plan = p
      BY <1>f DEF Job
    <2>3. row.status = "done" /\ row.target = job[w].to
      BY <1>1, <1>2, <1>f, RowFields DEF Row
    <2>4. \A k \in Index : at[k] = IF k = i THEN job[w].to ELSE job[w].at[k]
      BY <1>f DEF Job
    <2> HIDE DEF row, at, r
    <2>5. \A q \in Plan, k \in Index :
            journal'[q][k] = IF q = p /\ k = i THEN row ELSE journal[q][k]
      BY <1>1, <1>2, <1>f, <2>1 DEF TypeOK
    <2>6. JobRouted(r) /\ Twin(r)
      BY <1>1, <1>2, <2>2, <2>4 DEF JobRouted, Twin, Busy, Filing, Work
    <2>7. RowsRouted'
      BY <1>1, <1>2, <2>3, <2>5 DEF SInv, RowsRouted, Work
    <2>8. ASSUME NEW q \in Plan, NEW k \in Index, Actions[q][k].kind = "COPY",
                 state'[q] = "EXECUTING", Recorded(q, k)' \/ Flight(r, q, k)
          PROVE  LiveCopy(q, k)
      <3>1. CASE q = p /\ k = i
        BY <1>1, <1>2, <2>8, <3>1 DEF LiveCopy
      <3>2. CASE ~(q = p /\ k = i)
        <4>1. Recorded(q, k) \/ Flight(job[w], q, k)
          BY <1>1, <1>2, <2>2, <2>4, <2>5, <2>8, <3>2 DEF Recorded, Flight
        <4> QED  BY <2>1, <2>8, <4>1 DEF LiveCopy
      <3> QED  BY <3>1, <3>2
    <2> QED  BY <1>1, <1>2, <2>1, <2>6, <2>7, <2>8, QuietSurvives
  <1>3. ASSUME MarkDoneFails(w) PROVE SInv'
    <2> DEFINE at == [job[w].at EXCEPT ![i] = job[w].to]
               r == [job[w] EXCEPT !.pc = "undo", !.mode = "undo", !.at = at]
    <2>1. UNCHANGED fsVars /\ UNCHANGED dbVars /\ job' = [job EXCEPT ![w] = r]
      BY <1>3 DEF MarkDoneFails
    <2>2. r.pc = "undo" /\ r.at = at /\ r.plan = p
      BY <1>f DEF Job
    <2>3. \A k \in Index : at[k] = IF k = i THEN job[w].to ELSE job[w].at[k]
      BY <1>f DEF Job
    <2> HIDE DEF at, r
    <2>4. JobRouted(r) /\ Twin(r)
      BY <1>1, <1>3, <2>2, <2>3 DEF JobRouted, Twin, Busy, Filing, Work
    <2>5. \A q \in Plan, k \in Index : Flight(r, q, k) => Flight(job[w], q, k)
      BY <1>1, <1>3, <2>2, <2>3 DEF Flight
    <2>6. job[w].pc # "idle"
      BY <1>1, <1>3
    <2> QED  BY <2>1, <2>4, <2>5, <2>6, MovingSurvives
  <1>4. ASSUME MarkFailed(w) PROVE SInv'
    <2> DEFINE row == [journal[p][i] EXCEPT !.status = "failed"]
               r == [job[w] EXCEPT !.pc = "undo", !.mode = "undo"]
    <2>1. /\ journal' = [journal EXCEPT ![p][i] = row] \/ UNCHANGED journal
          /\ UNCHANGED state /\ UNCHANGED fsVars
          /\ job' = [job EXCEPT ![w] = r] /\ job[w].pc = "failed"
      BY <1>4 DEF MarkFailed, SetRow, At, dbVars
    <2>2. r.pc = "undo" /\ r.at = job[w].at /\ r.plan = p
      BY <1>f DEF Job
    <2>3. job[w].pc \in Busy
      BY <2>1 DEF Busy, Filing
    <2>4. p \in Plan /\ i \in Index /\ JobRouted(job[w]) /\ \A v \in Worker \ {w} : job[v].pc = "idle"
      BY <2>1, <2>3, BusyFacts DEF Agrees, Work, Filing
    <2>5. row.status = "failed"
      BY <1>f, <2>4, RowFields DEF Row
    <2> HIDE DEF row, r
    <2>6. \A q \in Plan, k \in Index : journal'[q][k] = journal[q][k] \/ journal'[q][k] = row
      BY <1>f, <2>1, <2>4 DEF TypeOK
    <2>7. JobRouted(r) /\ Twin(r)
      BY <2>2, <2>3, <2>4 DEF JobRouted, Twin, Busy, Filing
    <2>8. RowsRouted'
      BY <2>5, <2>6 DEF SInv, RowsRouted, Work
    <2>9. ASSUME NEW q \in Plan, NEW k \in Index, Actions[q][k].kind = "COPY",
                 state'[q] = "EXECUTING", Recorded(q, k)' \/ Flight(r, q, k)
          PROVE  LiveCopy(q, k)
      <3>1. Recorded(q, k) \/ Flight(job[w], q, k)
        BY <2>2, <2>3, <2>5, <2>6, <2>9 DEF Recorded, Flight
      <3> QED  BY <2>1, <2>9, <3>1 DEF LiveCopy
    <2> QED  BY <2>1, <2>4, <2>7, <2>8, <2>9, QuietSurvives
  <1> QED  BY <1>2, <1>3, <1>4

\* Kept files through the choice and the marks of a rollback.
LEMMA UndoKeeps ==
    ASSUME IInv, SInv, NEW w \in Worker, NEW p, p = job[w].plan
    PROVE  /\ UndoBegins(w) => SInv'
           /\ UndoSucceeded(w) => SInv'
           /\ UndoFailed(w) => SInv'
           /\ UndoEnds(w) => SInv'
  <1>f. job[w] \in Job /\ TypeOK
    BY JobFields DEF IInv
  <1>1. ASSUME UndoBegins(w) PROVE SInv'
    <2>1. job[w].pc = "undo" /\ UNCHANGED fsVars /\ UNCHANGED dbVars
      BY <1>1 DEF UndoBegins, At
    <2>2. job[w].pc \in Busy
      BY <2>1 DEF Busy
    <2>3. p \in Plan /\ JobRouted(job[w]) /\ job[w].mode # "do"
      BY <2>1, <2>2, BusyFacts DEF Agrees
    <2>4. PICK i \in Index :
            /\ job[w].at[i] # None
            /\ job' = [job EXCEPT ![w] = [job[w] EXCEPT
                  !.idx = i, !.from = job[w].at[i], !.buf = None,
                  !.pc = IF Actions[p][i].kind = "COPY" THEN "uncopy" ELSE "copy",
                  !.to = IF Actions[p][i].kind = "COPY" THEN None ELSE Actions[p][i].src]]
      BY <1>1 DEF UndoBegins
    <2>5. i \in Work(p) /\ job[w].at[i] \in Route(Actions[p][i])
      BY <2>2, <2>4, BusyFacts
    <2> DEFINE r == [job[w] EXCEPT
                  !.idx = i, !.from = job[w].at[i], !.buf = None,
                  !.pc = IF Actions[p][i].kind = "COPY" THEN "uncopy" ELSE "copy",
                  !.to = IF Actions[p][i].kind = "COPY" THEN None ELSE Actions[p][i].src]
    <2>6. /\ r.pc = IF Actions[p][i].kind = "COPY" THEN "uncopy" ELSE "copy"
          /\ r.to = IF Actions[p][i].kind = "COPY" THEN None ELSE Actions[p][i].src
          /\ r.idx = i /\ r.from = job[w].at[i] /\ r.mode = job[w].mode
          /\ r.plan = p /\ r.at = job[w].at
      BY <1>f DEF Job
    <2>7. job' = [job EXCEPT ![w] = r]
      BY <2>4
    <2> HIDE DEF r
    <2>8. \A k \in Work(p) : r.at[k] # None => r.at[k] \in Route(Actions[p][k])
      BY <2>2, <2>3, <2>6 DEF JobRouted
    <2>9. JobRouted(r) /\ Twin(r)
      <3>1. CASE Actions[p][i].kind = "COPY"
        BY <2>3, <2>4, <2>5, <2>6, <2>8, <3>1 DEF JobRouted, Twin, Filing
      <3>2. CASE Actions[p][i].kind # "COPY"
        BY <2>3, <2>4, <2>5, <2>6, <2>8, <3>2 DEF JobRouted, Twin, Filing
      <3> QED  BY <3>1, <3>2
    <2>10. \A q \in Plan, k \in Index : Flight(r, q, k) => Flight(job[w], q, k)
      BY <2>2, <2>3, <2>6 DEF Flight
    <2> QED  BY <2>1, <2>7, <2>9, <2>10, MovingSurvives
  <1>2. ASSUME NEW fine \in BOOLEAN, NEW saved \in BOOLEAN, Undone(w, fine, saved),
               job[w].pc \in {"succeeded", "failed"}
        PROVE  SInv'
    <2>1. PICK i : i = job[w].idx
      OBVIOUS
    <2>2. job[w].pc \in Busy
      BY <1>2 DEF Busy, Filing
    <2>3. /\ p \in Plan /\ i \in Index /\ JobRouted(job[w]) /\ job[w].pc # "idle"
          /\ \A v \in Worker \ {w} : job[v].pc = "idle"
      BY <1>2, <2>1, <2>2, BusyFacts DEF Agrees, Work, Filing
    <2>4. PICK row : /\ journal' = [journal EXCEPT ![p][i] = row] \/ UNCHANGED journal
                     /\ row.status = journal[p][i].status /\ row.target = journal[p][i].target
                     /\ row.rb # "none"
      <3> DEFINE rb == IF fine THEN "done" ELSE "failed"
                 row == [journal[p][i] EXCEPT !.rb = rb]
      <3>1. row.status = journal[p][i].status /\ row.target = journal[p][i].target /\ row.rb = rb
        BY <1>f, <2>3, RowFields DEF Row
      <3>2. journal' = [journal EXCEPT ![p][i] = row] \/ UNCHANGED journal
        BY <1>2, <2>1 DEF Undone, SetRow, dbVars
      <3>3. rb # "none"
        OBVIOUS
      <3> HIDE DEF row, rb
      <3> QED  BY <3>1, <3>2, <3>3
    <2>5. UNCHANGED fsVars /\ UNCHANGED state
      BY <1>2 DEF Undone, SetRow, dbVars
    <2>6. \A q \in Plan, k \in Index :
            journal'[q][k] = journal[q][k] \/ (q = p /\ k = i /\ journal'[q][k] = row)
      BY <1>f, <2>3, <2>4 DEF TypeOK
    <2>7. \A q \in Plan : \A k \in Work(q) : journal'[q][k].status = "done" =>
              /\ journal[q][k].status = "done"
              /\ journal'[q][k].target = journal[q][k].target
              /\ journal'[q][k].rb = "none" => journal[q][k].rb = "none"
              /\ state'[q] = "EXECUTING" => state[q] = "EXECUTING"
      BY <2>4, <2>5, <2>6 DEF Work
    <2>8. CASE Continue(w)
      BY <2>3, <2>5, <2>7, <2>8, LeavingSurvives
    <2>9. CASE ~Continue(w)
      <3> DEFINE at == [job[w].at EXCEPT ![i] = None]
                 r == [job[w] EXCEPT !.pc = "undo", !.at = at, !.ok = job[w].ok /\ fine /\ saved]
      <3>1. job' = [job EXCEPT ![w] = r]
        BY <1>2, <2>1, <2>9 DEF Undone
      <3>2. r.pc = "undo" /\ r.at = at /\ r.plan = p
        BY <1>f DEF Job
      <3>3. \A k \in Index : at[k] # None => at[k] = job[w].at[k]
        BY <1>f DEF Job
      <3> HIDE DEF at, r
      <3>4. JobRouted(r) /\ Twin(r)
        BY <2>2, <2>3, <3>2, <3>3 DEF JobRouted, Twin, Busy, Filing, Work
      <3>5. RowsRouted'
        BY <2>7 DEF SInv, RowsRouted
      <3>6. ASSUME NEW q \in Plan, NEW k \in Index, Actions[q][k].kind = "COPY",
                   state'[q] = "EXECUTING", Recorded(q, k)' \/ Flight(r, q, k)
            PROVE  LiveCopy(q, k)
        <4>1. Recorded(q, k) \/ Flight(job[w], q, k)
          BY <2>2, <2>4, <2>6, <3>2, <3>3, <3>6 DEF Recorded, Flight
        <4> QED  BY <2>5, <3>6, <4>1 DEF LiveCopy
      <3> QED  BY <2>3, <2>5, <3>1, <3>4, <3>5, <3>6, QuietSurvives
    <2> QED  BY <2>8, <2>9
  <1>3. UndoSucceeded(w) \/ UndoFailed(w) => SInv'
    BY <1>2 DEF UndoSucceeded, UndoFailed, At
  <1>4. ASSUME UndoEnds(w) PROVE SInv'
    <2>1. job[w].pc = "undo" /\ UNCHANGED fsVars /\ UNCHANGED dbVars /\ job[w].at = Nowhere
      BY <1>4 DEF UndoEnds, At
    <2>2. CASE Stop(w)
      BY <2>1, <2>2, LeavingSurvives DEF dbVars
    <2>3. CASE Goto(w, "abort")
      <3> DEFINE r == [job[w] EXCEPT !.pc = "abort"]
      <3>1. job' = [job EXCEPT ![w] = r] /\ r.pc = "abort" /\ r.at = Nowhere /\ r.plan = p
        BY <1>f, <2>1, <2>3 DEF Goto, Job
      <3> HIDE DEF r
      <3>2. JobRouted(r) /\ Twin(r)
        BY <3>1 DEF JobRouted, Twin, Busy, Filing, Nowhere, Work
      <3>3. \A q \in Plan, k \in Index : ~Flight(r, q, k)
        BY <3>1 DEF Flight, Nowhere
      <3> QED  BY <2>1, <3>1, <3>2, <3>3, MovingSurvives
    <2> QED  BY <1>4, <2>2, <2>3 DEF UndoEnds
  <1> QED  BY <1>1, <1>3, <1>4

\* Kept files through the end of a plan.
LEMMA FinalKeeps ==
    ASSUME IInv, SInv, NEW w \in Worker
    PROVE  /\ FinalizeVerified(w) => SInv'
           /\ FinalizeVerifiedFails(w) => SInv'
           /\ FinalizeRolledBack(w) => SInv'
           /\ FinalizeRolledBackFails(w) => SInv'
           /\ RecoverEnd(w) => SInv'
  <1>1. ASSUME job[w].pc # "idle", Stop(w) \/ Continue(w), UNCHANGED <<fsVars, journal>>,
               \/ UNCHANGED state
               \/ \E p, s : s # "EXECUTING" /\ state' = [state EXCEPT ![p] = s]
        PROVE  SInv'
    <2>1. \A q \in Plan : state'[q] = "EXECUTING" => state[q] = "EXECUTING"
      BY <1>1 DEF IInv, TypeOK
    <2> QED  BY <1>1, <2>1, LeavingSurvives
  <1> QED  BY <1>1 DEF FinalizeVerified, FinalizeVerifiedFails, FinalizeRolledBack,
                       FinalizeRolledBackFails, RecoverEnd, Settle, SetState, At, dbVars

\* Kept files through the start of a recovery, which takes up only plans whose
\* rows say where every file went.
LEMMA RecoveryKeeps ==
    ASSUME IInv, SInv, NEW w \in Worker, NEW p \in Plan
    PROVE  /\ RecoverReset(w, p) => SInv'
           /\ RecoverSkip(w, p) => SInv'
           /\ RecoverBegin(w, p) => SInv'
  <1>f. job[w] \in Job /\ TypeOK /\ Agreement
    BY JobFields DEF IInv
  <1>1. ASSUME RecoverReset(w, p) \/ RecoverSkip(w, p) PROVE SInv'
    <2> DEFINE r == [job[w] EXCEPT !.batch = job[w].batch \ {p}]
    <2>1. /\ job' = [job EXCEPT ![w] = r] /\ job[w].pc = "next"
          /\ UNCHANGED <<journal, fsVars>>
          /\ \A q \in Plan : state'[q] = "EXECUTING" => state[q] = "EXECUTING"
      BY <1>1, <1>f DEF RecoverReset, RecoverSkip, Recovering, At, Leave, SetState, dbVars, TypeOK
    <2>2. r.pc = "next"
      BY <1>f, <2>1 DEF Job
    <2> HIDE DEF r
    <2>3. r.pc \notin Busy
      BY <2>2 DEF Busy, Filing
    <2> QED  BY <2>1, <2>3, OthersIdle, RestingSurvives
  <1>2. ASSUME RecoverBegin(w, p) PROVE SInv'
    <2> DEFINE at == [k \in Index |-> IF journal[p][k].rb = "done"
                                     THEN None ELSE journal[p][k].target]
               r == [job[w] EXCEPT !.plan = p, !.pc = "undo", !.at = at]
    <2>1. /\ job' = [job EXCEPT ![w] = r] /\ job[w].pc = "next" /\ ~Uncertain(p)
          /\ UNCHANGED fsVars /\ UNCHANGED dbVars
      BY <1>2 DEF RecoverBegin, Recovering, At
    <2>2. r.pc = "undo" /\ r.at = at /\ r.plan = p
      BY <1>f DEF Job
    <2>3. ASSUME NEW k \in Index, at[k] # None
          PROVE  k \in Work(p) /\ Recorded(p, k) /\ at[k] = journal[p][k].target
      <3>1. journal[p][k].rb # "done" /\ at[k] = journal[p][k].target
        BY <2>3
      <3>2. k \in Work(p)
        BY <1>f, <2>3, <3>1, RowFacts, NoRowFields
      <3> QED  BY <2>1, <3>1, <3>2 DEF Uncertain, Recorded
    <2> HIDE DEF at, r
    <2>4. JobRouted(r) /\ Twin(r)
      BY <2>2, <2>3 DEF JobRouted, Twin, Busy, Filing, Work, Recorded, SInv, RowsRouted
    <2>5. \A q \in Plan, k \in Index : Flight(r, q, k) => Recorded(q, k)
      BY <2>2, <2>3 DEF Flight
    <2> QED  BY <2>1, <2>4, <2>5, MovingSurvives
  <1> QED  BY <1>1, <1>2

\* A copy that may be removed is at the destination of a COPY action of the one
\* plan that is EXECUTING, so neither a scanned path nor the destination of
\* another of its actions.
LEMMA CopiesApart ==
    ASSUME IInv, NEW p \in Plan, state[p] = "EXECUTING"
    PROVE  /\ Copies \cap Source = {}
           /\ \A i \in Work(p) : Actions[p][i].kind # "COPY" =>
                 Copies \cap Route(Actions[p][i]) = {}
  <1>1. ASSUME NEW x \in Copies
        PROVE  \E k \in Index : Actions[p][k].kind = "COPY" /\ x = Actions[p][k].dst
    <2>1. PICK q \in Plan, k \in Index : LiveCopy(q, k) /\ x = Actions[q][k].dst
      BY DEF Copies
    <2>2. q = p
      BY <2>1 DEF LiveCopy, Reserved, IInv, OneReservation
    <2> QED  BY <2>1, <2>2 DEF LiveCopy
  <1>2. Copies \cap Source = {}
    BY <1>1, CopiesAssumption
  <1>3. ASSUME NEW i \in Work(p), Actions[p][i].kind # "COPY", NEW x \in Copies,
               x \in Route(Actions[p][i])
        PROVE  FALSE
    <2>1. PICK k \in Index : Actions[p][k].kind = "COPY" /\ x = Actions[p][k].dst
      BY <1>1
    <2>2. i \in Index /\ i # k /\ Actions[p][i].kind \in {"QUARANTINE", "MOVE"}
      BY <1>3, <2>1, ActionsAssumption DEF Work, Action
    <2>3. CASE Actions[p][i].kind = "MOVE"
      BY <1>3, <2>1, <2>2, <2>3, CopiesAssumption DEF Route
    <2>4. CASE Actions[p][i].kind = "QUARANTINE"
      <3>1. x \in Slot
        BY <1>3, <2>4 DEF Route
      <3>2. Actions[p][k] \in Action
        BY <2>1, ActionsAssumption
      <3>3. x \in Target
        BY <2>1, <3>2, ActionsAssumption DEF Action
      <3> QED  BY <3>1, <3>3, RootsAssumption
    <2> QED  BY <2>2, <2>3, <2>4
  <1> QED  BY <1>2, <1>3

\* How a file step changes its job's record
Follows(r, j) ==
    /\ r.mode = j.mode /\ r.plan = j.plan /\ r.idx = j.idx /\ r.at = j.at
    /\ r.from = j.from /\ r.to = j.to
    /\ \/ j.pc = "copy" /\ r.pc \in {"fill", "failed"}
       \/ j.pc = "fill" /\ r.pc \in {"verify", "failed"}
       \/ j.pc = "verify" /\ r.pc \in {"succeeded", "failed"}
       \/ j.pc = "verify" /\ r.pc = "remove" /\ Actions[j.plan][j.idx].kind # "COPY"
       \/ j.pc \in {"remove", "uncopy"} /\ r.pc \in {"succeeded", "failed"}

\* What a file step has to show: the files outside the copies, and the pair of
\* files the job is working on.
LEMMA FileStepSurvives ==
    ASSUME IInv, SInv, NEW w \in Worker, job[w].pc \in Filing,
           NEW r, job' = [job EXCEPT ![w] = r], UNCHANGED <<dbVars, harmed>>,
           Follows(r, job[w]),
           \A s \in Kept : \E x \in Path \ Copies :
              data'[x] = s /\ (r.pc = "fill" => x # job[w].to),
           Twin(r)'
    PROVE  SInv'
  <1> DEFINE S == IF r.pc = "fill" THEN {job[w].to} ELSE {}
  <1>1. job[w].pc \in Busy /\ r.pc \in Busy
    BY DEF Busy, Filing, Follows
  <1>2. /\ job[w].plan \in Plan /\ JobRouted(job[w]) /\ Agrees(job[w])
        /\ \A v \in Worker \ {w} : job[v].pc = "idle"
    BY <1>1, BusyFacts
  <1>3. JobRouted(r)
    <2> DEFINE a == Actions[job[w].plan][job[w].idx]
    <2>1. \A i \in Work(r.plan) : r.at[i] # None => r.at[i] \in Route(Actions[r.plan][i])
      BY <1>1, <1>2 DEF JobRouted, Follows
    <2>2. r.pc # "failed" /\ job[w].mode = "do" => job[w].from = a.src /\ job[w].to \in Route(a)
      BY <1>2 DEF JobRouted, Filing, Follows
    <2>3. r.pc # "failed" /\ job[w].mode # "do" => job[w].from \in Route(a)
      BY <1>2 DEF JobRouted, Filing, Follows
    <2>4. r.pc \in {"fill", "verify", "remove"} /\ job[w].mode # "do" =>
            job[w].to = a.src /\ a.kind # "COPY"
      BY <1>2 DEF JobRouted, Filing, Follows
    <2> QED  BY <2>1, <2>2, <2>3, <2>4 DEF JobRouted, Follows
  <1>4. RowsRouted'
    BY DEF SInv, RowsRouted, dbVars
  <1>5. ASSUME NEW q \in Plan, NEW k \in Index, Actions[q][k].kind = "COPY",
               state'[q] = "EXECUTING", Recorded(q, k)' \/ Flight(r, q, k)
        PROVE  LiveCopy(q, k) \/ Actions[q][k].dst \in S
    <2>1. state[q] = "EXECUTING"
      BY <1>5 DEF dbVars
    <2>2. CASE Recorded(q, k)' \/ Flight(job[w], q, k)
      BY <1>5, <2>1, <2>2 DEF Recorded, LiveCopy, dbVars
    <2>3. CASE Flight(r, q, k) /\ ~Flight(job[w], q, k)
      <3>1. /\ q = job[w].plan /\ k = job[w].idx /\ job[w].mode = "do"
            /\ job[w].pc = "copy" /\ r.pc = "fill"
        BY <1>1, <1>2, <1>5, <2>3 DEF Flight, JobRouted, Agrees, Follows
      <3>2. job[w].to \in S /\ job[w].to \in Route(Actions[q][k])
        BY <1>2, <3>1 DEF JobRouted, Filing
      <3> QED  BY <1>5, <3>2 DEF Route
    <2> QED  BY <1>5, <2>2, <2>3
  <1>6. Copies' \subseteq Copies \cup S
    BY <1>2, <1>5, CopiesGrow
  <1>7. Outside'
    BY <1>6 DEF Outside, Kept
  <1> QED  BY <1>2, <1>3, <1>4, <1>7, Survive

\* Kept files through the file primitives: a destination is only removed while
\* its source still holds the file, and a source only once its destination does.
LEMMA FileKeeps ==
    ASSUME IInv, SInv, NEW w \in Worker, FileStep(w)
    PROVE  SInv'
  <1> DEFINE j == job[w]
             a == Actions[job[w].plan][job[w].idx]
             F == job[w].from
             T == job[w].to
  <1>f. j \in Job /\ TypeOK
    BY JobFields DEF IInv
  <1>0. j.pc \in {"copy", "fill", "verify", "remove", "uncopy"} /\ UNCHANGED dbVars
    BY DEF FileStep, CopyOpens, CopyRefused, CopyFills, CopyFails, VerifyPasses,
           VerifyFails, RemoveSource, RemoveFails, RemoveCopy, RemoveCopyFails, At
  <1>1. j.pc \in Filing /\ j.pc \in Busy
    BY <1>0 DEF Filing, Busy
  <1>2. /\ j.plan \in Plan /\ state[j.plan] = "EXECUTING" /\ j.idx \in Work(j.plan)
        /\ JobRouted(j) /\ Twin(j) /\ Agrees(j)
    BY <1>1, BusyFacts DEF Agrees
  <1>3. a \in Action /\ a.src \in Source /\ F \in Path
    BY <1>0, <1>2, ActionsAssumption DEF Action, Work, Agrees, Filing
  <1>4. j.pc # "uncopy" => T \in Path
    BY <1>0, <1>2 DEF Agrees, Filing
  <1>5. \A s \in Kept : \E x \in Path \ Copies : data[x] = s
    BY DEF SInv, Outside
  <1>6. /\ j.pc # "uncopy" => F \notin Copies
        /\ j.pc = "remove" => T \notin Copies
    <2>1. Copies \cap Source = {} /\ (a.kind # "COPY" => Copies \cap Route(a) = {})
      BY <1>2, CopiesApart
    <2>2. CASE j.mode = "do"
      BY <1>0, <1>2, <1>3, <2>1, <2>2 DEF JobRouted, Filing
    <2>3. CASE j.mode # "do"
      BY <1>0, <1>2, <1>3, <2>1, <2>3 DEF JobRouted, Filing
    <2> QED  BY <2>2, <2>3
  <1>7. \A s \in Source : s \notin {Absent, Partial, None}
    BY NamesAssumption DEF Content
  <1>8. /\ j.pc \in {"fill", "verify", "remove"} => F # T
        /\ j.pc = "fill" =>
              data[T] \notin Source /\ (data[F] \in Kept \/ j.buf \in Kept => j.buf = data[F])
        /\ j.pc = "verify" =>
              /\ data[T] \in Kept => data[F] = data[T]
              /\ data[F] \in Kept /\ data[T] \in Source => data[F] = data[T]
        /\ j.pc = "remove" =>
              /\ data[T] \in Kept => data[F] = data[T]
              /\ data[F] \in Kept => data[F] = data[T]
    BY <1>2 DEF Twin
  <1>9. ASSUME NEW x, NEW c, Put(x, c)
        PROVE  /\ harmed' = harmed /\ Kept' = Kept
               /\ \A y \in Path : data'[y] = IF y = x THEN c ELSE data[y]
    BY <1>9, <1>f DEF Put, Kept, TypeOK
  \* the job's new record
  <1>10. ASSUME NEW pc, NEW r, r = [j EXCEPT !.pc = pc]
         PROVE  /\ r.pc = pc /\ r.mode = j.mode /\ r.plan = j.plan /\ r.idx = j.idx
                /\ r.at = j.at /\ r.from = F /\ r.to = T /\ r.buf = j.buf
    BY <1>f, <1>10 DEF Job
  \* an action that fails, with its output removed or left
  <1>11. ASSUME Goto(w, "failed"), DropOutput(T), j.pc \in {"fill", "verify", "remove"}
         PROVE  SInv'
    <2>0. PICK r : r = [j EXCEPT !.pc = "failed"]
      OBVIOUS
    <2>1. job' = [job EXCEPT ![w] = r]
      BY <2>0, <1>11 DEF Goto
    <2>2. harmed' = harmed /\ \A s \in Kept : \E x \in Path \ Copies : data'[x] = s
      <3>1. CASE Put(T, Absent)
        <4> SUFFICES ASSUME NEW s \in Kept
                     PROVE  \E x \in Path \ Copies : data'[x] = s
          BY <1>9, <3>1
        <4>1. PICK x \in Path \ Copies : data[x] = s
          BY <1>5
        <4>2. CASE x # T
          BY <1>9, <3>1, <4>1, <4>2
        <4>3. CASE x = T
          <5>1. data[F] = s /\ F # T
            BY <1>8, <1>11, <4>1, <4>3 DEF Kept
          <5> QED  BY <1>3, <1>6, <1>9, <1>11, <3>1, <5>1
        <4> QED  BY <4>2, <4>3
      <3>2. CASE UNCHANGED fsVars
        BY <1>5, <3>2 DEF fsVars
      <3> QED  BY <1>11, <3>1, <3>2 DEF DropOutput
    <2>3. Twin(r)'
      BY <1>10, <2>0 DEF Twin
    <2>4. Follows(r, j) /\ r.pc # "fill"
      BY <1>10, <1>11, <2>0 DEF Follows
    <2> QED  BY <1>0, <1>1, <1>11, <2>1, <2>2, <2>3, <2>4, FileStepSurvives
  \* a job that goes on with the files as they are
  <1>12. ASSUME NEW pc \in {"remove", "succeeded", "failed"}, Goto(w, pc), UNCHANGED fsVars,
                \/ j.pc \in {"copy", "uncopy"} /\ pc = "failed"
                \/ j.pc = "verify" /\ pc = "succeeded"
                \/ j.pc = "verify" /\ pc = "remove" /\ a.kind # "COPY"
                      /\ HasHashOf(data[T], a.src)
         PROVE  SInv'
    <2>0. PICK r : r = [j EXCEPT !.pc = pc]
      OBVIOUS
    <2>1. job' = [job EXCEPT ![w] = r]
      BY <2>0, <1>12 DEF Goto
    <2>2. /\ harmed' = harmed /\ data' = data
          /\ \A s \in Kept : \E x \in Path \ Copies : data'[x] = s
      BY <1>5, <1>12 DEF fsVars
    <2>3. pc = "remove" /\ data[F] \in Kept => data[F] = data[T]
      <3>1. pc = "remove" => data[T] \in Source
        BY <1>3, <1>12, ForeignAssumption DEF HasHashOf, Content
      <3> QED  BY <1>8, <1>12, <3>1
    <2>4. Twin(r)'
      BY <1>8, <1>10, <1>12, <2>0, <2>2, <2>3 DEF Twin, Kept
    <2>5. Follows(r, j) /\ r.pc # "fill"
      BY <1>10, <1>12, <2>0 DEF Follows
    <2> QED  BY ZenonT(30), <1>0, <1>1, <2>1, <2>2, <2>4, <2>5, FileStepSurvives
  <1>13. CASE CopyOpens(w)
    <2>0. PICK r : r = [j EXCEPT !.pc = "fill", !.buf = data[F]]
      OBVIOUS
    <2>1. /\ j.pc = "copy" /\ data[F] # Absent /\ data[T] = Absent /\ Put(T, Partial)
          /\ job' = [job EXCEPT ![w] = r]
      BY <2>0, <1>13 DEF CopyOpens, At
    <2>2. /\ r.pc = "fill" /\ r.mode = j.mode /\ r.plan = j.plan /\ r.idx = j.idx
          /\ r.at = j.at /\ r.from = F /\ r.to = T /\ r.buf = data[F]
      BY <1>f, <2>0 DEF Job
    <2>3. \A y \in Path : data'[y] = IF y = T THEN Partial ELSE data[y]
      BY <1>9, <2>1
    <2>4. \A s \in Kept : \E x \in Path \ Copies : data'[x] = s /\ x # T
      <3> SUFFICES ASSUME NEW s \in Kept
                   PROVE  \E x \in Path \ Copies : data'[x] = s /\ x # T
        OBVIOUS
      <3>1. PICK x \in Path \ Copies : data[x] = s
        BY <1>5
      <3>2. x # T
        BY <1>7, <2>1, <3>1 DEF Kept
      <3> QED  BY <2>3, <3>1, <3>2
    <2>5. Twin(r)'
      BY <1>3, <1>4, <1>7, <2>1, <2>2, <2>3 DEF Twin
    <2>6. harmed' = harmed
      BY <1>9, <2>1
    <2>7. Follows(r, j)
      BY <2>1, <2>2 DEF Follows
    <2> QED  BY ZenonT(30), <1>0, <1>1, <2>1, <2>4, <2>5, <2>6, <2>7, FileStepSurvives
  <1>14. CASE CopyFills(w)
    <2>0. PICK r : r = [j EXCEPT !.pc = "verify"]
      OBVIOUS
    <2>1. /\ j.pc = "fill" /\ job' = [job EXCEPT ![w] = r]
      BY <2>0, <1>14 DEF CopyFills, At, Goto
    <2>2. PICK c \in {j.buf, data[F], Partial, data[T]} :
            /\ harmed' = harmed
            /\ \A y \in Path : data'[y] = IF y = T THEN c ELSE data[y]
            /\ data[T] = Partial \/ c = data[T]
      <3>1. CASE data[T] = Partial
        <4>1. PICK c \in {j.buf, data[F], Partial} : Put(T, c)
          BY <1>14, <3>1 DEF CopyFills
        <4> QED  BY <1>9, <3>1, <4>1
      <3>2. CASE data[T] # Partial
        BY <1>14, <3>2 DEF CopyFills, fsVars
      <3> QED  BY <3>1, <3>2
    <2>3. \A s \in Kept : \E x \in Path \ Copies : data'[x] = s
      <3> SUFFICES ASSUME NEW s \in Kept
                   PROVE  \E x \in Path \ Copies : data'[x] = s
        OBVIOUS
      <3>1. PICK x \in Path \ Copies : data[x] = s
        BY <1>5
      <3>2. data[x] = data'[x]
        BY <1>7, <2>2, <3>1 DEF Kept
      <3> QED  BY <3>1, <3>2
    <2>4. /\ data'[T] \in Kept => data[F] = data'[T]
          /\ data[F] \in Kept /\ data'[T] \in Source => data[F] = data'[T]
      BY <1>4, <1>7, <1>8, <2>1, <2>2 DEF Kept
    <2>5. Twin(r)'
      BY <1>3, <1>8, <1>10, <2>0, <2>1, <2>2, <2>4 DEF Twin, Kept
    <2>6. Follows(r, j) /\ r.pc # "fill"
      BY <1>10, <2>0, <2>1 DEF Follows
    <2> QED  BY <1>0, <1>1, <2>1, <2>2, <2>3, <2>5, <2>6, FileStepSurvives
  <1>15. CASE CopyFails(w) \/ VerifyFails(w) \/ RemoveFails(w)
    BY <1>11, <1>15 DEF CopyFails, VerifyFails, RemoveFails, At
  <1>16. CASE CopyRefused(w) \/ VerifyPasses(w) \/ RemoveCopyFails(w)
    BY <1>12, <1>16 DEF CopyRefused, VerifyPasses, RemoveCopyFails, At
  \* a file removed: the source of a move, or a copy
  <1>17. ASSUME Put(F, Absent), Goto(w, "succeeded"), j.pc \in {"remove", "uncopy"}
         PROVE  SInv'
    <2>0. PICK r : r = [j EXCEPT !.pc = "succeeded"]
      OBVIOUS
    <2>1. job' = [job EXCEPT ![w] = r]
      BY <2>0, <1>17 DEF Goto
    <2>2. \A s \in Kept : \E x \in Path \ Copies : data'[x] = s
      <3> SUFFICES ASSUME NEW s \in Kept
                   PROVE  \E x \in Path \ Copies : data'[x] = s
        OBVIOUS
      <3>1. PICK x \in Path \ Copies : data[x] = s
        BY <1>5
      <3>2. CASE x # F
        BY <1>9, <1>17, <3>1, <3>2
      <3>3. CASE x = F /\ j.pc = "remove"
        BY <1>4, <1>6, <1>8, <1>9, <1>17, <3>1, <3>3
      <3>4. CASE x = F /\ j.pc = "uncopy"
        <4>1. a.kind = "COPY" /\ j.at[j.idx] # None /\ j.mode # "do" /\ F \in Route(a)
          BY <1>2, <3>4 DEF JobRouted, Agrees, Filing
        <4>2. LiveCopy(j.plan, j.idx)
          BY <1>1, <1>2, <4>1 DEF LiveCopy, Flight
        <4>3. F \in Copies
          BY <1>2, <1>3, <4>1, <4>2 DEF Copies, Route, Work
        <4> QED  BY <3>1, <3>4, <4>3
      <3> QED  BY <1>17, <3>2, <3>3, <3>4
    <2>3. harmed' = harmed
      BY <1>9, <1>17
    <2>4. Twin(r)'
      BY <1>10, <2>0 DEF Twin
    <2>5. Follows(r, j) /\ r.pc # "fill"
      BY <1>10, <1>17, <2>0 DEF Follows
    <2> QED  BY <1>0, <1>1, <1>17, <2>1, <2>2, <2>3, <2>4, <2>5, FileStepSurvives
  <1>18. CASE RemoveSource(w) \/ RemoveCopy(w)
    BY <1>17, <1>18 DEF RemoveSource, RemoveCopy, At
  <1> QED  BY <1>13, <1>14, <1>15, <1>16, <1>18 DEF FileStep

\* Kept files through cancellation, a crash and an edit by another program.
LEMMA OutsideKeeps ==
    ASSUME IInv, SInv
    PROVE  /\ \A w \in Worker : Cancel(w) => SInv'
           /\ Crash => SInv'
           /\ \A x \in Path, c \in Foreign \cup {Absent} : ExternalEdit(x, c) => SInv'
  <1>1. ASSUME NEW w \in Worker, Cancel(w) PROVE SInv'
    <2> DEFINE r == [job[w] EXCEPT !.cancelled = TRUE]
    <2>1. job' = [job EXCEPT ![w] = r] /\ job[w].pc # "idle" /\ UNCHANGED <<fsVars, dbVars>>
      BY <1>1 DEF Cancel, At
    <2>2. /\ r.pc = job[w].pc /\ r.mode = job[w].mode /\ r.plan = job[w].plan
          /\ r.idx = job[w].idx /\ r.at = job[w].at /\ r.from = job[w].from
          /\ r.to = job[w].to /\ r.buf = job[w].buf
      BY JobFields DEF IInv, Job
    <2> HIDE DEF r
    <2>3. JobRouted(job[w]) /\ Twin(job[w])
      BY DEF SInv, JobsKeep
    <2>4. JobRouted(r) /\ Twin(r) /\ \A p, i : Flight(r, p, i) => Flight(job[w], p, i)
      BY <2>2, <2>3 DEF JobRouted, Twin, Flight
    <2> QED  BY <2>1, <2>4, MovingSurvives
  <1>2. ASSUME Crash PROVE SInv'
    <2>1. /\ \A w \in Worker : job'[w].pc = "idle"
          /\ UNCHANGED <<fsVars, dbVars>>
      BY <1>2 DEF Crash, Idle
    <2>2. Copies' \subseteq Copies
      BY <2>1 DEF Copies, LiveCopy, Recorded, Flight, Busy, Filing, dbVars
    <2>3. JobsKeep'
      BY <2>1 DEF JobsKeep, JobRouted, Twin, Busy, Filing
    <2> QED  BY <2>1, <2>2, <2>3 DEF SInv, Outside, RowsRouted, Kept, fsVars, dbVars
  <1>3. ASSUME NEW x \in Path, NEW c \in Foreign \cup {Absent}, ExternalEdit(x, c) PROVE SInv'
    <2>1. /\ \A y \in Path : data'[y] = IF y = x THEN c ELSE data[y]
          /\ harmed' = harmed \cup ({data[x]} \cap Source)
          /\ UNCHANGED <<state, journal, job>>
      BY <1>3 DEF ExternalEdit, IInv, TypeOK, dbVars
    <2>2. c \notin Source
      BY ForeignAssumption, NamesAssumption DEF Content
    <2>3. Kept' \subseteq Kept /\ data[x] \notin Kept'
      BY <2>1 DEF Kept
    <2>4. Copies' = Copies
      BY <2>1 DEF Copies, LiveCopy, Recorded
    <2>5. Outside'
      <3> SUFFICES ASSUME NEW s \in Kept' PROVE \E y \in Path \ Copies : data'[y] = s
        BY <2>4 DEF Outside
      <3>1. PICK y \in Path \ Copies : data[y] = s
        BY <2>3 DEF SInv, Outside
      <3> QED  BY <2>1, <2>3, <3>1
    <2>6. ASSUME NEW w \in Worker PROVE (JobRouted(job[w]) /\ Twin(job[w]))'
      <3>1. JobRouted(job[w]) /\ Twin(job[w]) /\ Agrees(job[w])
        BY DEF SInv, JobsKeep, IInv, Agreement, JobOK
      <3>2. PICK j : j = job[w]
        OBVIOUS
      <3>3. Twin(j)'
        <4>1. j.pc \in {"fill", "verify", "remove"} => j.from \in Path /\ j.to \in Path
          BY <3>1, <3>2 DEF Agrees, Filing
        <4>2. CASE j.pc = "fill"
          BY <2>1, <2>2, <2>3, <3>1, <3>2, <4>1, <4>2 DEF Twin, Kept
        <4>3. CASE j.pc = "verify"
          BY <2>1, <2>2, <2>3, <3>1, <3>2, <4>1, <4>3 DEF Twin, Kept
        <4>4. CASE j.pc = "remove"
          BY <2>1, <2>2, <2>3, <3>1, <3>2, <4>1, <4>4 DEF Twin, Kept
        <4> QED  BY <4>2, <4>3, <4>4 DEF Twin
      <3> QED  BY <2>1, <3>1, <3>2, <3>3 DEF JobRouted, Twin
    <2> QED  BY <2>1, <2>5, <2>6 DEF SInv, RowsRouted, JobsKeep
  <1> QED  BY <1>1, <1>2, <1>3

\* No step loses a kept file.
LEMMA SurvivalStep == ASSUME IInv, SInv, [Next]_vars PROVE SInv'
  <1>1. CASE UNCHANGED vars
    BY <1>1 DEF vars, SInv, Outside, Copies, LiveCopy, Recorded, RowsRouted, JobsKeep,
                JobRouted, Twin, Kept
  <1>2. ASSUME NEW w \in Worker, Step(w) PROVE SInv'
    <2>1. CASE EndBatch(w) \/ \E p \in Plan : NextPlan(w, p)
      BY <2>1, CallersKeep
    <2>2. CASE \/ CheckFails(w) \/ Invalidate(w) \/ Reserve(w) \/ ReserveFails(w)
               \/ BeginJournal(w) \/ BeginJournalFails(w) \/ Claim(w) \/ ClaimFails(w)
      BY <2>2, PreparationKeeps
    <2>3. CASE ActFinished(w) \/ ActCancelled(w) \/ ActSkip(w) \/ ActBegin(w)
      BY <2>3, LoopKeeps
    <2>4. CASE FileStep(w)
      BY <2>4, FileKeeps
    <2>5. CASE MarkDone(w) \/ MarkDoneFails(w) \/ MarkFailed(w)
      BY <2>5, RecordsKeep
    <2>6. CASE UndoBegins(w) \/ UndoSucceeded(w) \/ UndoFailed(w) \/ UndoEnds(w)
      BY <2>6, UndoKeeps
    <2>7. CASE \/ FinalizeVerified(w) \/ FinalizeVerifiedFails(w)
               \/ FinalizeRolledBack(w) \/ FinalizeRolledBackFails(w) \/ RecoverEnd(w)
      BY <2>7, FinalKeeps
    <2>8. CASE \E p \in Plan : RecoverReset(w, p) \/ RecoverSkip(w, p) \/ RecoverBegin(w, p)
      BY <2>8, RecoveryKeeps
    <2> QED  BY <1>2, <2>1, <2>2, <2>3, <2>4, <2>5, <2>6, <2>7, <2>8 DEF Step
  <1>3. CASE Next
    BY <1>2, <1>3, CallersKeep, OutsideKeeps DEF Next
  <1> QED  BY <1>1, <1>3

\* Every scanned file is at first where it was scanned.
LEMMA KeptInitially == Init => SInv
  <1> SUFFICES ASSUME Init PROVE SInv
    OBVIOUS
  <1>1. \A p \in Plan : state[p] = "NONE" /\ \A i \in Index : journal[p][i] = NoRow
    BY DEF Init
  <1>2. Copies = {}
    BY <1>1 DEF Copies, LiveCopy
  <1>3. \A s \in Source : s \in Path /\ data[s] = s
    BY DEF Init, Path
  <1>4. Outside
    BY <1>2, <1>3 DEF Outside, Kept
  <1>5. RowsRouted
    BY <1>1, NoRowFields DEF RowsRouted, Work
  <1>6. JobsKeep
    BY DEF Init, JobsKeep, JobRouted, Twin, Idle, Busy, Filing
  <1> QED  BY <1>4, <1>5, <1>6 DEF SInv

\* Whatever fails, crashes or is cancelled between the file operations of moves,
\* rollbacks and recoveries, no scanned file disappears by the executor's own
\* hand: MoveFile removes a source only after its destination was verified, and
\* a rollback removes only copies whose original is elsewhere.
THEOREM NoFileLost == Spec => []EveryFileSurvives
  <1>1. IInv /\ SInv /\ [Next]_vars => SInv'
    BY SurvivalStep
  <1>2. SInv => EveryFileSurvives
    BY DEF SInv, Outside, Kept, EveryFileSurvives
  <1>3. Spec => []SInv
    BY <1>1, KeptInitially, Inductive, PTL DEF Spec
  <1> QED  BY <1>2, <1>3, PTL

-----------------------------------------------------------------------------
(* The journal and the plan states implement the pipeline *)

\* In a run that still goes forward, the rows done are those of the actions
\* before the one in progress.
Doing(j) == j.mode = "do" /\ j.pc \in Busy
InStep(j) == Doing(j) => \A k \in Work(j.plan) :
                journal[j.plan][k].status = "done" <=> k < j.idx
InOrder == \A w \in Worker : InStep(job[w])

\* A job that is not going forward, or goes on where it was with no row written,
\* keeps the order of the rows.
LEMMA OrderKept ==
    ASSUME IInv, InOrder, NEW w \in Worker, NEW r,
           \A v \in Worker \ {w} : job[v].pc = "idle",
           job' = [job EXCEPT ![w] = r],
           Doing(r) => /\ Doing(job[w])
                       /\ r.plan = job[w].plan /\ r.idx = job[w].idx
                       /\ UNCHANGED journal
    PROVE  InOrder'
  <1> SUFFICES ASSUME NEW v \in Worker, Doing(job'[v]), NEW k \in Work(job'[v].plan)
               PROVE  journal'[job'[v].plan][k].status = "done" <=> k < job'[v].idx
    BY DEF InOrder, InStep, Doing
  <1>1. job'[w] = r /\ \A u \in Worker \ {w} : job'[u] = job[u]
    BY DEF IInv, TypeOK
  <1>2. v = w
    BY <1>1 DEF Doing, Busy, Filing
  <1> QED  BY <1>1, <1>2 DEF InOrder, InStep

\* Leaving a plan, by any way out, is no step forward.
LEMMA OrderLeft ==
    ASSUME IInv, InOrder, NEW w \in Worker, job[w].pc # "idle",
           Stop(w) \/ Continue(w) \/ Settle(w)
    PROVE  InOrder'
  <1>1. \A v \in Worker \ {w} : job[v].pc = "idle"
    BY OthersIdle
  <1>2. Stop(w) \/ Continue(w)
    BY DEF Settle
  <1>3. CASE Stop(w)
    <2>1. job' = [job EXCEPT ![w] = Idle] /\ ~Doing(Idle)
      BY <1>3 DEF Stop, Doing, Idle, Busy, Filing
    <2> QED  BY <1>1, <2>1, OrderKept
  <1>4. CASE Continue(w)
    <2>1. job' = [job EXCEPT ![w] = NextOf(w)] /\ ~Doing(NextOf(w))
      BY <1>4 DEF Continue, NextOf, Idle, Doing, Busy, Filing
    <2> QED  BY <1>1, <2>1, OrderKept
  <1> QED  BY <1>2, <1>3, <1>4

\* The order of the rows through callers, preparation and recovery.
LEMMA OrderAround ==
    ASSUME IInv, InOrder, NEW w \in Worker
    PROVE  /\ \A ps \in SUBSET Plan : StartExecute(w, ps) => InOrder'
           /\ StartRecover(w) => InOrder'
           /\ \A p \in Plan : NextPlan(w, p) => InOrder'
           /\ \A p \in Plan : RecoverReset(w, p) => InOrder'
           /\ \A p \in Plan : RecoverSkip(w, p) => InOrder'
           /\ \A p \in Plan : RecoverBegin(w, p) => InOrder'
           /\ EndBatch(w) \/ CheckFails(w) \/ Invalidate(w) \/ ReserveFails(w) => InOrder'
           /\ Reserve(w) \/ BeginJournal(w) => InOrder'
           /\ BeginJournalFails(w) \/ ClaimFails(w) \/ RecoverEnd(w) => InOrder'
  <1>f. job[w] \in Job
    BY JobFields DEF IInv
  <1>0. ASSUME NEW r, r.pc \notin Busy \/ r.mode # "do",
               job' = [job EXCEPT ![w] = r], lock = None \/ job[w].pc # "idle"
        PROVE  InOrder'
    <2>1. \A v \in Worker \ {w} : job[v].pc = "idle"
      BY <1>0, OthersIdle, NamesAssumption DEF IInv, Agreement, JobOK
    <2> QED  BY <1>0, <2>1, OrderKept DEF Doing
  <1>1. ASSUME NEW ps \in SUBSET Plan, StartExecute(w, ps) PROVE InOrder'
    <2> DEFINE r == [Idle EXCEPT !.pc = "next", !.batch = ps]
    <2>1. r.pc \notin Busy
      BY DEF Idle, Busy, Filing
    <2>2. job' = [job EXCEPT ![w] = r] /\ lock = None
      BY <1>1 DEF StartExecute
    <2> HIDE DEF r
    <2> QED  BY <1>0, <2>1, <2>2
  <1>2. ASSUME StartRecover(w) PROVE InOrder'
    <2> DEFINE r == [Idle EXCEPT !.pc = "next", !.mode = "recover", !.batch = Reserved]
    <2>1. r.pc \notin Busy
      BY DEF Idle, Busy, Filing
    <2>2. job' = [job EXCEPT ![w] = r] /\ lock = None
      BY <1>2 DEF StartRecover
    <2> HIDE DEF r
    <2> QED  BY <1>0, <2>1, <2>2
  <1>3. ASSUME NEW p \in Plan, NextPlan(w, p) PROVE InOrder'
    <2> DEFINE r == [job[w] EXCEPT !.plan = p, !.pc = "check"]
               q == [job[w] EXCEPT !.batch = job[w].batch \ {p}]
    <2>1. job[w].pc = "next"
      BY <1>3 DEF NextPlan, At
    <2>2. r.pc \notin Busy /\ q.pc \notin Busy
      BY <1>f, <2>1 DEF Job, Busy, Filing
    <2>3. job' = [job EXCEPT ![w] = r] \/ job' = [job EXCEPT ![w] = q]
      BY <1>3 DEF NextPlan
    <2> HIDE DEF r, q
    <2> QED  BY <1>0, <2>1, <2>2, <2>3
  <1>4. ASSUME NEW p \in Plan, RecoverReset(w, p) \/ RecoverSkip(w, p) PROVE InOrder'
    <2> DEFINE q == [job[w] EXCEPT !.batch = job[w].batch \ {p}]
    <2>1. job[w].pc = "next" /\ job' = [job EXCEPT ![w] = q]
      BY <1>4 DEF RecoverReset, RecoverSkip, Recovering, At, Leave
    <2>2. q.pc \notin Busy
      BY <1>f, <2>1 DEF Job, Busy, Filing
    <2> HIDE DEF q
    <2> QED  BY <1>0, <2>1, <2>2
  <1>5. ASSUME NEW p \in Plan, RecoverBegin(w, p) PROVE InOrder'
    <2> DEFINE at == [i \in Index |-> IF journal[p][i].rb = "done"
                                     THEN None ELSE journal[p][i].target]
               r == [job[w] EXCEPT !.plan = p, !.pc = "undo", !.at = at]
    <2>1. job[w].pc = "next" /\ job[w].mode = "recover" /\ job' = [job EXCEPT ![w] = r]
      BY <1>5 DEF RecoverBegin, Recovering, At
    <2>2. r.mode # "do"
      BY <1>f, <2>1 DEF Job
    <2> HIDE DEF r
    <2> QED  BY <1>0, <2>1, <2>2
  <1>6. ASSUME EndBatch(w) \/ CheckFails(w) \/ Invalidate(w) \/ ReserveFails(w)
                  \/ BeginJournalFails(w) \/ ClaimFails(w) \/ RecoverEnd(w)
        PROVE  InOrder'
    BY <1>6, OrderLeft DEF EndBatch, CheckFails, Invalidate, ReserveFails,
       BeginJournalFails, ClaimFails, RecoverEnd, At
  <1>7. ASSUME Reserve(w) \/ BeginJournal(w) PROVE InOrder'
    <2>1. PICK c \in {"reserved", "claim"} : Goto(w, c)
      BY <1>7 DEF Reserve, BeginJournal
    <2> DEFINE r == [job[w] EXCEPT !.pc = c]
    <2>2. job' = [job EXCEPT ![w] = r] /\ job[w].pc # "idle"
      BY <1>7, <2>1 DEF Reserve, BeginJournal, Goto, At
    <2>3. r.pc \notin Busy
      BY <1>f, <2>1 DEF Job, Busy, Filing
    <2> HIDE DEF r
    <2> QED  BY <1>0, <2>2, <2>3
  <1> QED  BY <1>1, <1>2, <1>3, <1>4, <1>5, <1>6, <1>7

\* The order of the rows through a run of the action loop, forward and back.
LEMMA OrderInLoop ==
    ASSUME IInv, InOrder, NEW w \in Worker
    PROVE  /\ Claim(w) => InOrder'
           /\ ActFinished(w) \/ ActBegin(w) \/ FileStep(w) => InOrder'
           /\ ActCancelled(w) \/ MarkDoneFails(w) \/ MarkFailed(w) => InOrder'
           /\ ActSkip(w) => InOrder'
           /\ MarkDone(w) => InOrder'
           /\ UndoBegins(w) \/ UndoSucceeded(w) \/ UndoFailed(w) \/ UndoEnds(w) => InOrder'
           /\ FinalizeVerified(w) \/ FinalizeVerifiedFails(w) => InOrder'
           /\ FinalizeRolledBack(w) \/ FinalizeRolledBackFails(w) => InOrder'
  <1>f. job[w] \in Job /\ Agrees(job[w]) /\ InStep(job[w])
    BY JobFields DEF IInv, Agreement, JobOK, InOrder
  <1>0. ASSUME job[w].pc # "idle"
        PROVE  \A v \in Worker \ {w} : job[v].pc = "idle"
    BY <1>0, OthersIdle
  <1>1. ASSUME Claim(w) PROVE InOrder'
    <2> DEFINE p == job[w].plan
               r == [job[w] EXCEPT !.pc = "act", !.idx = 1]
    <2>1. /\ job[w].pc = "claim" /\ job' = [job EXCEPT ![w] = r] /\ UNCHANGED journal
          /\ state[p] = "STALE_CHECKED" /\ p \in Plan
      BY <1>f, <1>1 DEF Claim, At, SetState, Agrees
    <2>2. r.plan = p /\ r.idx = 1
      BY <1>f DEF Job
    <2>3. ASSUME NEW k \in Work(p) PROVE journal[p][k].status # "done" /\ ~(k < 1)
      BY <2>1, RowFacts, SizeAssumption DEF Work, Index, IInv
    <2> HIDE DEF r
    <2>4. job'[w] = r /\ \A v \in Worker \ {w} : job'[v] = job[v]
      BY <2>1 DEF IInv, TypeOK
    <2>5. InStep(job[w])'
      BY <2>1, <2>2, <2>3, <2>4 DEF InStep
    <2>6. ASSUME NEW v \in Worker \ {w} PROVE InStep(job[v])'
      BY <1>0, <2>1, <2>4 DEF InStep, Doing, Busy, Filing
    <2> QED  BY <2>5, <2>6 DEF InOrder
  <1>2. ASSUME NEW r, job[w].pc \in Busy, r.mode = job[w].mode, r.plan = job[w].plan,
               r.idx = job[w].idx, job' = [job EXCEPT ![w] = r], UNCHANGED journal
        PROVE  InOrder'
    <2>1. job[w].pc # "idle"
      BY <1>2 DEF Busy, Filing
    <2> QED  BY <1>0, <1>2, <2>1, OrderKept DEF Doing
  <1>3. ASSUME NEW pc, job[w].pc \in Busy, Goto(w, pc), UNCHANGED dbVars PROVE InOrder'
    <2> DEFINE r == [job[w] EXCEPT !.pc = pc]
    <2>1. r.mode = job[w].mode /\ r.plan = job[w].plan /\ r.idx = job[w].idx
      BY <1>f DEF Job
    <2>2. job' = [job EXCEPT ![w] = r]
      BY <1>3 DEF Goto
    <2> HIDE DEF r
    <2> QED  BY <1>2, <1>3, <2>1, <2>2 DEF dbVars
  <1>4. ASSUME ActFinished(w) PROVE InOrder'
    BY <1>3, <1>4 DEF ActFinished, At, Busy
  <1>5. ASSUME ActBegin(w) PROVE InOrder'
    <2>1. job[w].pc \in Busy /\ UNCHANGED dbVars
      BY <1>5 DEF ActBegin, At, Busy
    <2>2. ASSUME NEW s, NEW d,
                 job' = [job EXCEPT ![w] = [@ EXCEPT !.pc = "copy", !.from = s, !.to = d]]
          PROVE  InOrder'
      <3> DEFINE r == [job[w] EXCEPT !.pc = "copy", !.from = s, !.to = d]
      <3>1. r.mode = job[w].mode /\ r.plan = job[w].plan /\ r.idx = job[w].idx
        BY <1>f DEF Job
      <3>2. job' = [job EXCEPT ![w] = r]
        BY <2>2
      <3> HIDE DEF r
      <3> QED  BY <1>2, <2>1, <3>1, <3>2 DEF dbVars
    <2> QED  BY <1>3, <1>5, <2>1, <2>2 DEF ActBegin
  <1>6. ASSUME FileStep(w) PROVE InOrder'
    <2>1. job[w].pc \in Busy /\ UNCHANGED dbVars
      BY <1>6 DEF FileStep, CopyOpens, CopyRefused, CopyFills, CopyFails, VerifyPasses,
         VerifyFails, RemoveSource, RemoveFails, RemoveCopy, RemoveCopyFails, At, Busy, Filing
    <2>2. CASE CopyOpens(w)
      <3> DEFINE r == [job[w] EXCEPT !.pc = "fill", !.buf = data[job[w].from]]
      <3>1. r.mode = job[w].mode /\ r.plan = job[w].plan /\ r.idx = job[w].idx
        BY <1>f DEF Job
      <3>2. job' = [job EXCEPT ![w] = r]
        BY <2>2 DEF CopyOpens
      <3> HIDE DEF r
      <3> QED  BY <1>2, <2>1, <3>1, <3>2 DEF dbVars
    <2>3. CASE ~CopyOpens(w)
      <3>1. \E pc : Goto(w, pc)
        BY <1>6, <2>3 DEF FileStep, CopyOpens, CopyRefused, CopyFills, CopyFails, VerifyPasses,
           VerifyFails, RemoveSource, RemoveFails, RemoveCopy, RemoveCopyFails
      <3> QED  BY <1>3, <2>1, <3>1
    <2> QED  BY <2>2, <2>3
  <1>7. ASSUME NEW r, r.mode # "do", job[w].pc # "idle", job' = [job EXCEPT ![w] = r]
        PROVE  InOrder'
    BY <1>0, <1>7, OrderKept DEF Doing
  <1>8. ASSUME ActCancelled(w) \/ MarkFailed(w) PROVE InOrder'
    <2> DEFINE r == [job[w] EXCEPT !.pc = "undo", !.mode = "undo"]
    <2>1. r.mode # "do"
      BY <1>f DEF Job
    <2>2. job[w].pc # "idle" /\ job' = [job EXCEPT ![w] = r]
      BY <1>8 DEF ActCancelled, MarkFailed, At
    <2> HIDE DEF r
    <2> QED  BY <1>7, <2>1, <2>2
  <1>9. ASSUME MarkDoneFails(w) PROVE InOrder'
    <2> DEFINE r == [job[w] EXCEPT !.pc = "undo", !.mode = "undo",
                        !.at = [job[w].at EXCEPT ![job[w].idx] = job[w].to]]
    <2>1. r.mode # "do"
      BY <1>f DEF Job
    <2>2. job[w].pc # "idle" /\ job' = [job EXCEPT ![w] = r]
      BY <1>9 DEF MarkDoneFails, At
    <2> HIDE DEF r
    <2> QED  BY <1>7, <2>1, <2>2
  <1>10. ASSUME ActSkip(w) \/ MarkDone(w) PROVE InOrder'
    <2> DEFINE p == job[w].plan
               i == job[w].idx
    <2>1. job[w].pc \in {"act", "succeeded"} /\ job[w].mode = "do" /\ i \in Index /\ p \in Plan
      BY <1>f, <1>10 DEF ActSkip, MarkDone, At, Agrees, Busy, Filing, Work
    <2>2. job'[w].plan = p /\ job'[w].idx = i + 1
      <3>1. CASE ActSkip(w)
        BY <1>f, <3>1 DEF ActSkip, IInv, TypeOK, Job
      <3>2. CASE MarkDone(w)
        BY <1>f, <3>2 DEF MarkDone, IInv, TypeOK, Job
      <3> QED  BY <1>10, <3>1, <3>2
    <2>3. \A v \in Worker \ {w} : job'[v] = job[v]
      BY <1>10 DEF ActSkip, MarkDone, IInv, TypeOK
    <2>4. \A k \in Work(p) : journal[p][k].status = "done" <=> k < i
      BY <1>f, <2>1 DEF InStep, Doing, Busy, Filing
    <2>5. ASSUME NEW k \in Work(p) PROVE journal'[p][k].status = "done" <=> k < i + 1
      <3>0. k \in Index /\ (k < i + 1 <=> k < i \/ k = i)
        BY <2>1, SizeAssumption DEF Work, Index
      <3>1. CASE ActSkip(w)
        BY <2>4, <3>0, <3>1 DEF ActSkip, dbVars
      <3>2. CASE MarkDone(w)
        <4>1. journal[p][i] \in Row
          BY <2>1, RowFields DEF IInv
        <4>2. /\ journal'[p][i].status = "done"
              /\ k # i => journal'[p][k] = journal[p][k]
          BY <2>1, <3>0, <3>2, <4>1 DEF MarkDone, SetRow, Row, IInv, TypeOK
        <4> QED  BY <2>4, <3>0, <4>2
      <3> QED  BY <1>10, <3>1, <3>2
    <2>6. InStep(job[w])'
      BY <2>2, <2>5 DEF InStep
    <2>7. ASSUME NEW v \in Worker \ {w} PROVE InStep(job[v])'
      BY <1>0, <2>1, <2>3 DEF InStep, Doing, Busy, Filing
    <2> QED  BY <2>6, <2>7 DEF InOrder
  <1>11. ASSUME UndoBegins(w) PROVE InOrder'
    <2>1. PICK i \in Index : LET a == Actions[job[w].plan][i]
             IN job' = [job EXCEPT ![w] = [@ EXCEPT
                        !.idx = i, !.from = job[w].at[i], !.buf = None,
                        !.pc = IF a.kind = "COPY" THEN "uncopy" ELSE "copy",
                        !.to = IF a.kind = "COPY" THEN None ELSE a.src]]
      BY <1>11 DEF UndoBegins
    <2> DEFINE a == Actions[job[w].plan][i]
               r == [job[w] EXCEPT
                        !.idx = i, !.from = job[w].at[i], !.buf = None,
                        !.pc = IF a.kind = "COPY" THEN "uncopy" ELSE "copy",
                        !.to = IF a.kind = "COPY" THEN None ELSE a.src]
    <2>2. job[w].mode # "do" /\ job[w].pc # "idle"
      BY <1>f, <1>11 DEF UndoBegins, At, Agrees
    <2>3. r.mode # "do" /\ job' = [job EXCEPT ![w] = r]
      BY <1>f, <2>1, <2>2 DEF Job
    <2> HIDE DEF r
    <2> QED  BY <1>7, <2>2, <2>3
  <1>12. ASSUME UndoSucceeded(w) \/ UndoFailed(w) PROVE InOrder'
    <2>1. job[w].mode # "do" /\ job[w].pc # "idle" /\ \E fine, saved \in BOOLEAN : Undone(w, fine, saved)
      BY <1>12 DEF UndoSucceeded, UndoFailed, At
    <2>2. PICK fine, saved \in BOOLEAN : Undone(w, fine, saved)
      BY <2>1
    <2> DEFINE r == [job[w] EXCEPT !.pc = "undo",
                        !.at = [job[w].at EXCEPT ![job[w].idx] = None],
                        !.ok = job[w].ok /\ fine /\ saved]
    <2>3. r.mode # "do"
      BY <1>f, <2>1 DEF Job
    <2>4. Continue(w) \/ job' = [job EXCEPT ![w] = r]
      BY <2>2 DEF Undone
    <2> HIDE DEF r
    <2> QED  BY <1>7, <2>1, <2>3, <2>4, OrderLeft
  <1>13. ASSUME UndoEnds(w) PROVE InOrder'
    BY <1>3, <1>13, OrderLeft DEF UndoEnds, At, Busy
  <1>14. ASSUME \/ FinalizeVerified(w) \/ FinalizeVerifiedFails(w)
                \/ FinalizeRolledBack(w) \/ FinalizeRolledBackFails(w)
         PROVE  InOrder'
    BY <1>14, OrderLeft DEF FinalizeVerified, FinalizeVerifiedFails,
       FinalizeRolledBack, FinalizeRolledBackFails, At
  <1> QED  BY <1>1, <1>4, <1>5, <1>6, <1>8, <1>9, <1>10, <1>11, <1>12, <1>13, <1>14

\* Every step keeps the order of the rows.
LEMMA OrderStep == ASSUME IInv, InOrder, [Next]_vars PROVE InOrder'
  <1>1. ASSUME UNCHANGED <<journal, job>> PROVE InOrder'
    BY <1>1 DEF InOrder, InStep, Doing
  <1>2. ASSUME NEW w \in Worker, Step(w) PROVE InOrder'
    BY <1>2, OrderAround, OrderInLoop DEF Step
  <1>3. ASSUME NEW w \in Worker, Cancel(w) PROVE InOrder'
    <2> DEFINE r == [job[w] EXCEPT !.cancelled = TRUE]
    <2>1. /\ r.mode = job[w].mode /\ r.plan = job[w].plan /\ r.idx = job[w].idx
          /\ r.pc = job[w].pc
      BY JobFields DEF Job, IInv
    <2>2. job[w].pc # "idle" /\ job' = [job EXCEPT ![w] = r] /\ UNCHANGED journal
      BY <1>3 DEF Cancel, At, dbVars
    <2>3. \A v \in Worker \ {w} : job[v].pc = "idle"
      BY <2>2, OthersIdle
    <2> HIDE DEF r
    <2> QED  BY <2>1, <2>2, <2>3, OrderKept DEF Doing
  <1>4. ASSUME Crash PROVE InOrder'
    BY <1>4 DEF Crash, InOrder, InStep, Doing, Idle, Busy, Filing
  <1>5. ASSUME NEW p \in Plan, SaveDraft(p) \/ Approve(p) PROVE InOrder'
    BY <1>1, <1>5 DEF SaveDraft, Approve, SetState
  <1>6. ASSUME NEW x \in Path, NEW c \in Foreign \cup {Absent}, ExternalEdit(x, c) PROVE InOrder'
    BY <1>1, <1>6 DEF ExternalEdit, dbVars
  <1>7. CASE UNCHANGED vars
    BY <1>1, <1>7 DEF vars
  <1> QED  BY <1>2, <1>3, <1>4, <1>5, <1>6, <1>7, OrderAround DEF Next

\* What the pipeline sees of a plan's rows
Done(p) == {i \in Index : journal[p][i].status = "done" /\ journal[p][i].rb # "done"}
Reverted(p) == {i \in Index : journal[p][i].rb = "done"}

\* A step that changes no plan state and what is seen of no row is none of the
\* pipeline's.
LEMMA PipelineStutters ==
    ASSUME UNCHANGED state,
           \A p \in Plan : Done(p)' = Done(p) /\ Reverted(p)' = Reverted(p)
    PROVE  UNCHANGED Pipeline!vars
  BY DEF Pipeline!vars, Done, Reverted

\* A step that changes one plan's state and no row
LEMMA PipelineBecomes ==
    ASSUME NEW p \in Plan, NEW s, state' = [state EXCEPT ![p] = s], UNCHANGED journal
    PROVE  Pipeline!Become(p, s)
  BY DEF Pipeline!Become

\* A step that writes one row and no plan state
LEMMA PipelineRow ==
    ASSUME IInv, NEW p \in Plan, NEW i \in Index, NEW row, SetRow(p, i, row)
    PROVE  /\ \A q \in Plan \ {p} : Done(q)' = Done(q) /\ Reverted(q)' = Reverted(q)
           /\ Done(p)' = IF row.status = "done" /\ row.rb # "done"
                         THEN Done(p) \cup {i} ELSE Done(p) \ {i}
           /\ Reverted(p)' = IF row.rb = "done" THEN Reverted(p) \cup {i}
                                                ELSE Reverted(p) \ {i}
           /\ UNCHANGED state
  <1>1. /\ \A q \in Plan \ {p} : journal'[q] = journal[q]
        /\ journal'[p][i] = row
        /\ \A k \in Index \ {i} : journal'[p][k] = journal[p][k]
        /\ UNCHANGED state
    BY DEF SetRow, IInv, TypeOK
  <1> QED  BY <1>1 DEF Done, Reverted

\* What the pipeline sees of a plan that is EXECUTING, or not yet.
LEMMA PipelineSees ==
    ASSUME IInv, NEW p \in Plan
    PROVE  /\ Done(p) \subseteq Work(p) /\ Reverted(p) \subseteq Work(p)
           /\ CommitReady(p) => Done(p) = Work(p) /\ Reverted(p) = {}
           /\ AbortReady(p) => Done(p) = {}
  <1>1. ASSUME NEW i \in Index, i \notin Work(p) PROVE i \notin Done(p) /\ i \notin Reverted(p)
    <2>1. journal[p][i] = NoRow
      BY <1>1, RowFacts DEF IInv
    <2> QED  BY <2>1, NoRowFields DEF Done, Reverted
  <1>2. Done(p) \subseteq Work(p) /\ Reverted(p) \subseteq Work(p)
    BY <1>1 DEF Done, Reverted
  <1> QED  BY <1>2 DEF Done, Reverted, CommitReady, AbortReady, Work

\* The plans that the pipeline takes for reserved are.
LEMMA PipelineReserved == Pipeline!Reserved \subseteq Reserved
  BY DEF Pipeline!Reserved, Reserved

\* An empty project is an empty pipeline.
LEMMA PipelineBegins == Init => Pipeline!Init
  <1> SUFFICES ASSUME Init PROVE Pipeline!Init
    OBVIOUS
  <1>1. ASSUME NEW p \in Plan
        PROVE  /\ {i \in Index : journal[p][i].status = "done" /\ journal[p][i].rb # "done"} = {}
               /\ {i \in Index : journal[p][i].rb = "done"} = {}
    BY NoRowFields DEF Init
  <1> QED  BY <1>1 DEF Init, Pipeline!Init

\* Planning, approval and the start of a run
LEMMA CallersPipe ==
    ASSUME IInv
    PROVE  /\ \A p \in Plan : SaveDraft(p) \/ Approve(p) => Pipeline!Next
           /\ \A w \in Worker, ps \in SUBSET Plan : StartExecute(w, ps) => Pipeline!Next
  <1>1. ASSUME NEW p \in Plan, SaveDraft(p) PROVE Pipeline!Next
    <2>1. /\ state' = [q \in Plan |-> IF q \in {p} THEN "DRAFT" ELSE state[q]]
          /\ state[p] = "NONE" /\ UNCHANGED journal
      BY <1>1 DEF SaveDraft, SetState, IInv, TypeOK
    <2>2. Pipeline!Submit({p})
      BY <2>1 DEF Pipeline!Submit
    <2> QED  BY <2>2 DEF Pipeline!Next
  <1>2. ASSUME NEW p \in Plan, Approve(p) PROVE Pipeline!Next
    <2>1. Pipeline!Become(p, "APPROVED")
      BY <1>2, PipelineBecomes DEF Approve, SetState
    <2> QED  BY <1>2, <2>1 DEF Approve, Pipeline!Approve, Pipeline!Next
  <1>3. ASSUME NEW w \in Worker, NEW ps \in SUBSET Plan, StartExecute(w, ps)
        PROVE  Pipeline!Next
    <2> DEFINE new == {p \in ps : state[p] = "NONE"}
    <2>1. /\ state' = [p \in Plan |-> IF p \in new THEN "APPROVED" ELSE state[p]]
          /\ UNCHANGED journal
      BY <1>3 DEF StartExecute
    <2>2. Pipeline!Submit(new)
      BY <2>1 DEF Pipeline!Submit
    <2> QED  BY <2>2 DEF Pipeline!Next
  <1> QED  BY <1>1, <1>2, <1>3

\* From the stale check to the claim
LEMMA PreparationPipes ==
    ASSUME IInv, NEW w \in Worker, NEW p, p = job[w].plan
    PROVE  /\ Invalidate(w) => Pipeline!Next \/ UNCHANGED Pipeline!vars
           /\ Reserve(w) => Pipeline!Next
           /\ BeginJournal(w) => UNCHANGED Pipeline!vars
           /\ BeginJournalFails(w) => Pipeline!Next \/ UNCHANGED Pipeline!vars
           /\ Claim(w) => Pipeline!Next
  <1>0. Agrees(job[w]) /\ Agreement
    BY DEF IInv, Agreement, JobOK
  <1>q. ASSUME UNCHANGED <<state, journal>> PROVE UNCHANGED Pipeline!vars
    BY <1>q, PipelineStutters DEF Done, Reverted
  <1>1. ASSUME Invalidate(w) PROVE Pipeline!Next \/ UNCHANGED Pipeline!vars
    <2>1. p \in Plan
      BY <1>0, <1>1 DEF Invalidate, At, Agrees
    <2>2. CASE state[p] = "APPROVED" /\ SetState(p, "DRAFT")
      <3>1. Pipeline!Become(p, "DRAFT")
        BY <2>1, <2>2, PipelineBecomes DEF SetState
      <3> QED  BY <2>1, <2>2, <3>1 DEF Pipeline!Invalidate, Pipeline!Next
    <2> QED  BY <1>1, <1>q, <2>2 DEF Invalidate, dbVars
  <1>2. ASSUME Reserve(w) PROVE Pipeline!Next
    <2>1. p \in Plan /\ Reserved = {} /\ state[p] = "APPROVED" /\ SetState(p, "STALE_CHECKED")
      BY <1>0, <1>2 DEF Reserve, At, Agrees
    <2>2. Pipeline!Become(p, "STALE_CHECKED")
      BY <2>1, PipelineBecomes DEF SetState
    <2>3. Pipeline!Reserved = {}
      BY <2>1, PipelineReserved
    <2> QED  BY <2>1, <2>2, <2>3 DEF Pipeline!Reserve, Pipeline!Next
  <1>3. ASSUME BeginJournal(w) PROVE UNCHANGED Pipeline!vars
    <2>1. p \in Plan /\ UNCHANGED state
      BY <1>0, <1>3 DEF BeginJournal, At, Agrees
    <2>2. \A q \in Plan \ {p} : journal'[q] = journal[q]
      BY <1>3 DEF BeginJournal, IInv, TypeOK
    <2>3. ASSUME NEW i \in Index
          PROVE  \/ journal'[p][i] = journal[p][i]
                 \/ /\ journal[p][i] = NoRow
                    /\ journal'[p][i].status = "pending" /\ journal'[p][i].rb = "none"
      BY <1>3, <2>1 DEF BeginJournal, IInv, TypeOK, NoRow
    <2>4. Done(p)' = Done(p) /\ Reverted(p)' = Reverted(p)
      BY <2>3, NoRowFields DEF Done, Reverted
    <2>5. \A q \in Plan \ {p} : Done(q)' = Done(q) /\ Reverted(q)' = Reverted(q)
      BY <2>2 DEF Done, Reverted
    <2> QED  BY <2>1, <2>4, <2>5, PipelineStutters
  <1>4. ASSUME BeginJournalFails(w) PROVE Pipeline!Next \/ UNCHANGED Pipeline!vars
    <2>1. p \in Plan
      BY <1>0, <1>4 DEF BeginJournalFails, At, Agrees
    <2>2. CASE state[p] = "STALE_CHECKED" /\ SetState(p, "APPROVED")
      <3>1. Pipeline!Become(p, "APPROVED")
        BY <2>1, <2>2, PipelineBecomes DEF SetState
      <3> QED  BY <2>1, <2>2, <3>1 DEF Pipeline!Release, Pipeline!Next
    <2> QED  BY <1>4, <1>q, <2>2 DEF BeginJournalFails, dbVars
  <1>5. ASSUME Claim(w) PROVE Pipeline!Next
    <2>1. p \in Plan /\ state[p] = "STALE_CHECKED" /\ SetState(p, "EXECUTING")
      BY <1>0, <1>5 DEF Claim, At, Agrees
    <2>2. Pipeline!Become(p, "EXECUTING")
      BY <2>1, PipelineBecomes DEF SetState
    <2> QED  BY <2>1, <2>2 DEF Pipeline!Begin, Pipeline!Next
  <1> QED  BY <1>1, <1>2, <1>3, <1>4, <1>5

\* What an action that ran is recorded as: applied, after those before it.
LEMMA DonePipes ==
    ASSUME IInv, InOrder, NEW w \in Worker,
           NEW p, p = job[w].plan, NEW i, i = job[w].idx
    PROVE  /\ MarkDone(w) => Pipeline!Next
           /\ MarkFailed(w) => UNCHANGED Pipeline!vars
  <1>0. ASSUME job[w].pc \in {"succeeded", "failed"}, job[w].mode = "do"
        PROVE  /\ p \in Plan /\ i \in Work(p) /\ i \in Index /\ state[p] = "EXECUTING"
               /\ journal[p][i] \in Row
               /\ Reverted(p) = {}
               /\ \A k \in Work(p) : k \in Done(p) <=> k < i
    <2>1. Agrees(job[w]) /\ InStep(job[w])
      BY DEF IInv, Agreement, JobOK, InOrder
    <2>2. /\ p \in Plan /\ i \in Work(p) /\ state[p] = "EXECUTING"
          /\ \A k \in Work(p) : journal[p][k].rb = "none"
          /\ \A k \in Work(p) : journal[p][k].status = "done" <=> k < i
      BY <1>0, <2>1 DEF Agrees, InStep, Doing, Busy, Filing
    <2>3. i \in Index /\ journal[p][i] \in Row
      BY <2>2, RowFields DEF Work, IInv
    <2>4. Reverted(p) \subseteq Work(p)
      BY <2>2, PipelineSees
    <2> QED  BY <2>2, <2>3, <2>4 DEF Done, Reverted, Work
  <1>1. ASSUME MarkDone(w) PROVE Pipeline!Next
    <2> DEFINE row == [journal[p][i] EXCEPT !.status = "done", !.target = job[w].to]
    <2>1. job[w].pc = "succeeded" /\ job[w].mode = "do" /\ SetRow(p, i, row)
      BY <1>1 DEF MarkDone, At
    <2>2. /\ p \in Plan /\ i \in Work(p) /\ i \in Index /\ state[p] = "EXECUTING"
          /\ journal[p][i] \in Row
          /\ Reverted(p) = {}
          /\ \A k \in Work(p) : k \in Done(p) <=> k < i
      BY <1>0, <2>1
    <2>3. i \notin Reverted(p) /\ journal[p][i].rb # "done"
      BY <2>2 DEF Reverted
    <2>4. row.status = "done" /\ row.rb # "done"
      BY <2>2, <2>3 DEF Row
    <2> HIDE DEF row
    <2>5. /\ \A q \in Plan \ {p} : Done(q)' = Done(q) /\ Reverted(q)' = Reverted(q)
          /\ Done(p)' = Done(p) \cup {i} /\ Reverted(p)' = Reverted(p)
          /\ UNCHANGED state
      BY <2>1, <2>2, <2>3, <2>4, PipelineRow
    <2>6. /\ i \in Work(p) \ Done(p)
          /\ {k \in Work(p) : k < i} \subseteq Done(p)
      BY <2>2, SizeAssumption DEF Index
    <2>7. /\ [q \in Plan |-> Done(q)'] = [[q \in Plan |-> Done(q)] EXCEPT ![p] = @ \cup {i}]
          /\ [q \in Plan |-> Reverted(q)'] = [q \in Plan |-> Reverted(q)]
      BY <2>2, <2>5
    <2>8. Pipeline!Apply(p, i)
      BY <2>2, <2>5, <2>6, <2>7 DEF Pipeline!Apply, Done, Reverted
    <2> QED  BY <2>2, <2>8 DEF Pipeline!Next
  <1>2. ASSUME MarkFailed(w) PROVE UNCHANGED Pipeline!vars
    <2> DEFINE row == [journal[p][i] EXCEPT !.status = "failed"]
    <2>1. job[w].pc = "failed" /\ job[w].mode = "do"
      BY <1>2 DEF MarkFailed, At
    <2>2. CASE UNCHANGED dbVars
      BY <2>2, PipelineStutters DEF dbVars, Done, Reverted
    <2>3. CASE SetRow(p, i, row)
      <3>1. /\ p \in Plan /\ i \in Work(p) /\ i \in Index
            /\ journal[p][i] \in Row /\ Reverted(p) = {}
            /\ \A k \in Work(p) : k \in Done(p) <=> k < i
        BY <1>0, <2>1
      <3>2. i \notin Done(p) /\ i \notin Reverted(p)
        BY <3>1, SizeAssumption DEF Index
      <3>3. row.status = "failed" /\ row.rb # "done"
        BY <3>1, <3>2 DEF Row, Reverted
      <3>4. SetRow(p, i, row)
        BY <2>3
      <3> HIDE DEF row
      <3>5. /\ \A q \in Plan \ {p} : Done(q)' = Done(q) /\ Reverted(q)' = Reverted(q)
            /\ Done(p)' = Done(p) \ {i} /\ Reverted(p)' = Reverted(p) \ {i}
            /\ UNCHANGED state
        BY <3>1, <3>3, <3>4, PipelineRow
      <3> QED  BY <3>2, <3>5, PipelineStutters
    <2> QED  BY <1>2, <2>2, <2>3 DEF MarkFailed
  <1> QED  BY <1>1, <1>2

\* What a rollback is recorded as: undone, or nothing.
LEMMA UndonePipes ==
    ASSUME IInv, NEW w \in Worker, UndoSucceeded(w) \/ UndoFailed(w),
           NEW p, p = job[w].plan, NEW i, i = job[w].idx
    PROVE  Pipeline!Next \/ UNCHANGED Pipeline!vars
  <1>1. PICK fine, saved \in BOOLEAN : Undone(w, fine, saved)
    BY DEF UndoSucceeded, UndoFailed
  <1>2. /\ p \in Plan /\ i \in Work(p) /\ state[p] = "EXECUTING"
        /\ journal[p][i].rb # "done"
    BY DEF IInv, Agreement, JobOK, Agrees, UndoSucceeded, UndoFailed, At, Busy, Filing
  <1>3. i \in Index /\ journal[p][i] \in Row
    BY <1>2, RowFields DEF Work, IInv
  <1> DEFINE row == [journal[p][i] EXCEPT !.rb = IF fine THEN "done" ELSE "failed"]
  <1>4. CASE UNCHANGED dbVars
    BY <1>4, PipelineStutters DEF dbVars, Done, Reverted
  <1>5. CASE SetRow(p, i, row)
    <2>1. row.status = journal[p][i].status /\ row.rb = IF fine THEN "done" ELSE "failed"
      BY <1>3 DEF Row
    <2>2. SetRow(p, i, row)
      BY <1>5
    <2>3. i \in Done(p) <=> journal[p][i].status = "done"
      BY <1>2, <1>3 DEF Done
    <2>4. i \notin Reverted(p)
      BY <1>2 DEF Reverted
    <2> HIDE DEF row
    <2>5. /\ \A q \in Plan \ {p} : Done(q)' = Done(q) /\ Reverted(q)' = Reverted(q)
          /\ UNCHANGED state
      BY <1>2, <1>3, <2>2, PipelineRow
    <2>6. CASE fine
      <3>1. Done(p)' = Done(p) \ {i} /\ Reverted(p)' = Reverted(p) \cup {i}
        BY <1>2, <1>3, <2>1, <2>2, <2>6, PipelineRow
      <3>2. /\ [q \in Plan |-> Done(q)'] = [[q \in Plan |-> Done(q)] EXCEPT ![p] = @ \ {i}]
            /\ [q \in Plan |-> Reverted(q)'] =
                  [[q \in Plan |-> Reverted(q)] EXCEPT ![p] = @ \cup {i}]
        BY <1>2, <2>5, <3>1
      <3>3. Pipeline!Undo(p, i)
        BY <1>2, <2>5, <3>2 DEF Pipeline!Undo, Done, Reverted
      <3> QED  BY <1>2, <1>3, <3>3 DEF Pipeline!Next
    <2>7. CASE ~fine
      <3>1. /\ Done(p)' = IF row.status = "done" THEN Done(p) \cup {i} ELSE Done(p) \ {i}
            /\ Reverted(p)' = Reverted(p) \ {i}
        BY <1>2, <1>3, <2>1, <2>2, <2>7, PipelineRow
      <3>2. Done(p)' = Done(p) /\ Reverted(p)' = Reverted(p)
        BY <2>1, <2>3, <2>4, <3>1
      <3> QED  BY <2>5, <3>2, PipelineStutters
    <2> QED  BY <2>6, <2>7
  <1> QED  BY <1>1, <1>4, <1>5 DEF Undone

\* The ends of a plan, in a run and in a recovery
LEMMA EndsPipe ==
    ASSUME IInv, NEW w \in Worker
    PROVE  /\ FinalizeVerified(w) => Pipeline!Next
           /\ FinalizeRolledBack(w) => Pipeline!Next
           /\ RecoverEnd(w) => Pipeline!Next \/ UNCHANGED Pipeline!vars
           /\ \A p \in Plan : RecoverReset(w, p) => Pipeline!Next
  <1>0. ASSUME job[w].pc \in {"commit", "abort"}
        PROVE  job[w].plan \in Plan /\ state[job[w].plan] = "EXECUTING"
    BY <1>0 DEF IInv, Agreement, JobOK, Agrees, Busy
  <1>1. ASSUME FinalizeVerified(w) PROVE Pipeline!Next
    <2>1. PICK p \in Plan : /\ p = job[w].plan /\ state[p] = "EXECUTING" /\ CommitReady(p)
                            /\ state' = [state EXCEPT ![p] = "VERIFIED"] /\ UNCHANGED journal
      BY <1>0, <1>1 DEF FinalizeVerified, At
    <2>2. Pipeline!Become(p, "VERIFIED")
      BY <2>1, PipelineBecomes
    <2>3. Done(p) = Work(p) /\ Reverted(p) = {}
      BY <2>1, PipelineSees
    <2>4. Pipeline!Commit(p)
      BY <2>1, <2>2, <2>3 DEF Pipeline!Commit, Done, Reverted
    <2> QED  BY <2>4 DEF Pipeline!Next
  <1>2. ASSUME NEW p \in Plan, state[p] = "EXECUTING", AbortReady(p), SetState(p, "ROLLED_BACK")
        PROVE  Pipeline!Next
    <2>1. Pipeline!Become(p, "ROLLED_BACK")
      BY <1>2, PipelineBecomes DEF SetState
    <2>2. Done(p) = {}
      BY <1>2, PipelineSees
    <2>3. Pipeline!Abort(p)
      BY <1>2, <2>1, <2>2 DEF Pipeline!Abort, Done
    <2> QED  BY <2>3 DEF Pipeline!Next
  <1>3. ASSUME FinalizeRolledBack(w) PROVE Pipeline!Next
    BY <1>0, <1>2, <1>3 DEF FinalizeRolledBack, At
  <1>4. ASSUME RecoverEnd(w) PROVE Pipeline!Next \/ UNCHANGED Pipeline!vars
    <2>1. CASE UNCHANGED dbVars
      BY <2>1, PipelineStutters DEF dbVars, Done, Reverted
    <2> QED  BY <1>0, <1>2, <1>4, <2>1 DEF RecoverEnd, At
  <1>5. ASSUME NEW p \in Plan, RecoverReset(w, p) PROVE Pipeline!Next
    <2>1. state[p] \in {"STALE_CHECKED", "EXECUTING"} /\ ~Journaled(p) /\ SetState(p, "DRAFT")
      BY <1>5 DEF RecoverReset
    <2>2. Pipeline!Become(p, "DRAFT")
      BY <2>1, PipelineBecomes DEF SetState
    <2>3. state[p] = "EXECUTING" => Work(p) = {}
      BY <2>1, RowFacts DEF Journaled, Work, IInv
    <2>4. Pipeline!Release(p)
      BY <2>1, <2>2, <2>3 DEF Pipeline!Release
    <2> QED  BY <2>4 DEF Pipeline!Next
  <1> QED  BY <1>1, <1>3, <1>4, <1>5

\* The steps of a job that write neither a plan state nor a row
LEMMA QuietSteps ==
    ASSUME NEW w \in Worker
    PROVE  /\ \A p \in Plan : NextPlan(w, p) \/ RecoverSkip(w, p) \/ RecoverBegin(w, p) =>
                UNCHANGED <<state, journal>>
           /\ EndBatch(w) \/ CheckFails(w) \/ ReserveFails(w) \/ ClaimFails(w) =>
                UNCHANGED <<state, journal>>
           /\ ActFinished(w) \/ ActCancelled(w) \/ ActSkip(w) \/ ActBegin(w) =>
                UNCHANGED <<state, journal>>
           /\ FileStep(w) \/ MarkDoneFails(w) \/ UndoBegins(w) \/ UndoEnds(w) =>
                UNCHANGED <<state, journal>>
           /\ FinalizeVerifiedFails(w) \/ FinalizeRolledBackFails(w) \/ StartRecover(w)
                \/ Cancel(w) \/ Crash => UNCHANGED <<state, journal>>
  BY DEF NextPlan, RecoverSkip, RecoverBegin, EndBatch, CheckFails, ReserveFails, ClaimFails,
     ActFinished, ActCancelled, ActSkip, ActBegin, FileStep, CopyOpens, CopyRefused, CopyFills,
     CopyFails, VerifyPasses, VerifyFails, RemoveSource, RemoveFails, RemoveCopy,
     RemoveCopyFails, MarkDoneFails, UndoBegins, UndoEnds, FinalizeVerifiedFails,
     FinalizeRolledBackFails, StartRecover, Cancel, Crash, dbVars

\* Every step of a job is one of the pipeline's or none of its concern.
LEMMA StepPipes ==
    ASSUME IInv, InOrder, NEW w \in Worker, Step(w)
    PROVE  Pipeline!Next \/ UNCHANGED Pipeline!vars
  <1>1. ASSUME UNCHANGED <<state, journal>> PROVE UNCHANGED Pipeline!vars
    BY <1>1, PipelineStutters DEF Done, Reverted
  <1>2. CASE \/ EndBatch(w) \/ CheckFails(w) \/ ReserveFails(w) \/ ClaimFails(w)
             \/ ActFinished(w) \/ ActCancelled(w) \/ ActSkip(w) \/ ActBegin(w)
             \/ FileStep(w) \/ MarkDoneFails(w) \/ UndoBegins(w) \/ UndoEnds(w)
             \/ FinalizeVerifiedFails(w) \/ FinalizeRolledBackFails(w)
    BY <1>1, <1>2, QuietSteps
  <1>3. CASE \E p \in Plan : NextPlan(w, p) \/ RecoverSkip(w, p) \/ RecoverBegin(w, p)
    BY <1>1, <1>3, QuietSteps
  <1>4. CASE \E p \in Plan : RecoverReset(w, p)
    BY <1>4, EndsPipe
  <1>5. CASE Invalidate(w) \/ Reserve(w) \/ BeginJournal(w) \/ BeginJournalFails(w) \/ Claim(w)
    BY <1>5, PreparationPipes
  <1>6. CASE MarkDone(w) \/ MarkFailed(w)
    BY <1>6, DonePipes
  <1>7. CASE UndoSucceeded(w) \/ UndoFailed(w)
    BY <1>7, UndonePipes
  <1>8. CASE FinalizeVerified(w) \/ FinalizeRolledBack(w) \/ RecoverEnd(w)
    BY <1>8, EndsPipe
  <1> QED  BY <1>2, <1>3, <1>4, <1>5, <1>6, <1>7, <1>8 DEF Step

\* The journal and the plan states, seen through crashes, faults and
\* recoveries, are a pipeline: one reservation at a time, actions applied in
\* their order and only while none was undone, VERIFIED with all of them
\* applied, ROLLED_BACK with none, and no way out of either.
THEOREM ExecutionImplementsPipeline == Spec => PipelineSpec
  <1>1. ASSUME IInv, InOrder, [Next]_vars PROVE Pipeline!Next \/ UNCHANGED Pipeline!vars
    <2>1. ASSUME UNCHANGED <<state, journal>> PROVE UNCHANGED Pipeline!vars
      BY <2>1, PipelineStutters DEF Done, Reverted
    <2>2. ASSUME NEW p \in Plan, SaveDraft(p) \/ Approve(p) PROVE Pipeline!Next
      BY <1>1, <2>2, CallersPipe
    <2>3. ASSUME NEW w \in Worker, NEW ps \in SUBSET Plan, StartExecute(w, ps)
          PROVE  Pipeline!Next
      BY <1>1, <2>3, CallersPipe
    <2>4. ASSUME NEW w \in Worker, Step(w) PROVE Pipeline!Next \/ UNCHANGED Pipeline!vars
      BY <1>1, <2>4, StepPipes
    <2>5. ASSUME NEW w \in Worker, StartRecover(w) \/ Cancel(w) \/ Crash
          PROVE  UNCHANGED Pipeline!vars
      BY <2>1, <2>5, QuietSteps
    <2>6. ASSUME Crash PROVE UNCHANGED Pipeline!vars
      BY <2>1, <2>6 DEF Crash, dbVars
    <2>7. ASSUME NEW x \in Path, NEW c \in Foreign \cup {Absent}, ExternalEdit(x, c)
          PROVE  UNCHANGED Pipeline!vars
      BY <2>1, <2>7 DEF ExternalEdit, dbVars
    <2>8. CASE UNCHANGED vars
      BY <2>1, <2>8 DEF vars
    <2> QED  BY <1>1, <2>2, <2>3, <2>4, <2>5, <2>6, <2>7, <2>8 DEF Next
  <1>2. Init => InOrder
    BY DEF Init, InOrder, InStep, Doing, Idle, Busy, Filing
  <1>3. IInv /\ InOrder /\ [Next]_vars => InOrder'
    BY OrderStep
  <1> QED  BY <1>1, <1>2, <1>3, Inductive, PipelineBegins, PTL
           DEF Spec, PipelineSpec, Pipeline!Spec

-----------------------------------------------------------------------------
(* Outcomes are real *)

\* A scanned file is where it was, unless another program destroyed a copy.
Unmoved(s) == s \in harmed \/ data[s] = s
\* What is at x is not another scanned file than s.
Own(x, s) == s \in harmed \/ data[x] \notin Source \ {s}
\* The file of action a is at x, and only there if a moves it.
Moved(a, x) == \/ a.src \in harmed
               \/ data[x] = a.src /\ (a.kind # "COPY" => data[a.src] # a.src)

\* A file whose metadata are those of the scan has no other scanned file's
\* content; the files of a reserved plan are all where they were.
Untouched == \A s \in scanned : data[s] \notin Source \ {s}
PlanReal(p) ==
    state[p] = "STALE_CHECKED" =>
       \A i \in Work(p) : LET s == Actions[p][i].src
                          IN  Unmoved(s) /\ data[s] \notin Source \ {s}

\* What an executing plan's rows say of the files, whatever the run that wrote
\* them was interrupted by.
RowReal(p, i) ==
    LET s == Actions[p][i].src
        row == journal[p][i]
    IN  state[p] = "EXECUTING" =>
          /\ Own(s, s)
          /\ Actions[p][i].kind = "COPY" => Unmoved(s)
          /\ row.rb = "done" => Unmoved(s)
          /\ Recorded(p, i) => Own(row.target, s)

\* What a job knows: going forward, that the files of the actions behind it are
\* where their rows say and those ahead where they were; going back, that it
\* puts back what it took.
ActionReal(j, k) ==
    LET a == Actions[j.plan][k]
    IN  /\ j.at[k] # None => Own(j.at[k], a.src)
        /\ j.mode = "do" =>
             /\ data[a.src] \notin Source \ {a.src}
             /\ j.at[k] # None => k < j.idx /\ j.at[k] = journal[j.plan][k].target
             /\ k < j.idx => Moved(a, journal[j.plan][k].target)
             /\ k > j.idx => Unmoved(a.src)
             /\ k = j.idx /\ j.pc = "succeeded" => Moved(a, j.to)
             /\ k = j.idx /\ j.pc \notin {"succeeded", "failed"} => Unmoved(a.src)
        /\ j.mode # "do" /\ k = j.idx =>
             /\ j.pc \in Filing \ {"succeeded", "failed"} => j.at[k] = j.from
             /\ j.pc \in {"remove", "succeeded"} => Unmoved(a.src)
             /\ j.pc = "fill" => a.src \in harmed \/ j.buf \notin Source \ {a.src}
JobReal(j) == j.pc \in Busy => \A k \in Work(j.plan) : ActionReal(j, k)

OInv == /\ Untouched
        /\ \A p \in Plan : PlanReal(p) /\ \A i \in Work(p) : RowReal(p, i)
        /\ \A w \in Worker : JobReal(job[w])

\* No action of a plan writes where another one's file was scanned.
LEMMA SourcesApart ==
    ASSUME NEW p \in Plan, NEW i \in Work(p), NEW k \in Work(p)
    PROVE  /\ Actions[p][i].src \in Source /\ Actions[p][i].src \in Path
           /\ i # k => Actions[p][i].src # Actions[p][k].src
           /\ Actions[p][i].src \notin Route(Actions[p][k])
  <1>1. i \in Index /\ k \in Index /\ Actions[p][i] \in Action /\ Actions[p][k] \in Action
    BY ActionsAssumption DEF Work
  <1>2. Actions[p][i].kind # "KEEP" /\ Actions[p][k].kind # "KEEP"
    BY DEF Work
  <1>3. Actions[p][i].src \in Source /\ Actions[p][k].kind \in {"QUARANTINE", "MOVE", "COPY"}
    BY <1>1, <1>2 DEF Action
  <1>4. CASE Actions[p][k].kind = "QUARANTINE"
    BY <1>1, <1>2, <1>3, <1>4, PlansAssumption, RootsAssumption DEF Route, Path
  <1>5. CASE Actions[p][k].kind # "QUARANTINE"
    BY <1>1, <1>2, <1>3, <1>5, PlansAssumption DEF Route, Path
  <1> QED  BY <1>4, <1>5

\* A step of worker w: what the plans, the rows and its new record have to say.
LEMMA RealStep ==
    ASSUME IInv, OInv, NEW w \in Worker, NEW r,
           \A v \in Worker \ {w} : job[v].pc = "idle",
           job' = [job EXCEPT ![w] = r], Untouched', JobReal(r)',
           \A p \in Plan : PlanReal(p)' /\ \A i \in Work(p) : RowReal(p, i)'
    PROVE  OInv'
  <1>1. job'[w] = r /\ \A v \in Worker \ {w} : job'[v] = job[v]
    BY DEF IInv, TypeOK
  <1>2. ASSUME NEW v \in Worker \ {w} PROVE JobReal(job[v])'
    BY <1>1, <1>2 DEF JobReal, Busy, Filing
  <1>3. JobReal(job[w])'
    BY <1>1 DEF JobReal, ActionReal
  <1> QED  BY <1>2, <1>3 DEF OInv

\* A step that touches no file and whose plan and rows, if they stay reserved,
\* are as they were.
LEMMA RealQuiet ==
    ASSUME IInv, OInv, NEW w \in Worker, NEW r,
           \A v \in Worker \ {w} : job[v].pc = "idle",
           job' = [job EXCEPT ![w] = r], UNCHANGED fsVars,
           \A p \in Plan :
              /\ state'[p] = "STALE_CHECKED" => state[p] = "STALE_CHECKED"
              /\ state'[p] = "EXECUTING" => state[p] = "EXECUTING" /\ journal'[p] = journal[p],
           JobReal(r)'
    PROVE  OInv'
  <1>0. data' = data /\ scanned' = scanned /\ harmed' = harmed
    BY DEF fsVars
  <1>1. Untouched'
    BY <1>0 DEF OInv, Untouched
  <1>2. ASSUME NEW p \in Plan PROVE PlanReal(p)'
    <2>1. PlanReal(p)
      BY DEF OInv
    <2> QED  BY <1>0, <2>1 DEF PlanReal, Unmoved
  <1>3. ASSUME NEW p \in Plan, NEW i \in Work(p) PROVE RowReal(p, i)'
    <2>1. RowReal(p, i)
      BY DEF OInv
    <2> QED  BY <1>0, <2>1 DEF RowReal, Unmoved, Own, Recorded
  <1> QED  BY <1>1, <1>2, <1>3, RealStep

\* A job that is not at its plan's files has nothing to know.
LEMMA RealResting ==
    ASSUME IInv, OInv, NEW w \in Worker, NEW r, r.pc \notin Busy,
           \A v \in Worker \ {w} : job[v].pc = "idle",
           job' = [job EXCEPT ![w] = r], UNCHANGED fsVars,
           \A p \in Plan :
              /\ state'[p] = "STALE_CHECKED" => state[p] = "STALE_CHECKED"
              /\ state'[p] = "EXECUTING" => state[p] = "EXECUTING" /\ journal'[p] = journal[p]
    PROVE  OInv'
  <1>1. JobReal(r)'
    BY DEF JobReal
  <1> QED  BY <1>1, RealQuiet

\* A job that ends or goes on to its next plan
LEMMA RealLeaving ==
    ASSUME IInv, OInv, NEW w \in Worker, job[w].pc # "idle",
           Stop(w) \/ Continue(w) \/ Settle(w), UNCHANGED fsVars,
           \A p \in Plan :
              /\ state'[p] = "STALE_CHECKED" => state[p] = "STALE_CHECKED"
              /\ state'[p] = "EXECUTING" => state[p] = "EXECUTING" /\ journal'[p] = journal[p]
    PROVE  OInv'
  <1>1. \A v \in Worker \ {w} : job[v].pc = "idle"
    BY OthersIdle
  <1>2. Stop(w) \/ Continue(w)
    BY DEF Settle
  <1>3. CASE Stop(w)
    <2>1. job' = [job EXCEPT ![w] = Idle] /\ Idle.pc \notin Busy
      BY <1>3 DEF Stop, Idle, Busy, Filing
    <2> QED  BY <1>1, <2>1, RealResting
  <1>4. CASE Continue(w)
    <2>1. job' = [job EXCEPT ![w] = NextOf(w)] /\ NextOf(w).pc \notin Busy
      BY <1>4 DEF Continue, NextOf, Idle, Busy, Filing
    <2> QED  BY <1>1, <2>1, RealResting
  <1> QED  BY <1>2, <1>3, <1>4

\* A step of a job at its plan's files that writes nothing
LEMMA RealMoving ==
    ASSUME IInv, OInv, NEW w \in Worker, NEW r, job[w].pc # "idle",
           job' = [job EXCEPT ![w] = r], UNCHANGED <<fsVars, dbVars>>, JobReal(r)
    PROVE  OInv'
  <1>1. \A v \in Worker \ {w} : job[v].pc = "idle"
    BY OthersIdle
  <1>2. /\ data' = data /\ scanned' = scanned /\ harmed' = harmed
        /\ state' = state /\ journal' = journal
    BY DEF fsVars, dbVars
  <1>3. JobReal(r)'
    BY <1>2 DEF JobReal, ActionReal, Unmoved, Own, Moved
  <1> QED  BY <1>1, <1>2, <1>3, RealQuiet

\* Real outcomes through planning, approval, and the start and end of a batch.
LEMMA CallersReal ==
    ASSUME IInv, OInv
    PROVE  /\ \A p \in Plan : SaveDraft(p) \/ Approve(p) => OInv'
           /\ \A w \in Worker, ps \in SUBSET Plan : StartExecute(w, ps) => OInv'
           /\ \A w \in Worker : StartRecover(w) => OInv'
           /\ \A w \in Worker, p \in Plan : NextPlan(w, p) => OInv'
           /\ \A w \in Worker : EndBatch(w) => OInv'
  <1>1. ASSUME NEW p \in Plan, SaveDraft(p) \/ Approve(p) PROVE OInv'
    <2>1. \E s \in {"DRAFT", "APPROVED"} : SetState(p, s)
      BY <1>1 DEF SaveDraft, Approve
    <2>2. UNCHANGED <<fsVars, job, journal>>
      BY <1>1 DEF SaveDraft, Approve, SetState
    <2>3. \A q \in Plan : state'[q] \in {"STALE_CHECKED", "EXECUTING"} => state'[q] = state[q]
      BY <2>1 DEF SetState, IInv, TypeOK
    <2>4. ASSUME NEW q \in Plan PROVE PlanReal(q)' /\ \A i \in Work(q) : RowReal(q, i)'
      BY <2>2, <2>3 DEF OInv, PlanReal, RowReal, Unmoved, Own, Recorded, fsVars
    <2>5. ASSUME NEW v \in Worker PROVE JobReal(job[v])'
      <3>1. JobReal(job[v])
        BY DEF OInv
      <3> QED  BY <2>2, <3>1 DEF JobReal, ActionReal, Unmoved, Own, Moved, fsVars
    <2>6. Untouched'
      BY <2>2 DEF OInv, Untouched, fsVars
    <2> QED  BY <2>4, <2>5, <2>6 DEF OInv
  <1>0. ASSUME NEW w \in Worker, lock = None PROVE \A v \in Worker \ {w} : job[v].pc = "idle"
    BY <1>0, NamesAssumption DEF IInv, Agreement, JobOK
  <1>2. ASSUME NEW w \in Worker, NEW ps \in SUBSET Plan, StartExecute(w, ps) PROVE OInv'
    <2> DEFINE r == [Idle EXCEPT !.pc = "next", !.batch = ps]
    <2>1. r.pc \notin Busy
      BY DEF Idle, Busy, Filing
    <2>2. job' = [job EXCEPT ![w] = r] /\ lock = None /\ UNCHANGED <<fsVars, journal>>
      BY <1>2 DEF StartExecute
    <2>3. \A q \in Plan : state'[q] \in {"STALE_CHECKED", "EXECUTING"} => state'[q] = state[q]
      BY <1>2 DEF StartExecute
    <2> HIDE DEF r
    <2> QED  BY <1>0, <2>1, <2>2, <2>3, RealResting
  <1>3. ASSUME NEW w \in Worker, StartRecover(w) PROVE OInv'
    <2> DEFINE r == [Idle EXCEPT !.pc = "next", !.mode = "recover", !.batch = Reserved]
    <2>1. r.pc \notin Busy
      BY DEF Idle, Busy, Filing
    <2>2. job' = [job EXCEPT ![w] = r] /\ lock = None /\ UNCHANGED <<fsVars, state, journal>>
      BY <1>3 DEF StartRecover, dbVars
    <2> HIDE DEF r
    <2> QED  BY <1>0, <2>1, <2>2, RealResting
  <1>4. ASSUME NEW w \in Worker, NEW p \in Plan, NextPlan(w, p) PROVE OInv'
    <2> DEFINE r == [job[w] EXCEPT !.plan = p, !.pc = "check"]
               q == [job[w] EXCEPT !.batch = job[w].batch \ {p}]
    <2>1. job[w].pc = "next" /\ UNCHANGED <<fsVars, state, journal>>
      BY <1>4 DEF NextPlan, At, dbVars
    <2>2. r.pc \notin Busy /\ q.pc \notin Busy
      BY <2>1, JobFields DEF IInv, Job, Busy, Filing
    <2>3. job' = [job EXCEPT ![w] = r] \/ job' = [job EXCEPT ![w] = q]
      BY <1>4 DEF NextPlan
    <2>4. \A v \in Worker \ {w} : job[v].pc = "idle"
      BY <2>1, OthersIdle
    <2> HIDE DEF r, q
    <2> QED  BY <2>1, <2>2, <2>3, <2>4, RealResting
  <1>5. ASSUME NEW w \in Worker, EndBatch(w) PROVE OInv'
    BY <1>5, RealLeaving DEF EndBatch, At, dbVars
  <1> QED  BY <1>1, <1>2, <1>3, <1>4, <1>5

\* Real outcomes from the stale check to the claim: what is reserved is where
\* it was scanned.
LEMMA PreparationReal ==
    ASSUME IInv, OInv, NEW w \in Worker, NEW p, p = job[w].plan
    PROVE  /\ CheckFails(w) \/ Invalidate(w) \/ ReserveFails(w) => OInv'
           /\ Reserve(w) => OInv'
           /\ BeginJournal(w) => OInv'
           /\ BeginJournalFails(w) \/ ClaimFails(w) => OInv'
           /\ Claim(w) => OInv'
  <1>f. job[w] \in Job /\ Agrees(job[w]) /\ TypeOK
    BY JobFields DEF IInv, Agreement, JobOK
  <1>1. ASSUME \/ CheckFails(w) \/ Invalidate(w) \/ ReserveFails(w)
               \/ BeginJournalFails(w) \/ ClaimFails(w)
        PROVE  OInv'
    <2>1. /\ job[w].pc # "idle" /\ UNCHANGED <<fsVars, journal>>
          /\ Stop(w) \/ Settle(w)
          /\ UNCHANGED state \/ SetState(p, "DRAFT") \/ SetState(p, "APPROVED")
      BY <1>1 DEF CheckFails, Invalidate, ReserveFails, BeginJournalFails, ClaimFails,
         At, dbVars, SetState
    <2>2. \A q \in Plan : state'[q] \in {"STALE_CHECKED", "EXECUTING"} => state'[q] = state[q]
      BY <1>f, <2>1 DEF SetState, TypeOK
    <2> QED  BY <2>1, <2>2, RealLeaving
  <1>2. ASSUME Reserve(w) PROVE OInv'
    <2> SUFFICES ASSUME NEW r, r = [job[w] EXCEPT !.pc = "reserved"] PROVE OInv'
      OBVIOUS
    <2>1. /\ p \in Plan /\ job[w].pc = "check" /\ Fresh(p) /\ SetState(p, "STALE_CHECKED")
          /\ job' = [job EXCEPT ![w] = r] /\ UNCHANGED <<fsVars, journal>>
      BY <1>f, <1>2 DEF Reserve, At, Agrees, Goto, SetState
    <2>2. r.pc \notin Busy
      BY <1>f DEF Job, Busy, Filing
    <2>3. \A v \in Worker \ {w} : job[v].pc = "idle"
      BY <2>1, OthersIdle
    <2>4. \A q \in Plan : state'[q] = IF q = p THEN "STALE_CHECKED" ELSE state[q]
      BY <1>f, <2>1 DEF SetState, TypeOK
    <2>5. /\ data' = data /\ scanned' = scanned /\ harmed' = harmed /\ journal' = journal
      BY <2>1 DEF fsVars
    <2>6. PlanReal(p)'
      <3> SUFFICES ASSUME NEW i \in Work(p)
                   PROVE  LET s == Actions[p][i].src
                          IN  Unmoved(s)' /\ data'[s] \notin Source \ {s}
        BY DEF PlanReal
      <3> DEFINE s == Actions[p][i].src
      <3>1. s \in scanned /\ HasHashOf(data[s], s) /\ s \in Source
        BY <2>1, SourcesApart DEF Fresh
      <3>2. data[s] \notin Source \ {s}
        BY <3>1 DEF OInv, Untouched
      <3>3. data[s] = s
        BY <3>1, <3>2, ForeignAssumption DEF HasHashOf, Content
      <3> QED  BY <2>5, <3>2, <3>3 DEF Unmoved
    <2>7. ASSUME NEW q \in Plan PROVE PlanReal(q)' /\ \A i \in Work(q) : RowReal(q, i)'
      <3>1. PlanReal(q) /\ \A i \in Work(q) : RowReal(q, i)
        BY DEF OInv
      <3> QED  BY <2>4, <2>5, <2>6, <3>1 DEF PlanReal, RowReal, Unmoved, Own, Recorded
    <2>8. JobReal(r)' /\ Untouched'
      BY <2>2, <2>5 DEF JobReal, OInv, Untouched
    <2> QED  BY <2>1, <2>3, <2>7, <2>8, RealStep
  <1>3. ASSUME BeginJournal(w) PROVE OInv'
    <2> DEFINE r == [job[w] EXCEPT !.pc = "claim"]
    <2>1. /\ p \in Plan /\ job[w].pc = "reserved" /\ state[p] = "STALE_CHECKED"
          /\ job' = [job EXCEPT ![w] = r] /\ UNCHANGED <<fsVars, state>>
          /\ \A q \in Plan \ {p} : journal'[q] = journal[q]
      BY <1>f, <1>3 DEF BeginJournal, At, Agrees, Goto, TypeOK
    <2>2. r.pc \notin Busy
      BY <1>f DEF Job, Busy, Filing
    <2> HIDE DEF r
    <2>3. \A v \in Worker \ {w} : job[v].pc = "idle"
      BY <2>1, OthersIdle
    <2> QED  BY <2>1, <2>2, <2>3, RealResting
  <1>4. ASSUME Claim(w) PROVE OInv'
    <2> SUFFICES ASSUME NEW r, r = [job[w] EXCEPT !.pc = "act", !.idx = 1] PROVE OInv'
      OBVIOUS
    <2>1. /\ p \in Plan /\ job[w].pc = "claim" /\ state[p] = "STALE_CHECKED"
          /\ job[w].mode = "do" /\ job[w].at = Nowhere /\ SetState(p, "EXECUTING")
          /\ job' = [job EXCEPT ![w] = r] /\ UNCHANGED <<fsVars, journal>>
      BY <1>f, <1>4 DEF Claim, At, Agrees, SetState
    <2>2. r.pc = "act" /\ r.idx = 1 /\ r.mode = "do" /\ r.plan = p /\ r.at = Nowhere
      BY <1>f, <2>1 DEF Job
    <2>3. \A v \in Worker \ {w} : job[v].pc = "idle"
      BY <2>1, OthersIdle
    <2>4. \A q \in Plan : state'[q] = IF q = p THEN "EXECUTING" ELSE state[q]
      BY <1>f, <2>1 DEF SetState, TypeOK
    <2>5. /\ data' = data /\ scanned' = scanned /\ harmed' = harmed /\ journal' = journal
      BY <2>1 DEF fsVars
    <2>6. ASSUME NEW i \in Work(p), NEW s, s = Actions[p][i].src
          PROVE  /\ Unmoved(s) /\ data[s] \notin Source \ {s}
                 /\ i \in Index /\ ~(i < 1)
                 /\ journal[p][i].status # "done" /\ journal[p][i].rb = "none"
      <3>1. PlanReal(p)
        BY <2>1 DEF OInv
      <3>2. i \in Index /\ ~(i < 1)
        BY SizeAssumption DEF Work, Index
      <3> QED  BY <2>1, <2>6, <3>1, <3>2, RowFacts DEF PlanReal, IInv
    <2>7. ASSUME NEW q \in Plan PROVE PlanReal(q)' /\ \A i \in Work(q) : RowReal(q, i)'
      <3>1. PlanReal(q) /\ \A i \in Work(q) : RowReal(q, i)
        BY DEF OInv
      <3>2. CASE q # p
        BY <2>4, <2>5, <3>1, <3>2 DEF PlanReal, RowReal, Unmoved, Own, Recorded
      <3>3. CASE q = p
        <4>1. PlanReal(p)'
          BY <2>1, <2>4 DEF PlanReal
        <4>2. ASSUME NEW i \in Work(p) PROVE RowReal(p, i)'
          BY <2>5, <2>6 DEF RowReal, Unmoved, Own, Recorded
        <4> QED  BY <3>3, <4>1, <4>2
      <3> QED  BY <3>2, <3>3
    <2>8. JobReal(r)'
      <3>1. ASSUME NEW i \in Work(p) PROVE ActionReal(r, i)'
        BY <2>2, <2>5, <2>6 DEF ActionReal, Unmoved, Nowhere
      <3> QED  BY <2>2, <3>1 DEF JobReal
    <2>9. Untouched'
      BY <2>5 DEF OInv, Untouched
    <2> QED  BY <2>1, <2>3, <2>7, <2>8, <2>9, RealStep
  <1> QED  BY <1>1, <1>2, <1>3, <1>4

\* Real outcomes through the loop over a plan's actions.
LEMMA LoopReal ==
    ASSUME IInv, OInv, NEW w \in Worker
    PROVE  /\ ActFinished(w) => OInv'
           /\ ActCancelled(w) => OInv'
           /\ ActSkip(w) => OInv'
           /\ ActBegin(w) => OInv'
  <1>f. job[w] \in Job /\ JobReal(job[w]) /\ Agrees(job[w])
    BY JobFields DEF IInv, OInv, Agreement, JobOK
  <1>1. ASSUME ActFinished(w) PROVE OInv'
    <2> DEFINE r == [job[w] EXCEPT !.pc = "commit"]
    <2>1. /\ r.pc = "commit" /\ r.at = job[w].at /\ r.plan = job[w].plan
          /\ r.mode = job[w].mode /\ r.idx = job[w].idx
      BY <1>f DEF Job
    <2>2. /\ job[w].pc = "act" /\ job[w].mode = "do" /\ job' = [job EXCEPT ![w] = r]
          /\ UNCHANGED <<fsVars, dbVars>>
      BY <1>f, <1>1 DEF ActFinished, Goto, At, Agrees
    <2> HIDE DEF r
    <2>3. JobReal(r)
      BY <1>f, <2>1, <2>2 DEF JobReal, ActionReal, Busy, Filing
    <2> QED  BY <2>2, <2>3, RealMoving
  <1>2. ASSUME ActCancelled(w) PROVE OInv'
    <2> DEFINE r == [job[w] EXCEPT !.pc = "undo", !.mode = "undo"]
    <2>1. r.pc = "undo" /\ r.at = job[w].at /\ r.plan = job[w].plan /\ r.mode = "undo"
      BY <1>f DEF Job
    <2>2. job[w].pc = "act" /\ job' = [job EXCEPT ![w] = r] /\ UNCHANGED <<fsVars, dbVars>>
      BY <1>2 DEF ActCancelled, At
    <2> HIDE DEF r
    <2>3. JobReal(r)
      BY <1>f, <2>1, <2>2 DEF JobReal, ActionReal, Busy, Filing
    <2> QED  BY <2>2, <2>3, RealMoving
  <1>3. ASSUME ActSkip(w) PROVE OInv'
    <2> DEFINE r == [job[w] EXCEPT !.idx = job[w].idx + 1]
    <2>1. /\ r.pc = job[w].pc /\ r.at = job[w].at /\ r.plan = job[w].plan
          /\ r.mode = job[w].mode /\ r.idx = job[w].idx + 1
      BY <1>f DEF Job
    <2>2. /\ job[w].pc = "act" /\ job[w].mode = "do" /\ job' = [job EXCEPT ![w] = r]
          /\ job[w].idx \in Index \ Work(job[w].plan) /\ UNCHANGED <<fsVars, dbVars>>
      BY <1>f, <1>3 DEF ActSkip, At, Agrees
    <2> HIDE DEF r
    <2>3. ASSUME NEW k \in Work(job[w].plan)
          PROVE  /\ k < r.idx <=> k < job[w].idx
                 /\ k > r.idx \/ k = r.idx => k > job[w].idx
      BY <2>1, <2>2, SizeAssumption DEF Work, Index
    <2>4. JobReal(r)
      BY <1>f, <2>1, <2>2, <2>3 DEF JobReal, ActionReal, Busy, Filing
    <2> QED  BY <2>2, <2>4, RealMoving
  <1>4. ASSUME ActBegin(w) PROVE OInv'
    <2>1. /\ job[w].pc = "act" /\ job[w].mode = "do" /\ UNCHANGED <<fsVars, dbVars>>
      BY <1>f, <1>4 DEF ActBegin, At, Agrees
    <2>2. ASSUME NEW r, job' = [job EXCEPT ![w] = r], r.pc \in {"copy", "failed"},
                 r.at = job[w].at, r.plan = job[w].plan,
                 r.mode = job[w].mode, r.idx = job[w].idx
          PROVE  OInv'
      <3>1. JobReal(r)
        BY <1>f, <2>1, <2>2 DEF JobReal, ActionReal, Busy, Filing
      <3> QED  BY <2>1, <2>2, <3>1, RealMoving
    <2>3. CASE Goto(w, "failed")
      <3> DEFINE r == [job[w] EXCEPT !.pc = "failed"]
      <3>1. /\ r.pc = "failed" /\ r.at = job[w].at /\ r.plan = job[w].plan
            /\ r.mode = job[w].mode /\ r.idx = job[w].idx
        BY <1>f DEF Job
      <3>2. job' = [job EXCEPT ![w] = r]
        BY <2>3 DEF Goto
      <3> HIDE DEF r
      <3> QED  BY <2>2, <3>1, <3>2
    <2>4. ASSUME NEW s, NEW d,
                 job' = [job EXCEPT ![w] = [@ EXCEPT !.pc = "copy", !.from = s, !.to = d]]
          PROVE  OInv'
      <3> DEFINE r == [job[w] EXCEPT !.pc = "copy", !.from = s, !.to = d]
      <3>1. /\ r.pc = "copy" /\ r.at = job[w].at /\ r.plan = job[w].plan
            /\ r.mode = job[w].mode /\ r.idx = job[w].idx
        BY <1>f DEF Job
      <3>2. job' = [job EXCEPT ![w] = r]
        BY <2>4
      <3> HIDE DEF r
      <3> QED  BY <2>2, <3>1, <3>2
    <2> QED  BY <1>4, <2>3, <2>4 DEF ActBegin
  <1> QED  BY <1>1, <1>2, <1>3, <1>4

\* A step that writes one row of the plan the job is at.
LEMMA RealRow ==
    ASSUME IInv, OInv, NEW w \in Worker, job[w].pc \in Busy, NEW p, p = job[w].plan,
           NEW i \in Work(p), NEW row, SetRow(p, i, row), UNCHANGED fsVars,
           NEW r, job' = [job EXCEPT ![w] = r],
           LET s == Actions[p][i].src
           IN  /\ row.rb = "done" => Unmoved(s)
               /\ row.status = "done" /\ row.rb = "none" => Own(row.target, s),
           r.pc \in Busy => r.plan = p /\ \A k \in Work(p) : ActionReal(r, k)'
    PROVE  OInv'
  <1>1. p \in Plan /\ i \in Index /\ job[w].pc # "idle"
    BY DEF IInv, Agreement, JobOK, Agrees, Work, Busy, Filing
  <1>2. /\ data' = data /\ scanned' = scanned /\ harmed' = harmed /\ state' = state
        /\ \A q \in Plan \ {p} : journal'[q] = journal[q]
        /\ journal'[p][i] = row
        /\ \A k \in Index \ {i} : journal'[p][k] = journal[p][k]
    BY <1>1 DEF fsVars, SetRow, IInv, TypeOK
  <1>3. \A v \in Worker \ {w} : job[v].pc = "idle"
    BY <1>1, OthersIdle
  <1>4. Untouched'
    BY <1>2 DEF OInv, Untouched
  <1>5. ASSUME NEW q \in Plan PROVE PlanReal(q)'
    <2>1. PlanReal(q)
      BY DEF OInv
    <2> QED  BY <1>2, <2>1 DEF PlanReal, Unmoved
  <1>6. ASSUME NEW q \in Plan, NEW k \in Work(q) PROVE RowReal(q, k)'
    <2>1. RowReal(q, k)
      BY DEF OInv
    <2>2. CASE q = p /\ k = i
      BY <1>2, <2>1, <2>2 DEF RowReal, Unmoved, Own, Recorded
    <2>3. CASE q # p \/ k # i
      <3>1. journal'[q][k] = journal[q][k]
        BY <1>2, <2>3 DEF Work
      <3> QED  BY <1>2, <2>1, <3>1 DEF RowReal, Unmoved, Own, Recorded
    <2> QED  BY <2>2, <2>3
  <1>7. JobReal(r)'
    BY DEF JobReal
  <1> QED  BY <1>3, <1>4, <1>5, <1>6, <1>7, RealStep

\* Real outcomes through the marks of actions that ran or failed.
LEMMA MarksReal ==
    ASSUME IInv, OInv, InOrder, NEW w \in Worker, NEW p, p = job[w].plan, NEW i, i = job[w].idx
    PROVE  /\ MarkDone(w) => OInv'
           /\ MarkDoneFails(w) => OInv'
           /\ MarkFailed(w) => OInv'
  <1>f. job[w] \in Job /\ JobReal(job[w]) /\ Agrees(job[w])
    BY JobFields DEF IInv, OInv, Agreement, JobOK
  <1>0. ASSUME job[w].pc \in {"succeeded", "failed"}, job[w].mode = "do"
        PROVE  /\ p \in Plan /\ i \in Work(p) /\ i \in Index /\ job[w].pc \in Busy
               /\ journal[p][i] \in Row /\ journal[p][i].rb = "none"
               /\ \A k \in Work(p) : ActionReal(job[w], k)
    <2>1. p \in Plan /\ i \in Work(p) /\ job[w].pc \in Busy /\ journal[p][i].rb = "none"
      BY <1>f, <1>0 DEF Agrees, Busy, Filing
    <2>2. i \in Index /\ journal[p][i] \in Row
      BY <2>1, RowFields DEF Work, IInv
    <2> QED  BY <1>f, <2>1, <2>2 DEF JobReal
  <1>1. ASSUME MarkDone(w) PROVE OInv'
    <2>1. job[w].pc = "succeeded" /\ job[w].mode = "do" /\ UNCHANGED fsVars
      BY <1>1 DEF MarkDone, At
    <2> SUFFICES ASSUME NEW row, row = [journal[p][i] EXCEPT !.status = "done",
                                                             !.target = job[w].to],
                        NEW r, r = [job[w] EXCEPT !.pc = "act", !.idx = i + 1,
                                       !.at = [job[w].at EXCEPT ![i] = job[w].to],
                                       !.from = None, !.to = None, !.buf = None]
                 PROVE  OInv'
      OBVIOUS
    <2>2. SetRow(p, i, row) /\ job' = [job EXCEPT ![w] = r]
      BY <1>1 DEF MarkDone
    <2>3. row.status = "done" /\ row.target = job[w].to /\ row.rb = "none"
      BY <1>0, <2>1 DEF Row
    <2>4. /\ r.pc = "act" /\ r.idx = i + 1 /\ r.mode = "do" /\ r.plan = p
          /\ r.at[i] = job[w].to /\ \A k \in Index \ {i} : r.at[k] = job[w].at[k]
      BY <1>f, <1>0, <2>1 DEF Job
    <2>5. Moved(Actions[p][i], job[w].to)
      BY <1>0, <2>1 DEF ActionReal
    <2>6. Own(job[w].to, Actions[p][i].src)
      BY <2>5 DEF Moved, Own
    <2>7. /\ data' = data /\ harmed' = harmed /\ journal'[p][i] = row
          /\ \A k \in Index \ {i} : journal'[p][k] = journal[p][k]
      BY <1>0, <2>1, <2>2 DEF fsVars, SetRow, IInv, TypeOK
    <2>8. ASSUME NEW k \in Work(p) PROVE ActionReal(r, k)'
      <3>1. ActionReal(job[w], k) /\ k \in Index
        BY <1>0, <2>1 DEF Work
      <3>2. i \in Nat /\ k \in Nat
        BY <1>0, <2>1, <3>1, SizeAssumption DEF Index
      <3>3. CASE k = i
        <4>0. ~(k > i + 1) /\ k # i + 1
          BY <3>2, <3>3
        <4>1. ~(k > r.idx) /\ k # r.idx
          BY <2>4, <4>0
        <4>2. data[Actions[p][k].src] \notin Source \ {Actions[p][k].src}
          BY <2>1, <3>1 DEF ActionReal
        <4>3. Own(r.at[k], Actions[p][k].src)'
          BY <2>4, <2>6, <2>7, <3>3 DEF Own
        <4>4. Moved(Actions[p][k], journal[p][k].target)'
          BY <2>3, <2>5, <2>7, <3>3 DEF Moved
        <4>a. i < i + 1
          BY <3>2
        <4>5. k < r.idx /\ r.at[k] = journal'[p][k].target
          BY <2>3, <2>4, <2>7, <3>3, <4>a
        <4> QED  BY <2>4, <2>7, <4>1, <4>2, <4>3, <4>4, <4>5 DEF ActionReal
      <3>4. CASE k # i
        <4>0. k < i + 1 <=> k < i
          BY <3>2, <3>4
        <4>a. k > i + 1 \/ k = i + 1 => k > i
          BY <3>2
        <4>1. /\ k < r.idx <=> k < i
              /\ k > r.idx \/ k = r.idx => k > i
              /\ r.at[k] = job[w].at[k] /\ journal'[p][k] = journal[p][k]
          BY <2>4, <2>7, <3>1, <3>4, <4>0, <4>a
        <4>2. job[w].at[k] # None => Own(job[w].at[k], Actions[p][k].src)
          BY <3>1 DEF ActionReal
        <4>3. r.at[k] # None => Own(r.at[k], Actions[p][k].src)'
          BY <2>7, <4>1, <4>2 DEF Own
        <4>4. data'[Actions[p][k].src] \notin Source \ {Actions[p][k].src}
          BY <2>1, <2>7, <3>1 DEF ActionReal
        <4>5. r.at[k] # None => k < r.idx /\ r.at[k] = journal'[p][k].target
          BY <2>1, <3>1, <4>1 DEF ActionReal
        <4>6. k < r.idx => Moved(Actions[p][k], journal[p][k].target)'
          BY <2>1, <2>7, <3>1, <4>1 DEF ActionReal, Moved
        <4>7. k > r.idx \/ k = r.idx => Unmoved(Actions[p][k].src)'
          BY <2>1, <2>7, <3>1, <4>1 DEF ActionReal, Unmoved
        <4> QED  BY <2>4, <4>3, <4>4, <4>5, <4>6, <4>7 DEF ActionReal
      <3> QED  BY <3>3, <3>4
    <2> QED  BY <1>0, <2>1, <2>2, <2>3, <2>4, <2>6, <2>8, RealRow
  <1>2. ASSUME MarkDoneFails(w) PROVE OInv'
    <2> SUFFICES ASSUME NEW r, r = [job[w] EXCEPT !.pc = "undo", !.mode = "undo",
                                       !.at = [job[w].at EXCEPT ![i] = job[w].to]]
                 PROVE  OInv'
      OBVIOUS
    <2>1. /\ job[w].pc = "succeeded" /\ job[w].mode = "do" /\ UNCHANGED <<fsVars, dbVars>>
          /\ job' = [job EXCEPT ![w] = r]
      BY <1>2 DEF MarkDoneFails, At
    <2>2. /\ r.pc = "undo" /\ r.mode = "undo" /\ r.plan = p
          /\ r.at[i] = job[w].to /\ \A k \in Index \ {i} : r.at[k] = job[w].at[k]
      BY <1>f, <1>0, <2>1 DEF Job
    <2>3. Own(job[w].to, Actions[p][i].src)
      BY <1>0, <2>1 DEF ActionReal, Moved, Own
    <2>4. ASSUME NEW k \in Work(p) PROVE ActionReal(r, k)
      <3>1. ActionReal(job[w], k) /\ k \in Index
        BY <1>0, <2>1 DEF Work
      <3> QED  BY <2>2, <2>3, <3>1 DEF ActionReal, Filing
    <2>5. JobReal(r)
      BY <2>2, <2>4 DEF JobReal
    <2> QED  BY <2>1, <2>5, RealMoving
  <1>3. ASSUME MarkFailed(w) PROVE OInv'
    <2> SUFFICES ASSUME NEW row, row = [journal[p][i] EXCEPT !.status = "failed"],
                        NEW r, r = [job[w] EXCEPT !.pc = "undo", !.mode = "undo"]
                 PROVE  OInv'
      OBVIOUS
    <2>1. /\ job[w].pc = "failed" /\ job[w].mode = "do" /\ UNCHANGED fsVars
          /\ job' = [job EXCEPT ![w] = r]
      BY <1>3 DEF MarkFailed, At
    <2>2. r.pc = "undo" /\ r.mode = "undo" /\ r.plan = p /\ r.at = job[w].at
      BY <1>f DEF Job
    <2>3. ASSUME NEW k \in Work(p) PROVE ActionReal(r, k)
      <3>1. ActionReal(job[w], k)
        BY <1>0, <2>1
      <3> QED  BY <2>2, <3>1 DEF ActionReal, Filing
    <2>4. CASE UNCHANGED dbVars
      <3>1. JobReal(r)
        BY <2>2, <2>3 DEF JobReal
      <3> QED  BY <2>1, <2>4, <3>1, RealMoving
    <2>5. CASE SetRow(p, i, row)
      <3>1. row.status = "failed" /\ row.rb = "none"
        BY <1>0, <2>1 DEF Row
      <3>2. ASSUME NEW k \in Work(p) PROVE ActionReal(r, k)'
        <4>1. data' = data /\ harmed' = harmed
          BY <2>1 DEF fsVars
        <4>2. ActionReal(r, k)
          BY <2>3
        <4> QED  BY <2>2, <4>1, <4>2 DEF ActionReal, Own
      <3> QED  BY <1>0, <2>1, <2>2, <2>5, <3>1, <3>2, RealRow
    <2> QED  BY <1>3, <2>4, <2>5 DEF MarkFailed
  <1> QED  BY <1>1, <1>2, <1>3

\* Real outcomes through a rollback's records: what is confirmed is back.
LEMMA UndoReal ==
    ASSUME IInv, OInv, NEW w \in Worker, NEW p, p = job[w].plan
    PROVE  /\ UndoBegins(w) => OInv'
           /\ UndoSucceeded(w) \/ UndoFailed(w) => OInv'
           /\ UndoEnds(w) => OInv'
  <1>f. job[w] \in Job /\ JobReal(job[w]) /\ Agrees(job[w])
    BY JobFields DEF IInv, OInv, Agreement, JobOK
  <1>1. ASSUME UndoBegins(w) PROVE OInv'
    <2>1. /\ job[w].pc = "undo" /\ job[w].mode # "do" /\ job[w].pc \in Busy
          /\ UNCHANGED <<fsVars, dbVars>>
      BY <1>f, <1>1 DEF UndoBegins, At, Agrees, Busy
    <2>2. PICK i \in Index : LET a == Actions[job[w].plan][i]
             IN job' = [job EXCEPT ![w] = [@ EXCEPT
                        !.idx = i, !.from = job[w].at[i], !.buf = None,
                        !.pc = IF a.kind = "COPY" THEN "uncopy" ELSE "copy",
                        !.to = IF a.kind = "COPY" THEN None ELSE a.src]]
      BY <1>1 DEF UndoBegins
    <2> SUFFICES ASSUME NEW a, a = Actions[job[w].plan][i],
                        NEW r, r = [job[w] EXCEPT
                        !.idx = i, !.from = job[w].at[i], !.buf = None,
                        !.pc = IF a.kind = "COPY" THEN "uncopy" ELSE "copy",
                        !.to = IF a.kind = "COPY" THEN None ELSE a.src]
                 PROVE  OInv'
      OBVIOUS
    <2>3. job' = [job EXCEPT ![w] = r]
      BY <2>2
    <2>4. /\ r.pc \in {"copy", "uncopy"} /\ r.mode # "do" /\ r.plan = p /\ r.at = job[w].at
          /\ r.idx = i /\ r.from = r.at[i]
      BY <1>f, <2>1 DEF Job
    <2>5. JobReal(r)
      BY <1>f, <2>1, <2>4 DEF JobReal, ActionReal
    <2> QED  BY <2>1, <2>3, <2>5, RealMoving
  <1>2. ASSUME UndoSucceeded(w) \/ UndoFailed(w) PROVE OInv'
    <2> SUFFICES ASSUME NEW i, i = job[w].idx PROVE OInv'
      OBVIOUS
    <2>1. PICK fine, saved \in BOOLEAN :
             /\ Undone(w, fine, saved)
             /\ fine => job[w].pc = "succeeded"
      BY <1>2 DEF UndoSucceeded, UndoFailed, At
    <2>2. /\ job[w].pc \in {"succeeded", "failed"} /\ job[w].mode # "do" /\ job[w].pc # "idle"
          /\ job[w].pc \in Busy /\ p \in Plan /\ i \in Work(p) /\ i \in Index
      BY <1>f, <1>2 DEF UndoSucceeded, UndoFailed, At, Agrees, Busy, Filing, Work
    <2> SUFFICES ASSUME NEW row, row = [journal[p][i] EXCEPT !.rb = IF fine THEN "done" ELSE "failed"],
                        NEW r, r = [job[w] EXCEPT !.pc = "undo",
                                      !.at = [job[w].at EXCEPT ![i] = None],
                                      !.ok = job[w].ok /\ fine /\ saved]
                 PROVE  OInv'
      OBVIOUS
    <2>3. /\ UNCHANGED fsVars
          /\ IF saved THEN SetRow(p, i, row) ELSE UNCHANGED dbVars
          /\ Continue(w) \/ job' = [job EXCEPT ![w] = r]
      BY <2>1 DEF Undone
    <2>4. /\ r.pc = "undo" /\ r.mode = job[w].mode /\ r.plan = p
          /\ r.at[i] = None /\ \A k \in Index \ {i} : r.at[k] = job[w].at[k]
      BY <1>f, <2>2 DEF Job
    <2>5. ASSUME NEW k \in Work(p) PROVE ActionReal(r, k)
      <3>1. ActionReal(job[w], k) /\ k \in Index
        BY <1>f, <2>2 DEF JobReal, Work
      <3> QED  BY <2>2, <2>4, <3>1 DEF ActionReal, Filing
    <2>6. CASE ~saved
      <3>1. JobReal(r)
        BY <2>4, <2>5 DEF JobReal
      <3> QED  BY <2>2, <2>3, <2>6, <3>1, RealMoving, RealLeaving DEF dbVars
    <2>7. CASE saved
      <3>1. journal[p][i] \in Row
        BY <2>2, RowFields DEF IInv
      <3>2. row.rb = IF fine THEN "done" ELSE "failed"
        BY <3>1 DEF Row
      <3>3. fine => Unmoved(Actions[p][i].src)
        BY <1>f, <2>1, <2>2 DEF JobReal, ActionReal
      <3>4. data' = data /\ harmed' = harmed
        BY <2>3 DEF fsVars
      <3>5. ASSUME NEW k \in Work(p) PROVE ActionReal(r, k)'
        <4>1. ActionReal(r, k)
          BY <2>5
        <4> QED  BY <2>2, <2>4, <3>4, <4>1 DEF ActionReal, Own
      <3>a. SetRow(p, i, row) /\ UNCHANGED fsVars
        BY <2>3, <2>7
      <3>b. row.rb # "none" /\ (row.rb = "done" => Unmoved(Actions[p][i].src))
        BY <3>2, <3>3
      <3>6. CASE job' = [job EXCEPT ![w] = r]
        <4>1. r.plan = p /\ \A k \in Work(p) : ActionReal(r, k)'
          BY <2>4, <3>5
        <4> QED  BY <2>2, <3>a, <3>b, <3>6, <4>1, RealRow
      <3>7. CASE Continue(w)
        <4>1. NextOf(w).pc \notin Busy
          BY DEF NextOf, Idle, Busy, Filing
        <4>2. PICK n : n = NextOf(w)
          OBVIOUS
        <4>3. job' = [job EXCEPT ![w] = n] /\ n.pc \notin Busy
          BY <3>7, <4>1, <4>2 DEF Continue
        <4> QED  BY <2>2, <3>a, <3>b, <4>3, RealRow
      <3> QED  BY <2>3, <3>6, <3>7
    <2> QED  BY <2>6, <2>7
  <1>3. ASSUME UndoEnds(w) PROVE OInv'
    <2>1. job[w].pc = "undo" /\ job[w].mode # "do" /\ UNCHANGED <<fsVars, dbVars>>
      BY <1>f, <1>3 DEF UndoEnds, At, Agrees
    <2>2. CASE Stop(w)
      BY <2>1, <2>2, RealLeaving DEF dbVars
    <2>3. CASE Goto(w, "abort")
      <3> DEFINE r == [job[w] EXCEPT !.pc = "abort"]
      <3>1. r.pc = "abort" /\ r.mode = job[w].mode /\ r.plan = p /\ r.at = job[w].at
        BY <1>f DEF Job
      <3>2. job' = [job EXCEPT ![w] = r]
        BY <2>3 DEF Goto
      <3> HIDE DEF r
      <3>3. JobReal(r)
        BY <1>f, <2>1, <3>1 DEF JobReal, ActionReal, Busy, Filing
      <3> QED  BY <2>1, <3>2, <3>3, RealMoving
    <2> QED  BY <1>3, <2>2, <2>3 DEF UndoEnds
  <1> QED  BY <1>1, <1>2, <1>3

\* Real outcomes through the ends of a plan and through Recover.
LEMMA EndsReal ==
    ASSUME IInv, OInv, NEW w \in Worker
    PROVE  /\ FinalizeVerified(w) \/ FinalizeVerifiedFails(w) => OInv'
           /\ FinalizeRolledBack(w) \/ FinalizeRolledBackFails(w) => OInv'
           /\ RecoverEnd(w) => OInv'
           /\ \A p \in Plan : RecoverReset(w, p) \/ RecoverSkip(w, p) => OInv'
           /\ \A p \in Plan : RecoverBegin(w, p) => OInv'
  <1>f. job[w] \in Job
    BY JobFields DEF IInv
  <1>1. ASSUME \/ FinalizeVerified(w) \/ FinalizeVerifiedFails(w)
               \/ FinalizeRolledBack(w) \/ FinalizeRolledBackFails(w) \/ RecoverEnd(w)
        PROVE  OInv'
    <2>1. /\ job[w].pc # "idle" /\ UNCHANGED <<fsVars, journal>>
          /\ Stop(w) \/ Continue(w) \/ Settle(w)
          /\ \/ UNCHANGED state
             \/ \E s \in {"VERIFIED", "ROLLED_BACK"} : state' = [state EXCEPT ![job[w].plan] = s]
      BY <1>1 DEF FinalizeVerified, FinalizeVerifiedFails, FinalizeRolledBack,
         FinalizeRolledBackFails, RecoverEnd, At, dbVars, SetState
    <2>2. \A q \in Plan : state'[q] \in {"STALE_CHECKED", "EXECUTING"} => state'[q] = state[q]
      BY <2>1 DEF IInv, TypeOK
    <2> QED  BY <2>1, <2>2, RealLeaving
  <1>2. ASSUME NEW p \in Plan, RecoverReset(w, p) \/ RecoverSkip(w, p) PROVE OInv'
    <2> DEFINE q == [job[w] EXCEPT !.batch = job[w].batch \ {p}]
    <2>1. /\ job[w].pc = "next" /\ job' = [job EXCEPT ![w] = q] /\ UNCHANGED <<fsVars, journal>>
          /\ UNCHANGED state \/ state' = [state EXCEPT ![p] = "DRAFT"]
      BY <1>2 DEF RecoverReset, RecoverSkip, Recovering, At, Leave, SetState, dbVars
    <2>2. q.pc \notin Busy
      BY <1>f, <2>1 DEF Job, Busy, Filing
    <2>3. \A v \in Worker \ {w} : job[v].pc = "idle"
      BY <2>1, OthersIdle
    <2>4. \A k \in Plan : state'[k] \in {"STALE_CHECKED", "EXECUTING"} => state'[k] = state[k]
      BY <2>1 DEF IInv, TypeOK
    <2> HIDE DEF q
    <2> QED  BY <2>1, <2>2, <2>3, <2>4, RealResting
  <1>3. ASSUME NEW p \in Plan, RecoverBegin(w, p) PROVE OInv'
    <2> SUFFICES ASSUME NEW at, at = [i \in Index |-> IF journal[p][i].rb = "done"
                                        THEN None ELSE journal[p][i].target],
                        NEW r, r = [job[w] EXCEPT !.plan = p, !.pc = "undo", !.at = at]
                 PROVE  OInv'
      OBVIOUS
    <2>1. /\ job[w].pc = "next" /\ job[w].mode = "recover" /\ ~Uncertain(p)
          /\ state[p] \in {"STALE_CHECKED", "EXECUTING"}
          /\ job' = [job EXCEPT ![w] = r] /\ UNCHANGED <<fsVars, dbVars>>
      BY <1>3 DEF RecoverBegin, Recovering, At
    <2>2. r.pc = "undo" /\ r.mode = "recover" /\ r.plan = p /\ r.at = at
      BY <1>f, <2>1 DEF Job
    <2>3. ASSUME NEW i \in Work(p), at[i] # None
          PROVE  Own(at[i], Actions[p][i].src)
      <3>1. i \in Index /\ RowReal(p, i)
        BY DEF Work, OInv
      <3>2. Recorded(p, i) /\ at[i] = journal[p][i].target
        BY <2>1, <2>3, <3>1 DEF Uncertain, Recorded
      <3>3. state[p] = "EXECUTING"
        BY <2>1, <3>1, <3>2, RowFacts DEF Recorded, IInv
      <3> QED  BY <3>1, <3>2, <3>3 DEF RowReal
    <2>4. JobReal(r)
      BY <2>2, <2>3 DEF JobReal, ActionReal, Filing
    <2> QED  BY <2>1, <2>4, RealMoving
  <1> QED  BY <1>1, <1>2, <1>3

\* Two actions of a plan never meet at a destination: what an earlier one put
\* there is not what the step finds, unless another program destroyed a copy.
LEMMA DestinationsApart ==
    ASSUME IInv, SInv, OInv, NEW w \in Worker, job[w].mode = "do",
           \/ job[w].pc \in {"fill", "verify", "remove"}
           \/ job[w].pc = "copy" /\ data[job[w].to] = Absent,
           NEW p, p = job[w].plan, NEW k \in Work(p), k < job[w].idx, k # job[w].idx,
           journal[p][k].target = job[w].to
    PROVE  Actions[p][k].src \in harmed
  <1> DEFINE j == job[w]
             s == Actions[p][k].src
             u == Actions[p][j.idx].src
  <1>1. j.pc \in Busy /\ j.pc \in Filing \ {"failed"}
    BY DEF Busy, Filing
  <1>2. /\ p \in Plan /\ j.idx \in Work(p) /\ j.from = u
        /\ Twin(j) /\ \A i \in Work(p) : ActionReal(j, i)
    BY <1>1, BusyFacts DEF Agrees, JobRouted, OInv, JobReal
  <1>3. s \in Source /\ u \in Source /\ s # u
    BY <1>2, SourcesApart
  <1>4. s \in harmed \/ data[j.to] = s
    BY <1>2 DEF ActionReal, Moved
  <1>5. data[u] \notin Source \ {u}
    BY <1>2 DEF ActionReal
  <1>6. s # Absent
    BY <1>3, NamesAssumption DEF Content
  <1> QED  BY <1>2, <1>3, <1>4, <1>5, <1>6 DEF Twin, Kept

\* What a file step may leave at a path: nothing where its job's file came from,
\* or, where it goes, nothing of another action.
Leaves(j, x, c) ==
    LET a == Actions[j.plan][j.idx]
    IN  \/ x = j.from /\ c = Absent /\ (a.kind # "COPY" \/ j.mode # "do")
        \/ /\ x = j.to
           /\ c \in Source \ {a.src} => a.src \in harmed
           /\ j.mode # "do" => x = a.src /\ a.kind # "COPY"
           /\ j.mode = "do" =>
                 /\ x \in Route(a)
                 /\ \A k \in Work(j.plan) :
                       k < j.idx /\ k # j.idx /\ journal[j.plan][k].target = x =>
                          Actions[j.plan][k].src \in harmed

\* What a file step that writes has to show: what it leaves at the path, and
\* what it knows of its own action.
LEMMA RealWrite ==
    ASSUME IInv, SInv, OInv, InOrder, NEW w \in Worker, job[w].pc \in Filing \ {"failed"},
           NEW r, job' = [job EXCEPT ![w] = r], Follows(r, job[w]), UNCHANGED dbVars,
           NEW p, p = job[w].plan, NEW i, i = job[w].idx,
           NEW x \in Path, NEW c, Put(x, c),
           Leaves(job[w], x, c),
           ActionReal(r, i)'
    PROVE  OInv'
  <1> DEFINE j == job[w]
             s == Actions[p][i].src
             Src(k) == Actions[p][k].src
  <1>1. j.pc \in Busy
    BY DEF Busy
  <1>2. /\ p \in Plan /\ state[p] = "EXECUTING" /\ i \in Work(p) /\ i \in Index
        /\ JobRouted(j) /\ Agrees(j) /\ \A v \in Worker \ {w} : job[v].pc = "idle"
        /\ JobReal(j) /\ InStep(j)
    BY <1>1, BusyFacts DEF Agrees, OInv, InOrder, Work
  <1>a. \/ x = j.from /\ c = Absent /\ (Actions[p][i].kind # "COPY" \/ j.mode # "do")
        \/ /\ x = j.to
           /\ c \in Source \ {s} => s \in harmed
           /\ j.mode # "do" => x = s /\ Actions[p][i].kind # "COPY"
           /\ j.mode = "do" =>
                 /\ x \in Route(Actions[p][i])
                 /\ \A k \in Work(p) : k < i /\ k # i /\ journal[p][k].target = x =>
                                          Src(k) \in harmed
    BY DEF Leaves
  <1>3. /\ harmed' = harmed /\ scanned' = scanned \ {x}
        /\ state' = state /\ journal' = journal
        /\ \A y \in Path : data'[y] = IF y = x THEN c ELSE data[y]
    BY DEF Put, dbVars, IInv, TypeOK
  <1>4. Absent \notin Source
    BY NamesAssumption DEF Content
  <1>5. x \in {s} \cup Route(Actions[p][i])
    BY <1>a, <1>2 DEF JobRouted
  \* the other actions' sources are not touched
  <1>6. ASSUME NEW k \in Work(p), k # i
        PROVE  Src(k) \in Path /\ data'[Src(k)] = data[Src(k)]
    <2>1. Src(k) \in Path /\ Src(k) # s /\ Src(k) \notin Route(Actions[p][i])
      BY <1>2, <1>6, SourcesApart
    <2> QED  BY <1>3, <1>5, <2>1
  \* nor what they put elsewhere
  <1>7. ASSUME NEW k \in Work(p), k # i, NEW y \in Route(Actions[p][k]), y \in Path,
               j.mode = "do" => k < i /\ journal[p][k].target = y
        PROVE  \/ data'[y] = data[y]
               \/ data'[y] = Absent /\ j.mode # "do"
               \/ Src(k) \in harmed
    <2>1. y # s
      BY <1>2, <1>7, SourcesApart
    <2>2. CASE y # x
      BY <1>3, <1>7, <2>2
    <2>3. CASE y = x /\ j.mode = "do"
      <3>1. x = j.to
        BY <1>a, <1>2, <2>1, <2>3 DEF JobRouted
      <3> QED  BY <1>a, <1>2, <1>7, <2>1, <2>3, <3>1 DEF JobRouted
    <2>4. CASE y = x /\ j.mode # "do"
      BY <1>a, <1>3, <1>7, <2>1, <2>4
    <2> QED  BY <2>2, <2>3, <2>4
  <1>8. ASSUME NEW k \in Work(p), k # i PROVE RowReal(p, k)'
    <2>1. RowReal(p, k) /\ k \in Index
      BY <1>2 DEF OInv, Work
    <2>2. Own(Src(k), Src(k))' /\ (Unmoved(Src(k)) => Unmoved(Src(k))')
      BY <1>2, <1>3, <1>6, <1>8, <2>1 DEF RowReal, Own, Unmoved
    <2>3. ASSUME Recorded(p, k) PROVE Own(journal[p][k].target, Src(k))'
      <3>1. journal[p][k].target \in Route(Actions[p][k]) /\ journal[p][k].target \in Path
        BY <1>2, <2>1, <2>3, RowFacts DEF Recorded, SInv, RowsRouted, IInv
      <3>2. j.mode = "do" => k < i
        BY <1>1, <1>2, <2>3 DEF InStep, Doing, Recorded
      <3>3. Own(journal[p][k].target, Src(k))
        BY <1>2, <2>1, <2>3 DEF RowReal
      <3> QED  BY <1>3, <1>4, <1>7, <1>8, <3>1, <3>2, <3>3 DEF Own
    <2> QED  BY <1>2, <1>3, <2>1, <2>2, <2>3 DEF RowReal, Recorded
  <1>9. RowReal(p, i)'
    <2>1. RowReal(p, i) /\ journal[p][i].rb # "done" /\ s \in Path /\ s \notin Route(Actions[p][i])
      BY <1>2, SourcesApart DEF OInv, Agrees
    <2>2. Own(s, s)'
      BY <1>a, <1>2, <1>3, <1>4, <2>1 DEF RowReal, Own
    <2>3. Actions[p][i].kind = "COPY" => Unmoved(s)'
      BY <1>a, <1>2, <1>3, <2>1 DEF RowReal, Unmoved, JobRouted
    <2>4. Recorded(p, i) => Own(journal[p][i].target, s)'
      <3>1. Recorded(p, i) => journal[p][i].target \in Path /\ Own(journal[p][i].target, s)
        BY <1>2, <2>1, RowFacts DEF Recorded, RowReal, IInv
      <3> QED  BY <1>a, <1>3, <1>4, <3>1 DEF Own
    <2> QED  BY <1>3, <2>1, <2>2, <2>3, <2>4 DEF RowReal, Recorded
  <1>10. ASSUME NEW q \in Plan PROVE PlanReal(q)' /\ \A k \in Work(q) : RowReal(q, k)'
    <2>1. CASE q = p
      BY <1>2, <1>3, <1>8, <1>9, <2>1 DEF PlanReal
    <2>2. CASE q # p
      <3>1. state[q] \notin {"STALE_CHECKED", "EXECUTING"}
        BY <1>2, <2>2 DEF IInv, OneReservation, Reserved
      <3> QED  BY <1>3, <3>1 DEF PlanReal, RowReal
    <2> QED  BY <2>1, <2>2
  <1>11. Untouched'
    <2>1. \A y \in scanned' : y \in Path /\ data'[y] = data[y] /\ y \in scanned
      BY <1>3 DEF IInv, TypeOK, Path
    <2> QED  BY <2>1 DEF OInv, Untouched
  <1>12. ASSUME NEW k \in Work(p), k # i PROVE ActionReal(r, k)'
    <2>1. ActionReal(j, k) /\ k \in Index
      BY <1>1, <1>2 DEF JobReal, Work
    <2>2. /\ r.mode = j.mode /\ r.plan = p /\ r.idx = i /\ r.at = j.at
      BY DEF Follows
    <2>3. Src(k) \in Path /\ data'[Src(k)] = data[Src(k)]
      BY <1>6, <1>12
    <2>4. ASSUME j.at[k] # None PROVE Own(r.at[k], Src(k))'
      <3>1. j.at[k] \in Route(Actions[p][k]) /\ Own(j.at[k], Src(k))
        BY <1>1, <1>2, <2>1, <2>4 DEF JobRouted, ActionReal
      <3>2. j.at[k] \in Path
        BY <2>1, <2>4, JobFields DEF Job, IInv
      <3>3. j.mode = "do" => k < i /\ journal[p][k].target = j.at[k]
        BY <2>1, <2>4 DEF ActionReal
      <3>4. \/ data'[j.at[k]] = data[j.at[k]]
            \/ data'[j.at[k]] = Absent
            \/ Src(k) \in harmed
        BY <1>7, <1>12, <3>1, <3>2, <3>3
      <3> QED  BY <1>3, <1>4, <2>2, <3>1, <3>4 DEF Own
    <2>5. ASSUME j.mode = "do", k < i PROVE Moved(Actions[p][k], journal[p][k].target)'
      <3>1. journal[p][k].status = "done"
        BY <1>1, <1>2, <2>5 DEF InStep, Doing
      <3>2. journal[p][k].target \in Route(Actions[p][k]) /\ journal[p][k].target \in Path
        BY <1>2, <2>1, <3>1, RowFacts DEF SInv, RowsRouted, IInv
      <3>3. Moved(Actions[p][k], journal[p][k].target)
        BY <2>1, <2>5 DEF ActionReal
      <3> QED  BY <1>3, <1>7, <1>12, <2>3, <2>5, <3>2, <3>3 DEF Moved
    <2>6. Unmoved(Src(k)) => Unmoved(Src(k))'
      BY <1>3, <2>3 DEF Unmoved
    <2>7. j.mode = "do" => data[Src(k)] \notin Source \ {Src(k)}
      BY <2>1 DEF ActionReal
    <2>8. ASSUME j.mode = "do" PROVE k > i => Unmoved(Src(k))
      BY <2>1, <2>8 DEF ActionReal
    <2>9. ASSUME j.mode = "do", j.at[k] # None PROVE k < i /\ j.at[k] = journal[p][k].target
      BY <2>1, <2>9 DEF ActionReal
    <2>a. j.mode = "do" => data'[Src(k)] \notin Source \ {Src(k)}
      BY <2>3, <2>7
    <2>c. ASSUME j.mode = "do" PROVE k > i => Unmoved(Src(k))'
      BY <2>6, <2>8, <2>c
    <2>d. journal' = journal
      BY <1>3
    <2>b. r.at[k] # None => Own(r.at[k], Src(k))'
      BY <2>2, <2>4
    <2>e. ASSUME j.mode = "do"
          PROVE  /\ data'[Src(k)] \notin Source \ {Src(k)}
                 /\ r.at[k] # None => k < r.idx /\ r.at[k] = journal'[p][k].target
                 /\ k < r.idx => Moved(Actions[p][k], journal[p][k].target)'
                 /\ k > r.idx => Unmoved(Src(k))'
      BY <2>2, <2>5, <2>9, <2>a, <2>c, <2>d, <2>e
    <2> QED  BY <1>12, <2>2, <2>b, <2>e DEF ActionReal
  <1>13. JobReal(r)'
    BY <1>12 DEF JobReal, Follows
  <1> QED  BY <1>2, <1>10, <1>11, <1>13, RealStep

\* Real outcomes through the file primitives.
LEMMA FilesReal ==
    ASSUME IInv, SInv, OInv, InOrder, NEW w \in Worker, FileStep(w)
    PROVE  OInv'
  <1> SUFFICES ASSUME NEW p, p = job[w].plan, NEW i, i = job[w].idx,
                      NEW a, a = Actions[p][i], NEW s, s = a.src,
                      NEW F, F = job[w].from, NEW T, T = job[w].to
               PROVE  OInv'
    OBVIOUS
  <1> DEFINE j == job[w]
  <1>f. j \in Job /\ TypeOK
    BY JobFields DEF IInv
  <1>0. j.pc \in {"copy", "fill", "verify", "remove", "uncopy"} /\ UNCHANGED dbVars
    BY DEF FileStep, CopyOpens, CopyRefused, CopyFills, CopyFails, VerifyPasses,
           VerifyFails, RemoveSource, RemoveFails, RemoveCopy, RemoveCopyFails, At
  <1>1. j.pc \in Filing \ {"failed"} /\ j.pc \in Busy /\ j.pc # "idle"
    BY <1>0 DEF Filing, Busy
  <1>2. /\ p \in Plan /\ state[p] = "EXECUTING" /\ i \in Work(p) /\ i \in Index
        /\ JobRouted(j) /\ Twin(j) /\ Agrees(j) /\ JobReal(j) /\ RowReal(p, i)
    BY <1>1, BusyFacts DEF Agrees, OInv, Work
  <1>3. ActionReal(j, i)
    BY <1>1, <1>2 DEF JobReal
  <1>4. s \in Source /\ s \in Path /\ s \notin Route(a) /\ F \in Path
        /\ (j.pc # "uncopy" => T \in Path)
    BY <1>0, <1>1, <1>2, SourcesApart DEF Agrees
  <1>5. /\ j.mode = "do" => F = s /\ T \in Route(a)
        /\ j.mode # "do" => F \in Route(a) /\ (j.pc # "uncopy" => T = s /\ a.kind # "COPY")
        /\ j.pc = "uncopy" => a.kind = "COPY" /\ j.mode # "do"
        /\ j.pc = "remove" => a.kind # "COPY"
    BY <1>0, <1>1, <1>2 DEF JobRouted, Agrees
  <1>6. {Absent, Partial, None} \cap Source = {}
    BY NamesAssumption DEF Content
  <1>7. ASSUME NEW x, NEW c, Put(x, c)
        PROVE  /\ harmed' = harmed /\ journal' = journal
               /\ \A y \in Path : data'[y] = IF y = x THEN c ELSE data[y]
    BY <1>f, <1>7, <1>0 DEF Put, TypeOK, dbVars
  <1>8. ASSUME NEW pc, NEW r, r = [j EXCEPT !.pc = pc]
        PROVE  /\ r.pc = pc /\ r.mode = j.mode /\ r.plan = p /\ r.idx = i
               /\ r.at = j.at /\ r.from = F /\ r.to = T /\ r.buf = j.buf
    BY <1>f, <1>8 DEF Job
  \* what the action knows before the step
  <1>9. /\ j.mode = "do" => Unmoved(s) /\ data[s] \notin Source \ {s} /\ j.at[i] = None
        /\ j.mode # "do" => j.at[i] = F /\ Own(F, s)
        /\ Own(s, s)
    <2>1. i \in Nat
      BY <1>2, SizeAssumption DEF Index
    <2>2. ~(i < i)
      BY <2>1
    <2>3. F # None
      BY <1>4, NamesAssumption
    <2>4. j.pc \in Filing \ {"succeeded", "failed"}
      BY <1>0 DEF Filing
    <2> QED  BY <1>0, <1>2, <1>3, <2>2, <2>3, <2>4 DEF ActionReal, RowReal
  <1>10. ASSUME j.mode = "do",
                \/ j.pc \in {"fill", "verify", "remove"}
                \/ j.pc = "copy" /\ data[T] = Absent
         PROVE  \A k \in Work(p) : k < i /\ k # i /\ journal[p][k].target = T =>
                                      Actions[p][k].src \in harmed
    BY <1>10, DestinationsApart
  <1>a. ASSUME NEW c, c \in Source \ {s} => s \in harmed,
               j.pc # "uncopy", j.pc = "copy" => data[T] = Absent
        PROVE  Leaves(j, T, c)
    <2>1. \/ j.pc \in {"fill", "verify", "remove"}
          \/ j.pc = "copy" /\ data[T] = Absent
      BY <1>0, <1>a
    <2>2. j.mode = "do" => \A k \in Work(p) :
             k < i /\ k # i /\ journal[p][k].target = T => Actions[p][k].src \in harmed
      BY <1>10, <2>1
    <2>3. /\ j.mode = "do" => T \in Route(a)
          /\ j.mode # "do" => T = s /\ a.kind # "COPY"
      BY <1>5, <2>1
    <2> QED  BY <1>a, <2>2, <2>3 DEF Leaves
  <1>b. j.pc \in {"remove", "uncopy"} => Leaves(j, F, Absent)
    BY <1>5 DEF Leaves
  <1>c. i \in Nat /\ ~(i < i) /\ ~(i > i)
    <2>1. i \in Nat
      BY <1>2, SizeAssumption DEF Index
    <2> QED  BY <2>1
  <1>d. ASSUME NEW r, r.mode = j.mode, r.plan = p, r.idx = i, r.at = j.at, r.from = F, r.to = T,
               r.pc \in {"fill", "verify", "remove", "succeeded", "failed"},
               j.mode = "do" => /\ data'[s] \notin Source \ {s}
                                /\ r.pc = "succeeded" => Moved(a, T)'
                                /\ r.pc \notin {"succeeded", "failed"} => Unmoved(s)',
               j.mode # "do" => /\ Own(F, s)'
                                /\ r.pc \in {"remove", "succeeded"} => Unmoved(s)'
                                /\ r.pc = "fill" => s \in harmed' \/ r.buf \notin Source \ {s}
        PROVE  ActionReal(r, i)'
    BY <1>9, <1>c, <1>d DEF ActionReal
  \* a job that goes on with the files as they are
  <1>11. ASSUME NEW pc, Goto(w, pc), UNCHANGED fsVars,
                \/ pc = "failed"
                \/ j.pc = "fill" /\ pc = "verify"
                \/ j.pc = "verify" /\ pc = "succeeded" /\ a.kind = "COPY" /\ HasHashOf(data[T], s)
                \/ j.pc = "verify" /\ pc = "remove" /\ HasHashOf(data[T], s)
         PROVE  OInv'
    <2> SUFFICES ASSUME NEW r, r = [j EXCEPT !.pc = pc] PROVE OInv'
      OBVIOUS
    <2>1. job' = [job EXCEPT ![w] = r]
      BY <1>11 DEF Goto
    <2>2. HasHashOf(data[T], s) => data[T] \in Source
      BY <1>4, ForeignAssumption DEF HasHashOf, Content
    <2>3. /\ pc = "succeeded" => j.mode = "do" /\ Moved(a, T)
          /\ pc = "remove" /\ j.mode # "do" => Unmoved(s)
      BY <1>2, <1>4, <1>5, <1>9, <1>11, <2>2 DEF Moved, Unmoved, Own, Twin, Kept
    <2>a. data' = data /\ harmed' = harmed /\ journal' = journal
      BY <1>0, <1>11 DEF fsVars, dbVars
    <2>b. /\ r.pc = pc /\ r.mode = j.mode /\ r.plan = p /\ r.idx = i
          /\ r.at = j.at /\ r.from = F /\ r.to = T /\ r.buf = j.buf
      BY <1>8
    <2>4. ActionReal(r, i)
      BY <1>9, <1>11, <1>c, <2>3, <2>b DEF ActionReal
    <2>5. JobReal(r)
      <3>1. ASSUME NEW k \in Work(p), k # i PROVE ActionReal(r, k)
        <4>1. ActionReal(j, k)
          BY <1>1, <1>2 DEF JobReal
        <4> QED  BY <2>b, <3>1, <4>1 DEF ActionReal
      <3> QED  BY <2>4, <2>b, <3>1 DEF JobReal
    <2> QED  BY <1>0, <1>1, <1>11, <2>1, <2>5, RealMoving
  \* an output dropped by a failed action
  <1>12. ASSUME Goto(w, "failed"), DropOutput(T), j.pc \in {"fill", "verify", "remove"}
         PROVE  OInv'
    <2>1. CASE UNCHANGED fsVars
      BY <1>11, <1>12, <2>1
    <2>2. CASE Put(T, Absent)
      <3> SUFFICES ASSUME NEW r, r = [j EXCEPT !.pc = "failed"] PROVE OInv'
        OBVIOUS
      <3>1. job' = [job EXCEPT ![w] = r]
        BY <1>12 DEF Goto
      <3>2. Follows(r, j)
        BY <1>8, <1>12 DEF Follows
      <3>a. harmed' = harmed /\ \A y \in Path : data'[y] = IF y = T THEN Absent ELSE data[y]
        BY <1>7, <2>2
      <3>b. /\ r.pc = "failed" /\ r.mode = j.mode /\ r.plan = p /\ r.idx = i
            /\ r.at = j.at /\ r.from = F /\ r.to = T
        BY <1>8
      <3>c. /\ data'[s] = data[s] \/ data'[s] = Absent
            /\ data'[F] = data[F] \/ data'[F] = Absent
        BY <1>4, <3>a
      <3>3. /\ j.mode = "do" => data'[s] \notin Source \ {s}
            /\ j.mode # "do" => Own(F, s)'
        BY <1>6, <1>9, <3>a, <3>c DEF Own
      <3>4. ActionReal(r, i)'
        BY <1>d, <3>3, <3>b
      <3>5. Absent \in Source \ {s} => s \in harmed
        BY <1>6
      <3>6. Leaves(j, T, Absent)
        <4>1. j.pc # "uncopy" /\ j.pc # "copy"
          BY <1>12
        <4> QED  BY <1>a, <3>5, <4>1
      <3>7. T \in Path
        BY <1>4, <1>12
      <3> QED  BY <1>0, <1>1, <2>2, <3>1, <3>2, <3>4, <3>6, <3>7, RealWrite
    <2> QED  BY <1>12, <2>1, <2>2 DEF DropOutput
  <1>13. CASE CopyOpens(w)
    <2> SUFFICES ASSUME NEW r, r = [j EXCEPT !.pc = "fill", !.buf = data[F]] PROVE OInv'
      OBVIOUS
    <2>1. /\ j.pc = "copy" /\ data[T] = Absent /\ Put(T, Partial)
          /\ job' = [job EXCEPT ![w] = r]
      BY <1>13 DEF CopyOpens, At
    <2>2. /\ r.pc = "fill" /\ r.mode = j.mode /\ r.plan = p /\ r.idx = i
          /\ r.at = j.at /\ r.from = F /\ r.to = T /\ r.buf = data[F]
      BY <1>f DEF Job
    <2>3. Follows(r, j)
      BY <2>1, <2>2 DEF Follows
    <2>a. harmed' = harmed /\ \A y \in Path : data'[y] = IF y = T THEN Partial ELSE data[y]
      BY <1>7, <2>1
    <2>b. /\ j.mode = "do" => data'[s] = data[s]
          /\ data'[F] = data[F] \/ data'[F] = Partial
      BY <1>4, <1>5, <2>a
    <2>c. j.mode # "do" => s \in harmed \/ data[F] \notin Source \ {s}
      BY <1>9 DEF Own
    <2>4. /\ j.mode = "do" => data'[s] \notin Source \ {s} /\ Unmoved(s)'
          /\ j.mode # "do" => Own(F, s)' /\ (s \in harmed' \/ r.buf \notin Source \ {s})
      BY <1>6, <1>9, <2>a, <2>b, <2>c, <2>2 DEF Own, Unmoved
    <2>5. ActionReal(r, i)'
      BY <1>d, <2>2, <2>4
    <2>6. Leaves(j, T, Partial) /\ T \in Path
      BY <1>4, <1>6, <1>a, <2>1
    <2> QED  BY <1>0, <1>1, <2>1, <2>3, <2>5, <2>6, RealWrite
  <1>14. CASE CopyFills(w)
    <2>1. j.pc = "fill" /\ Goto(w, "verify")
      BY <1>14 DEF CopyFills, At
    <2>2. CASE UNCHANGED fsVars
      BY <1>11, <2>1, <2>2
    <2>3. ASSUME NEW c \in {j.buf, data[F], Partial}, Put(T, c) PROVE OInv'
      <3> SUFFICES ASSUME NEW r, r = [j EXCEPT !.pc = "verify"] PROVE OInv'
        OBVIOUS
      <3>1. job' = [job EXCEPT ![w] = r]
        BY <2>1 DEF Goto
      <3>2. Follows(r, j)
        BY <1>8, <2>1 DEF Follows
      <3>3. c \in Source \ {s} => s \in harmed
        <4>1. CASE c = Partial
          BY <1>6, <4>1
        <4>2. CASE c = data[F]
          BY <1>5, <1>9, <4>2 DEF Own
        <4>3. CASE c = j.buf /\ j.mode # "do"
          BY <1>2, <1>3, <2>1, <4>3 DEF ActionReal
        <4>4. CASE c = j.buf /\ j.mode = "do"
          BY <1>2, <1>4, <1>5, <1>9, <2>1, <4>4 DEF Twin, Kept, Unmoved
        <4> QED  BY <2>3, <4>1, <4>2, <4>3, <4>4
      <3>a. harmed' = harmed /\ \A y \in Path : data'[y] = IF y = T THEN c ELSE data[y]
        BY <1>7, <2>3
      <3>b. /\ r.pc = "verify" /\ r.mode = j.mode /\ r.plan = p /\ r.idx = i
            /\ r.at = j.at /\ r.from = F /\ r.to = T
        BY <1>8
      <3>c. /\ j.mode = "do" => data'[s] = data[s]
            /\ data'[F] = data[F] \/ data'[F] = c
        BY <1>4, <1>5, <2>1, <3>a
      <3>4. /\ j.mode = "do" => data'[s] \notin Source \ {s} /\ Unmoved(s)'
            /\ j.mode # "do" => Own(F, s)'
        BY <1>9, <3>3, <3>a, <3>c DEF Own, Unmoved
      <3>5. ActionReal(r, i)'
        BY <1>d, <3>4, <3>b
      <3>6. Leaves(j, T, c)
        <4>1. j.pc # "uncopy" /\ j.pc # "copy"
          BY <2>1
        <4> QED  BY <1>a, <3>3, <4>1
      <3>7. T \in Path
        BY <1>4, <2>1
      <3> QED  BY <1>0, <1>1, <2>3, <3>1, <3>2, <3>5, <3>6, <3>7, RealWrite
    <2> QED  BY <1>14, <2>1, <2>2, <2>3 DEF CopyFills
  <1>15. CASE CopyFails(w) \/ VerifyFails(w) \/ RemoveFails(w)
    BY <1>12, <1>15 DEF CopyFails, VerifyFails, RemoveFails, At
  <1>16. CASE CopyRefused(w) \/ RemoveCopyFails(w)
    BY <1>11, <1>16 DEF CopyRefused, RemoveCopyFails, At
  <1>17. CASE VerifyPasses(w)
    BY <1>11, <1>17 DEF VerifyPasses, At
  <1>18. ASSUME Put(F, Absent), Goto(w, "succeeded"), j.pc \in {"remove", "uncopy"}
         PROVE  OInv'
    <2> SUFFICES ASSUME NEW r, r = [j EXCEPT !.pc = "succeeded"] PROVE OInv'
      OBVIOUS
    <2>1. job' = [job EXCEPT ![w] = r]
      BY <1>18 DEF Goto
    <2>2. Follows(r, j)
      BY <1>8, <1>18 DEF Follows
    <2>a. harmed' = harmed /\ \A y \in Path : data'[y] = IF y = F THEN Absent ELSE data[y]
      BY <1>7, <1>18
    <2>b. /\ r.pc = "succeeded" /\ r.mode = j.mode /\ r.plan = p /\ r.idx = i
          /\ r.at = j.at /\ r.from = F /\ r.to = T
      BY <1>8
    <2>3. j.mode = "do" => Moved(a, T)'
      <3> SUFFICES ASSUME j.mode = "do" PROVE Moved(a, T)'
        OBVIOUS
      <3>1. j.pc = "remove" /\ T \in Path /\ F = s /\ T # s
        BY <1>4, <1>5, <1>18
      <3>2. s \in harmed \/ data[T] = s
        BY <1>2, <1>4, <1>9, <3>1 DEF Twin, Kept, Unmoved
      <3>3. harmed' = harmed /\ data'[T] = data[T] /\ data'[s] = Absent /\ Absent # s
        BY <1>4, <1>6, <2>a, <3>1
      <3> QED  BY <3>2, <3>3 DEF Moved
    <2>4. j.mode # "do" => Unmoved(s)'
      <3> SUFFICES ASSUME j.mode # "do" PROVE Unmoved(s)'
        OBVIOUS
      <3>1. Unmoved(s)
        BY <1>2, <1>3, <1>5, <1>18 DEF ActionReal, RowReal
      <3> QED  BY <1>4, <1>5, <2>a, <3>1 DEF Unmoved
    <2>5. /\ j.mode = "do" => data'[s] \notin Source \ {s}
          /\ j.mode # "do" => Own(F, s)'
      BY <1>4, <1>6, <1>9, <2>a DEF Own
    <2>6. ActionReal(r, i)'
      BY <1>d, <2>3, <2>4, <2>5, <2>b
    <2>7. Leaves(j, F, Absent)
      BY <1>18, <1>b
    <2> QED  BY <1>0, <1>1, <1>4, <1>18, <2>1, <2>2, <2>6, <2>7, RealWrite
  <1>19. CASE RemoveSource(w) \/ RemoveCopy(w)
    BY <1>18, <1>19 DEF RemoveSource, RemoveCopy, At
  <1> QED  BY <1>13, <1>14, <1>15, <1>16, <1>17, <1>19 DEF FileStep

\* Real outcomes through cancellation, a crash and an edit by another program.
LEMMA AroundReal ==
    ASSUME IInv, OInv, InOrder
    PROVE  /\ \A w \in Worker : Cancel(w) => OInv'
           /\ Crash => OInv'
           /\ \A x \in Path, c \in Foreign \cup {Absent} : ExternalEdit(x, c) => OInv'
  <1>1. ASSUME NEW w \in Worker, Cancel(w) PROVE OInv'
    <2> DEFINE r == [job[w] EXCEPT !.cancelled = TRUE]
    <2>1. job' = [job EXCEPT ![w] = r] /\ job[w].pc # "idle" /\ UNCHANGED <<fsVars, dbVars>>
      BY <1>1 DEF Cancel, At
    <2>2. /\ r.pc = job[w].pc /\ r.mode = job[w].mode /\ r.plan = job[w].plan
          /\ r.idx = job[w].idx /\ r.at = job[w].at /\ r.from = job[w].from
          /\ r.to = job[w].to /\ r.buf = job[w].buf
      BY JobFields DEF IInv, Job
    <2> HIDE DEF r
    <2>3. JobReal(job[w])
      BY DEF OInv
    <2>4. JobReal(r)
      BY <2>2, <2>3 DEF JobReal, ActionReal
    <2> QED  BY <2>1, <2>4, RealMoving
  <1>2. ASSUME Crash PROVE OInv'
    <2>1. /\ \A w \in Worker : job'[w].pc \notin Busy
          /\ data' = data /\ scanned' = scanned /\ harmed' = harmed
          /\ state' = state /\ journal' = journal
      BY <1>2 DEF Crash, Idle, Busy, Filing, fsVars, dbVars
    <2> QED  BY <2>1 DEF OInv, Untouched, PlanReal, RowReal, Recorded, JobReal, Unmoved, Own
  <1>3. ASSUME NEW x \in Path, NEW c \in Foreign \cup {Absent}, ExternalEdit(x, c) PROVE OInv'
    <2>1. /\ \A y \in Path : data'[y] = IF y = x THEN c ELSE data[y]
          /\ harmed' = harmed \cup ({data[x]} \cap Source)
          /\ scanned' \subseteq scanned
          /\ state' = state /\ journal' = journal /\ job' = job
      BY <1>3 DEF ExternalEdit, IInv, TypeOK, dbVars
    <2>2. c \notin Source
      BY ForeignAssumption, NamesAssumption DEF Content
    <2>3. ASSUME NEW s \in Source
          PROVE  /\ s \in Path
                 /\ Unmoved(s) => Unmoved(s)'
                 /\ data[s] \notin Source \ {s} => data'[s] \notin Source \ {s}
                 /\ data[s] # s => data'[s] # s
                 /\ \A y \in Path : Own(y, s) => Own(y, s)'
      BY <2>1, <2>2, <2>3 DEF Unmoved, Own, Path
    <2>4. ASSUME NEW a \in Action, NEW y \in Path, Moved(a, y) PROVE Moved(a, y)'
      <3>1. a.src \in Source
        BY DEF Action
      <3> QED  BY <2>1, <2>3, <2>4, <3>1 DEF Moved
    <2>5. Untouched'
      <3>1. scanned \subseteq Source
        BY DEF IInv, TypeOK
      <3> QED  BY <2>1, <2>3, <3>1 DEF OInv, Untouched
    <2>6. ASSUME NEW p \in Plan, NEW i \in Work(p)
          PROVE  i \in Index /\ Actions[p][i] \in Action /\ Actions[p][i].src \in Source
      BY ActionsAssumption DEF Work, Action
    <2>7. ASSUME NEW p \in Plan PROVE PlanReal(p)'
      BY <2>1, <2>3, <2>6 DEF OInv, PlanReal
    <2>8. ASSUME NEW p \in Plan, NEW i \in Work(p) PROVE RowReal(p, i)'
      <3>1. RowReal(p, i) /\ Actions[p][i].src \in Source
        BY <2>6 DEF OInv
      <3>2. Recorded(p, i) => journal[p][i].target \in Path
        BY <2>6, RowFacts DEF Recorded, IInv
      <3> QED  BY <2>1, <2>3, <3>1, <3>2 DEF RowReal, Recorded
    <2>9. ASSUME NEW w \in Worker, job[w].pc \in Busy, NEW p, p = job[w].plan, NEW k \in Work(p)
          PROVE  ActionReal(job[w], k)'
      <3> SUFFICES ASSUME NEW j, j = job[w], NEW a, a = Actions[p][k] PROVE ActionReal(j, k)'
        BY <2>1 DEF ActionReal
      <3>1. p \in Plan /\ Agrees(j) /\ JobReal(j) /\ InStep(j) /\ j \in Job
        BY <2>9, JobFields DEF IInv, Agreement, JobOK, Agrees, OInv, InOrder
      <3>2. a \in Action /\ a.src \in Source /\ k \in Index /\ ActionReal(j, k)
        BY <2>6, <2>9, <3>1 DEF JobReal
      <3>3. j.at[k] # None => j.at[k] \in Path
        BY <3>1, <3>2 DEF Job
      <3>4. j.mode = "do" /\ k < j.idx => journal[p][k].target \in Path
        <4>1. j.mode = "do" /\ k < j.idx => journal[p][k].status = "done"
          BY <2>9, <3>1 DEF InStep, Doing
        <4> QED  BY <3>1, <3>2, <4>1, RowFacts DEF IInv
      <3>5. j.mode = "do" /\ j.pc = "succeeded" => j.to \in Path
        BY <3>1 DEF Agrees, Filing
      <3>6. a.src \in harmed => a.src \in harmed'
        BY <2>1
      <3>7. j.at[k] # None => Own(j.at[k], a.src)'
        BY <2>3, <3>2, <3>3, <2>9 DEF ActionReal
      <3>8. j.mode = "do" =>
               /\ data'[a.src] \notin Source \ {a.src}
               /\ k < j.idx => Moved(a, journal[p][k].target)'
               /\ k > j.idx => Unmoved(a.src)'
               /\ k = j.idx /\ j.pc = "succeeded" => Moved(a, j.to)'
               /\ k = j.idx /\ j.pc \notin {"succeeded", "failed"} => Unmoved(a.src)'
        <4>1. j.mode = "do" =>
                 /\ data[a.src] \notin Source \ {a.src}
                 /\ k < j.idx => Moved(a, journal[p][k].target)
                 /\ k > j.idx => Unmoved(a.src)
                 /\ k = j.idx /\ j.pc = "succeeded" => Moved(a, j.to)
                 /\ k = j.idx /\ j.pc \notin {"succeeded", "failed"} => Unmoved(a.src)
          BY <2>9, <3>2 DEF ActionReal
        <4>2. j.mode = "do" /\ k < j.idx => Moved(a, journal[p][k].target)'
          BY <2>1, <2>4, <3>2, <3>4, <4>1
        <4>3. j.mode = "do" /\ j.pc = "succeeded" /\ k = j.idx => Moved(a, j.to)'
          BY <2>4, <3>2, <3>5, <4>1
        <4> QED  BY <2>3, <3>2, <4>1, <4>2, <4>3
      <3>9. Unmoved(a.src) => Unmoved(a.src)'
        BY <2>3, <3>2
      <3> QED  BY <2>1, <2>9, <3>2, <3>6, <3>7, <3>8, <3>9 DEF ActionReal
    <2>10. ASSUME NEW w \in Worker PROVE JobReal(job[w])'
      BY <2>1, <2>9 DEF JobReal
    <2> QED  BY <2>5, <2>7, <2>8, <2>10 DEF OInv
  <1> QED  BY <1>1, <1>2, <1>3

\* No step makes the rows and the jobs say of a file what is not so.
LEMMA RealityStep == ASSUME IInv, SInv, OInv, InOrder, [Next]_vars PROVE OInv'
  <1>1. CASE UNCHANGED vars
    <2>1. UNCHANGED <<fsVars, state, journal, job>>
      BY <1>1 DEF vars, fsVars
    <2>2. ASSUME NEW q \in Plan PROVE PlanReal(q)' /\ \A k \in Work(q) : RowReal(q, k)'
      BY <2>1 DEF OInv, PlanReal, RowReal, Recorded, Unmoved, Own, fsVars
    <2>3. ASSUME NEW w \in Worker PROVE JobReal(job[w])'
      <3>1. JobReal(job[w]) /\ job'[w] = job[w]
        BY <2>1 DEF OInv
      <3> QED  BY <2>1, <3>1 DEF JobReal, ActionReal, Unmoved, Own, Moved, fsVars
    <2> QED  BY <2>1, <2>2, <2>3 DEF OInv, Untouched, fsVars
  <1>2. ASSUME NEW w \in Worker, Step(w) PROVE OInv'
    <2>1. CASE EndBatch(w) \/ \E p \in Plan : NextPlan(w, p)
      BY <2>1, CallersReal
    <2>2. CASE \/ CheckFails(w) \/ Invalidate(w) \/ Reserve(w) \/ ReserveFails(w)
               \/ BeginJournal(w) \/ BeginJournalFails(w) \/ Claim(w) \/ ClaimFails(w)
      BY <2>2, PreparationReal
    <2>3. CASE ActFinished(w) \/ ActCancelled(w) \/ ActSkip(w) \/ ActBegin(w)
      BY <2>3, LoopReal
    <2>4. CASE FileStep(w)
      BY <2>4, FilesReal
    <2>5. CASE MarkDone(w) \/ MarkDoneFails(w) \/ MarkFailed(w)
      BY <2>5, MarksReal
    <2>6. CASE UndoBegins(w) \/ UndoSucceeded(w) \/ UndoFailed(w) \/ UndoEnds(w)
      BY <2>6, UndoReal
    <2>7. CASE \/ FinalizeVerified(w) \/ FinalizeVerifiedFails(w)
               \/ FinalizeRolledBack(w) \/ FinalizeRolledBackFails(w) \/ RecoverEnd(w)
      BY <2>7, EndsReal
    <2>8. CASE \E p \in Plan : RecoverReset(w, p) \/ RecoverSkip(w, p) \/ RecoverBegin(w, p)
      BY <2>8, EndsReal
    <2> QED  BY <1>2, <2>1, <2>2, <2>3, <2>4, <2>5, <2>6, <2>7, <2>8 DEF Step
  <1>3. CASE Next
    BY <1>2, <1>3, CallersReal, AroundReal DEF Next
  <1> QED  BY <1>1, <1>3

\* At first every scanned file is where it was scanned and no plan exists.
LEMMA RealInitially == Init => OInv
  <1> SUFFICES ASSUME Init PROVE OInv
    OBVIOUS
  <1>1. Untouched
    BY DEF Init, Untouched, Path
  <1>2. \A p \in Plan : state[p] = "NONE"
    BY DEF Init
  <1>3. \A w \in Worker : job[w].pc \notin Busy
    BY DEF Init, Idle, Busy, Filing
  <1> QED  BY <1>1, <1>2, <1>3 DEF OInv, PlanReal, RowReal, JobReal

\* Who may end a plan, and with what before it.
LEMMA PlansEnd ==
    ASSUME IInv, [Next]_vars, NEW p \in Plan, state'[p] # state[p],
           state'[p] \in {"VERIFIED", "ROLLED_BACK"}
    PROVE  \E w \in Worker :
              /\ p = job[w].plan
              /\ \/ FinalizeVerified(w) /\ state'[p] = "VERIFIED"
                 \/ (FinalizeRolledBack(w) \/ RecoverEnd(w)) /\ AbortReady(p)
                       /\ state'[p] = "ROLLED_BACK"
  <1>0. state \in [Plan -> State]
    BY DEF IInv, TypeOK
  <1>1. ASSUME UNCHANGED state PROVE FALSE
    BY <1>1
  <1>2. ASSUME NEW q, NEW s \in {"DRAFT", "APPROVED", "STALE_CHECKED", "EXECUTING"}, SetState(q, s)
        PROVE  FALSE
    BY <1>0, <1>2 DEF SetState
  <1>3. ASSUME NEW q \in Plan, SaveDraft(q) \/ Approve(q) PROVE FALSE
    BY <1>2, <1>3 DEF SaveDraft, Approve
  <1>4. ASSUME NEW w \in Worker, NEW ps \in SUBSET Plan, StartExecute(w, ps) PROVE FALSE
    BY <1>0, <1>4 DEF StartExecute
  <1>5. ASSUME NEW w \in Worker, StartRecover(w) \/ Cancel(w) PROVE FALSE
    BY <1>1, <1>5 DEF StartRecover, Cancel, dbVars
  <1>6. ASSUME Crash PROVE FALSE
    BY <1>1, <1>6 DEF Crash, dbVars
  <1>7. ASSUME NEW x \in Path, NEW c \in Foreign \cup {Absent}, ExternalEdit(x, c) PROVE FALSE
    BY <1>1, <1>7 DEF ExternalEdit, dbVars
  <1>8. CASE UNCHANGED vars
    BY <1>1, <1>8 DEF vars
  <1>9. ASSUME NEW w \in Worker, Step(w)
        PROVE  /\ p = job[w].plan
               /\ \/ FinalizeVerified(w) /\ state'[p] = "VERIFIED"
                  \/ (FinalizeRolledBack(w) \/ RecoverEnd(w)) /\ AbortReady(p)
                        /\ state'[p] = "ROLLED_BACK"
    <2>1. CASE EndBatch(w) \/ \E q \in Plan : NextPlan(w, q) \/ RecoverSkip(w, q) \/ RecoverBegin(w, q)
      BY <1>1, <2>1 DEF EndBatch, NextPlan, RecoverSkip, RecoverBegin, dbVars
    <2>2. CASE \E q \in Plan : RecoverReset(w, q)
      BY <1>2, <2>2 DEF RecoverReset
    <2>3. CASE \/ CheckFails(w) \/ Invalidate(w) \/ Reserve(w) \/ ReserveFails(w)
               \/ BeginJournal(w) \/ BeginJournalFails(w) \/ Claim(w) \/ ClaimFails(w)
      BY <1>1, <1>2, <2>3 DEF CheckFails, Invalidate, Reserve, ReserveFails, BeginJournal,
         BeginJournalFails, Claim, ClaimFails, dbVars
    <2>4. CASE ActFinished(w) \/ ActCancelled(w) \/ ActSkip(w) \/ ActBegin(w)
      BY <1>1, <2>4 DEF ActFinished, ActCancelled, ActSkip, ActBegin, dbVars
    <2>5. CASE FileStep(w)
      BY <1>1, <2>5 DEF FileStep, CopyOpens, CopyRefused, CopyFills, CopyFails, VerifyPasses,
         VerifyFails, RemoveSource, RemoveFails, RemoveCopy, RemoveCopyFails, dbVars
    <2>6. CASE MarkDone(w) \/ MarkDoneFails(w) \/ MarkFailed(w)
      BY <1>1, <2>6 DEF MarkDone, MarkDoneFails, MarkFailed, SetRow, dbVars
    <2>7. CASE UndoBegins(w) \/ UndoSucceeded(w) \/ UndoFailed(w) \/ UndoEnds(w)
      BY <1>1, <2>7 DEF UndoBegins, UndoSucceeded, UndoFailed, Undone, UndoEnds, SetRow, dbVars
    <2>8. CASE FinalizeVerifiedFails(w) \/ FinalizeRolledBackFails(w)
      BY <1>1, <2>8 DEF FinalizeVerifiedFails, FinalizeRolledBackFails, dbVars
    <2>9. CASE FinalizeVerified(w)
      BY <1>0, <2>9 DEF FinalizeVerified
    <2>10. CASE FinalizeRolledBack(w) \/ RecoverEnd(w)
      BY <1>0, <2>10 DEF FinalizeRolledBack, RecoverEnd, SetState, dbVars
    <2> QED  BY <1>9, <2>1, <2>2, <2>3, <2>4, <2>5, <2>6, <2>7, <2>8, <2>9, <2>10 DEF Step
  <1> QED  BY <1>3, <1>4, <1>5, <1>6, <1>7, <1>8, <1>9 DEF Next

\* A plan that ends as VERIFIED has every file, with the recorded digest, where
\* its journal says, and a moved one nowhere else; one that ends as ROLLED_BACK
\* has every file back where it was scanned.  The executor finishes a plan by its
\* journal alone: that the journal is right is the invariant OInv, through every
\* failed step, crash and rollback in between.
THEOREM OutcomesTellTheTruth == Spec => OutcomesAreReal
  <1>1. ASSUME IInv, SInv, OInv, InOrder, [Next]_vars, NEW p \in Plan, state'[p] # state[p],
               NEW i \in Work(p), NEW a, a = Actions[p][i]
        PROVE  /\ state'[p] = "VERIFIED" =>
                     \/ a.src \in harmed
                     \/ /\ HasHashOf(data[journal[p][i].target], a.src)
                        /\ a.kind # "COPY" => data[a.src] # a.src
               /\ state'[p] = "ROLLED_BACK" =>
                     a.src \in harmed \/ HasHashOf(data[a.src], a.src)
    <2>1. \A c : c = a.src => HasHashOf(c, a.src)
      BY <1>1, ActionsAssumption DEF HasHashOf, Content, Work, Action
    <2>2. ASSUME state'[p] \in {"VERIFIED", "ROLLED_BACK"}
          PROVE  \/ state'[p] = "VERIFIED" /\ Moved(a, journal[p][i].target)
                 \/ state'[p] = "ROLLED_BACK" /\ Unmoved(a.src)
      <3>1. PICK w \in Worker :
              /\ p = job[w].plan
              /\ \/ FinalizeVerified(w) /\ state'[p] = "VERIFIED"
                 \/ (FinalizeRolledBack(w) \/ RecoverEnd(w)) /\ AbortReady(p)
                       /\ state'[p] = "ROLLED_BACK"
        BY <1>1, <2>2, PlansEnd
      <3>2. job[w].pc \in Busy
        BY <3>1 DEF FinalizeVerified, FinalizeRolledBack, RecoverEnd, At, Busy
      <3>3. state[p] = "EXECUTING" /\ Agrees(job[w])
        BY <1>1, <3>1, <3>2, BusyFacts
      <3>4. CASE FinalizeVerified(w) /\ state'[p] = "VERIFIED"
        <4>1. /\ job[w].pc = "commit" /\ job[w].mode = "do"
              /\ journal[p][i].status = "done"
          BY <3>1, <3>3, <3>4 DEF FinalizeVerified, At, CommitReady, Agrees
        <4>2. i < job[w].idx
          BY <1>1, <3>1, <3>2, <4>1 DEF InOrder, InStep, Doing
        <4>3. ActionReal(job[w], i)
          BY <1>1, <3>1, <3>2 DEF OInv, JobReal
        <4> QED  BY <1>1, <3>1, <3>4, <4>1, <4>2, <4>3 DEF ActionReal
      <3>5. CASE AbortReady(p) /\ state'[p] = "ROLLED_BACK"
        <4>1. journal[p][i].rb = "done" /\ RowReal(p, i)
          BY <1>1, <3>5 DEF AbortReady, OInv
        <4> QED  BY <1>1, <3>3, <3>5, <4>1 DEF RowReal
      <3> QED  BY <3>1, <3>4, <3>5
    <2> QED  BY <2>1, <2>2 DEF Moved, Unmoved
  <1>2. IInv /\ SInv /\ OInv /\ InOrder /\ [Next]_vars =>
          [\A p \in Plan : state'[p] # state[p] =>
              \A i \in Work(p) :
                 LET a == Actions[p][i]
                 IN  /\ state'[p] = "VERIFIED" =>
                           \/ a.src \in harmed
                           \/ /\ HasHashOf(data[journal[p][i].target], a.src)
                              /\ a.kind # "COPY" => data[a.src] # a.src
                     /\ state'[p] = "ROLLED_BACK" =>
                           a.src \in harmed \/ HasHashOf(data[a.src], a.src)]_vars
    BY <1>1
  <1>3. /\ Init => InOrder
        /\ IInv /\ InOrder /\ [Next]_vars => InOrder'
        /\ IInv /\ SInv /\ [Next]_vars => SInv'
        /\ IInv /\ SInv /\ OInv /\ InOrder /\ [Next]_vars => OInv'
    <2>1. Init => InOrder
      BY DEF Init, InOrder, InStep, Doing, Idle, Busy, Filing
    <2> QED  BY <2>1, OrderStep, SurvivalStep, RealityStep
  <1> QED  BY <1>2, <1>3, Inductive, KeptInitially, RealInitially, PTL
           DEF Spec, OutcomesAreReal
=============================================================================
