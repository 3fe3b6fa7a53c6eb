------------------------- MODULE AnalyzeRun_proofs -------------------------
(***************************************************************************)
(* Proofs about AnalyzeRun, for every index, any number of workers and any *)
(* size of batches and channel: what a run reports as saved is saved.      *)
(*                                                                         *)
(* The invariant keeps account of every file.  It is reused, waits for a   *)
(* worker, is with one, or is counted; the formats that workers have sent  *)
(* are in the channel, in the batch or written, in one of them only.       *)
(***************************************************************************)
EXTENDS AnalyzeRun, FiniteSetTheorems, SequenceTheorems, TLAPS

Ends == {"idle", "completed", "interrupted"}
Runs == [pc : {"submitting", "acquiring", "waiting", "persisting"} \cup Ends, store : BOOLEAN,
         cancelled : BOOLEAN, persistErr : BOOLEAN,
         fresh : Nat, processed : Nat, saved : Nat, missing : Nat]
Tasks == [pc : {"none", "reading", "sending", "read", "counted", "done"},
          info : Format \cup {"failed", None}, count : Nat]
Record == [file : File, info : Format]

Sorts ==
    /\ formats \in [File -> Format \cup {None}]
    /\ \A f \in File \ Indexed : formats[f] = None
    /\ run \in Runs
    /\ pending \subseteq File
    /\ task \in [File -> Tasks]
    /\ entries \in [File -> Format \cup {"failed", None}]
    /\ channel \in Seq(Record) /\ batch \in Seq(Record)
    /\ writer \in {"receiving", "writing", "ended"}
    /\ Cardinality(InFlight) <= Workers
    /\ Len(channel) <= Capacity /\ Len(batch) <= BatchSize
    /\ runs \in 0 .. MaxRuns /\ faults \in 0 .. MaxFaults

\* Files whose format was sent to be written, or is not to be written
Sent == {f \in File : task[f].pc \in {"read", "counted", "done"} /\ task[f].info \in Format}
\* Files whose record is on its way
Waiting == Written(channel) \cup Written(batch)
\* Files that are part of the report: by a worker of this run, or reused
Counted == {f \in File : task[f].pc \in {"counted", "done"}}
Taken == {f \in File : entries[f] # None /\ task[f].pc = "none"}

\* What the step of a task says of its entry in the report.
TaskOK(f) ==
    /\ task[f].pc \in {"none", "reading"} => task[f].info = None /\ task[f].count = 0
    /\ task[f].pc = "sending" => run.store /\ task[f].info \in Format
    /\ task[f].pc \in {"read", "counted", "done"} => task[f].info \in Format \cup {"failed"}
    /\ task[f].pc \in {"reading", "sending", "read"} => entries[f] = None
    /\ task[f].pc \in {"counted", "done"} =>
          entries[f] = task[f].info /\ task[f].count \in 1 .. run.fresh
    /\ f \in pending => task[f].pc = "none" /\ entries[f] = None
    /\ f \in Taken => entries[f] \in Format

\* A record carries what its task has read, and is nowhere twice.
Records(q) == \A i \in DOMAIN q : q[i].file \in Sent /\ q[i].info = task[q[i].file].info
Queues ==
    /\ Records(channel) /\ Records(batch)
    /\ \A i, j \in DOMAIN channel : i # j => channel[i].file # channel[j].file
    /\ Written(channel) \cap Written(batch) = {}

\* How far the goroutines are at each point of the run.
Control ==
    /\ run.fresh = Cardinality(Counted)
    /\ run.processed <= Cardinality(Taken) + run.fresh
    /\ run.pc \in {"persisting"} \cup Ends => InFlight = {}
    /\ run.pc = "idle" => \A f \in File : task[f] = NoTask /\ entries[f] = None
    /\ writer = "ended" => channel = <<>> /\ batch = <<>>
    /\ ~run.store => writer = "ended"
    /\ run.store /\ run.pc \in {"submitting", "acquiring", "waiting"} => writer # "ended"
    /\ run.pc \in Ends => writer = "ended"
    /\ writer = "receiving" => Len(batch) < BatchSize
    /\ run.pc = "completed" => Cardinality(Taken) + run.fresh = Cardinality(File)

\* What was sent and is not waiting any more is in the database, and counted.
Account ==
    run.store /\ ~run.persistErr =>
       /\ run.saved + run.missing = Cardinality(Sent \ Waiting)
       /\ \A f \in Indexed \cap (Sent \ Waiting) : formats[f] = task[f].info
       /\ \A f \in Taken : formats[f] = entries[f]

\* What is counted as saved or missing was written or has no row, also after a
\* transaction that failed.
Over == Sent \ Waiting
Landed == {f \in Over \cap Indexed : formats[f] = task[f].info}
Backed == run.saved <= Cardinality(Landed) /\ run.missing <= Cardinality(Over \ Indexed)

IInv == Sorts /\ (\A f \in File : TaskOK(f)) /\ Queues /\ Control /\ Account /\ Backed

-----------------------------------------------------------------------------
(* Sets of files and sequences of records *)

\* A set of files is finite.
LEMMA Files ==
    ASSUME NEW S, S \subseteq File
    PROVE  IsFiniteSet(S) /\ Cardinality(S) \in Nat /\ Cardinality(S) <= Cardinality(File)
           /\ Cardinality(File) \in Nat
  BY FS_Subset, FS_CardinalityType, AnalyzeRunAssumption

\* One more file in a set counts one more.
LEMMA OneMore ==
    ASSUME NEW S, S \subseteq File, NEW f \in File \ S
    PROVE  Cardinality(S \cup {f}) = Cardinality(S) + 1
  BY Files, FS_AddElement

\* Sets of files without a common file add up.
LEMMA Sum ==
    ASSUME NEW S, NEW T, S \subseteq File, T \subseteq File, S \cap T = {}
    PROVE  Cardinality(S \cup T) = Cardinality(S) + Cardinality(T)
  <1>1. IsFiniteSet(S) /\ IsFiniteSet(T) /\ Cardinality(S) \in Nat /\ Cardinality(T) \in Nat
    BY Files
  <1>2. Cardinality(S \cap T) = 0
    BY FS_EmptySet
  <1>3. Cardinality(S \cup T) = Cardinality(S) + Cardinality(T) - Cardinality(S \cap T)
    BY <1>1, FS_Union
  <1> QED  BY <1>1, <1>2, <1>3

\* The files of a queue, element by element.
LEMMA WrittenFiles ==
    ASSUME NEW q \in Seq(Record)
    PROVE  /\ Written(q) \subseteq File
           /\ \A f : f \in Written(q) <=> \E i \in 1 .. Len(q) : q[i].file = f
  <1>1. DOMAIN q = 1 .. Len(q) /\ \A i \in 1 .. Len(q) : q[i] \in Record
    BY LenProperties, ElementOfSeq
  <1>2. \A f : f \in Written(q) <=> \E i \in 1 .. Len(q) : q[i].file = f
    BY <1>1 DEF Written
  <1>3. \A i \in 1 .. Len(q) : q[i].file \in File
    BY <1>1 DEF Record
  <1> QED  BY <1>2, <1>3

\* An empty queue has no files.
LEMMA NothingWritten == Written(<<>>) = {} /\ Len(<<>>) = 0 /\ <<>> \in Seq(Record)
  BY DEF Written

\* What the state says of the shape of queues and tasks.
LEMMA Shapes ==
    ASSUME Sorts
    PROVE  /\ Written(channel) \subseteq File /\ Written(batch) \subseteq File
           /\ Sent \subseteq File /\ Counted \subseteq File /\ Taken \subseteq File
           /\ InFlight \subseteq File
           /\ \A f \in File : task[f] \in Tasks
  BY WrittenFiles DEF Sorts, Sent, Counted, Taken, InFlight

\* Nothing is said of a task but what task and entries say.
LEMMA SameTasks ==
    ASSUME UNCHANGED <<task, entries>>
    PROVE  Sent' = Sent /\ Counted' = Counted /\ Taken' = Taken /\ InFlight' = InFlight
  BY DEF Sent, Counted, Taken, InFlight

\* Of a set of files as many are counted as of one that contains it, or fewer.
LEMMA Fewer ==
    ASSUME NEW S, NEW T, S \subseteq T, T \subseteq File
    PROVE  Cardinality(S) <= Cardinality(T) /\ Cardinality(S) \in Nat /\ Cardinality(T) \in Nat
  BY Files, FS_Subset

\* The counters stay backed while the rows stay and no record waits again.
LEMMA StaysBacked ==
    ASSUME IInv, run'.saved = run.saved, run'.missing = run.missing, formats' = formats,
           Over \subseteq Over', Sent' \subseteq File, \A f \in Over : task'[f].info = task[f].info
    PROVE  Backed'
  <1>1. Landed \subseteq Landed' /\ Over \ Indexed \subseteq Over' \ Indexed
    BY DEF Landed
  <1>2. Landed' \subseteq File /\ Over' \ Indexed \subseteq File
    BY DEF Landed, Over
  <1>3. /\ Cardinality(Landed) <= Cardinality(Landed') /\ Cardinality(Landed) \in Nat
        /\ Cardinality(Landed') \in Nat
        /\ Cardinality(Over \ Indexed) <= Cardinality(Over' \ Indexed)
        /\ Cardinality(Over \ Indexed) \in Nat /\ Cardinality(Over' \ Indexed) \in Nat
    BY <1>1, <1>2, Fewer
  <1>4. run.saved \in Nat /\ run.missing \in Nat
    BY DEF IInv, Sorts, Runs
  <1> QED  BY <1>3, <1>4 DEF IInv, Backed

\* Counters that stand at zero are backed by anything.
LEMMA StartsBacked ==
    ASSUME NEW S, NEW T, S \subseteq File, T \subseteq File
    PROVE  0 <= Cardinality(S) /\ 0 <= Cardinality(T)
  BY Files

-----------------------------------------------------------------------------
(* Actions that only move the run on *)

\* What the run says of its store and its counters is what it said before.
RunKeeps ==
    /\ run' \in Runs
    /\ run'.store = run.store /\ run'.persistErr = run.persistErr
    /\ run'.fresh = run.fresh /\ run'.processed = run.processed
    /\ run'.saved = run.saved /\ run'.missing = run.missing

\* Only the point of the run changes: Control is what has to be shown.
LEMMA RunMoves ==
    ASSUME IInv, RunKeeps, UNCHANGED <<formats, pending, task, entries, channel, batch, writer>>,
           runs' \in 0 .. MaxRuns, faults' \in 0 .. MaxFaults, Control'
    PROVE  IInv'
  <1>1. Sent' = Sent /\ Counted' = Counted /\ Taken' = Taken /\ InFlight' = InFlight
    BY SameTasks
  <1>2. Sorts'
    BY <1>1 DEF IInv, Sorts, RunKeeps
  <1>3. \A f \in File : TaskOK(f)'
    BY <1>1 DEF IInv, TaskOK, RunKeeps
  <1>4. Queues'
    BY <1>1 DEF IInv, Queues, Records, Written
  <1>5. Account'
    BY <1>1 DEF IInv, Account, RunKeeps, Waiting, Written
  <1>6. Backed'
    <2>1. Over' = Over /\ Sent' \subseteq File
      BY <1>1 DEF Over, Waiting, Written, Sent
    <2> QED  BY <2>1, StaysBacked DEF RunKeeps
  <1> QED  BY <1>2, <1>3, <1>4, <1>5, <1>6 DEF IInv

\* The context has not ended when Submit looks at it.
LEMMA CheckContextStep ==
    ASSUME IInv, CheckContext
    PROVE  IInv'
  <1>1. run \in Runs /\ runs \in 0 .. MaxRuns /\ faults \in 0 .. MaxFaults
    BY DEF IInv, Sorts
  <1>2. RunKeeps /\ run'.pc = "acquiring" /\ run.pc = "submitting"
    BY <1>1 DEF RunKeeps, CheckContext, Runs
  <1>3. UNCHANGED <<formats, pending, task, entries, channel, batch, writer, runs, faults>>
    BY DEF CheckContext, done
  <1>4. Control'
    BY <1>2, <1>3, SameTasks DEF IInv, Control, RunKeeps, Ends
  <1> QED  BY <1>1, <1>2, <1>3, <1>4, RunMoves

\* Submitting ends with no file left or a cancelled context.
LEMMA StopSubmittingStep ==
    ASSUME IInv, StopSubmitting
    PROVE  IInv'
  <1>1. run \in Runs /\ runs \in 0 .. MaxRuns /\ faults \in 0 .. MaxFaults
    BY DEF IInv, Sorts
  <1>2. RunKeeps /\ run'.pc = "waiting" /\ run.pc \in {"submitting", "acquiring"}
    BY <1>1 DEF RunKeeps, StopSubmitting, Runs
  <1>3. UNCHANGED <<formats, pending, task, entries, channel, batch, writer, runs, faults>>
    BY DEF StopSubmitting, done
  <1>4. Control'
    BY <1>2, <1>3, SameTasks DEF IInv, Control, RunKeeps, Ends
  <1> QED  BY <1>1, <1>2, <1>3, <1>4, RunMoves

\* The channel is closed when no worker is left.
LEMMA CloseChannelStep ==
    ASSUME IInv, CloseChannel
    PROVE  IInv'
  <1>1. run \in Runs /\ runs \in 0 .. MaxRuns /\ faults \in 0 .. MaxFaults
    BY DEF IInv, Sorts
  <1>2. RunKeeps /\ run'.pc = "persisting" /\ run.pc = "waiting" /\ InFlight = {}
    BY <1>1 DEF RunKeeps, CloseChannel, Runs
  <1>3. UNCHANGED <<formats, pending, task, entries, channel, batch, writer, runs, faults>>
    BY DEF CloseChannel, done
  <1>4. Control'
    BY <1>2, <1>3, SameTasks DEF IInv, Control, RunKeeps, Ends
  <1> QED  BY <1>1, <1>2, <1>3, <1>4, RunMoves

\* A run returns after its writer has ended.
LEMMA ReturnStep ==
    ASSUME IInv, Return
    PROVE  IInv'
  <1>1. run \in Runs /\ runs \in 0 .. MaxRuns /\ faults \in 0 .. MaxFaults
    BY DEF IInv, Sorts
  <1>2. /\ RunKeeps /\ run'.pc \in {"completed", "interrupted"} /\ run.pc = "persisting"
        /\ writer = "ended"
        /\ run'.pc = "completed" => Reused + run.fresh = Cardinality(File)
    BY <1>1 DEF RunKeeps, Return, Runs, Ends
  <1>3. UNCHANGED <<formats, pending, task, entries, channel, batch, writer, runs, faults>>
    BY DEF Return, done
  <1>4. Reused = Cardinality(Taken)
    BY DEF Reused, Taken
  <1>5. Sent' = Sent /\ Counted' = Counted /\ Taken' = Taken /\ InFlight' = InFlight
    BY <1>3, SameTasks
  <1>6. run'.pc = "completed" => Cardinality(Taken') + run'.fresh = Cardinality(File)
    BY <1>2, <1>4, <1>5 DEF RunKeeps
  <1>7. run'.pc # "idle" /\ run'.pc # "submitting" /\ run'.pc # "waiting"
    BY <1>2
  <1>8. Control'
    BY <1>2, <1>3, <1>5, <1>6, <1>7 DEF IInv, Control, RunKeeps
  <1> QED  BY <1>1, <1>2, <1>3, <1>8, RunMoves

\* A cancelled run goes on to its end.
LEMMA CancelStep ==
    ASSUME IInv, Cancel
    PROVE  IInv'
  <1>1. run \in Runs /\ runs \in 0 .. MaxRuns /\ faults \in 0 .. MaxFaults /\ MaxFaults \in Nat
    BY AnalyzeRunAssumption DEF IInv, Sorts
  <1>2. RunKeeps /\ run'.pc = run.pc /\ runs' = runs /\ faults' \in 0 .. MaxFaults
    <2>1. run' = [run EXCEPT !.cancelled = TRUE] /\ faults < MaxFaults /\ faults' = faults + 1
          /\ runs' = runs
      BY DEF Cancel
    <2>2. RunKeeps /\ run'.pc = run.pc
      BY <1>1, <2>1 DEF RunKeeps, Runs
    <2> QED  BY <1>1, <2>1, <2>2
  <1>3. UNCHANGED <<formats, pending, task, entries, channel, batch, writer>>
    BY DEF Cancel
  <1>4. Control'
    BY <1>2, <1>3, SameTasks DEF IInv, Control, RunKeeps, Ends
  <1> QED  BY <1>1, <1>2, <1>3, <1>4, RunMoves

-----------------------------------------------------------------------------
(* The start and the loss of a run *)

\* Nothing of a run is there before its first step, or after a crash.
LEMMA NothingYet ==
    ASSUME \A f \in File : task[f] = NoTask, channel = <<>>, batch = <<>>
    PROVE  /\ Sent = {} /\ Counted = {} /\ InFlight = {} /\ Waiting = {} /\ Queues
           /\ Cardinality(Counted) = 0 /\ Cardinality(InFlight) = 0
           /\ Cardinality(Sent \ Waiting) = 0
  <1>1. Sent = {} /\ Counted = {} /\ InFlight = {}
    BY DEF Sent, Counted, InFlight, NoTask
  <1>2. Waiting = {} /\ Queues
    BY NothingWritten DEF Waiting, Queues, Records
  <1> QED  BY <1>1, <1>2, FS_EmptySet

\* The invariant holds before the first run.
LEMMA Initially == Init => IInv
  <1> SUFFICES ASSUME Init PROVE IInv
    OBVIOUS
  <1>1. /\ \A f \in File : task[f] = NoTask /\ entries[f] = None /\ formats[f] = None
        /\ channel = <<>> /\ batch = <<>> /\ writer = "ended" /\ run = Idle /\ pending = {}
        /\ runs = 0 /\ faults = 0
    BY DEF Init
  <1>2. Idle \in Runs /\ NoTask \in Tasks
    BY DEF Idle, NoTask, Runs, Tasks, Ends
  <1>3. Taken = {} /\ Cardinality(Taken) = 0
    BY <1>1, FS_EmptySet DEF Taken
  <1>4. Sorts
    BY <1>1, <1>2, NothingYet, NothingWritten, AnalyzeRunAssumption DEF Sorts, Init
  <1>5. ASSUME NEW f \in File PROVE TaskOK(f)
    BY <1>1, <1>3 DEF TaskOK, NoTask
  <1>6. Control
    BY <1>1, <1>3, NothingYet DEF Control, Idle, Ends
  <1>7. Account
    BY <1>1 DEF Account, Idle
  <1>8. Backed
    <2>1. Landed \subseteq File /\ Over \ Indexed \subseteq File
      BY DEF Landed, Over, Sent
    <2> QED  BY <1>1, <2>1, StartsBacked DEF Backed, Idle
  <1> QED  BY <1>1, <1>4, <1>5, <1>6, <1>7, <1>8, NothingYet DEF IInv

\* A crash leaves the rows.
LEMMA CrashStep ==
    ASSUME IInv, Crash
    PROVE  IInv'
  <1>1. /\ \A f \in File : task'[f] = NoTask /\ entries'[f] = None
        /\ channel' = <<>> /\ batch' = <<>> /\ writer' = "ended" /\ run' = Idle /\ pending' = {}
        /\ runs' = runs /\ formats' = formats
    BY DEF Crash
  <1>2. Idle \in Runs /\ NoTask \in Tasks /\ faults' \in 0 .. MaxFaults
    BY AnalyzeRunAssumption DEF Idle, NoTask, Runs, Tasks, Ends, Crash, IInv, Sorts
  <1>3. Taken' = {} /\ Cardinality(Taken') = 0
    BY <1>1, FS_EmptySet DEF Taken
  <1>4. /\ Sent' = {} /\ Counted' = {} /\ InFlight' = {} /\ Waiting' = {} /\ Queues'
        /\ Cardinality(Counted') = 0 /\ Cardinality(InFlight') = 0
    <2>1. Sent' = {} /\ Counted' = {} /\ InFlight' = {}
      BY <1>1 DEF Sent, Counted, InFlight, NoTask
    <2>2. Waiting' = {} /\ Queues'
      BY <1>1, NothingWritten DEF Waiting, Queues, Records, Written
    <2> QED  BY <2>1, <2>2, FS_EmptySet
  <1>5. Sorts'
    BY <1>1, <1>2, <1>4, NothingWritten, AnalyzeRunAssumption DEF Sorts, IInv, Crash
  <1>6. ASSUME NEW f \in File PROVE TaskOK(f)'
    BY <1>1, <1>3 DEF TaskOK, NoTask
  <1>7. Control'
    BY <1>1, <1>3, <1>4 DEF Control, Idle, Ends
  <1>8. Account'
    BY <1>1 DEF Account, Idle
  <1>9. Backed'
    <2>1. Landed' \subseteq File /\ Over' \ Indexed \subseteq File
      BY DEF Landed, Over, Sent
    <2>2. run'.saved = 0 /\ run'.missing = 0
      BY <1>1 DEF Idle
    <2> QED  BY <2>1, <2>2, StartsBacked DEF Backed
  <1> QED  BY <1>4, <1>5, <1>6, <1>7, <1>8, <1>9 DEF IInv

\* A run starts with the rows it reuses and everything else to do.
LEMMA AnalyzeStep ==
    ASSUME IInv, NEW store \in BOOLEAN, NEW resume \in BOOLEAN, NEW refresh \in BOOLEAN,
           NEW active \in SUBSET Indexed, Analyze(store, resume, refresh, active)
    PROVE  IInv'
  <1> DEFINE reused == Reusable(resume, refresh, active)
  <1>1. /\ run' = [Idle EXCEPT !.pc = "submitting", !.store = store]
        /\ runs < MaxRuns /\ runs' = runs + 1
        /\ entries' = [f \in File |-> IF f \in reused THEN formats[f] ELSE None]
        /\ pending' = File \ reused
        /\ task' = [f \in File |-> NoTask]
        /\ channel' = <<>> /\ batch' = <<>>
        /\ writer' = IF store THEN "receiving" ELSE "ended"
        /\ formats' = formats /\ faults' = faults
        /\ LegalCall(store, resume, refresh)
    BY DEF Analyze
  <1>2. /\ run' \in Runs /\ run'.pc = "submitting" /\ run'.store = store /\ ~run'.persistErr
        /\ run'.fresh = 0 /\ run'.processed = 0 /\ run'.saved = 0 /\ run'.missing = 0
    BY <1>1 DEF Idle, Runs
  <1>3. /\ NoTask \in Tasks /\ NoTask.pc = "none" /\ NoTask.info = None /\ NoTask.count = 0
        /\ runs' \in 0 .. MaxRuns
    BY <1>1, AnalyzeRunAssumption DEF NoTask, Tasks, IInv, Sorts
  <1>4. reused \subseteq File /\ \A f \in reused : formats[f] \in Format /\ formats[f] # None /\ store
    BY <1>1, AnalyzeRunAssumption DEF Reusable, LegalCall, IInv, Sorts, Format
  <1>5. Taken' = reused
    BY <1>1, <1>3, <1>4 DEF Taken
  <1>6. /\ Sent' = {} /\ Counted' = {} /\ InFlight' = {} /\ Waiting' = {} /\ Queues'
        /\ Cardinality(Counted') = 0 /\ Cardinality(InFlight') = 0
        /\ Cardinality(Sent' \ Waiting') = 0
    <2>1. Sent' = {} /\ Counted' = {} /\ InFlight' = {}
      BY <1>1, <1>3 DEF Sent, Counted, InFlight
    <2>2. Waiting' = {} /\ Queues'
      BY <1>1, NothingWritten DEF Waiting, Queues, Records, Written
    <2> QED  BY <2>1, <2>2, FS_EmptySet
  <1>7. Sorts'
    <2>1. entries' \in [File -> Format \cup {"failed", None}] /\ task' \in [File -> Tasks]
      BY <1>1, <1>3, <1>4
    <2> QED  BY <2>1, <1>1, <1>2, <1>3, <1>6, NothingWritten, AnalyzeRunAssumption DEF Sorts, IInv
  <1>8. ASSUME NEW f \in File PROVE TaskOK(f)'
    <2>1. task'[f] = NoTask /\ (f \in Taken' => entries'[f] \in Format)
          /\ (f \in pending' => entries'[f] = None)
      BY <1>1, <1>4, <1>5
    <2> QED  BY <2>1, <1>3 DEF TaskOK
  <1>9. Control'
    <2>1. Cardinality(Taken') \in Nat
      BY <1>4, <1>5, Files
    <2>2. Len(batch') = 0 /\ BatchSize \in Nat \ {0}
      BY <1>1, NothingWritten, AnalyzeRunAssumption
    <2>3. run'.fresh = Cardinality(Counted') /\ run'.processed <= Cardinality(Taken') + run'.fresh
      BY <2>1, <1>2, <1>6
    <2> QED  BY <2>2, <2>3, <1>1, <1>2 DEF Control, Ends
  <1>10. Account'
    <2>1. \A f \in Taken' : formats'[f] = entries'[f]
      BY <1>1, <1>4, <1>5
    <2> QED  BY <2>1, <1>2, <1>6 DEF Account
  <1>11. Backed'
    <2>1. Landed' \subseteq File /\ Over' \ Indexed \subseteq File
      BY DEF Landed, Over, Sent
    <2> QED  BY <1>2, <2>1, StartsBacked DEF Backed
  <1> QED  BY <1>6, <1>7, <1>8, <1>9, <1>10, <1>11 DEF IInv

-----------------------------------------------------------------------------
(* The pool *)

\* While a task is in flight the run is on, and its writer with it.
LEMMA OnTheWay ==
    ASSUME IInv, NEW f \in InFlight
    PROVE  /\ run.pc \in {"submitting", "acquiring", "waiting"}
           /\ run.store => writer # "ended"
  BY DEF IInv, Control, Sorts, Runs, Ends

\* A submitted file is in flight, one more than before.
LEMMA SubmitStep ==
    ASSUME IInv, Submit
    PROVE  IInv'
  <1>1. PICK f \in File : /\ Foremost(f)
                          /\ task' = [task EXCEPT ![f].pc = "reading"]
                          /\ pending' = pending \ {f}
    BY DEF Submit
  <1>2. /\ run.pc = "acquiring" /\ Cardinality(InFlight) < Workers
        /\ run' = [run EXCEPT !.pc = "submitting"]
        /\ UNCHANGED <<formats, entries, channel, batch, writer, runs, faults>>
    BY DEF Submit, done
  <1>14. RunKeeps /\ run'.pc = "submitting"
    BY <1>2 DEF IInv, Sorts, RunKeeps, Runs
  <1>3. /\ f \in pending /\ task[f].pc = "none" /\ entries[f] = None
        /\ task[f].info = None /\ task[f].count = 0
    BY <1>1 DEF Foremost, IInv, TaskOK
  <1>4. /\ task' \in [File -> Tasks] /\ task'[f].pc = "reading"
        /\ task'[f].info = None /\ task'[f].count = 0
        /\ \A g \in File \ {f} : task'[g] = task[g]
    BY <1>1, <1>3 DEF IInv, Sorts, Tasks
  <1>5. Sent' = Sent /\ Counted' = Counted /\ Taken' = Taken
    BY <1>2, <1>3, <1>4 DEF Sent, Counted, Taken
  <1>6. InFlight' = InFlight \cup {f} /\ f \notin InFlight
    BY <1>3, <1>4 DEF InFlight
  <1>7. Cardinality(InFlight') <= Workers
    <2>1. InFlight \subseteq File
      BY DEF InFlight
    <2>2. Cardinality(InFlight') = Cardinality(InFlight) + 1 /\ Cardinality(InFlight) \in Nat
      BY <1>6, <2>1, OneMore, Files
    <2> QED  BY <1>2, <2>2, AnalyzeRunAssumption
  <1>8. Sorts'
    BY <1>1, <1>2, <1>4, <1>7, <1>14 DEF IInv, Sorts, RunKeeps
  <1>9. ASSUME NEW g \in File PROVE TaskOK(g)'
    <2>1. CASE g = f
      BY <2>1, <1>1, <1>2, <1>3, <1>4, <1>5 DEF TaskOK, Taken
    <2>2. CASE g # f
      BY <2>2, <1>1, <1>2, <1>4, <1>5, <1>14 DEF IInv, TaskOK, RunKeeps
    <2> QED  BY <2>1, <2>2
  <1>10. f \notin Sent /\ \A g \in Sent : task'[g] = task[g]
    BY <1>3, <1>4 DEF Sent
  <1>11. Queues'
    BY <1>2, <1>5, <1>10 DEF IInv, Queues, Records, Written
  <1>12. Control'
    BY <1>2, <1>5, <1>14 DEF IInv, Control, Ends, RunKeeps
  <1>13. Account'
    BY <1>2, <1>5, <1>10, <1>14 DEF IInv, Account, Waiting, Written, RunKeeps
  <1>15. Backed'
    <2>1. Over' = Over /\ Over \subseteq Sent /\ Sent \subseteq File
      BY <1>2, <1>5 DEF Over, Waiting, Written, Sent
    <2> QED  BY <2>1, <1>2, <1>5, <1>10, <1>14, StaysBacked DEF RunKeeps
  <1> QED  BY <1>8, <1>9, <1>11, <1>12, <1>13, <1>15 DEF IInv

\* A header was read: the file is in flight as before, and its format is sent
\* only if there is a database.
LEMMA ReadStep ==
    ASSUME IInv, NEW f \in File, Read(f)
    PROVE  IInv'
  <1>1. PICK info \in Format \cup {"failed"} :
          task' = [task EXCEPT ![f].info = info,
                       ![f].pc = IF run.store /\ info # "failed" THEN "sending" ELSE "read"]
    BY DEF Read
  <1>2. /\ task[f].pc = "reading" /\ task[f].count = 0 /\ entries[f] = None
        /\ UNCHANGED <<formats, run, pending, entries, channel, batch, writer, runs, faults>>
    BY DEF Read, done, IInv, TaskOK
  <1>3. /\ task' \in [File -> Tasks] /\ task'[f].info = info /\ task'[f].count = 0
        /\ task'[f].pc \in {"sending", "read"}
        /\ task'[f].pc = "sending" => run.store /\ info \in Format
        /\ run.store /\ info \in Format => task'[f].pc = "sending"
        /\ \A g \in File \ {f} : task'[g] = task[g]
    BY <1>1, <1>2 DEF IInv, Sorts, Tasks, Format
  <1>4. Counted' = Counted /\ Taken' = Taken /\ InFlight' = InFlight
    BY <1>2, <1>3 DEF Counted, Taken, InFlight
  <1>5. /\ f \notin Sent /\ Sent \subseteq Sent' /\ (run.store => Sent' = Sent)
        /\ \A g \in Sent : task'[g] = task[g]
    <2>1. \A g \in File \ {f} : g \in Sent' <=> g \in Sent
      BY <1>3 DEF Sent
    <2>2. f \notin Sent /\ (run.store => f \notin Sent')
      BY <1>2, <1>3 DEF Sent
    <2>3. Sent \subseteq File /\ Sent' \subseteq File
      BY DEF Sent
    <2>4. \A g \in Sent : g # f /\ task'[g] = task[g]
      BY <1>3, <2>2, <2>3
    <2> QED  BY <2>1, <2>2, <2>3, <2>4
  <1>6. Sorts'
    BY <1>2, <1>3, <1>4 DEF IInv, Sorts
  <1>7. ASSUME NEW g \in File PROVE TaskOK(g)'
    <2>1. CASE g = f
      BY <2>1, <1>2, <1>3, <1>4 DEF IInv, TaskOK, Taken
    <2>2. CASE g # f
      BY <2>2, <1>2, <1>3, <1>4 DEF IInv, TaskOK
    <2> QED  BY <2>1, <2>2
  <1>8. Queues'
    <2>1. Records(channel)' /\ Records(batch)'
      BY <1>2, <1>5 DEF IInv, Queues, Records
    <2> QED  BY <2>1, <1>2 DEF IInv, Queues, Written
  <1>9. f \in InFlight
    BY <1>2 DEF InFlight
  <1>10. Control'
    BY <1>2, <1>4, <1>9, OnTheWay DEF IInv, Control, Ends
  <1>11. Account'
    BY <1>2, <1>4, <1>5 DEF IInv, Account, Waiting, Written
  <1>12. Backed'
    <2>1. Over \subseteq Over' /\ Over \subseteq Sent /\ Sent' \subseteq File
      BY <1>2, <1>5 DEF Over, Waiting, Written, Sent
    <2> QED  BY <2>1, <1>2, <1>5, StaysBacked
  <1> QED  BY <1>6, <1>7, <1>8, <1>10, <1>11, <1>12 DEF IInv

\* A record is added at the end of a queue.
LEMMA Added ==
    ASSUME NEW q \in Seq(Record), NEW r \in Record
    PROVE  /\ Append(q, r) \in Seq(Record) /\ Len(Append(q, r)) = Len(q) + 1
           /\ DOMAIN Append(q, r) = 1 .. Len(q) + 1
           /\ \A i \in 1 .. Len(q) : Append(q, r)[i] = q[i]
           /\ Append(q, r)[Len(q) + 1] = r
           /\ Written(Append(q, r)) = Written(q) \cup {r.file}
  <1> DEFINE s == Append(q, r)
  <1>1. /\ s \in Seq(Record) /\ Len(s) = Len(q) + 1 /\ DOMAIN s = 1 .. Len(q) + 1
        /\ \A i \in 1 .. Len(q) : s[i] = q[i]
        /\ s[Len(q) + 1] = r /\ Len(q) \in Nat
    BY AppendProperties, LenProperties
  <1>2. \A f : f \in Written(s) <=> f \in Written(q) \cup {r.file}
    <2> HIDE DEF s
    <2>1. \A f : f \in Written(s) <=> \E i \in 1 .. Len(q) + 1 : s[i].file = f
      BY <1>1 DEF Written
    <2>2. \A f : f \in Written(q) <=> \E i \in 1 .. Len(q) : q[i].file = f
      BY WrittenFiles
    <2>3. 1 .. Len(q) + 1 = (1 .. Len(q)) \cup {Len(q) + 1}
      BY <1>1
    <2> QED  BY <1>1, <2>1, <2>2, <2>3
  <1> QED  BY <1>1, <1>2

\* A record is sent once, and waits from then on.
LEMMA SendStep ==
    ASSUME IInv, NEW f \in File, Send(f)
    PROVE  IInv'
  <1> DEFINE r == [file |-> f, info |-> task[f].info]
  <1>1. /\ task[f].pc = "sending" /\ Len(channel) < Capacity
        /\ channel' = Append(channel, r)
        /\ task' = [task EXCEPT ![f].pc = "read"]
        /\ UNCHANGED <<formats, run, pending, entries, batch, writer, runs, faults>>
    BY DEF Send, done
  <1>2. /\ run.store /\ task[f].info \in Format /\ entries[f] = None /\ r \in Record
        /\ channel \in Seq(Record) /\ Len(channel) \in Nat
    BY <1>1 DEF IInv, TaskOK, Record, Sorts
  <1>3. /\ task' \in [File -> Tasks] /\ task'[f].info = task[f].info
        /\ task'[f].count = task[f].count /\ task'[f].pc = "read"
        /\ \A g \in File \ {f} : task'[g] = task[g]
    BY <1>1 DEF IInv, Sorts, Tasks
  <1>4. Counted' = Counted /\ Taken' = Taken /\ InFlight' = InFlight
    BY <1>1, <1>3 DEF Counted, Taken, InFlight
  <1>5. f \notin Sent /\ Sent' = Sent \cup {f} /\ \A g \in Sent' : task'[g].info = task[g].info
    BY <1>1, <1>2, <1>3 DEF Sent
  <1>6. /\ channel' \in Seq(Record) /\ Len(channel') = Len(channel) + 1
        /\ DOMAIN channel' = 1 .. Len(channel) + 1
        /\ \A i \in 1 .. Len(channel) : channel'[i] = channel[i]
        /\ channel'[Len(channel) + 1] = r
        /\ Written(channel)' = Written(channel) \cup {f}
    <2>1. Written(channel)' = Written(channel')
      BY DEF Written
    <2> QED  BY <2>1, <1>1, <1>2, Added
  <1>7. Sorts'
    BY <1>1, <1>3, <1>4, <1>6, AnalyzeRunAssumption, <1>2 DEF IInv, Sorts
  <1>8. ASSUME NEW g \in File PROVE TaskOK(g)'
    <2>1. CASE g = f
      BY <2>1, <1>1, <1>2, <1>3, <1>4 DEF IInv, TaskOK, Taken
    <2>2. CASE g # f
      BY <2>2, <1>1, <1>3, <1>4 DEF IInv, TaskOK
    <2> QED  BY <2>1, <2>2
  <1>9. Written(channel) \subseteq Sent /\ Written(batch) \subseteq Sent
    BY DEF IInv, Queues, Records, Written
  <1>10. DOMAIN channel = 1 .. Len(channel)
    BY <1>2, LenProperties
  <1>11. Queues'
    <2>1. Records(channel)'
      <3> SUFFICES ASSUME NEW i \in 1 .. Len(channel) + 1
                   PROVE  channel'[i].file \in Sent' /\ channel'[i].info = task'[channel'[i].file].info
        BY <1>6 DEF Records
      <3>1. CASE i \in 1 .. Len(channel)
        BY <3>1, <1>5, <1>6, <1>10 DEF IInv, Queues, Records
      <3>2. CASE i = Len(channel) + 1
        BY <3>2, <1>3, <1>5, <1>6
      <3> QED  BY <3>1, <3>2, <1>2
    <2>2. Records(batch)'
      BY <1>1, <1>5 DEF IInv, Queues, Records
    <2>3. ASSUME NEW i \in 1 .. Len(channel) + 1, NEW j \in 1 .. Len(channel) + 1, i # j
          PROVE  channel'[i].file # channel'[j].file
      <3>1. \A k \in 1 .. Len(channel) : channel'[k].file \in Sent /\ channel'[k].file # f
        BY <1>5, <1>6, <1>10 DEF IInv, Queues, Records
      <3>2. CASE i \in 1 .. Len(channel) /\ j \in 1 .. Len(channel)
        BY <2>3, <3>2, <1>6, <1>10 DEF IInv, Queues
      <3>3. CASE i = Len(channel) + 1 \/ j = Len(channel) + 1
        BY <2>3, <3>1, <3>3, <1>2, <1>6
      <3> QED  BY <3>2, <3>3, <1>2
    <2>4. (Written(channel) \cap Written(batch))' = {}
      <3>1. Written(batch)' = Written(batch) /\ f \notin Written(batch)
        BY <1>1, <1>5, <1>9 DEF Written
      <3> QED  BY <3>1, <1>6 DEF IInv, Queues
    <2> QED  BY <2>1, <2>2, <2>3, <2>4, <1>6 DEF Queues
  <1>12. f \in InFlight
    BY <1>1 DEF InFlight
  <1>13. Control'
    BY <1>1, <1>4, <1>12, OnTheWay, <1>2 DEF IInv, Control, Ends
  <1>14. Sent' \ Waiting' = Sent \ Waiting
    <2>1. Waiting' = Waiting \cup {f}
      BY <1>1, <1>6 DEF Waiting, Written
    <2> QED  BY <2>1, <1>5
  <1>15. Account'
    BY <1>1, <1>4, <1>5, <1>14 DEF IInv, Account
  <1>16. Backed'
    <2>1. Over' = Over /\ Over \subseteq Sent' /\ Sent' \subseteq File
      BY <1>5, <1>14 DEF Over, Sent
    <2> QED  BY <2>1, <1>1, <1>5, StaysBacked
  <1> QED  BY <1>7, <1>8, <1>11, <1>13, <1>15, <1>16 DEF IInv

\* An entry of the report is counted once.
LEMMA CountStep ==
    ASSUME IInv, NEW f \in File, Count(f)
    PROVE  IInv'
  <1>1. /\ task[f].pc = "read"
        /\ entries' = [entries EXCEPT ![f] = task[f].info]
        /\ run' = [run EXCEPT !.fresh = @ + 1]
        /\ task' = [task EXCEPT ![f].pc = "counted", ![f].count = run.fresh + 1]
        /\ UNCHANGED <<formats, pending, channel, batch, writer, runs, faults>>
    BY DEF Count, done
  <1>2. /\ task[f].info \in Format \cup {"failed"} /\ task[f].info # None
        /\ run \in Runs /\ run.fresh \in Nat /\ run.processed \in Nat /\ f \in InFlight
    BY <1>1, AnalyzeRunAssumption DEF IInv, Sorts, Runs, TaskOK, InFlight, Format
  <1>3. /\ task' \in [File -> Tasks] /\ task'[f].pc = "counted" /\ task'[f].count = run.fresh + 1
        /\ task'[f].info = task[f].info
        /\ \A g \in File \ {f} : task'[g] = task[g]
    <2> DEFINE t == [task[f] EXCEPT !.pc = "counted", !.count = run.fresh + 1]
    <2>1. task[f] \in Tasks /\ task \in [File -> Tasks]
      BY DEF IInv, Sorts
    <2>2. t \in Tasks /\ t.pc = "counted" /\ t.count = run.fresh + 1 /\ t.info = task[f].info
      <3>1. \A n \in Nat : LET u == [task[f] EXCEPT !.pc = "counted", !.count = n]
                           IN  /\ u \in Tasks /\ u.pc = "counted" /\ u.count = n
                               /\ u.info = task[f].info
        BY <2>1 DEF Tasks
      <3>2. run.fresh + 1 \in Nat
        BY <1>2
      <3> QED  BY <3>1, <3>2
    <2>3. task' = [task EXCEPT ![f] = t]
      BY <1>1, <2>1 DEF Tasks
    <2> HIDE DEF t
    <2> QED  BY <2>1, <2>2, <2>3
  <1>4. /\ entries' \in [File -> Format \cup {"failed", None}]
        /\ entries'[f] = task[f].info /\ \A g \in File \ {f} : entries'[g] = entries[g]
    BY <1>1, <1>2 DEF IInv, Sorts
  <1>5. /\ run' \in Runs /\ run'.pc = run.pc /\ run'.store = run.store
        /\ run'.persistErr = run.persistErr /\ run'.fresh = run.fresh + 1
        /\ run'.processed = run.processed /\ run'.saved = run.saved /\ run'.missing = run.missing
    BY <1>1, <1>2 DEF Runs
  <1>6. Sent' = Sent /\ Taken' = Taken /\ InFlight' = InFlight
    BY <1>1, <1>3, <1>4 DEF Sent, Taken, InFlight
  <1>7. Counted' = Counted \cup {f} /\ f \notin Counted /\ Counted \subseteq File
    BY <1>1, <1>3 DEF Counted
  <1>8. Sorts'
    BY <1>1, <1>3, <1>4, <1>5, <1>6 DEF IInv, Sorts
  <1>9. ASSUME NEW g \in File PROVE TaskOK(g)'
    <2>1. CASE g = f
      BY <2>1, <1>1, <1>2, <1>3, <1>4, <1>5, <1>6 DEF IInv, TaskOK, Taken
    <2>2. CASE g # f
      BY <2>2, <1>1, <1>2, <1>3, <1>4, <1>5, <1>6 DEF IInv, TaskOK, Taken
    <2> QED  BY <2>1, <2>2
  <1>10. \A g \in File : task'[g].info = task[g].info
    BY <1>3
  <1>11. Queues'
    <2>1. \A g \in Sent : task'[g].info = task[g].info
      BY <1>10 DEF Sent
    <2>2. Records(channel)' /\ Records(batch)'
      BY <2>1, <1>1, <1>6 DEF IInv, Queues, Records
    <2> QED  BY <2>2, <1>1 DEF IInv, Queues, Written
  <1>12. run'.fresh = Cardinality(Counted')
    BY <1>5, <1>7, OneMore DEF IInv, Control
  <1>13. run'.processed <= Cardinality(Taken') + run'.fresh
    <2>1. Cardinality(Taken) \in Nat
      BY Files DEF Taken
    <2>2. run.processed <= Cardinality(Taken) + run.fresh
      BY DEF IInv, Control
    <2> QED  BY <2>1, <2>2, <1>2, <1>5, <1>6
  <1>14. Control'
    BY <1>1, <1>2, <1>5, <1>6, <1>12, <1>13, OnTheWay DEF IInv, Control, Ends
  <1>15. Account'
    <2>1. \A g \in Taken : entries'[g] = entries[g]
      BY <1>1, <1>4 DEF Taken
    <2>2. Indexed \subseteq File
      BY AnalyzeRunAssumption
    <2>3. Waiting' = Waiting
      BY <1>1 DEF Waiting, Written
    <2> QED  BY <2>1, <2>2, <2>3, <1>1, <1>5, <1>6, <1>10 DEF IInv, Account
  <1>16. Backed'
    <2>1. Over' = Over /\ Over \subseteq File /\ Sent' \subseteq File
      BY <1>1, <1>6 DEF Over, Waiting, Written, Sent
    <2> QED  BY <2>1, <1>1, <1>5, <1>10, StaysBacked
  <1> QED  BY <1>8, <1>9, <1>11, <1>14, <1>15, <1>16 DEF IInv

\* What is shown as progress is a count of entries, if an old one.
LEMMA PublishStep ==
    ASSUME IInv, NEW f \in File, Publish(f)
    PROVE  IInv'
  <1>1. /\ task[f].pc = "counted"
        /\ run' = [run EXCEPT !.processed = Reused + task[f].count]
        /\ task' = [task EXCEPT ![f].pc = "done"]
        /\ UNCHANGED <<formats, pending, entries, channel, batch, writer, runs, faults>>
    BY DEF Publish, done
  <1>2. /\ task[f].count \in 1 .. run.fresh /\ entries[f] = task[f].info
        /\ run \in Runs /\ run.fresh \in Nat /\ f \in InFlight
    BY <1>1 DEF IInv, Sorts, Runs, TaskOK, InFlight
  <1>3. /\ task' \in [File -> Tasks] /\ task'[f].pc = "done" /\ task'[f].count = task[f].count
        /\ task'[f].info = task[f].info
        /\ \A g \in File \ {f} : task'[g] = task[g]
    BY <1>1 DEF IInv, Sorts, Tasks
  <1>4. Reused = Cardinality(Taken) /\ Cardinality(Taken) \in Nat
    BY Files DEF Reused, Taken
  <1>5. /\ run' \in Runs /\ run'.pc = run.pc /\ run'.store = run.store
        /\ run'.persistErr = run.persistErr /\ run'.fresh = run.fresh
        /\ run'.processed = Cardinality(Taken) + task[f].count
        /\ run'.saved = run.saved /\ run'.missing = run.missing
    BY <1>1, <1>2, <1>4 DEF Runs
  <1>6. Sent' = Sent /\ Taken' = Taken /\ Counted' = Counted
    BY <1>1, <1>3 DEF Sent, Taken, Counted
  <1>7. InFlight' = InFlight \ {f} /\ InFlight \subseteq File
    BY <1>1, <1>3 DEF InFlight
  <1>8. Cardinality(InFlight') <= Workers
    <2>1. IsFiniteSet(InFlight) /\ Cardinality(InFlight) \in Nat /\ Cardinality(InFlight) <= Workers
      BY <1>7, Files DEF IInv, Sorts
    <2>2. Cardinality(InFlight') = Cardinality(InFlight) - 1
      BY <1>2, <1>7, <2>1, FS_RemoveElement
    <2> QED  BY <2>1, <2>2, AnalyzeRunAssumption
  <1>9. Sorts'
    BY <1>1, <1>3, <1>5, <1>8 DEF IInv, Sorts
  <1>10. ASSUME NEW g \in File PROVE TaskOK(g)'
    <2>1. CASE g = f
      BY <2>1, <1>1, <1>2, <1>3, <1>5, <1>6 DEF IInv, TaskOK, Taken
    <2>2. CASE g # f
      BY <2>2, <1>1, <1>3, <1>5, <1>6 DEF IInv, TaskOK
    <2> QED  BY <2>1, <2>2
  <1>11. \A g \in File : task'[g].info = task[g].info
    BY <1>3
  <1>12. Queues'
    <2>1. \A g \in Sent : task'[g].info = task[g].info
      BY <1>11 DEF Sent
    <2>2. Records(channel)' /\ Records(batch)'
      BY <2>1, <1>1, <1>6 DEF IInv, Queues, Records
    <2> QED  BY <2>2, <1>1 DEF IInv, Queues, Written
  <1>13. run'.processed <= Cardinality(Taken') + run'.fresh
    BY <1>2, <1>4, <1>5, <1>6
  <1>14. Control'
    BY <1>1, <1>2, <1>5, <1>6, <1>13, OnTheWay DEF IInv, Control, Ends
  <1>15. Account'
    <2>1. Indexed \subseteq File
      BY AnalyzeRunAssumption
    <2> QED  BY <2>1, <1>1, <1>5, <1>6, <1>11 DEF IInv, Account, Waiting, Written
  <1>16. Backed'
    <2>1. Over' = Over /\ Over \subseteq File /\ Sent' \subseteq File
      BY <1>1, <1>6 DEF Over, Waiting, Written, Sent
    <2> QED  BY <2>1, <1>1, <1>5, <1>11, StaysBacked
  <1> QED  BY <1>9, <1>10, <1>12, <1>14, <1>15, <1>16 DEF IInv

-----------------------------------------------------------------------------
(* The persistence goroutine *)

\* A record is taken from the front of a queue of different files.
LEMMA Received ==
    ASSUME NEW q \in Seq(Record), q # <<>>,
           \A i, j \in DOMAIN q : i # j => q[i].file # q[j].file
    PROVE  /\ Tail(q) \in Seq(Record) /\ Len(Tail(q)) = Len(q) - 1 /\ Len(q) \in Nat \ {0}
           /\ DOMAIN Tail(q) = 1 .. Len(q) - 1
           /\ \A i \in 1 .. Len(q) - 1 : Tail(q)[i] = q[i + 1]
           /\ Head(q) \in Record /\ Head(q) = q[1]
           /\ Written(Tail(q)) = Written(q) \ {Head(q).file}
           /\ Head(q).file \in Written(q)
  <1> DEFINE s == Tail(q)
  <1>1. /\ s \in Seq(Record) /\ Len(s) = Len(q) - 1 /\ Len(q) \in Nat \ {0}
        /\ DOMAIN s = 1 .. Len(q) - 1 /\ DOMAIN q = 1 .. Len(q)
        /\ \A i \in 1 .. Len(q) - 1 : s[i] = q[i + 1]
        /\ Head(q) \in Record /\ Head(q) = q[1]
    BY HeadTailProperties, LenProperties, EmptySeq
  <1> HIDE DEF s
  <1>2. \A f : f \in Written(s) <=> \E i \in 1 .. Len(q) - 1 : q[i + 1].file = f
    BY <1>1 DEF Written
  <1>3. \A f : f \in Written(q) <=> \E i \in 1 .. Len(q) : q[i].file = f
    BY WrittenFiles
  <1>4. ASSUME NEW f \in Written(q) \ {q[1].file} PROVE f \in Written(s)
    <2>1. PICK i \in 1 .. Len(q) : q[i].file = f
      BY <1>3
    <2>2. i - 1 \in 1 .. Len(q) - 1 /\ (i - 1) + 1 = i
      BY <1>1, <1>4, <2>1
    <2> QED  BY <1>2, <2>1, <2>2
  <1>5. ASSUME NEW f \in Written(s) PROVE f \in Written(q) \ {q[1].file}
    <2>1. PICK i \in 1 .. Len(q) - 1 : q[i + 1].file = f
      BY <1>2
    <2>2. i + 1 \in 1 .. Len(q) /\ i + 1 # 1 /\ 1 \in 1 .. Len(q)
      BY <1>1
    <2> QED  BY <1>1, <1>3, <2>1, <2>2
  <1>6. q[1].file \in Written(q)
    BY <1>1, <1>3
  <1> QED  BY <1>1, <1>4, <1>5, <1>6 DEF s

\* A record that is received still waits.
LEMMA ReceiveStep ==
    ASSUME IInv, Receive
    PROVE  IInv'
  <1>1. /\ writer = "receiving" /\ channel # <<>>
        /\ batch' = Append(batch, Head(channel))
        /\ channel' = Tail(channel)
        /\ writer' = IF Len(batch') >= BatchSize THEN "writing" ELSE writer
        /\ UNCHANGED <<formats, run, pending, task, entries, runs, faults>>
    BY DEF Receive, done
  <1>2. channel \in Seq(Record) /\ batch \in Seq(Record) /\ Len(batch) \in Nat /\ Len(batch) < BatchSize
    BY <1>1, LenProperties DEF IInv, Sorts, Control
  <1>3. /\ channel' \in Seq(Record) /\ Len(channel') = Len(channel) - 1 /\ Len(channel) \in Nat \ {0}
        /\ DOMAIN channel' = 1 .. Len(channel) - 1
        /\ \A i \in 1 .. Len(channel) - 1 : channel'[i] = channel[i + 1]
        /\ Head(channel) \in Record /\ Head(channel) = channel[1]
        /\ Written(channel') = Written(channel) \ {channel[1].file}
        /\ channel[1].file \in Written(channel)
    <2>1. \A i, j \in DOMAIN channel : i # j => channel[i].file # channel[j].file
      BY DEF IInv, Queues
    <2> QED  BY <2>1, <1>1, <1>2, Received
  <1>4. /\ batch' \in Seq(Record) /\ Len(batch') = Len(batch) + 1
        /\ DOMAIN batch' = 1 .. Len(batch) + 1
        /\ \A i \in 1 .. Len(batch) : batch'[i] = batch[i]
        /\ batch'[Len(batch) + 1] = channel[1]
        /\ Written(batch') = Written(batch) \cup {channel[1].file}
    BY <1>1, <1>2, <1>3, Added
  <1>5. Sent' = Sent /\ Counted' = Counted /\ Taken' = Taken /\ InFlight' = InFlight
    BY <1>1, SameTasks
  <1>6. Written(channel)' = Written(channel') /\ Written(batch)' = Written(batch')
    BY DEF Written
  <1>7. /\ DOMAIN channel = 1 .. Len(channel) /\ DOMAIN batch = 1 .. Len(batch)
        /\ 1 \in 1 .. Len(channel)
        /\ \A i \in 1 .. Len(channel) - 1 : i + 1 \in 1 .. Len(channel)
    BY <1>2, <1>3, LenProperties
  <1>8. Sorts'
    BY <1>1, <1>2, <1>3, <1>4, <1>5, AnalyzeRunAssumption DEF IInv, Sorts
  <1>9. ASSUME NEW g \in File PROVE TaskOK(g)'
    BY <1>1, <1>5 DEF IInv, TaskOK
  <1>10. Queues'
    <2>1. Records(channel)'
      BY <1>1, <1>3, <1>5, <1>7 DEF IInv, Queues, Records
    <2>2. Records(batch)'
      <3> SUFFICES ASSUME NEW i \in 1 .. Len(batch) + 1
                   PROVE  batch'[i].file \in Sent /\ batch'[i].info = task[batch'[i].file].info
        BY <1>1, <1>4, <1>5 DEF Records
      <3>1. CASE i \in 1 .. Len(batch)
        BY <3>1, <1>4, <1>7 DEF IInv, Queues, Records
      <3>2. CASE i = Len(batch) + 1
        BY <3>2, <1>4, <1>7 DEF IInv, Queues, Records
      <3> QED  BY <3>1, <3>2, <1>2
    <2>3. ASSUME NEW i \in 1 .. Len(channel) - 1, NEW j \in 1 .. Len(channel) - 1, i # j
          PROVE  channel'[i].file # channel'[j].file
      <3>1. i + 1 # j + 1 /\ i + 1 \in DOMAIN channel /\ j + 1 \in DOMAIN channel
        BY <2>3, <1>7
      <3> QED  BY <3>1, <1>3 DEF IInv, Queues
    <2>4. (Written(channel) \cap Written(batch))' = {}
      BY <1>3, <1>4, <1>6 DEF IInv, Queues
    <2> QED  BY <2>1, <2>2, <2>3, <2>4, <1>3 DEF Queues
  <1>11. Control'
    <2>1. writer' # "ended" /\ (writer' = "receiving" => Len(batch') < BatchSize) /\ run.store
      BY <1>1, <1>2, <1>4, AnalyzeRunAssumption DEF IInv, Control
    <2>2. run.pc \notin Ends
      BY <1>1 DEF IInv, Control
    <2> QED  BY <2>1, <2>2, <1>1, <1>5 DEF IInv, Control, Ends
  <1>12. Waiting' = Waiting
    BY <1>3, <1>4, <1>6 DEF Waiting
  <1>13. Account'
    BY <1>1, <1>5, <1>12 DEF IInv, Account
  <1>14. Backed'
    <2>1. Over' = Over /\ Sent' \subseteq File
      BY <1>5, <1>12 DEF Over, Sent
    <2> QED  BY <2>1, <1>1, StaysBacked
  <1> QED  BY <1>8, <1>9, <1>10, <1>11, <1>13, <1>14 DEF IInv

\* A batch is written as a whole, counted by the rows it has, or reported as
\* an error; it does not wait any more.
LEMMA FlushStep ==
    ASSUME IInv, Flush
    PROVE  IInv'
  <1> DEFINE w == Written(batch)
  <1>1. /\ writer = "writing" /\ batch' = <<>>
        /\ writer' = IF run.pc = "persisting" /\ channel = <<>> THEN "ended" ELSE "receiving"
        /\ UNCHANGED <<pending, task, entries, channel, runs>>
    BY DEF Flush
  <1>2. \/ run.persistErr /\ UNCHANGED <<formats, run, faults>>
        \/ /\ ~run.persistErr /\ faults' = faults
           /\ formats' = [f \in File |->
                IF f \in w \cap Indexed
                THEN batch[CHOOSE i \in DOMAIN batch : batch[i].file = f].info ELSE formats[f]]
           /\ run' = [run EXCEPT !.saved = @ + Cardinality(w \cap Indexed),
                                 !.missing = @ + Cardinality(w \ Indexed)]
        \/ /\ ~run.persistErr /\ faults < MaxFaults /\ faults' = faults + 1
           /\ run' = [run EXCEPT !.persistErr = TRUE] /\ formats' = formats
    BY DEF Flush
  <1>3. /\ run \in Runs /\ channel \in Seq(Record) /\ batch \in Seq(Record)
        /\ w \subseteq Sent /\ w \subseteq File /\ Sent \subseteq File /\ Taken \subseteq File
        /\ w \cap Written(channel) = {} /\ Indexed \subseteq File
    <2>1. w \subseteq Sent
      BY DEF IInv, Queues, Records, Written
    <2> QED  BY <2>1, AnalyzeRunAssumption DEF IInv, Sorts, Sent, Taken, Queues
  <1>4. run.store /\ run.pc \notin Ends
    BY <1>1 DEF IInv, Control
  <1>5. Sent' = Sent /\ Counted' = Counted /\ Taken' = Taken /\ InFlight' = InFlight
    BY <1>1, SameTasks
  <1>6. /\ Cardinality(w \cap Indexed) \in Nat /\ Cardinality(w \ Indexed) \in Nat
        /\ Cardinality(w) = Cardinality(w \cap Indexed) + Cardinality(w \ Indexed)
    <2>1. w = (w \cap Indexed) \cup (w \ Indexed)
      OBVIOUS
    <2> QED  BY <2>1, <1>3, Files, Sum
  <1>7. ASSUME NEW f \in w
        PROVE  /\ batch[CHOOSE i \in DOMAIN batch : batch[i].file = f].info = task[f].info
               /\ task[f].info \in Format
    <2>1. \E i \in DOMAIN batch : batch[i].file = f
      BY <1>7 DEF Written
    <2> DEFINE k == CHOOSE i \in DOMAIN batch : batch[i].file = f
    <2>2. k \in DOMAIN batch /\ batch[k].file = f
      BY <2>1
    <2> HIDE DEF k
    <2>3. batch[k].info = task[f].info
      BY <2>2 DEF IInv, Queues, Records
    <2>4. task[f].info \in Format
      BY <1>3 DEF Sent
    <2> QED  BY <2>3, <2>4 DEF k
  <1>8. /\ formats' \in [File -> Format \cup {None}]
        /\ \A f \in File \ Indexed : formats'[f] = None
        /\ \A f \in File \ w : formats'[f] = formats[f]
        /\ ~run.persistErr /\ ~run'.persistErr =>
              \A f \in w \cap Indexed : formats'[f] = task[f].info
    <2>1. formats \in [File -> Format \cup {None}] /\ \A f \in File \ Indexed : formats[f] = None
      BY DEF IInv, Sorts
    <2>2. CASE formats' = formats /\ (run.persistErr \/ run'.persistErr)
      BY <2>1, <2>2
    <2>3. CASE formats' = [f \in File |->
                IF f \in w \cap Indexed
                THEN batch[CHOOSE i \in DOMAIN batch : batch[i].file = f].info ELSE formats[f]]
      <3> HIDE DEF w
      <3>1. \A f \in w \cap Indexed : formats'[f] = task[f].info /\ task[f].info \in Format
        BY <1>3, <1>7, <2>3
      <3>2. \A f \in File \ (w \cap Indexed) : formats'[f] = formats[f]
        BY <2>3
      <3>3. formats' = [f \in File |-> formats'[f]]
        BY <2>3
      <3> QED  BY <2>1, <3>1, <3>2, <3>3
    <2>4. run' = [run EXCEPT !.persistErr = TRUE] => run'.persistErr
      BY <1>3 DEF Runs
    <2> QED  BY <1>2, <2>2, <2>3, <2>4
  <1>9. /\ run' \in Runs /\ run'.pc = run.pc /\ run'.store = run.store
        /\ run'.fresh = run.fresh /\ run'.processed = run.processed
        /\ ~run'.persistErr => /\ ~run.persistErr
                               /\ run'.saved + run'.missing = run.saved + run.missing + Cardinality(w)
        /\ \/ run'.saved = run.saved /\ run'.missing = run.missing /\ formats' = formats
           \/ /\ ~run.persistErr /\ ~run'.persistErr
              /\ run'.saved = run.saved + Cardinality(w \cap Indexed)
              /\ run'.missing = run.missing + Cardinality(w \ Indexed)
    <2> HIDE DEF w
    <2>1. CASE run' = run /\ run.persistErr /\ formats' = formats
      BY <2>1, <1>3
    <2>2. CASE run' = [run EXCEPT !.persistErr = TRUE] /\ formats' = formats
      BY <2>2, <1>3 DEF Runs
    <2>3. CASE /\ ~run.persistErr
               /\ run' = [run EXCEPT !.saved = @ + Cardinality(w \cap Indexed),
                                     !.missing = @ + Cardinality(w \ Indexed)]
      <3>1. /\ run' \in Runs /\ run'.pc = run.pc /\ run'.store = run.store
            /\ run'.fresh = run.fresh /\ run'.processed = run.processed
            /\ run'.saved = run.saved + Cardinality(w \cap Indexed)
            /\ run'.missing = run.missing + Cardinality(w \ Indexed)
            /\ run.saved \in Nat /\ run.missing \in Nat /\ run'.persistErr = run.persistErr
        <4>1. /\ run.saved \in Nat /\ run.missing \in Nat
              /\ \A m, n \in Nat :
                    LET r == [run EXCEPT !.saved = m, !.missing = n]
                    IN  /\ r \in Runs /\ r.pc = run.pc /\ r.store = run.store
                        /\ r.fresh = run.fresh /\ r.processed = run.processed
                        /\ r.saved = m /\ r.missing = n /\ r.persistErr = run.persistErr
          BY <1>3 DEF Runs
        <4>2. /\ run.saved + Cardinality(w \cap Indexed) \in Nat
              /\ run.missing + Cardinality(w \ Indexed) \in Nat
          <5>1. \A m, n \in Nat : m + n \in Nat
            OBVIOUS
          <5>2. run.saved \in Nat /\ run.missing \in Nat
            BY <4>1
          <5>3. Cardinality(w \cap Indexed) \in Nat /\ Cardinality(w \ Indexed) \in Nat
            BY <1>6
          <5> QED  BY <5>1, <5>2, <5>3
        <4> QED  BY ZenonT(30), <4>1, <4>2, <2>3
      <3> QED  BY <3>1, <2>3, <1>6
    <2> QED  BY <1>2, <2>1, <2>2, <2>3
  <1>10. Sorts'
    <2>1. faults' \in 0 .. MaxFaults
      BY <1>2, AnalyzeRunAssumption DEF IInv, Sorts
    <2> QED  BY <2>1, <1>1, <1>5, <1>8, <1>9, NothingWritten, AnalyzeRunAssumption DEF IInv, Sorts
  <1>11. ASSUME NEW g \in File PROVE TaskOK(g)'
    BY <1>1, <1>5, <1>9 DEF IInv, TaskOK
  <1>12. Written(batch)' = {} /\ Written(channel)' = Written(channel)
    BY <1>1, NothingWritten DEF Written
  <1>13. Queues'
    <2>1. Records(batch)'
      BY <1>1, NothingWritten DEF Records
    <2>2. Records(channel)'
      BY <1>1, <1>5 DEF IInv, Queues, Records
    <2> QED  BY <2>1, <2>2, <1>1, <1>12 DEF IInv, Queues
  <1>14. Control'
    <2>1. Len(batch') = 0 /\ 0 < BatchSize
      BY <1>1, NothingWritten, AnalyzeRunAssumption
    <2>2. /\ writer' = "ended" => channel' = <<>> /\ batch' = <<>>
          /\ run'.pc \in {"submitting", "acquiring", "waiting"} => writer' # "ended"
          /\ writer' = "receiving" => Len(batch') < BatchSize
          /\ run'.store /\ run'.pc \notin Ends
      BY <1>1, <1>4, <1>9, <2>1
    <2> QED  BY <2>2, <1>1, <1>5, <1>9 DEF IInv, Control, Ends
  <1>15. Account'
    <2> SUFFICES ASSUME ~run'.persistErr
                 PROVE  /\ run'.saved + run'.missing = Cardinality(Sent' \ Waiting')
                        /\ \A f \in Indexed \cap (Sent' \ Waiting') : formats'[f] = task'[f].info
                        /\ \A f \in Taken' : formats'[f] = entries'[f]
      BY DEF Account
    <2> DEFINE old == Sent \ Waiting
    <2>1. ~run.persistErr /\ run'.saved + run'.missing = run.saved + run.missing + Cardinality(w)
      BY <1>9
    <2>2. /\ run.saved + run.missing = Cardinality(old)
          /\ \A f \in Indexed \cap old : formats[f] = task[f].info
          /\ \A f \in Taken : formats[f] = entries[f]
      BY <2>1, <1>4 DEF IInv, Account
    <2>3. Sent' \ Waiting' = old \cup w /\ old \cap w = {} /\ old \subseteq File
      BY <1>3, <1>5, <1>12 DEF Waiting
    <2>4. Cardinality(Sent' \ Waiting') = Cardinality(old) + Cardinality(w)
      BY <2>3, <1>3, Sum
    <2>5. \A f \in Taken : f \notin w
      BY <1>3 DEF Taken, Sent
    <2>6. \A f \in Taken' : formats'[f] = entries'[f]
      BY <2>2, <2>5, <1>1, <1>3, <1>5, <1>8
    <2>7. ASSUME NEW f \in Indexed \cap (old \cup w) PROVE formats'[f] = task'[f].info
      <3>1. CASE f \in w
        BY <3>1, <2>1, <1>1, <1>8
      <3>2. CASE f \notin w
        <4>1. f \in Indexed \cap old /\ f \in File \ w
          BY <2>7, <3>2, <1>3
        <4> QED  BY <4>1, <2>2, <1>1, <1>8
      <3> QED  BY <3>1, <3>2
    <2> QED  BY <2>1, <2>2, <2>3, <2>4, <2>6, <2>7
  <1>16. Backed'
    <2> HIDE DEF w
    <2>1. /\ Over' = Over \cup w /\ Over \cap w = {} /\ Over \subseteq File /\ Sent' \subseteq File
      BY <1>3, <1>5, <1>12 DEF Over, Waiting, w
    <2>2. CASE run'.saved = run.saved /\ run'.missing = run.missing /\ formats' = formats
      BY <2>1, <2>2, <1>1, StaysBacked
    <2>3. CASE /\ ~run.persistErr /\ ~run'.persistErr
               /\ run'.saved = run.saved + Cardinality(w \cap Indexed)
               /\ run'.missing = run.missing + Cardinality(w \ Indexed)
      <3>1. /\ Landed \subseteq File /\ Landed' \subseteq File /\ Landed \cap (w \cap Indexed) = {}
            /\ Landed \cup (w \cap Indexed) \subseteq Landed'
        BY <2>1, <2>3, <1>1, <1>3, <1>8 DEF Landed
      <3>2. /\ (Over \ Indexed) \cup (w \ Indexed) = Over' \ Indexed
            /\ (Over \ Indexed) \cap (w \ Indexed) = {}
            /\ Over \ Indexed \subseteq File /\ w \ Indexed \subseteq File
            /\ Over' \ Indexed \subseteq File
        BY <2>1, <1>3
      <3>3. /\ Cardinality(Landed) + Cardinality(w \cap Indexed) <= Cardinality(Landed')
            /\ Cardinality(Landed) \in Nat /\ Cardinality(Landed') \in Nat
        <4>1. Cardinality(Landed \cup (w \cap Indexed)) =
                 Cardinality(Landed) + Cardinality(w \cap Indexed)
          BY <3>1, <1>3, Sum
        <4> QED  BY <4>1, <3>1, Fewer, Files
      <3>4. /\ Cardinality(Over \ Indexed) + Cardinality(w \ Indexed) = Cardinality(Over' \ Indexed)
            /\ Cardinality(Over \ Indexed) \in Nat
        BY <3>2, Sum, Files
      <3>5. /\ run.saved \in Nat /\ run.missing \in Nat
            /\ run.saved <= Cardinality(Landed) /\ run.missing <= Cardinality(Over \ Indexed)
        BY <1>3 DEF IInv, Backed, Runs
      <3> QED  BY <2>3, <3>3, <3>4, <3>5, <1>6 DEF Backed
    <2> QED  BY <1>9, <2>2, <2>3
  <1> QED  BY <1>10, <1>11, <1>13, <1>14, <1>15, <1>16 DEF IInv

\* The writer sees the closed channel empty: it ends, or writes what is left.
LEMMA DrainedStep ==
    ASSUME IInv, Drained
    PROVE  IInv'
  <1>1. /\ run.pc = "persisting" /\ writer = "receiving" /\ channel = <<>>
        /\ writer' = IF batch = <<>> THEN "ended" ELSE "writing"
        /\ UNCHANGED <<formats, run, pending, task, entries, channel, batch, runs, faults>>
    BY DEF Drained, done
  <1>2. Sent' = Sent /\ Counted' = Counted /\ Taken' = Taken /\ InFlight' = InFlight
    BY <1>1, SameTasks
  <1>3. Sorts'
    BY <1>1, <1>2 DEF IInv, Sorts
  <1>4. ASSUME NEW g \in File PROVE TaskOK(g)'
    BY <1>1, <1>2 DEF IInv, TaskOK
  <1>5. Queues'
    BY <1>1, <1>2 DEF IInv, Queues, Records, Written
  <1>6. Control'
    BY <1>1, <1>2 DEF IInv, Control, Ends
  <1>7. Account'
    BY <1>1, <1>2 DEF IInv, Account, Waiting, Written
  <1>8. Backed'
    <2>1. Over' = Over /\ Sent' \subseteq File
      BY <1>1, <1>2 DEF Over, Waiting, Written, Sent
    <2> QED  BY <2>1, <1>1, StaysBacked
  <1> QED  BY <1>3, <1>4, <1>5, <1>6, <1>7, <1>8 DEF IInv

-----------------------------------------------------------------------------
(* The theorems *)

\* Every step keeps the invariant.
LEMMA NextStep == IInv /\ [Next]_vars => IInv'
  <1> SUFFICES ASSUME IInv, [Next]_vars PROVE IInv'
    OBVIOUS
  <1>1. CASE UNCHANGED vars
    <2>1. /\ runs' \in 0 .. MaxRuns /\ faults' \in 0 .. MaxFaults /\ RunKeeps
          /\ UNCHANGED <<formats, pending, task, entries, channel, batch, writer, run>>
      BY <1>1 DEF vars, IInv, Sorts, RunKeeps
    <2>2. Control'
      BY <2>1, SameTasks DEF IInv, Control
    <2> QED  BY <2>1, <2>2, RunMoves
  <1>2. CASE \E store, resume, refresh \in BOOLEAN, active \in SUBSET Indexed :
               Analyze(store, resume, refresh, active)
    BY <1>2, AnalyzeStep
  <1>3. CASE Submitter
    BY <1>3, CheckContextStep, SubmitStep, StopSubmittingStep, CloseChannelStep, ReturnStep DEF Submitter
  <1>4. CASE Persister
    BY <1>4, ReceiveStep, FlushStep, DrainedStep DEF Persister
  <1>5. CASE \E f \in File : Worker(f)
    BY <1>5, ReadStep, SendStep, CountStep, PublishStep DEF Worker
  <1>6. CASE Cancel \/ Crash
    BY <1>6, CancelStep, CrashStep
  <1> QED  BY <1>1, <1>2, <1>3, <1>4, <1>5, <1>6 DEF Next

\* The invariant holds in every reachable state.
LEMMA Inductive == Spec => []IInv
  BY Initially, NextStep, PTL DEF Spec

\* The files of the report are those reused and those counted.
LEMMA Reported ==
    ASSUME IInv
    PROVE  Cardinality({f \in File : entries[f] # None}) = Cardinality(Taken) + run.fresh
  <1>1. {f \in File : entries[f] # None} = Taken \cup Counted
    <2>1. ASSUME NEW f \in File PROVE entries[f] # None <=> f \in Taken \cup Counted
      BY AnalyzeRunAssumption DEF IInv, Sorts, Tasks, TaskOK, Taken, Counted, Format
    <2> QED  BY <2>1 DEF Taken, Counted
  <1>2. Taken \cap Counted = {} /\ Taken \subseteq File /\ Counted \subseteq File
    BY DEF Taken, Counted
  <1> QED  BY <1>1, <1>2, Sum DEF IInv, Control

\* Every variable keeps its sort, pool and channel keep their bounds, the
\* progress shown never runs ahead of the entries of the report, and nothing
\* is left in flight when a run of Analyze has returned.
THEOREM TypeCorrect == Spec => []TypeOK
  <1>1. IInv => TypeOK
    <2> SUFFICES ASSUME IInv PROVE TypeOK
      OBVIOUS
    <2>1. run.processed <= Cardinality({f \in File : entries[f] # None})
      BY Reported DEF IInv, Control
    <2>2. run.pc \in Ends => channel = <<>> /\ batch = <<>> /\ writer = "ended"
      BY DEF IInv, Control
    <2> QED  BY <2>1, <2>2 DEF IInv, Sorts, TypeOK, Ends
  <1> QED  BY <1>1, Inductive, PTL

\* When Analyze returns, also after an interruption or a failed transaction, it
\* counts as saved only rows with the format it read, and as missing only files
\* without a row; unless it reports a persistence error, each format it read for
\* a file with a row is that file's row, and each record is counted; a complete
\* report has an entry for every file (analyze.go: "Resume is based on durable
\* format rows").
THEOREM ReportsAreDurable == Spec => []ReportIsDurable
  <1>1. IInv => ReportIsDurable
    <2> DEFINE read == {f \in File : task[f].pc = "done" /\ entries[f] \in Format}
    <2> SUFFICES ASSUME IInv, run.pc \in {"completed", "interrupted"}
                 PROVE  /\ run.saved <= Cardinality({f \in read \cap Indexed : formats[f] = entries[f]})
                        /\ run.missing <= Cardinality(read \ Indexed)
                        /\ run.store /\ ~run.persistErr =>
                              /\ \A f \in Indexed : entries[f] \in Format => formats[f] = entries[f]
                              /\ run.saved + run.missing = Cardinality(read)
                        /\ run.pc = "completed" => \A f \in File : entries[f] # None
      BY DEF ReportIsDurable
    <2>1. InFlight = {} /\ channel = <<>> /\ batch = <<>>
      BY DEF IInv, Control, Ends
    <2>2. Waiting = {}
      BY <2>1, NothingWritten DEF Waiting
    <2>3. ASSUME NEW f \in File
          PROVE  /\ task[f].pc \in {"none", "done"}
                 /\ task[f].pc = "done" => entries[f] = task[f].info
                 /\ entries[f] \in Format => f \in Sent \/ f \in Taken
                 /\ f \in Sent <=> task[f].pc = "done" /\ entries[f] \in Format
      BY <2>1, AnalyzeRunAssumption DEF InFlight, IInv, TaskOK, Sent, Taken, Sorts, Tasks, Format
    <2>4. ASSUME run.store, ~run.persistErr
          PROVE  /\ \A f \in Indexed : entries[f] \in Format => formats[f] = entries[f]
                 /\ run.saved + run.missing = Cardinality(read)
      <3>1. /\ run.saved + run.missing = Cardinality(Sent)
            /\ \A f \in Indexed \cap Sent : formats[f] = task[f].info
            /\ \A f \in Taken : formats[f] = entries[f]
        <4>1. Sent \ Waiting = Sent
          BY <2>2
        <4> QED  BY <4>1, <2>4 DEF IInv, Account
      <3>2. {f \in File : task[f].pc = "done" /\ entries[f] \in Format} = Sent
        BY <2>3 DEF Sent
      <3>3. \A f \in Indexed : entries[f] \in Format => formats[f] = entries[f]
        BY <2>3, <3>1, AnalyzeRunAssumption DEF Sent
      <3> QED  BY <3>1, <3>2, <3>3
    <2>5. /\ run.saved <= Cardinality({f \in read \cap Indexed : formats[f] = entries[f]})
          /\ run.missing <= Cardinality(read \ Indexed)
      <3>1. read = Sent /\ Over = read
        BY <2>2, <2>3 DEF Sent, Over
      <3>2. Landed = {f \in read \cap Indexed : formats[f] = entries[f]}
        BY <3>1, <2>3 DEF Landed
      <3> QED  BY <3>1, <3>2 DEF IInv, Backed
    <2>6. ASSUME run.pc = "completed", NEW f \in File PROVE entries[f] # None
      <3> DEFINE all == {g \in File : entries[g] # None}
      <3>1. Cardinality(all) = Cardinality(File)
        BY <2>6, Reported DEF IInv, Control
      <3>2. all = File
        BY <3>1, FS_Subset, AnalyzeRunAssumption
      <3> QED  BY <3>2
    <2> QED  BY <2>4, <2>5, <2>6
  <1> QED  BY <1>1, Inductive, PTL

=============================================================================
