----------------------------- MODULE AnalyzeRun -----------------------------
(***************************************************************************)
(* Format analysis of the files of an index (internal/app/analyze.go): the *)
(* submitting goroutine, the pool of workers that read headers, the        *)
(* bounded channel to the goroutine that writes format rows in batches,    *)
(* cancellation, failing transactions, a crash, and the resumed run that   *)
(* takes over the rows an earlier one left (internal/store/sqlite.go).     *)
(*                                                                         *)
(* What a header says is a known format with all that is wanted of it, or  *)
(* leaves a gap: an unknown format, or one whose metadata is missing.      *)
(***************************************************************************)
EXTENDS Naturals, Sequences, FiniteSets

CONSTANTS
    File,       \* the files of the index
    Order,      \* Order[f]: the place of f in the index
    Indexed,    \* the files that have a row in the database
    Workers,    \* analysis workers
    BatchSize,  \* records of one transaction
    Capacity,   \* of the channel: two batches in the code, any size must do
    MaxRuns,    \* bound: runs of a behaviour
    MaxFaults,  \* bound: failed transactions, cancellations and crashes
    None

ASSUME AnalyzeRunAssumption ==
    /\ IsFiniteSet(File) /\ Indexed \subseteq File
    /\ Order \in [File -> Nat] /\ \A f, g \in File : Order[f] = Order[g] => f = g
    /\ Workers \in Nat \ {0} /\ BatchSize \in Nat \ {0} /\ Capacity \in Nat \ {0}
    /\ MaxRuns \in Nat /\ MaxFaults \in Nat
    /\ None \notin {"known", "gap", "failed"}

Format == {"known", "gap"}

VARIABLES
    formats,    \* file_formats: the format kept for each file, or None
    run,        \* the running Analyze, or the result of the last one
    pending,    \* files not submitted yet
    task,       \* what each submitted task is doing
    entries,    \* the report: the outcome of each file, or None
    channel,    \* records on their way to the persistence goroutine
    batch,      \* records it has taken and not written
    writer,     \* whether that goroutine receives, writes, or has ended
    runs, faults

vars == <<formats, run, pending, task, entries, channel, batch, writer, runs, faults>>
done == <<runs, faults>>

\* The atomic counters are part of the run: processed is what Progress shows,
\* fresh the number of tasks that were counted.
Idle == [pc |-> "idle", store |-> FALSE, cancelled |-> FALSE, persistErr |-> FALSE,
         fresh |-> 0, processed |-> 0, saved |-> 0, missing |-> 0]

NoTask == [pc |-> "none", info |-> None, count |-> 0]

Init ==
    /\ formats = [f \in File |-> None]
    /\ run = Idle
    /\ pending = {}
    /\ task = [f \in File |-> NoTask]
    /\ entries = [f \in File |-> None]
    /\ channel = <<>> /\ batch = <<>> /\ writer = "ended"
    /\ runs = 0 /\ faults = 0

-----------------------------------------------------------------------------
(* The start of a run *)

\* IsUnknownFormat and NeedsMetadataRefresh: a kept row with a gap is read
\* again when the caller asks for a refresh.
Refreshed(info, refresh) == refresh /\ info = "gap"

\* ListFormats: the rows a resumed run takes over, of files whose row is active.
Reusable(resume, refresh, active) ==
    {f \in active : resume /\ formats[f] # None /\ ~Refreshed(formats[f], refresh)}

\* --resume needs a database, --refresh-unknown and --refresh-metadata need
\* --resume.
LegalCall(store, resume, refresh) == (resume => store) /\ (refresh => resume)

\* Between two runs a scan may have made any of the rows active, missing or
\* unavailable.
Analyze(store, resume, refresh, active) ==
    LET reused == Reusable(resume, refresh, active) IN
    /\ run.pc \in {"idle", "completed", "interrupted"} /\ runs < MaxRuns
    /\ LegalCall(store, resume, refresh)
    /\ runs' = runs + 1
    /\ run' = [Idle EXCEPT !.pc = "submitting", !.store = store]
    /\ entries' = [f \in File |-> IF f \in reused THEN formats[f] ELSE None]
    /\ pending' = File \ reused
    /\ task' = [f \in File |-> NoTask]
    /\ channel' = <<>> /\ batch' = <<>>
    /\ writer' = IF store THEN "receiving" ELSE "ended"
    /\ UNCHANGED <<formats, faults>>

-----------------------------------------------------------------------------
(* The pool *)

InFlight == {f \in File : task[f].pc \notin {"none", "done"}}

\* Files are submitted in the order of the index.
Foremost(f) == f \in pending /\ \A g \in pending : Order[f] <= Order[g]

\* Runner.Submit looks at the context, then waits for a place or its end.
CheckContext ==
    /\ run.pc = "submitting" /\ ~run.cancelled /\ pending # {}
    /\ run' = [run EXCEPT !.pc = "acquiring"]
    /\ UNCHANGED <<formats, pending, task, entries, channel, batch, writer, done>>

\* Mutant of Submit: no semaphore.
SubmitUnbounded ==
    /\ run.pc = "acquiring"
    /\ run' = [run EXCEPT !.pc = "submitting"]
    /\ \E f \in File :
          /\ Foremost(f)
          /\ task' = [task EXCEPT ![f].pc = "reading"]
          /\ pending' = pending \ {f}
    /\ UNCHANGED <<formats, entries, channel, batch, writer, done>>

\* There is a place in the pool: it may be taken although the context has ended
\* meanwhile, for the choice between the two is random.
Submit ==
    /\ run.pc = "acquiring" /\ Cardinality(InFlight) < Workers
    /\ run' = [run EXCEPT !.pc = "submitting"]
    /\ \E f \in File :
          /\ Foremost(f)
          /\ task' = [task EXCEPT ![f].pc = "reading"]
          /\ pending' = pending \ {f}
    /\ UNCHANGED <<formats, entries, channel, batch, writer, done>>

\* All files are submitted, or the context has ended: only waiting is left.
StopSubmitting ==
    /\ \/ run.pc = "submitting" /\ (pending = {} \/ run.cancelled)
       \/ run.pc = "acquiring" /\ run.cancelled
    /\ run' = [run EXCEPT !.pc = "waiting"]
    /\ UNCHANGED <<formats, pending, task, entries, channel, batch, writer, done>>

\* A worker reads a header; an error leaves the file without a format, and
\* without a record for the database.
Read(f) ==
    /\ task[f].pc = "reading"
    /\ \E info \in Format \cup {"failed"} :
          task' = [task EXCEPT ![f].info = info,
                       ![f].pc = IF run.store /\ info # "failed" THEN "sending" ELSE "read"]
    /\ UNCHANGED <<formats, run, pending, entries, channel, batch, writer, done>>

\* A worker waits while the channel is full.
Send(f) ==
    /\ task[f].pc = "sending" /\ Len(channel) < Capacity
    /\ channel' = Append(channel, [file |-> f, info |-> task[f].info])
    /\ task' = [task EXCEPT ![f].pc = "read"]
    /\ UNCHANGED <<formats, run, pending, entries, batch, writer, done>>

\* The entry of the report, and the atomic increment of the counter.
Count(f) ==
    /\ task[f].pc = "read"
    /\ entries' = [entries EXCEPT ![f] = task[f].info]
    /\ run' = [run EXCEPT !.fresh = @ + 1]
    /\ task' = [task EXCEPT ![f].pc = "counted", ![f].count = run.fresh + 1]
    /\ UNCHANGED <<formats, pending, channel, batch, writer, done>>

\* The files a resumed run did not have to read.
Reused == Cardinality({f \in File : entries[f] # None /\ task[f].pc = "none"})

\* Mutant of Publish: a worker whose read failed keeps its place in the pool.
PublishRead(f) ==
    /\ task[f].pc = "counted" /\ task[f].info # "failed"
    /\ run' = [run EXCEPT !.processed = Reused + task[f].count]
    /\ task' = [task EXCEPT ![f].pc = "done"]
    /\ UNCHANGED <<formats, pending, entries, channel, batch, writer, done>>

\* The sum is stored as progress later, in any order of the workers; then the
\* place in the pool is free.
Publish(f) ==
    /\ task[f].pc = "counted"
    /\ run' = [run EXCEPT !.processed = Reused + task[f].count]
    /\ task' = [task EXCEPT ![f].pc = "done"]
    /\ UNCHANGED <<formats, pending, entries, channel, batch, writer, done>>

-----------------------------------------------------------------------------
(* The persistence goroutine *)

Receive ==
    /\ writer = "receiving" /\ channel # <<>>
    /\ batch' = Append(batch, Head(channel))
    /\ channel' = Tail(channel)
    /\ writer' = IF Len(batch') >= BatchSize THEN "writing" ELSE writer
    /\ UNCHANGED <<formats, run, pending, task, entries, done>>

Written(records) == {records[i].file : i \in DOMAIN records}

\* SaveFormatsByPath: the rows of the batch in one transaction, records of
\* files without a row counted as missing.  After an error nothing is written
\* any more, but the channel is still emptied.
Flush ==
    /\ writer = "writing"
    /\ batch' = <<>>
    /\ writer' = IF run.pc = "persisting" /\ channel = <<>> THEN "ended" ELSE "receiving"
    /\ \/ /\ run.persistErr
          /\ UNCHANGED <<formats, run, faults>>
       \/ /\ ~run.persistErr
          /\ formats' = [f \in File |->
                IF f \in Written(batch) \cap Indexed
                THEN batch[CHOOSE i \in DOMAIN batch : batch[i].file = f].info ELSE formats[f]]
          /\ run' = [run EXCEPT !.saved = @ + Cardinality(Written(batch) \cap Indexed),
                                !.missing = @ + Cardinality(Written(batch) \ Indexed)]
          /\ UNCHANGED faults
       \/ /\ ~run.persistErr /\ faults < MaxFaults
          /\ faults' = faults + 1
          /\ run' = [run EXCEPT !.persistErr = TRUE]
          /\ UNCHANGED formats
    /\ UNCHANGED <<pending, task, entries, channel, runs>>

\* The workers are done: the channel is closed.
CloseChannel ==
    /\ run.pc = "waiting" /\ InFlight = {}
    /\ run' = [run EXCEPT !.pc = "persisting"]
    /\ UNCHANGED <<formats, pending, task, entries, channel, batch, writer, done>>

\* Mutant of Drained: what is left of a batch is not written.
DrainedAtOnce ==
    /\ run.pc = "persisting" /\ writer = "receiving" /\ channel = <<>>
    /\ writer' = "ended"
    /\ UNCHANGED <<formats, run, pending, task, entries, channel, batch, done>>

\* The closed channel is empty: the last, incomplete batch is written.
Drained ==
    /\ run.pc = "persisting" /\ writer = "receiving" /\ channel = <<>>
    /\ writer' = IF batch = <<>> THEN "ended" ELSE "writing"
    /\ UNCHANGED <<formats, run, pending, task, entries, channel, batch, done>>

\* A run is complete when every file was reused or counted.
Return ==
    /\ run.pc = "persisting" /\ writer = "ended"
    /\ run' = [run EXCEPT !.pc = IF Reused + run.fresh = Cardinality(File)
                                 THEN "completed" ELSE "interrupted"]
    /\ UNCHANGED <<formats, pending, task, entries, channel, batch, writer, done>>

-----------------------------------------------------------------------------
(* Faults *)

\* SIGINT or SIGTERM ends the context of the command.
Cancel ==
    /\ run.pc \in {"submitting", "acquiring", "waiting"} /\ ~run.cancelled /\ faults < MaxFaults
    /\ run' = [run EXCEPT !.cancelled = TRUE]
    /\ faults' = faults + 1
    /\ UNCHANGED <<formats, pending, task, entries, channel, batch, writer, runs>>

\* The process dies; only the rows stay.
Crash ==
    /\ run.pc \in {"submitting", "acquiring", "waiting", "persisting"} /\ faults < MaxFaults
    /\ faults' = faults + 1
    /\ run' = Idle /\ pending' = {}
    /\ task' = [f \in File |-> NoTask]
    /\ entries' = [f \in File |-> None]
    /\ channel' = <<>> /\ batch' = <<>> /\ writer' = "ended"
    /\ UNCHANGED <<formats, runs>>

\* The goroutines of a run.
Worker(f) == Read(f) \/ Send(f) \/ Count(f) \/ Publish(f)
Submitter == CheckContext \/ Submit \/ StopSubmitting \/ CloseChannel \/ Return
Persister == Receive \/ Flush \/ Drained

Next ==
    \/ \E store, resume, refresh \in BOOLEAN, active \in SUBSET Indexed :
          Analyze(store, resume, refresh, active)
    \/ Submitter \/ Persister \/ \E f \in File : Worker(f)
    \/ Cancel \/ Crash

Spec == Init /\ [][Next]_vars

\* The scheduler runs every goroutine that can go on; reads and transactions
\* return, with an error or without.
FairSpec ==
    /\ Spec
    /\ WF_vars(Submitter) /\ WF_vars(Persister)
    /\ \A f \in File : WF_vars(Worker(f))

-----------------------------------------------------------------------------
(* Properties *)

\* The pool and the channel keep their bounds (runner.New, the channel of
\* records), the progress shown never runs ahead of the entries, and nothing
\* is left in flight when a run has returned.
TypeOK ==
    /\ formats \in [File -> Format \cup {None}]
    /\ entries \in [File -> Format \cup {"failed", None}]
    /\ \A f \in File \ Indexed : formats[f] = None
    /\ Cardinality(InFlight) <= Workers
    /\ Len(channel) <= Capacity /\ Len(batch) <= BatchSize
    /\ run.processed <= Cardinality({f \in File : entries[f] # None})
    /\ run.pc \in {"idle", "completed", "interrupted"} =>
          channel = <<>> /\ batch = <<>> /\ writer = "ended"
    /\ runs \in 0 .. MaxRuns /\ faults \in 0 .. MaxFaults

\* What a run reports is what the database keeps: when Analyze returns, also
\* after an interruption or a failed transaction, it counts as saved only rows
\* that have the format it read, and as missing only files without a row; and
\* unless it reports a persistence error, every format of its report for a file
\* with a row is that file's row, and every record it read is counted. A
\* complete report has an entry for every file (analyze.go: "Resume is based on
\* durable format rows").
ReportIsDurable ==
    run.pc \in {"completed", "interrupted"} =>
        LET read == {f \in File : task[f].pc = "done" /\ entries[f] \in Format} IN
        /\ run.saved <= Cardinality({f \in read \cap Indexed : formats[f] = entries[f]})
        /\ run.missing <= Cardinality(read \ Indexed)
        /\ run.store /\ ~run.persistErr =>
              /\ \A f \in Indexed : entries[f] \in Format => formats[f] = entries[f]
              /\ run.saved + run.missing = Cardinality(read)
        /\ run.pc = "completed" => \A f \in File : entries[f] # None

\* Every run returns: neither a full channel, nor a failed transaction, nor a
\* cancellation leaves workers, writer and caller waiting for each other.
RunReturns == run.pc = "submitting" ~> run.pc \in {"idle", "completed", "interrupted"}
=============================================================================
