# NAS data governance: TLA+ models and proofs

These modules describe `nas-data-governance` where it keeps state and promises
something about it: plans and the files they change, the quarantine, background
jobs, review decisions, scans, learned rules, retention planning, project
databases and format analysis. TLC checks each model on small instances; TLAPS
proves the safety properties of every component that keeps state, and the refinements
of the abstract specifications, for every value of the constants.

## The system and its parts

The program scans file trees of a NAS into SQLite, groups duplicates, drafts
*operation plans* (keep one copy, quarantine the others), lets a person approve
them, executes them, and later restores or purges what was quarantined. The same
services are called by a command line program, a Wails desktop application and an
HTTP server behind a fnOS gateway.

| part | state it keeps | operations | what makes it correct | here |
|---|---|---|---|---|
| Execution and recovery (`executor`, `app/execution.go`, `app/recovery.go`) | a run's position, rollback list and context, all in memory; the files | Execute, executeAction, rollbackAll, Recover | no file is lost; files change only under a journaled reservation; an end state means what it says | `PlanExecution` |
| Plan and journal store (`store/plan_execution.go`, part of `store/sqlite.go`, `execution_lock_unix.go`) | `operation_plans.state`, `execution_journal`, the lock file | compare-and-swap of states, journal marks, CompletePlanExecution, ListExecutingPlans | one reservation per database; a terminal state only for settled rows | `PlanExecution`, `PlanPipeline` |
| Plan drafting and approval (`app/plan.go`, bindings) | plans before reservation | SaveDraftPlans, ApprovePlans | critical plans are never approved here; nothing is approved while recovery is due | `PlanExecution` (as transitions) |
| Quarantine lifecycle (`store/deletion.go`, `store/restore.go`, `executor/purge.go`, `executor/restore.go`, `app/purge_service.go`, `app/quarantine.go`) | `quarantine_items`, purge and restore plans and journals | register, dry run, approve by digest, stage, commit, restore, reconcile | an item has one fate; its row and its file agree after a crash | `QuarantineLifecycle`, `ItemFate` |
| Job manager and events (`jobs`, `store/jobs.go`, `app/scan_job.go`) | the active map and its lock, job rows, event log, owner lease | Create, Run, RequestCancel, Recover, AppendEvent | one runner per job, one end, a cancelled job ends | `JobManager` |
| Review decisions (`store/governance*.go`, `store/decisions.go`, `app/governance.go`) | decisions, previews, batches, outcomes, audit | preview, commit, replay, single save, history | one revision per change; nothing saved over a revision nobody saw; a batch survives a crash | `GovernanceBatch`, `DecisionLedger` |
| Scan (`app/scan.go`, `app/scan_resume_candidates.go`, `scanner`, `runner`) | file rows, checkpoints, the list and the pool of a running scan | Scan, resume, reconcile | a checkpoint stands behind durable rows; a file that is there is not declared missing | `ScanCheckpoint` |
| Learned rules (`learning`, `app/review.go`, rule rows in `store/sqlite.go`) | rules, batches, the classifier's learned signals | learn, approve, reject, disable, merge | what a human decided stands; only approved definitions act | `RuleLifecycle` |
| Retention planning (`planner`, `report`, `dircontext`) | none | classify, group, count, choose the kept copy | a plan keeps a physical copy and frees what it reports | `RetentionPlan` |
| Projects and store ownership (`project`, `owner_unix.go`, `migrations.go`, `governance_migration.go`) | project directories, database layouts, leases, the recent list | create, open, migrate, register a source, record | a failed creation removes only what it made; no foreign database is written | `ProjectStore` |
| Format analysis (`app/analyze.go`, `runner`) | format rows, the workers, channel and writer of a run | Analyze, resume | it returns, and what it reports as saved is saved | `AnalyzeRun` |
| Naming heuristics (`relations`, `assets`, `merge`), diagnostics, formats, transports, user interface | none that matters | read-only reports, request mapping | - | not modelled |

How the parts meet: the callers hold plans as values and go through
`ExecutionService` and `RecoveryService`; those two serialise on one lock file per
database (`flock`), refuse to start while `ListExecutingPlans` finds a plan that
needs recovery, and hand the executor a *state store* and a *journal*, both the
SQLite store. The executor reads and writes files and calls the journal
between file operations. Approval looks at the recovery lock but does not take
the execution lock. Everything else on the machine may change the same files
at any time. `CompletePlanExecution` is the one place where a plan's end, its
journal and the quarantine rows meet in one transaction.

The other parts meet in the database. A process that writes holds its owner lease
(`owner_unix.go`); opening the database runs the layout check, the migrations
and `JobManager.Recover` before anything else. A scan runs as a job, so the manager
keeps two scans apart and the scan's progress poller writes the same event log as the
job's end. Scans leave the file rows from which `report` builds groups; the
classifier, with the rules a person approved, tells the planner which copies may go;
review decisions refer to those groups by the version of their members; and the plans go
through the execution above. `write_gate.go` refuses decisions and scans while a
recovery is due; `GovernanceBatch` has that as `unsafe`.

What is hard here: a process that dies between a file operation and the row that
records it; database errors and a cancelled context that make the *recording* of
a rollback fail; a batch that goes on after a plan with uncertain outcome; files
changed between check and use; names reused in the quarantine; rows read,
checked and written back without looking again; retries with an old token; a
prefix of files that a resumed scan does not visit; writers, workers and
submitters that wait for each other; and two processes that create the same
project while one of them takes its directory back. `PROJECT.json`
lists every such hazard with its line and the properties that watch it.

## The modules

* `PlanPipeline` is the abstract promise. It has only the durable state of a plan
  and the sets of actions applied and undone: one reservation at a time, actions
  applied in order, nothing applied after an undo, VERIFIED only with everything
  applied, ROLLED_BACK only with nothing applied, both final.
* `PlanExecution` is the program. Its last part states the properties.
* `MCPlanExecution` gives TLC plans, names and digests; the `.cfg` files choose
  among them.
* `ItemFate` is the abstract promise of the quarantine: an item is kept until it is
  restored or purged, both are final, one item at a time is between two fates, a
  restore may give its item back and a purge may not.
* `QuarantineLifecycle` is the program that has to keep it, from the registration of
  an item on. `MCQuarantineLifecycle` gives TLC its items and paths.
* `JobManager` has the jobs, the calls of Run and RequestCancel and the sessions of
  the processes that own the database.
* `GovernanceBatch` has the review decisions, and `DecisionLedger` is its abstract
  promise: every change is one new revision, a request is answered once per group
  and saves only over the revision it saw.
* `ScanCheckpoint` has one storage, its scans and what they leave for the next.
* `RetentionPlan` has no variables: classifier, grouping, accounting and planner as
  operators. `RuleLifecycle` extends it with the life of learned rules, and checks
  the planner in every state that learning, approval and scanning reach.
* `ProjectStore` has processes that create and open projects.
* `AnalyzeRun` has the goroutines of one format analysis after another.
* `MC...` modules give the instances, and each `..._proofs` module extends the module it is
  named after with the lemmas and theorems about it.

`PlanExecution` and `QuarantineLifecycle` meet in two places, and each module has the
other as an abstract step. Plan completion registers items; `Register` in
`QuarantineLifecycle` is that step, taken under the guards that the run of a source
plan has. Both share the execution lock and `requireNoRecovery`; `PlanStuck` and
`PlanRecovered` are source plans that need recovery and get it. `PlanExecution` is
the half of the guard that looks at plans.

### PlanExecution: state

| variable | code |
|---|---|
| `state`, `journal`, `items` | rows of `operation_plans`, `execution_journal`, `quarantine_items` |
| `data` | what is at each path: a content, nothing (`Absent`), or a truncated or damaged file (`Partial`) |
| `scanned` | paths whose size, time, inode and device are still those of the scan |
| `lock` | the holder of the `flock` on the database's lock file |
| `job[w]` | a caller's stack: the plan and action it is at, the copy in progress (`from`, `to`, `buf`), the rollback list (`at`), whether all rollbacks were confirmed, and whether its context is cancelled |
| `harmed`, `edits`, `crashes` | bookkeeping: contents of which another program destroyed a copy (in the quarantine also one that was half written), and bounds |

A content is named by the path at which it was scanned, and duplicates have one
digest under `Sha`. Hence "the file survives" can be told from "a file with the
same digest exists". DELETE runs QUARANTINE's code and RENAME runs MOVE's, so
there are three kinds with file work; KEEP stands for KEEP, SKIP and REVIEW.

### PlanExecution: actions

`StartExecute`, `NextPlan`, `EndBatch` are the batch loop of
`ExecutionService.Execute`. `CheckFails`, `Invalidate`, `Reserve(Fails)`,
`BeginJournal(Fails)`, `Claim(Fails)` are `Executor.Execute` before the first
file action, each with the state that a failure leaves. `ActBegin`, `ActSkip`,
`ActCancelled`, `ActFinished` are the head of its loop. `CopyOpens` up to
`RemoveFails` are the system calls of `CopyAndVerify` and `MoveFile`; actions,
in-run rollbacks and recovery share them as the code shares the functions, and
`job.mode` tells for whom they run. `MarkDone`, `MarkFailed`, `UndoBegins`,
`UndoSucceeded`, `UndoFailed` and `UndoEnds` record outcomes and roll back.
`Finalize...` are the two ends of `CompletePlanExecution`, `Recover...` is
`Executor.Recover`. `Cancel`, `Crash` and `ExternalEdit` come from outside.

A database call is one step because it is one transaction. A file copy is two
steps, opening and filling, because a crash or another program between them
matters. Between two of them everything else may happen.

### PlanExecution: what is abstracted

Path-safety checks (symlinks, scope, mounts, permissions) can only refuse, and
appear as the nondeterministic failures `CheckFails`, `CopyRefused` and, for a
quarantine name, the second disjunct of `ActBegin`. A copy that arrives damaged
without an error from the system is allowed. Recovery is given a context that is
never cancelled, as the callers do. The audit log, timestamps, error codes and
messages are left out. A crash loses no committed transaction.

### QuarantineLifecycle

| variable | code |
|---|---|
| `status[i]` | `quarantine_items.status`; `expired` holds the items whose `retain_until` has passed |
| `rplan[i][n]`, `rlog[i][n]` | the n-th row of `restore_plans` for an item and its `restore_journal` row |
| `pplan[i][n]`, `plog[i][n]`, `dry` | the same for `purge_plans` and `purge_journal`, and which plans have a verified dry run |
| `planLocked` | `ListExecutingPlans` returns something |
| `data` | what is at source paths, quarantine paths and staging paths |
| `job[w]` | a call in progress: the item and plan it works on, what it read, the list it works through |

A purge plan is a chain that looks long and has one dangerous step. `ListPurgeCandidates`
and `SavePurgePlans` are two steps because the code reads first and writes in a
transaction of its own; so are `DraftRestore` and `SaveRestorePlan`. Approvals and
dry runs take no lock. `StartRestore` and `StartPurge` take it, look for unresolved
work and read plan and item, which later steps use as they were read; `BeginRestore` and
`BeginPurge` read the database again. `CopyOpens` to `RemoveQuarantined` are
`MoveFile`, `MoveFails` its failures, after which the same reconciliation runs as in
`RecoverRestores`: `Probe` twice, then `MarkRestoreRolledBack` or `Blocked`. `Stage` to
`MarkPurgeCommitted` are `ExecutePurge` after its journal row, and `PurgeFails` leaves
that row active at any of them. `RecoverPurges` changes nothing and has no action.

Digests presented at approval and execution, confirmation texts and checks of roots,
links and mounts can only refuse (`Refused`, `CopyRefused`, `Blocked`). Other
programs edit source and quarantine paths, also files that a restore has half written,
but not the private staging directory. `retain_until` is
copied from the item into its plans, so one set says for both that it has passed.
In the present build `PurgeReleaseAllowed` is the constant FALSE and none of the purge
actions can happen; the runs set it to TRUE to check the code that waits behind it.

### JobManager

`row` and `last` are `job_runs.state` and the last event of each job; `active` and `mu`
the manager's map and lock; `call[c]` a goroutine in Run with its context and the
outcome of the job function; `user[u]` a call of RequestCancel; `owner`, `sess`, `todo`,
`failing` the lease and the opening of the project with its Recover. Each caller of
`UpdateJobState` is two steps, a read with its check and a write, because the store
writes by id without looking again: `StartRead`/`StartWrite`, `StageRead`/`StageWrite`,
`SelfRead`/`SelfWrite` (a scan job that finds its access ended sets its own state),
`FinalRead`/`FinalWrite`, `CancelRead`/`CancelWrite`. `Poll` is the progress goroutine
and `Join` the wait for it. `EndSession` is a process that closes or dies.
Every write of a row or an event may fail, with what the code does then (`StartFails`,
`FinalFails`, the second disjuncts). Jobs share nothing but the manager's lock and the lease, so one job with two calls of Run
is the interesting instance.

### GovernanceBatch

`subject` stands for the version hash of a group, `unsafe` for an active job or a
pending recovery. A preview is evaluated in one transaction (`EvaluateGovernancePreview`),
looked at again subject by subject in separate reads (`BeginPersist`, `RecheckSubject`), and
inserted in another transaction (`PersistGovernancePreview`). `Commit` takes `governanceMu` and
decides between replay, refusal and a new batch; `InsertBatch`,
`CommitDecisionItem` and `CompleteBatch` are its transactions, `CommitStops` an error
or a cancelled context between them, `Crash` the loss of all calls. An item's `Answer`
is one transaction: safety, subject, revision, source freshness, save. `SaveGroupDecision` is the single
decision, which alone can choose a primary copy. `PreviewExpires` is the clock. The
database starts fresh, one process owns it, and freshness is any outcome per item.

### ScanCheckpoint

Paths are numbers in traversal order and `Ends` the last paths of directories. `disk` is
the tree, `rows` the file rows, `checkpoint` the newest checkpoint row, `scan`, `files` and
`queue` the running scan, its list and the files with the hash workers. `Start` reads
the checkpoint and the cached rows; `Visit`, `Skip`, `Unreadable`, `WalkStops`,
`WalkEnds` are the traversal; `QuickHash` a worker; `PassBoundary`, `SavePrefix...` and
`UpdateCheckpoint...` what a completed directory does; `Drain...` the end of the pool;
`BeginPass`, `Revisit`, `NotRevisited`, `EndPass` the second look of a resumed scan at the
duplicates before its checkpoint; `FullHash` and its ends the second stage of hashing;
`Save`, `Reconcile`, `Finish` the last transactions. `RootUnavailable` is a network root that is away
when the traversal begins, which makes the scan partial, `RootUnreadable` a root that cannot be
examined for another reason, which ends it in an error. `Edit`, `Drop`, `Reach`, `Cancel`,
`Crash` come from outside. Size, time and inode stand for the content where the file system has
reliable inodes, and an edit never restores an earlier version. Only the newest
checkpoint row matters to the code, and one scan runs at a time. A cancelled scan
submits no further file; the pool may take one more (`runner.go:50-54` chooses
freely between a free slot and the ended context), which `AnalyzeRun` has and which here would
only hash a file that the cancelled scan discards.

### RetentionPlan and RuleLifecycle

Which terms a directory matches is data; scores, the selection sort with its ties,
the cap of learned priorities (K-008), the checks of the planner and the count of physical
copies are as in the code. `LearnStats`, `LearnCorpus`, `LearnFeedback` compute drafts
from index, wording and outcomes of earlier plans; `SaveDraft`, `SaveLowered`, `SaveBatch` are
their writes, one row at a time, and `Stop` the end of a command between two. `Decide`,
`ApproveBatch`/`ApproveNext`, `DisableBatch`, `ReviewRules`/`Answer` are the commands of a person,
`MergeLearned` the API that gives the effective rules to the classifier (nothing in the
present build calls it), `Rescan` a new index. The name of a batch is its source and a second
(`rule.go:101-105`): a run may repeat the name of any earlier run of its source, which is more than
the runs of one second. Commands do not interleave: each
holds the owner lease. Plans with outcomes are given by `Histories`.

### ProjectStore

Places 1..N are the directories one display name can be given, in the order they are
tried; place 0 is a database anywhere. `CreateFromSource`, `Claim`, `AcquireOwner`, `CreateFile`,
`Preflight`, `Migrate`, `ApplyGovernanceMigration`, `RegisterStorage`, `WriteMeta`, `Wire`,
`LockRecent`, `WriteRecent` are the steps of a creation, which an open shares from the lease on;
`Fail` and `Abort` send it to `RemoveClaimed` or to its end. Refusals of the lease
(`owner_unix.go:43-70`) and those of the preflight that depend on the file
(`governance_migration.go:73-82`) have the effect of a failed file step and have no action of their own. `OpenProject` is the read-only open.
`db[d]` is one of the six layouts that the preflight tells apart. Assumption `Settled`: no
user opens a directory while its creation or removal is under way (see the
observations).

### AnalyzeRun

`CheckContext` and `Submit` are the submitter: it looks at its context, then waits for a slot or
the end of the context and takes either when both are there, so that one more task may start after
a cancellation. Formats of active rows are reused, other files are read again. `Read`, `Send`, `Count`, `Publish` are a task, `Receive`,
`Flush`, `Drained` the goroutine that writes, `CloseChannel` and `Return` the end of the run.
`Count` and `Publish` are two steps because the code adds atomically and stores the sum
later.

## The runs

| run | instance | shows |
|---|---|---|
| `plan_execution_safety` | two callers, two plans over three duplicate files with QUARANTINE, COPY, MOVE and KEEP; one plan is critical; two quarantine names; database faults, cancellation, 2 crashes, 1 foreign edit; about 1.1 million states | all invariants and action properties, and that the program implements `PlanPipeline` |
| `plan_execution_liveness` | one plan with two file actions, 1 crash, 1 edit, faults, cancellation | `LockReleased` |
| `rollback_ends` | the same family | a disagreement of a comment with the code, below |
| `quarantine_pair` | two equal files from one source path, one protected; two processes; one restore plan and one purge plan each, 1 crash, 1 edit; about 450,000 states | its invariants and action properties, and that the rows implement `ItemFate` |
| `job_manager` | one job, two calls of Run, two requests, two processes, 3 openings; about 270,000 states | one runner, one end, and that a cancelled job ends |
| `job_transitions` | one request, 2 openings | a stale write breaks the state machine, below |
| `governance_batch` | two groups in one request, two keys, two callers, one batched decision and the choice of a primary, one other revision; about 350,000 states | its invariants, `RetryCompletes`, and that the rows implement `DecisionLedger` |
| `scan_checkpoint` | three files in two directories, both kinds of source, two workers, 2 faults; about 670,000 states | its invariants and that scans which are tried again complete |
| `scan_revisits` | two files on a network source without an access check, 2 faults | a resumed scan loses a hash, below |
| `rule_lifecycle` | two terms, eight directories of every role, seven indexes, 3 commands, 1 rescan; about 360,000 states | decisions stand, and plans are sound in every state |
| `project_store` | two processes, two directories and a foreign place, two sources of which one contains the other and the databases, 4 sessions, 1 crash; about 4.2 million states | its invariants and action properties |
| `analyze_run` | three files, two of them with rows, two workers, batches of 2, a channel of 1, 2 runs, 2 faults; about 940,000 states | what a report counts is durable and every run returns |

The bounds. Two callers and two plans are what it takes for a second run to meet
the reservation of a first. The two plans contend for one source and one
destination. Three actions give a rollback list with a gap and an order. Two
crashes let recovery itself be interrupted and run again. One foreign edit
reaches each check-to-use gap; with more, each property would have to exempt more
and say less. Two quarantine names give one collision and then exhaustion.
Workers are symmetric and reduced in the safety run only.

In the quarantine, two items of one source path contend for the destination and for
the lock, and their equal digests let one be taken for the other. One restore plan per
item is what TLC can afford beside a purge; the proved invariants hold for any number
of them, a retry after a rollback included. One purge plan is
enough: a plan stands in the way of the next until its item is restored, and then
there is none. Deadlock is not checked there, because an active purge row stops the
database for good, by design.

Two calls of Run and two processes are what it takes for a job to be started twice and
for a recovery to meet a live job; a third opening lets a job that an earlier session
left be failed and then be run again. Two idempotency keys let two batches race for one preview,
two groups leave a batch half done. In a scan, one fault interrupts it and the second
hits the resumed one; the boundary between the first file and the others puts a
duplicate on each side of a checkpoint. Three commands are learn, decide and learn
again. Two directories give one collision of names and then exhaustion; four sessions let both
processes create and open. A channel of one is harder than the code's two batches: it is
full at once. With two workers, three files leave one task waiting for a slot.
The runs with bounds that end a behaviour (sessions, commands, runs, faults) do not check
deadlock; the temporal properties say instead what must not stop.

Properties, in the last part of `PlanExecution`:

* `EveryFileSurvives`: whatever fails, crashes or is cancelled, each scanned
  content of which no other program destroyed a copy is complete at some path.
* `OneReservation`: at most one plan is reserved or executing.
* `Agreement`: a running job's memory and the durable rows tell one story.
* `WriteAhead`: a file changes only under the lock holder's EXECUTING plan, with
  a row that is durable, unsettled and names that file; in recovery only when
  no row of the plan is uncertain.
* `OutcomesAreReal`: VERIFIED and ROLLED_BACK describe the disk.
* `PipelineSpec`: the refinement of `PlanPipeline`, with `applied` the rows done
  and not rolled back and `undone` the rows rolled back.
* `LockReleased`: every run and every recovery ends.

and in the last part of `QuarantineLifecycle`:

* `EveryItemSurvives`: a registered file of which no other program destroyed a copy is
  complete at some path until its purge may unlink it.
* `OneUnresolved`: one source plan, restore or purge is unresolved at a time. Nothing
  in the database says so; it follows from the lock, from what is read under it
  and from every failure keeping its row.
* `Agreement`: what a running restore, purge or reconciliation relies on without
  looking again - its lock, a clear database before its reservation, the progress of
  its row, the staged file that it checked - is true at each of its points, and no
  protected item becomes eligible for a purge.
* `RestoresAreReal`: RESTORED and ROLLED_BACK of a restore describe the files.
* `UnlinkAuthorised`: what is unlinked is the approved content of an expired,
  unprotected item with a dry run and a row that says the file may be gone.
* `FateSpec`: the refinement of `ItemFate`. A stale list of candidates that makes a
  restored item eligible again would break it.

In the other modules:

* `JobManager`: `Agreement` (map, lock, lease and calls tell one story, so that no job
  has two runners), `EndsOnce` (nobody but its runner ends a running job, nothing follows
  the terminal event, CANCELLED comes only out of a recorded request), `CancelEnds` (a request
  that found the job running leads to the return of Run).
* `GovernanceBatch`: `RecordsAgree` (audit rows number the revisions without a gap, batches
  saved what their previews saw, every batch can be shown), `DecidedWhenSafe`,
  `RetryCompletes` (a key that is tried again and again completes once an
  attempt is not interrupted), `LedgerSpec` (the refinement).
* `ScanCheckpoint`: `DurablePrefix` (a checkpoint stands behind hashed, durable rows),
  `MissingWasGone` (a file becomes missing only if it was not there while the scan could
  have seen it, or if its row was already unavailable and lies in the prefix that a resumed scan
  skips: disagreement 4 below), `CompletedIsHashed` (a completed scan leaves every duplicate with its full hash),
  `ScansComplete` (an interrupted scan is completed by those that follow, unless a file
  of its prefix was deleted).
* `RuleLifecycle`: `HumanDecisionStands`, `EffectiveWasApproved`, `PlansAreSound` (a plan keeps
  a copy, sets aside only what no rule protects, and frees what its group reports).
* `ProjectStore`: `ProjectsStand`, `RecentKeeps`, `DatabasesAreKept`.
* `AnalyzeRun`: `ReportIsDurable` (what a returned run counts as saved is saved, also after an
  interruption or a failed transaction; without a reported error nothing it read is left out),
  `RunReturns`.

**Fairness.** In `PlanExecution`, `FairSpec` asks weak fairness of `Step(w)` only: a
goroutine that was started goes on taking its next step. Nobody is obliged to start a run or a
recovery, to approve or to cancel. No strong fairness is needed, because a job
has no step that waits: it takes the lock without blocking when it starts.

The others follow the same rule. `JobManager`: the steps of Run and of a request that has found
its job go on, and a scan returns once its context is cancelled; it need not return
otherwise. `GovernanceBatch`: a commit goes on; `RetryCompletes` itself assumes that
attempts keep being made and that from some time on none is interrupted. `ScanCheckpoint`: a
scan goes on, the network comes back, and somebody starts a scan again when none runs:
without these three nothing obliges a scan to complete, and no more is used. `AnalyzeRun`: the
submitter, the writer and each worker go on when they can. The remaining modules have safety properties
only.

### Disagreements found

1. `rollback_ends`. `executor.go:158-160` promises ROLLED_BACK after a failed
   action. The failed action's own row is `failed` and has no rollback status, so
   `CompletePlanExecution` refuses ROLLED_BACK. The plan stays EXECUTING, and
   recovery finds its row uncertain and leaves it locked.
2. `job_transitions`. `jobs.go:30-39` lists the valid transitions and `jobs.go:53` calls a
   terminal state final. `UpdateJobState` reads the state, checks the transition and
   then writes with `WHERE id = ?` only (`store/jobs.go:51`, `:86`). A stage update that read
   RUNNING erases CANCEL_REQUESTED; then CANCELLED is refused and the job stays
   RUNNING until the next recovery. A request that read RUNNING writes
   CANCEL_REQUESTED over COMPLETED.
3. `scan_revisits`. `scan.go:384-385` says that a resume must revisit files which were not
   readable after the network disappeared. During the second look of a resumed scan
   (`scan.go:534`) a file before the checkpoint is listed without a hash when the network
   goes away; the final upsert wipes its stored hash, and the next resume neither
   traverses it nor has a reason to select it. The scan completes although the file has no
   hash. Callers without an access check (the plain desktop build, `bindings.go:585`) are
   affected.
4. `ScanPrefix.cfg`, property `PrefixNotMissing` (two equal files on a local source, 2
   faults; it is not in the list of runs, `tlc -config ScanPrefix.cfg MCScanCheckpoint`
   shows it in a second). `scan.go:717-719` says that a resume cannot mark its own
   checkpointed files as missing. The prefix it counts as seen is that of the cached rows,
   and `ListFileMetadata` (`sqlite.go:1071`) returns active rows only. A partial scan marks
   a file that it could not see as unavailable; the next one sees it and stores its row,
   which stays unavailable, saves a checkpoint behind it and is interrupted; the resumed one
   leaves it out of `seenPaths`, and the reconciliation, which looks at active and
   unavailable rows (`sqlite.go:1146`), declares it missing although it is there.

### Observations

Facts of the code that the models contain, or were read while modelling, and that no
run states as a property:

* `app/execution.go:71` has each successful quarantine registered. `INSERT OR IGNORE`
  with a UNIQUE path (`deletion.go:78`) drops the row when the name was used before and
  its file has gone: the plan becomes VERIFIED and the file has no lifecycle row.
* The user guide (section 6.3) has every file checked before execution. The check
  (`executor.go:391`) skips the files a plan keeps.
* `ops.go:139-140` says both files are left in place when the source of a move cannot be
  removed. The next line removes the destination; if another program had taken the source
  away, that was the last copy. `EveryFileSurvives` holds, since the destroyed source
  counts as harmed.
* A plan whose claim failed keeps pending rows that recovery never settles
  (`recovery.go:84`); the database then waits for manual reconciliation.
* `UpsertFiles` (`sqlite.go:199-215`) leaves `file_status` alone and only tests call
  `MarkFileActive`, so a file that was missing or unavailable once and came back stays so,
  also when a scan that lists it completes. A file before the
  checkpoint that goes away between two sessions stays active until a fresh scan, and a deleted
  candidate makes every resume fail until then (`scan.go:541`); `ScansComplete` exempts
  scans that have lost a file of their prefix.
* A batch that stopped half way is refused once its preview has expired
  (`governance_batch.go:198-201`).
* Learning from the index overwrites a draft that the corpus proposed as sensitive
  (`rule.go:84`); feedback adjusts a confidence that no classification reads; no transition
  leads out of disabled although `model.go:382` calls it reversible.
* `CreateFromSource` does not compare the source with the directory of the project
  databases (`service.go:105`), which `RegisterScanSource` does, and `StartScan` registers a root
  without the overlap checks (`bindings.go:547`).
* A failed creation releases the lease before it removes its directory; a process that
  opened the database in between would lose it. An interrupted first
  initialisation leaves a partial layout that the preflight refuses for ever.
* The progress counter of an analysis is stored after a separate atomic add
  (`analyze.go:295`): it can go back, and can end below its total. A resumed analysis keeps the
  format of a file whose content changed since (`analyze.go:214`).

## What is proved

Eight modules hold proofs, one for each component that keeps state. Each has an inductive
invariant, lemmas that say that every action keeps it, and the theorems that follow. They hold
for every value of the constants that satisfies the `ASSUME`s of the module: any number of plans, files, jobs, calls, processes, faults, crashes and edits.

### Plan execution

`PlanExecution_proofs`: `TypeCorrect` (`TypeOK`), `SingleReservation`
(`OneReservation`), `RunAgreesWithJournal` (`Agreement`), `JournaledBeforeTouched`
(`WriteAhead`), `NoFileLost` (`EveryFileSurvives`), `OutcomesTellTheTruth`
(`OutcomesAreReal`), `ExecutionImplementsPipeline` (the refinement `PipelineSpec` of
`PlanPipeline`).

The inductive invariant of the first four is `IInv == TypeOK /\ OneReservation /\
Agreement`. None of the three is inductive alone. `OneReservation` needs to know that a
run about to reserve found nothing reserved when it started and that each plan it left
since was settled; this is in `Agreement` (`Reserved = {}` at `next` and `check`).
`TypeOK` needs that a job in a file step has real paths. `Agreement` needs that
only the lock holder runs, so that no other job's beliefs are broken by a
step (`Frame`), and that the only reserved plan is the job's own. The proof has
one step per action; those that leave plan states and rows alone go through
`Moves`, those that rewrite one row through `RowStep` and `Records`, those
that leave a plan through `Leaving` and `Settles`. `WriteAhead` follows from
`IInv` before each step.

`NoFileLost` needs to say where a file is while it is on its way. "Some path holds it" is
not inductive: a rollback removes the copy that a COPY made without looking at it. So
`Outside` says that each kept file is at a path that is *not* such a copy (`Copies`: the
rows and jobs whose rollback may still remove it), `RowsRouted` and `JobRouted` that rows
and jobs name only the paths of their own action, and `Twin` which two paths hold the same
between the steps of `MoveFile`. It uses three assumptions about paths. The quarantine
root is outside every source root (`RootsAssumption`, enforced at `quarantine.go:112`). A
cold copy gets a name of its own in a root of copies (`CopiesAssumption`, from
`next_steps.go:173` and `:393-405`; the executor itself checks neither). What another
program writes does not have the digest of a scanned file by accident
(`ForeignAssumption`). Without `CopiesAssumption` the
rollback of a COPY could remove what another action put at the same name.

`ExecutionImplementsPipeline` needs one more fact about a run that goes forward: the rows
that say done are exactly those of the actions behind it (`InOrder`). With it each action is
one step of the pipeline (reserve, claim, apply the next action, undo one, end) or changes
nothing that the pipeline sees: the lemmas `CallersPipe` to `QuietSteps`.

`OutcomesTellTheTruth` is about what the journal is worth. `CompletePlanExecution` ends a
plan by its rows and looks at no file, so the invariant `OInv` has to say of every row and
every job what it means for the disk: `Untouched` what the metadata kept since the scan
means, `PlanReal` that the files of a reserved plan are where they were, `RowReal` that a
row rolled back means a file at home and a row done means that its target holds nothing of
another action, and `ActionReal` where the files of the actions behind, at and ahead of a
running job are, and what its rollback list may put back. The steps that write files are
reduced by `RealWrite` to what they leave at one path (`Leaves`). Their hard case is two
actions of one plan with one destination: `DestinationsApart` shows by `Twin` that the second
one never gets past opening its copy while the first one's file is there. It uses
`PlansAssumption`: a plan of the planner has one action per file of a duplicate group
(`planner.go:246-256`), and a plan with a destination is a single rename or copy onto a path
that does not exist (`next_steps.go:245-262`, `:393-405`). The executor checks neither; plans that
were edited by hand between approval and execution are outside the theorem.

### Quarantine

`QuarantineLifecycle_proofs`: `TypeCorrect` (`TypeOK`), `SingleUnresolved`
(`OneUnresolved`), `CallsKnow` (`Agreement`), `UnlinksAreAuthorised` (`UnlinkAuthorised`),
`RowsImplementFate` (the refinement `FateSpec` of `ItemFate`), `NoItemLost`
(`EveryItemSurvives`), `RestoresTellTheTruth` (`RestoresAreReal`); with the release gate
open or closed.

The invariant is again the conjunction, `IInv == TypeOK /\ OneUnresolved /\
Agreement`. `OneUnresolved` needs `Clear` at the two points before a reservation,
which `Agreement` has; `Agreement` needs that a process with the lock is the only one
whose steps write rows or staged files (`OthersKnow`): while `w` runs, another
process either holds no lock and relies on nothing that can change, or holds it and
sees `Quiet` steps only. `Conclude` reduces each action to what it does to its own
process. For `UnlinksAreAuthorised`, `OnlyUnlink` shows that nothing else takes a file
out of the staging directory, and `Agreement` at `unlink` says the rest. For
`RowsImplementFate` each action that writes `status`, `rlog` or `plog` is mapped to a
step of one item, where `OneUnresolved` shows that settling a row leaves no second
one; all others change no fate, `SavePurgePlans` because it checks its list again.

The last two theorems rest on `SInv`, proved inductive beside `IInv`: an item lies only at
its own paths (`Located`), a staged file has an active purge row (`StagedActive`), a
committed purge is the end of its item (`Ended`), what is promised is somewhere
(`Survives`), and `Places` says which copy is the promised one at each point of a restore
or purge. The interesting clauses are those a reconciliation lives on: at `rollback`
the source holds nothing of the item, and while the restore row is only `pending` the
quarantined file has not been touched. `NamesAssumption` says that a file made elsewhere is
not the item itself.

### Jobs, decisions, projects, rules and scans

* `JobManager_proofs`: `TypeCorrect`, `OneExecutor` (`Agreement`), `JobsEndOnce` (`EndsOnce`).
  `Agreement` is a set of facts about the lease, the active map, its lock and the calls
  (`ProcAgrees`, `SlotAgrees`, `CallAgrees`, `UserAgrees`). It is not inductive: `History`
  adds what a call knows of row and log: that a job being created has one
  call, that no terminal event precedes an executing call, and that a job with
  a terminal event never gets a row from which it could run again, whatever stale
  cancellation is written late.
* `GovernanceBatch_proofs`: `TypeCorrect`, `RecordsTellOneStory` (`RecordsAgree`),
  `NothingDecidedWhileUnsafe` (`DecidedWhenSafe`), `RecordingImplementsLedger` (the refinement
  `LedgerSpec` of `DecisionLedger`). The invariant says of each preview, call, batch, group
  and audit row what it has to do with the others (`PreviewOK` to `RowOK`); the trail of
  a group is a finite set of as many rows as its revision, so that the next revision is
  new. In the refinement an item that was answered before a crash maps to a stutter.
* `ProjectStore_proofs`: `TypeCorrect`, `GivenProjectsStand` (`ProjectsStand`),
  `RecordingKeepsEntries` (`RecentKeeps`), `DatabasesKeepTheirContent` (`DatabasesAreKept`).
  The core is `Exclusive`: from its mkdir to the handover, or to the end of its rollback, a
  creation is alone at its directory. `Progress` gives what each step has made.
* `RuleLifecycle_proofs`: `TypeCorrect`, `EffectiveIsApproved` (`EffectiveWasApproved`),
  `LearningLeavesDecisions` (`HumanDecisionStands`), `SetAsidesAreSound` (`PlansAreSound`).
  `Pending` says that the rows a learning
  run read are still what it read when it writes, since commands do not interleave and a
  run writes each row once; `Authored` ties a definition to the batch that wrote it.

  `SetAsidesAreSound` adds the invariant `Merged`: there are finitely many rows, and every
  signal the classifier learned has at most the authority of the directory roles. The rest is
  about the operators of `RetentionPlan`, for any index. `InOrderLists` says that listing a
  set by rank lists each element once; `SelectionSorts` that the sort of signals keeps the
  elements and leaves them by falling authority, by a smallest round that would fail
  (`Ascending`) in place of an induction. From that `DisposableByBuiltins`: if the strongest
  signal of a path is disposable, a builtin signal that matches it cannot be of value, because
  it would have been stronger (K-008). `RetainedIsListed` shows that the comparison of copies has
  a first one, so exactly one is kept, and `GroupFrees` counts objects. The assumptions are what
  a database gives: ranks of paths and rules are distinct integers (`PathAssumption`,
  `RankAssumption`) and an index has finitely many rows, with integer ages (`IndexesAssumption`).
* `AnalyzeRun_proofs`: `TypeCorrect`, `ReportsAreDurable` (`ReportIsDurable`). Every file is
  reused, waiting, with a worker or counted, and a format that was sent is in the channel, in
  the batch or written, in exactly one of them (`Queues`, `Account`); when the run returns
  channel and batch are empty, so what was sent is in the database and counted. `Backed` says of
  the counters that distinct rows and records stand behind them, also after a failed
  transaction, which drops what follows it.
* `ScanCheckpoint_proofs`: `TypeCorrect`, `PrefixIsDurable` (`DurablePrefix`), `MissingOnlyIfGone`
  (`MissingWasGone`, with the exemption above), `CompletionMeansHashed` (`CompletedIsHashed`). `Data` relates tree, rows,
  list, queue and cached rows for the files nobody touched; `Control` says what each
  point of a scan has behind it. `Completed` is the fixpoint of the second look: without a
  candidate left, a file of the prefix and any file with the same quick hash have full hashes.

### Checked by TLC only

Of the properties of the passing runs, only the liveness properties `LockReleased`, `CancelEnds`,
`RetryCompletes`, `ScansComplete` and `RunReturns`: fairness and `ENABLED` are outside what the
prover does.

## Plan

The components that keep state are modelled, and their safety properties and refinements are
proved. What is left:

* The modules that hold no state (naming heuristics, transports), only if they come to
  decide something.

## Not modelled

The transports (command line parsing, HTTP server, fnOS gateway, data transfer objects)
map requests to the services above and hold no protocol state. Diagnostics, format
detection, index export and the validation of backups are read-only. `relations`, `assets` and
`merge` are naming heuristics over one slice of files and keep no state; the most that a
suggestion becomes is a draft of REVIEW actions, which move nothing. The user interface keeps
view state. Guarded opening of files below a root is file-system mechanics; the models have it as steps that can be refused.
