---------------------------- MODULE ScanCheckpoint ----------------------------
(***************************************************************************)
(* A scan of one storage (internal/app/scan.go over internal/scanner and   *)
(* internal/runner): the ordered traversal, the pool of hash workers, the  *)
(* checkpoint that a completed directory advances, the resumed scan that   *)
(* skips the prefix before it but completes its duplicate groups, and the  *)
(* final reconciliation of the rows that no file answered for.             *)
(*                                                                         *)
(* Paths are numbers in the order in which the traversal visits them.      *)
(* Size, time and inode of a file stand for its content as long as the     *)
(* file system reports reliable inodes; they say nothing otherwise. A full *)
(* hash is the content, a quick hash what Quick makes of it.               *)
(***************************************************************************)
EXTENDS Naturals, FiniteSets

CONSTANTS
  N,           \* paths 1 .. N
  Ends,        \* the paths after which a directory is completed
  Contents,
  Absent,      \* no file at a path
  Disks,       \* the contents of the paths when the first scan begins
  Quick,       \* Quick[c]: size and quick hash of a content
  Sources,     \* kinds of source: "local" has reliable inodes, "network" may go away
  Checked,     \* the caller passes an AccessCheck (server, sandboxed desktop) or does not
  None,        \* no hash, no row
  Workers,     \* hash workers
  MaxFaults    \* bound on failures, cancellations, crashes, network losses and
               \* changes of files

Paths == 1 .. N

ASSUME ConstantsAssumption ==
  /\ N \in Nat \ {0} /\ Ends \subseteq Paths /\ N \in Ends
  /\ Absent \notin Contents /\ Disks \subseteq [Paths -> Contents \cup {Absent}] /\ Quick \in [Contents -> Nat] /\ None \notin Contents
  /\ Sources \subseteq {"local", "network"} /\ Checked \in BOOLEAN
  /\ Workers \in Nat \ {0} /\ MaxFaults \in Nat

VARIABLES
  disk,        \* content of each path
  source,      \* kind of the storage
  up,          \* the source can be reached
  rows,        \* file_instances
  checkpoint,  \* the newest row of scan_checkpoints
  scan,        \* state of the running Scan, lost in a crash
  files,       \* its list of files, with the hashes found so far
  queue,       \* files submitted to the hash workers
  history      \* bounds and what the properties remember

vars == <<disk, source, up, rows, checkpoint, scan, files, queue, history>>

-----------------------------------------------------------------------------
NoHash == [quick |-> None, full |-> None]
Hashes == [quick : {Quick[c] : c \in Contents} \cup {None}, full : Contents \cup {None}]

(* The state of a Scan: where it resumed, where its traversal stands and    *)
(* the last path it visited; the active rows it found; whether part of the  *)
(* tree could not be read, a worker or the traversal met the loss of the    *)
(* network, or a permission was refused; the candidates of a resumed pass.  *)
Idle == [pc |-> "idle", from |-> 0, cursor |-> 0, last |-> 0, cache |-> <<>>,
         partial |-> FALSE, lost |-> FALSE, away |-> FALSE, denied |-> FALSE,
         cancelled |-> FALSE, error |-> FALSE, todo |-> {}, visited |-> {}, missed |-> FALSE]

At(pc) == scan.pc = pc
Goto(pc) == scan' = [scan EXCEPT !.pc = pc]
Fault == history.faults < MaxFaults
Faulty == [history EXCEPT !.faults = @ + 1]

Resumable == checkpoint.status \in {"running", "aborted", "paused_network"}

(* Scan returns: nothing of it stays but its rows and its checkpoint, whose *)
(* status is one of those given.                                            *)
Return(statuses) ==
  /\ \E s \in statuses : checkpoint' = [checkpoint EXCEPT !.status = s]
  /\ scan' = Idle
  /\ files' = <<>>
  /\ queue' = {}

(* The write of the status may fail, and the error is dropped.              *)
Give(status) == {status, checkpoint.status}
Unchanged == {checkpoint.status}

(* UpsertFiles, in one transaction: the status of a row that exists is not  *)
(* among the columns that are replaced.                                     *)
Upsert(ps) ==
  rows' = [p \in DOMAIN rows \cup ps |->
            IF p \notin ps THEN rows[p]
            ELSE [meta |-> files[p].meta, hash |-> files[p].hash,
                  status |-> IF p \in DOMAIN rows THEN rows[p].status ELSE "active"]]

List(p, file) == files' = [q \in DOMAIN files \cup {p} |-> IF q = p THEN file ELSE files[q]]

(* persistPending: the rows may be written and their contexts fail.         *)
Persist == Upsert(DOMAIN files)
PersistFails == (Fault \/ scan.cancelled) /\ (Persist \/ rows' = rows)
Spend == history' = IF scan.cancelled THEN history ELSE Faulty

Init ==
  /\ disk \in Disks
  /\ source \in Sources
  /\ up = TRUE
  /\ rows = <<>>
  /\ checkpoint = [status |-> "none", last |-> 0]
  /\ scan = Idle
  /\ files = <<>>
  /\ queue = {}
  /\ history = [faults |-> 0, stable |-> {}, gone |-> {},
                unread |-> {}, refused |-> {}]

-----------------------------------------------------------------------------
(* Beginning and traversal.                                                *)

(* A full scan ignores the rows, an incremental one takes their hashes, a   *)
(* resumed one goes on from the newest checkpoint that did not complete.    *)
Start(mode) ==
  LET resumed == mode = "resume" /\ Resumable
      present == {p \in Paths : disk[p] # Absent}
      active == {p \in DOMAIN rows : rows[p].status = "active"}
  IN
  /\ At("idle")
  /\ checkpoint' = IF resumed THEN checkpoint ELSE [status |-> "running", last |-> 0]
  /\ scan' = [Idle EXCEPT !.pc = "walk", !.from = checkpoint'.last, !.cursor = checkpoint'.last,
                          !.cache = [p \in IF mode = "full" THEN {} ELSE active |-> rows[p]]]
  /\ history' = [history EXCEPT !.gone = Paths \ present,
                    !.stable = IF resumed THEN @ ELSE present,
                    !.unread = IF resumed THEN @ ELSE {},
                    !.refused = IF resumed THEN @ ELSE {}]
  /\ UNCHANGED <<disk, source, up, rows, files, queue>>

(* The root of a network source is not there: nothing can be visited.       *)
RootThere == scan.cursor > scan.from \/ up

RootUnavailable ==
  /\ At("walk") /\ ~RootThere
  /\ scan' = [scan EXCEPT !.pc = "drain", !.partial = TRUE, !.away = TRUE]
  /\ UNCHANGED <<disk, source, up, rows, checkpoint, files, queue, history>>

(* It cannot be examined for another reason: the traversal ends in an error.*)
RootUnreadable ==
  /\ At("walk") /\ scan.cursor = scan.from /\ Fault
  /\ scan' = [scan EXCEPT !.pc = "drain", !.error = TRUE]
  /\ history' = Faulty
  /\ UNCHANGED <<disk, source, up, rows, checkpoint, files, queue>>

Here == scan.cursor + 1
Passed(s) == [s EXCEPT !.cursor = Here, !.pc = IF Here \in Ends THEN "boundary" ELSE "walk"]

(* Whether a file looks like its cached row: on a network, size, time and   *)
(* inode may agree although the content does not.                           *)
LooksCached(p) ==
  IF source = "local" THEN {scan.cache[p].meta = disk[p]} ELSE BOOLEAN

canReuseCachedHash(p, same) ==
  same /\ source = "local" /\ scan.cache[p].hash.quick # None

\* Mutant of VisitFile: a hash is started although all workers are busy.
VisitFileAtOnce(p) ==
  /\ ~scan.lost /\ ~scan.cancelled /\ disk[p] # Absent
  /\ List(p, [meta |-> disk[p], hash |-> NoHash, failed |-> FALSE])
  /\ queue' = queue \cup {p}

(* visitFile: the hashes of the cached row, or a free worker that hashes.   *)
VisitFile(p) ==
  LET cached == p \in DOMAIN scan.cache IN
  /\ ~scan.lost /\ ~scan.cancelled /\ disk[p] # Absent
  /\ \E same \in IF cached THEN LooksCached(p) ELSE {FALSE} :
       \/ /\ cached /\ canReuseCachedHash(p, same)
          /\ List(p, [meta |-> disk[p], hash |-> scan.cache[p].hash, failed |-> FALSE])
          /\ queue' = queue
       \/ /\ ~(cached /\ canReuseCachedHash(p, same)) /\ Cardinality(queue) < Workers
          /\ List(p, [meta |-> disk[p], hash |-> NoHash, failed |-> FALSE])
          /\ queue' = queue \cup {p}

Visit ==
  /\ At("walk") /\ RootThere /\ Here \in Paths
  /\ VisitFile(Here)
  /\ scan' = [Passed(scan) EXCEPT !.last = Here]
  /\ UNCHANGED <<disk, source, up, rows, checkpoint, history>>

(* A path that was not there when its directory was listed.                 *)
Skip ==
  /\ At("walk") /\ RootThere /\ Here \in history.gone /\ ~scan.cancelled
  /\ scan' = Passed(scan)
  /\ UNCHANGED <<disk, source, up, rows, checkpoint, files, queue, history>>

(* What a failed look at a network source says: that the source is away, or *)
(* only that a file or directory is not there.                              *)
Interruptions == {FALSE, source = "network"}

(* A directory cannot be listed, or an entry not be examined: the traversal *)
(* goes on, and leaves no checkpoint behind it.                             *)
Unreadable ==
  /\ At("walk") /\ RootThere /\ Here \in Paths /\ ~scan.cancelled /\ (~up \/ Fault)
  /\ \E interruption \in Interruptions :
       scan' = [Passed(scan) EXCEPT !.partial = TRUE, !.away = @ \/ interruption]
  /\ history' = IF up THEN Faulty ELSE history
  /\ UNCHANGED <<disk, source, up, rows, checkpoint, files, queue>>

(* The loss of the network that a worker met, or the cancellation, stops it.*)
WalkStops ==
  /\ At("walk") /\ (scan.lost \/ scan.cancelled)
  /\ Goto("drain")
  /\ UNCHANGED <<disk, source, up, rows, checkpoint, files, queue, history>>

WalkEnds ==
  /\ At("walk") /\ RootThere /\ scan.cursor = N
  /\ Goto("drain")
  /\ UNCHANGED <<disk, source, up, rows, checkpoint, files, queue, history>>

-----------------------------------------------------------------------------
(* Hash workers.                                                           *)

(* How a read ends: with the content, as a loss of the network, with a      *)
(* refused permission, or otherwise. A file that is gone reads like a loss. *)
(* A file of the resumed prefix must also be what its metadata say.         *)
Intact(p) == p > scan.from \/ source = "network" \/ files[p].meta = disk[p]
Reads(p) ==
  {o \in {"ok", "network", "permission", "error"} :
    CASE o = "ok" -> disk[p] # Absent /\ up /\ Intact(p)
      [] o = "network" -> source = "network" /\ (~up \/ disk[p] = Absent)
      [] o = "permission" -> Checked /\ Fault
      [] o = "error" -> Fault \/ (source = "local" /\ (disk[p] = Absent \/ ~Intact(p)))}

Mind(o) == scan' = [scan EXCEPT !.lost = @ \/ o = "network", !.denied = @ \/ o = "permission"]
Spent(o) == IF o = "permission" \/ (o = "error" /\ Fault) THEN Faulty ELSE history

(* The quick hash of a submitted file; one that fails stays without.        *)
QuickHash(p) ==
  /\ p \in queue
  /\ \E o \in Reads(p) :
       /\ files' = IF o = "ok" THEN [files EXCEPT ![p].hash.quick = Quick[disk[p]]] ELSE files
       /\ history' = [Spent(o) EXCEPT
            !.unread = IF o = "ok" THEN @ \ {p} ELSE @ \cup {p},
            !.refused = IF o \in {"permission", "error"} THEN @ \cup {p} ELSE @ \ {p}]
       /\ Mind(o)
  /\ queue' = queue \ {p}
  /\ UNCHANGED <<disk, source, up, rows, checkpoint>>

-----------------------------------------------------------------------------
(* A directory is completed.                                               *)

(* The prefix up to the last visited path may become durable.               *)
Advances == scan.last > checkpoint.last /\ ~scan.partial

PassBoundary ==
  /\ At("boundary") /\ ~Advances
  /\ Goto("walk")
  /\ UNCHANGED <<disk, source, up, rows, checkpoint, files, queue, history>>

\* Mutant of SavePrefix: the hashes under way are not waited for.
SavePrefixEarly ==
  /\ At("boundary") /\ Advances /\ ~scan.lost /\ ~scan.cancelled
  /\ Persist
  /\ Goto("advance")
  /\ UNCHANGED <<disk, source, up, checkpoint, files, queue, history>>

(* Its hashes are waited for; what could not be read for the loss of the    *)
(* network must be visited again. Then the rows are written.                *)
SavePrefix ==
  /\ At("boundary") /\ Advances /\ queue = {} /\ ~scan.lost /\ ~scan.cancelled
  /\ Persist
  /\ Goto("advance")
  /\ UNCHANGED <<disk, source, up, checkpoint, files, queue, history>>

SavePrefixFails ==
  /\ At("boundary") /\ Advances /\ queue = {} /\ ~scan.lost
  /\ PersistFails /\ Spend
  /\ scan' = [scan EXCEPT !.pc = "drain", !.error = TRUE]
  /\ UNCHANGED <<disk, source, up, checkpoint, files, queue>>

PrefixLost ==
  /\ At("boundary") /\ Advances /\ queue = {} /\ scan.lost
  /\ Goto("drain")
  /\ UNCHANGED <<disk, source, up, rows, checkpoint, files, queue, history>>

UpdateCheckpoint ==
  /\ At("advance") /\ ~scan.cancelled
  /\ checkpoint' = [checkpoint EXCEPT !.last = scan.last]
  /\ Goto("walk")
  /\ UNCHANGED <<disk, source, up, rows, files, queue, history>>

UpdateCheckpointFails ==
  /\ At("advance") /\ (Fault \/ scan.cancelled)
  /\ scan' = [scan EXCEPT !.pc = "drain", !.error = TRUE]
  /\ Spend
  /\ UNCHANGED <<disk, source, up, rows, checkpoint, files, queue>>

-----------------------------------------------------------------------------
(* After the traversal.                                                    *)

(* Cancelled: what is in memory is not written.                             *)
DrainCancelled ==
  /\ At("drain") /\ queue = {} /\ scan.cancelled
  /\ Return(Give("aborted"))
  /\ UNCHANGED <<disk, source, up, rows, history>>

Drain ==
  /\ At("drain") /\ queue = {} /\ ~scan.cancelled /\ ~scan.error
  /\ Persist
  /\ LET away == scan.away \/ scan.lost IN
     scan' = [scan EXCEPT !.away = away,
                          !.pc = IF scan.from > 0 /\ ~away THEN "resume" ELSE "full"]
  /\ UNCHANGED <<disk, source, up, checkpoint, files, queue, history>>

(* After an error of the traversal, a refused permission or an unreachable  *)
(* network changes only what the caller is told and how the scan is marked. *)
DrainError ==
  /\ At("drain") /\ queue = {} /\ ~scan.cancelled /\ scan.error
  /\ Persist
  /\ Return(Give("aborted") \cup IF Checked /\ ~up THEN {"paused_network"} ELSE {})
  /\ UNCHANGED <<disk, source, up, history>>

DrainFails ==
  /\ At("drain") /\ queue = {} /\ ~scan.cancelled
  /\ PersistFails /\ Spend
  /\ Return(Give("aborted"))
  /\ UNCHANGED <<disk, source, up>>

-----------------------------------------------------------------------------
(* A resumed scan revisits the groups of its prefix that lack full hashes. *)

Group(p, hash) == {q \in DOMAIN hash : hash[q].quick = hash[p].quick}

\* Mutant of Candidates: only the pending members of a group, not their peers.
CandidatesAlone ==
  LET prefix == {p \in DOMAIN scan.cache : p <= scan.from}
      known == [p \in prefix \cup DOMAIN files |->
                  IF p \in DOMAIN files THEN files[p].hash ELSE scan.cache[p].hash]
      hash == [p \in {q \in DOMAIN known : known[q].quick # None} |-> known[p]]
  IN {p \in DOMAIN hash \ scan.visited :
        p <= scan.from /\ Cardinality(Group(p, hash)) > 1 /\ hash[p].full = None}

(* resumeHashCandidates: all members in the prefix of a group that has two  *)
(* members and one that is pending; what this scan read overrides the rows. *)
Candidates ==
  LET prefix == {p \in DOMAIN scan.cache : p <= scan.from}
      known == [p \in prefix \cup DOMAIN files |->
                  IF p \in DOMAIN files THEN files[p].hash ELSE scan.cache[p].hash]
      hash == [p \in {q \in DOMAIN known : known[q].quick # None} |-> known[p]]
  IN {p \in DOMAIN hash \ scan.visited :
        /\ p <= scan.from /\ Cardinality(Group(p, hash)) > 1
        /\ \E q \in Group(p, hash) : hash[q].full = None}

BeginPass ==
  /\ At("resume") /\ Candidates # {}
  /\ scan' = [scan EXCEPT !.pc = "pass", !.todo = Candidates]
  /\ UNCHANGED <<disk, source, up, rows, checkpoint, files, queue, history>>

NoCandidates ==
  /\ At("resume") /\ Candidates = {}
  /\ Goto("full")
  /\ UNCHANGED <<disk, source, up, rows, checkpoint, files, queue, history>>

(* The candidates are visited in the order of their paths.                  *)
Foremost(p) == p \in scan.todo /\ \A q \in scan.todo : p <= q

\* Mutant of Revisit: the visited candidates are not remembered.
RevisitForgets ==
  /\ At("pass")
  /\ \E p \in scan.todo :
     /\ Foremost(p) /\ VisitFile(p)
     /\ scan' = [scan EXCEPT !.todo = @ \ {p}]
  /\ UNCHANGED <<disk, source, up, rows, checkpoint, history>>

Revisit ==
  /\ At("pass")
  /\ \E p \in scan.todo :
     /\ Foremost(p) /\ VisitFile(p)
     /\ scan' = [scan EXCEPT !.todo = @ \ {p}, !.visited = @ \cup {p}]
  /\ UNCHANGED <<disk, source, up, rows, checkpoint, history>>

(* A candidate is gone, cannot be examined, or the traversal was stopped.   *)
NotRevisited ==
  /\ At("pass")
  /\ \E p \in scan.todo :
     /\ Foremost(p)
     /\ disk[p] = Absent \/ ~up \/ scan.lost \/ scan.cancelled \/ Fault
     /\ history' = IF disk[p] # Absent /\ up /\ ~scan.lost /\ ~scan.cancelled
                   THEN Faulty ELSE history
     /\ \E interruption \in Interruptions :
          scan' = [scan EXCEPT !.missed = TRUE, !.away = @ \/ interruption,
                               !.todo = IF scan.lost \/ scan.cancelled THEN {} ELSE @ \ {p}]
  /\ UNCHANGED <<disk, source, up, rows, checkpoint, files, queue>>

EndPass ==
  /\ At("pass") /\ scan.todo = {} /\ queue = {}
  /\ scan' = [scan EXCEPT !.away = @ \/ scan.lost,
                          !.pc = IF scan.lost \/ scan.away THEN "full" ELSE "resume"]
  /\ scan.lost \/ scan.away \/ ~scan.missed
  /\ UNCHANGED <<disk, source, up, rows, checkpoint, files, queue, history>>

(* A candidate was not validated: the cached hashes are not certified.      *)
PassRejected ==
  /\ At("pass") /\ scan.todo = {} /\ queue = {}
  /\ ~scan.lost /\ ~scan.away /\ scan.missed
  /\ Return(Give("aborted") \cup IF Checked /\ ~up THEN {"paused_network"} ELSE {})
  /\ UNCHANGED <<disk, source, up, rows, history>>

-----------------------------------------------------------------------------
(* Full hashes, reconciliation and end.                                    *)

(* Files that share size and quick hash with another and have no outcome.   *)
Pending ==
  {p \in DOMAIN files :
    /\ files[p].hash.quick # None /\ files[p].hash.full = None /\ ~files[p].failed
    /\ \E q \in DOMAIN files \ {p} : files[q].hash.quick = files[p].hash.quick}

(* The order of the groups is that of a map; the workers end in any order,  *)
(* those under way also after a loss of the network.                        *)
FullHash(p) ==
  /\ At("full") /\ p \in Pending
  /\ \E o \in Reads(p) :
       /\ files' = IF o = "ok" THEN [files EXCEPT ![p].hash.full = disk[p]]
                              ELSE [files EXCEPT ![p].failed = TRUE]
       /\ history' = Spent(o)
       /\ Mind(o)
  /\ UNCHANGED <<disk, source, up, rows, checkpoint, queue>>

FullCancelled ==
  /\ At("full") /\ scan.cancelled
  /\ Return(Give("aborted"))
  /\ UNCHANGED <<disk, source, up, rows, history>>

(* The caller's authority is checked once more before anything is written.  *)
FullRefused ==
  /\ At("full") /\ (scan.lost \/ Pending = {}) /\ ~scan.cancelled
  /\ Checked /\ (scan.denied \/ scan.partial \/ ~up)
  /\ Return(Give("aborted") \cup IF ~up /\ ~scan.denied THEN {"paused_network"} ELSE {})
  /\ UNCHANGED <<disk, source, up, rows, history>>

FullEnds ==
  /\ At("full") /\ (scan.lost \/ Pending = {}) /\ ~scan.cancelled /\ ~scan.denied
  /\ scan' = [scan EXCEPT !.pc = "save", !.away = @ \/ scan.lost]
  /\ UNCHANGED <<disk, source, up, rows, checkpoint, files, queue, history>>

Save ==
  /\ At("save") /\ ~scan.cancelled
  /\ Persist
  /\ Goto("reconcile")
  /\ UNCHANGED <<disk, source, up, checkpoint, files, queue, history>>

SaveFails ==
  /\ At("save")
  /\ PersistFails /\ Spend
  /\ Return(Unchanged)
  /\ UNCHANGED <<disk, source, up>>

\* Mutant of Seen: the prefix that a resumed scan skips counts as unseen.
SeenNow == DOMAIN files

(* Rows that this scan did not see, and that are not of the prefix it       *)
(* skipped, are missing when all was read, and unavailable otherwise.       *)
Seen == DOMAIN files \cup {p \in DOMAIN scan.cache : p <= scan.from}
Complete == ~scan.partial /\ ~scan.away

Reconcile ==
  /\ At("reconcile") /\ ~scan.cancelled
  /\ rows' = [p \in DOMAIN rows |->
       IF p \in Seen THEN rows[p]
       ELSE IF Complete /\ rows[p].status # "missing" THEN [rows[p] EXCEPT !.status = "missing"]
       ELSE IF ~Complete /\ rows[p].status = "active" THEN [rows[p] EXCEPT !.status = "unavailable"]
       ELSE rows[p]]
  /\ Goto("finish")
  /\ UNCHANGED <<disk, source, up, checkpoint, files, queue, history>>

Finish ==
  /\ At("finish") /\ ~scan.cancelled
  /\ Return({IF scan.away THEN "paused_network" ELSE "completed"})
  /\ UNCHANGED <<disk, source, up, rows, history>>

StoreFails ==
  /\ scan.pc \in {"reconcile", "finish"} /\ (Fault \/ scan.cancelled)
  /\ Return(Unchanged) /\ Spend
  /\ UNCHANGED <<disk, source, up, rows>>

-----------------------------------------------------------------------------
(* The environment.                                                        *)

(* The process dies; the checkpoint keeps its status.                       *)
Crash ==
  /\ ~At("idle") /\ Fault
  /\ Return(Unchanged)
  /\ history' = Faulty
  /\ UNCHANGED <<disk, source, up, rows>>

Cancel ==
  /\ ~At("idle") /\ ~scan.cancelled /\ Fault
  /\ scan' = [scan EXCEPT !.cancelled = TRUE]
  /\ history' = Faulty
  /\ UNCHANGED <<disk, source, up, rows, checkpoint, files, queue>>

Drop ==
  /\ source = "network" /\ up /\ Fault
  /\ up' = FALSE
  /\ history' = Faulty
  /\ UNCHANGED <<disk, source, rows, checkpoint, scan, files, queue>>

Reach ==
  /\ ~up
  /\ up' = TRUE
  /\ UNCHANGED <<disk, source, rows, checkpoint, scan, files, queue, history>>

(* Somebody writes, creates or deletes a file. A version of a file is none  *)
(* that its row or a running scan has recorded.                             *)
Recorded(p) == {r[p].meta : r \in {f \in {rows, files, scan.cache} : p \in DOMAIN f}}

Edit(p) ==
  /\ Fault
  /\ \E c \in (Contents \cup {Absent}) \ ({disk[p]} \cup Recorded(p)) :
       /\ disk' = [disk EXCEPT ![p] = c]
       /\ history' = [history EXCEPT !.faults = @ + 1, !.stable = @ \ {p},
                        !.gone = IF c = Absent THEN @ \cup {p} ELSE @]
  /\ UNCHANGED <<source, up, rows, checkpoint, scan, files, queue>>

ScanStep ==
  \/ RootUnavailable \/ RootUnreadable \/ Visit \/ Skip \/ Unreadable \/ WalkStops \/ WalkEnds
  \/ PassBoundary \/ SavePrefix \/ SavePrefixFails \/ PrefixLost
  \/ UpdateCheckpoint \/ UpdateCheckpointFails
  \/ DrainCancelled \/ Drain \/ DrainError \/ DrainFails
  \/ BeginPass \/ NoCandidates \/ Revisit \/ NotRevisited \/ EndPass \/ PassRejected
  \/ FullCancelled \/ FullRefused \/ FullEnds
  \/ Save \/ SaveFails \/ Reconcile \/ Finish \/ StoreFails
  \/ \E p \in Paths : QuickHash(p) \/ FullHash(p)

Modes == {"full", "incremental", "resume"}
Next ==
  \/ \E mode \in Modes : Start(mode)
  \/ ScanStep
  \/ Crash \/ Cancel \/ Drop \/ Reach
  \/ \E p \in Paths : Edit(p)

Spec == Init /\ [][Next]_vars

(* A running scan goes on and its reads return; the network comes back; and *)
(* while no scan runs somebody starts one.                                  *)
FairSpec ==
  /\ Spec
  /\ WF_vars(ScanStep) /\ WF_vars(Reach)
  /\ WF_vars(\E mode \in Modes : Start(mode))

-----------------------------------------------------------------------------
(* Properties.                                                             *)

(* Types of the rows, of the scan and of its list of files; the workers     *)
(* hold files of the list only, never more than there are slots             *)
(* (scan.go Scan, runner.go Submit).                                        *)
TypeOK ==
  /\ disk \in [Paths -> Contents \cup {Absent}] /\ source \in Sources /\ up \in BOOLEAN
  /\ DOMAIN rows \subseteq Paths
  /\ \A p \in DOMAIN rows :
       rows[p] \in [meta : Contents, hash : Hashes, status : {"active", "missing", "unavailable"}]
  /\ checkpoint.status \in {"none", "running", "aborted", "paused_network", "completed"}
  /\ {checkpoint.last, scan.from, scan.last, scan.cursor} \subseteq 0 .. N
  /\ DOMAIN files \subseteq Paths
  /\ \A p \in DOMAIN files : files[p] \in [meta : Contents, hash : Hashes, failed : BOOLEAN]
  /\ queue \subseteq DOMAIN files /\ Cardinality(queue) <= Workers
  /\ At("idle") => scan = Idle /\ files = <<>>

(* A checkpoint stands only behind files whose rows are durable: while a    *)
(* scan can be resumed, every file of its prefix that nobody has touched    *)
(* since it began has a row with the quick hash of its content, or one      *)
(* without a hash because it could not be read (scan.go:376-398, scanner.go *)
(* checkpointBlocked). What resume skips was not lost in a crash.           *)
DurablePrefix ==
  Resumable => \A p \in history.stable :
    p <= checkpoint.last =>
      /\ p \in DOMAIN rows
      /\ \/ rows[p].hash.quick = Quick[disk[p]]
         \/ rows[p].hash.quick = None /\ p \in history.unread

(* No file is declared missing that was there all through the scan, however *)
(* the scan was interrupted, resumed, refused or cut off (scan.go:716-737), *)
(* but for one kind of row: in the prefix that a resumed scan skips, a row  *)
(* that an earlier partial scan left unavailable. ScanPrefix.cfg shows that *)
(* those are declared missing (PrefixNotMissing).                           *)
MissingWasGone ==
  [][\A p \in DOMAIN rows :
       rows[p].status # "missing" /\ rows'[p].status = "missing"
         => \/ p \in history.gone
            \/ rows[p].status = "unavailable" /\ p <= scan.from]_vars

(* When a scan completes, all its duplicate candidates have the full hash   *)
(* of their content or a failure that it reports, also those on both sides  *)
(* of a boundary where it was resumed (scan.go:512-651).                    *)
CompletedIsHashed ==
  [][checkpoint'.status = "completed" /\ checkpoint.status # "completed" =>
       \A p, q \in history.stable \cap DOMAIN rows :
         /\ p # q /\ rows[p].status = "active" /\ rows[q].status = "active"
         /\ rows[p].hash.quick # None /\ rows[p].hash.quick = rows[q].hash.quick
         => \/ rows[p].hash.full = disk[p]
            \/ p \in DOMAIN files /\ files[p].failed]_vars

(* An interrupted scan is completed by the scans that follow, unless a file *)
(* of its prefix has been deleted: then a resume is refused time and again  *)
(* (scan.go:516-561, the passes over the candidates end).                   *)
ScansComplete ==
  Resumable ~> \/ checkpoint.status = "completed"
               \/ \E p \in DOMAIN rows : p <= checkpoint.last /\ disk[p] = Absent

(* scan.go:384: "Do not advance past files whose content was not readable   *)
(* after the network mount disappeared. Resume must revisit them." A file   *)
(* nobody touched has no quick hash when the scan completes only if it was  *)
(* refused by something else than the loss of the network.                  *)
ResumeRevisits ==
  [][checkpoint'.status = "completed" /\ checkpoint.status # "completed" =>
       \A p \in history.stable \cap DOMAIN rows :
         rows[p].status = "active" /\ rows[p].hash.quick = None
           => p \in history.refused]_vars

(* scan.go:717-719: "A resumed scan intentionally skips the already-        *)
(* persisted prefix. Include that durable prefix in reconciliation so a     *)
(* successful resume cannot incorrectly mark its own checkpointed files as  *)
(* missing." Of the files before the checkpoint where a scan resumed none   *)
(* is declared missing that was there since it resumed.                     *)
PrefixNotMissing ==
  [][\A p \in DOMAIN rows :
       p <= scan.from /\ rows[p].status # "missing" /\ rows'[p].status = "missing"
         => p \in history.gone]_vars
=============================================================================
