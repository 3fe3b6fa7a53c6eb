----------------------- MODULE ScanCheckpoint_proofs -----------------------
(***************************************************************************)
(* That a checkpoint only stands behind durable rows, which files alone    *)
(* may be declared missing, and that a scan that completes has hashed its  *)
(* duplicate candidates, for any tree, any contents, any number of workers *)
(* and any sequence of faults.                                             *)
(*                                                                         *)
(* The argument has two halves.  Data holds at any point: records that     *)
(* describe a file as it is carry its hashes, the list of a scan covers    *)
(* the files nobody touched, rows behind the checkpoint stand, and a hash  *)
(* under way never concerns a row that depends on its outcome.  Control    *)
(* says what each program point adds, from the traversal (what it passed   *)
(* it listed, or it was not there) to the end (all active rows were seen). *)
(***************************************************************************)
EXTENDS ScanCheckpoint, FiniteSetTheorems, TLAPS

Statuses == {"none", "running", "aborted", "paused_network", "completed"}
Steps == {"idle", "walk", "boundary", "advance", "drain", "resume", "pass", "full", "save",
          "reconcile", "finish"}

\* Tables of rows and lists of files, by path.
Row == [meta : Contents, hash : Hashes, status : {"active", "missing", "unavailable"}]
File == [meta : Contents, hash : Hashes, failed : BOOLEAN]
Tables == UNION {[S -> Row] : S \in SUBSET Paths}
Lists == UNION {[S -> File] : S \in SUBSET Paths}

Scans == [pc : Steps, from : 0..N, cursor : 0..N, last : 0..N, cache : Tables,
          partial : BOOLEAN, lost : BOOLEAN, away : BOOLEAN, denied : BOOLEAN,
          cancelled : BOOLEAN, error : BOOLEAN, todo : SUBSET Paths, visited : SUBSET Paths,
          missed : BOOLEAN]
Histories == [faults : Nat, stable : SUBSET Paths, gone : SUBSET Paths,
              unread : SUBSET Paths, refused : SUBSET Paths]

Sorts ==
    /\ disk \in [Paths -> Contents \cup {Absent}] /\ source \in Sources /\ up \in BOOLEAN
    /\ rows \in Tables
    /\ checkpoint \in [status : Statuses, last : 0..N]
    /\ scan \in Scans
    /\ files \in Lists
    /\ queue \subseteq DOMAIN files /\ Cardinality(queue) <= Workers
    /\ history \in Histories

-----------------------------------------------------------------------------
(* What is said of the data, at any point of a scan *)

\* A record that describes the file as it is has its hashes or none.
Honest(t) ==
    \A p \in DOMAIN t : t[p].meta = disk[p] =>
        t[p].hash.quick \in {None, Quick[disk[p]]} /\ t[p].hash.full \in {None, disk[p]}

StableStays == \A p \in history.stable : disk[p] # Absent /\ p \notin history.gone

\* What the list says of a file nobody touched: its hash is there, under way
\* or could not be read.
Listed ==
    \A p \in history.stable \cap DOMAIN files :
       /\ files[p].meta = disk[p]
       /\ \/ files[p].hash.quick = Quick[disk[p]]
          \/ files[p].hash.quick = None /\ p \in queue \cup history.unread

RowStands(p) ==
    /\ p \in DOMAIN rows /\ rows[p].meta = disk[p]
    /\ \/ rows[p].hash.quick = Quick[disk[p]]
       \/ rows[p].hash.quick = None /\ p \in history.unread

Durable == \A p \in history.stable : p <= checkpoint.last => RowStands(p)

\* A file under way has no hash in the list, and behind the checkpoint it has
\* one in its row.
Queued ==
    \A p \in queue :
       /\ files[p].hash.quick = None
       /\ p \in history.stable /\ p <= checkpoint.last =>
             p \in DOMAIN rows /\ rows[p].hash.quick = Quick[disk[p]]

\* The rows that a scan found stand until it has files of its own for them.
CacheStands ==
    \A p \in DOMAIN scan.cache \ DOMAIN files :
       /\ p \in DOMAIN rows
       /\ rows[p].hash = scan.cache[p].hash /\ rows[p].meta = scan.cache[p].meta

Revisited ==
    /\ scan.visited \subseteq DOMAIN files
    /\ \A p \in DOMAIN files : p <= scan.from => p \in scan.visited

PrefixKnown ==
    \A p \in DOMAIN rows : rows[p].status = "active" /\ p <= scan.from =>
        p \in DOMAIN scan.cache \cup DOMAIN files

Data ==
    /\ Honest(rows) /\ Honest(files) /\ Honest(scan.cache)
    /\ StableStays /\ Listed /\ Durable /\ Queued /\ CacheStands /\ Revisited /\ PrefixKnown

-----------------------------------------------------------------------------
(* What is said at the points of a scan *)

After == {"resume", "pass", "full", "save", "reconcile", "finish"}

Places ==
    scan.pc # "idle" =>
       /\ scan.from <= checkpoint.last /\ checkpoint.last <= scan.cursor
       /\ scan.last <= scan.cursor /\ \A p \in DOMAIN files : p <= scan.cursor

Rests == scan.pc = "idle" => scan = Idle /\ files = <<>>

Settled == scan.pc \in {"advance"} \cup (After \ {"pass"}) => queue = {}

\* Between the rows and the checkpoint.
Advancing ==
    scan.pc = "advance" =>
       /\ scan.last > checkpoint.last
       /\ \A p \in history.stable : p <= scan.last => RowStands(p)

Todo ==
    \A p \in scan.todo :
       /\ p \in DOMAIN scan.cache \ DOMAIN files /\ p <= scan.from
       /\ scan.cache[p].hash.quick # None

\* What the traversal has passed it has listed, or it was not there.
Walked ==
    scan.pc # "idle" /\ ~scan.partial =>
       \A p \in Paths : scan.from < p /\ p <= scan.cursor => p \in DOMAIN files \cup history.gone

Ended ==
    /\ scan.pc = "drain" =>
          scan.cursor = N \/ scan.partial \/ scan.lost \/ scan.cancelled \/ scan.error
    /\ scan.pc \in After => scan.cursor = N \/ scan.partial \/ scan.away \/ scan.cancelled

\* The hash that the scan knows of a file.
HashOf(p) == IF p \in DOMAIN files THEN files[p].hash ELSE scan.cache[p].hash
Prefix == {p \in DOMAIN scan.cache : p <= scan.from}

\* Whatever shares its quick hash with a file of the prefix that was not
\* visited again has its full hash, and so has that file.
Completed ==
    scan.pc \in {"full", "save", "reconcile", "finish"} /\ ~scan.away =>
       \A p \in Prefix \ DOMAIN files, q \in Prefix \cup DOMAIN files :
          p # q /\ HashOf(p).quick # None /\ HashOf(p).quick = HashOf(q).quick =>
             HashOf(p).full # None /\ HashOf(q).full # None

Hashed == scan.pc \in {"save", "reconcile", "finish"} /\ ~scan.away => Pending = {}

Saved ==
    scan.pc \in {"reconcile", "finish"} =>
       \A p \in DOMAIN files : p \in DOMAIN rows /\ rows[p].hash = files[p].hash

Reconciled ==
    scan.pc = "finish" => \A p \in DOMAIN rows : rows[p].status = "active" => p \in Seen

Control ==
    /\ Places /\ Rests /\ Settled /\ Advancing /\ Todo /\ Walked /\ Ended
    /\ Completed /\ Hashed /\ Saved /\ Reconciled

CInv == Sorts /\ Data /\ Control

-----------------------------------------------------------------------------
(* Tables, lists and records *)

\* What a table of rows consists of.
LEMMA TableMember ==
    ASSUME NEW t \in Tables
    PROVE  DOMAIN t \subseteq Paths /\ \A p \in DOMAIN t : t[p] \in Row
<1>1. PICK S \in SUBSET Paths : t \in [S -> Row]
  BY DEF Tables
<1> QED BY <1>1

\* What a list of files consists of.
LEMMA ListMember ==
    ASSUME NEW t \in Lists
    PROVE  DOMAIN t \subseteq Paths /\ \A p \in DOMAIN t : t[p] \in File
<1>1. PICK S \in SUBSET Paths : t \in [S -> File]
  BY DEF Lists
<1> QED BY <1>1

\* A family of rows indexed by paths is a table.
LEMMA TableSet ==
    ASSUME NEW S, S \subseteq Paths, NEW t, t = [p \in S |-> t[p]], \A p \in S : t[p] \in Row
    PROVE  t \in Tables
<1>1. t \in [S -> Row] /\ [S -> Row] \in {[T -> Row] : T \in SUBSET Paths}
  OBVIOUS
<1> QED BY <1>1 DEF Tables

\* A family of files indexed by paths is a list.
LEMMA ListSet ==
    ASSUME NEW S, S \subseteq Paths, NEW t, t = [p \in S |-> t[p]], \A p \in S : t[p] \in File
    PROVE  t \in Lists
<1>1. t \in [S -> File] /\ [S -> File] \in {[T -> File] : T \in SUBSET Paths}
  OBVIOUS
<1> QED BY <1>1 DEF Lists

\* The empty table is the empty list.
LEMMA EmptyTable == << >> \in Tables /\ << >> \in Lists /\ DOMAIN << >> = {}
<1>1. DOMAIN << >> = {} /\ << >> = [x \in {} |-> << >>[x]]
  OBVIOUS
<1> QED BY <1>1, TableSet, ListSet

\* Paths are numbered in the order of the walk.
LEMMA PathNumbers ==
    /\ Paths \subseteq Nat /\ IsFiniteSet(Paths) /\ 0 \in 0..N /\ N \in Paths /\ Paths \subseteq 0..N
    /\ \A p \in Paths : 1 <= p /\ p <= N
<1>1. N \in Nat \ {0}
  BY ConstantsAssumption
<1> QED BY <1>1, FS_Interval DEF Paths

\* The record of a scan that does not run.
LEMMA IdleScan ==
    /\ Idle \in Scans /\ Idle.pc = "idle" /\ Idle.from = 0 /\ Idle.cache = << >> /\ Idle.todo = {}
    /\ Idle.visited = {}
BY EmptyTable, PathNumbers DEF Idle, Scans, Steps

\* What a step that may use up a fault leaves of the history.
LEMMA HistoryKept ==
    ASSUME Sorts, history' \in {history, Faulty}
    PROVE  /\ history' \in Histories
           /\ history'.stable = history.stable /\ history'.gone = history.gone
           /\ history'.unread = history.unread
BY DEF Sorts, Histories, Faulty

\* Queue, list, table and cache are about paths, and the queue is finite.
LEMMA QueuePaths ==
    ASSUME Sorts
    PROVE  queue \subseteq Paths /\ DOMAIN files \subseteq Paths /\ DOMAIN rows \subseteq Paths
           /\ DOMAIN scan.cache \subseteq Paths /\ IsFiniteSet(queue)
<1>1. DOMAIN files \subseteq Paths /\ DOMAIN rows \subseteq Paths
  BY ListMember, TableMember DEF Sorts
<1>2. DOMAIN scan.cache \subseteq Paths
  <2>1. scan.cache \in Tables
    BY DEF Sorts, Scans
  <2> QED BY <2>1, TableMember
<1>3. queue \subseteq Paths
  BY <1>1 DEF Sorts
<1> QED BY <1>1, <1>2, <1>3, PathNumbers, FS_Subset

-----------------------------------------------------------------------------
(* What the kinds of steps preserve *)

\* Saving writes the listed files and keeps the other rows and every status.
LEMMA Persisted ==
    ASSUME Sorts, Persist
    PROVE  /\ rows' \in Tables
           /\ DOMAIN rows' = DOMAIN rows \cup DOMAIN files
           /\ \A p \in DOMAIN files :
                 /\ rows'[p].meta = files[p].meta /\ rows'[p].hash = files[p].hash
                 /\ rows'[p].status = IF p \in DOMAIN rows THEN rows[p].status ELSE "active"
           /\ \A p \in DOMAIN rows \ DOMAIN files : rows'[p] = rows[p]
<1> DEFINE S == DOMAIN rows \cup DOMAIN files
<1>1. rows' = [p \in S |->
            IF p \notin DOMAIN files THEN rows[p]
            ELSE [meta |-> files[p].meta, hash |-> files[p].hash,
                  status |-> IF p \in DOMAIN rows THEN rows[p].status ELSE "active"]]
  BY DEF Persist, Upsert
<1>2. S \subseteq Paths
  BY QueuePaths
<1>3. /\ \A p \in DOMAIN rows : rows[p] \in Row
      /\ \A p \in DOMAIN files : files[p] \in File
  BY ListMember, TableMember DEF Sorts
<1>4. ASSUME NEW p \in S PROVE rows'[p] \in Row
  <2>1. CASE p \in DOMAIN files
    <3>1. rows'[p] = [meta |-> files[p].meta, hash |-> files[p].hash,
                  status |-> IF p \in DOMAIN rows THEN rows[p].status ELSE "active"]
      BY <1>1, <2>1
    <3> QED BY <1>3, <2>1, <3>1 DEF Row, File
  <2>2. CASE p \notin DOMAIN files
    BY <1>1, <1>3, <2>2
  <2> QED BY <2>1, <2>2
<1>5. rows' = [p \in S |-> rows'[p]]
  BY <1>1
<1>6. rows' \in Tables
  <2>1. PICK t : t = rows'
    OBVIOUS
  <2> HIDE DEF S
  <2>2. t \in Tables
    BY <1>2, <1>4, <1>5, <2>1, TableSet
  <2> QED BY <2>1, <2>2
<1> QED BY <1>1, <1>6

\* Rows as they were, or the list written when no hash is under way.
Writes == (Persist /\ queue = {}) \/ rows' = rows

\* Saved rows are honest, and durable up to the checkpoint.
LEMMA WrittenRows ==
    ASSUME CInv, Writes, disk' = disk, history' \in {history, Faulty},
           checkpoint'.last = checkpoint.last
    PROVE  /\ rows' \in Tables /\ Honest(rows)' /\ Durable'
           /\ \A p \in history.stable : RowStands(p) \/ (p \in DOMAIN files /\ queue = {} /\ Persist)
                                          => RowStands(p)'
<1>1. Sorts /\ Data
  BY DEF CInv
<1>2. /\ history'.stable = history.stable /\ history'.unread = history.unread
  BY <1>1, HistoryKept
<1>3. CASE rows' = rows /\ ~(Persist /\ queue = {})
  <2>1. \A p : RowStands(p) => RowStands(p)'
    BY <1>2, <1>3 DEF RowStands
  <2> QED BY <1>1, <1>2, <1>3, <2>1 DEF Sorts, Data, Honest, Durable
<1>4. CASE Persist /\ queue = {}
  <2>1. /\ rows' \in Tables
        /\ DOMAIN rows' = DOMAIN rows \cup DOMAIN files
        /\ \A p \in DOMAIN files : rows'[p].meta = files[p].meta /\ rows'[p].hash = files[p].hash
        /\ \A p \in DOMAIN rows \ DOMAIN files : rows'[p] = rows[p]
    BY <1>1, <1>4, Persisted
  <2>2. Honest(rows)'
    BY <1>1, <2>1 DEF Data, Honest
  <2>3. ASSUME NEW p \in history.stable, RowStands(p) \/ p \in DOMAIN files
        PROVE  RowStands(p)'
    <3>1. CASE p \in DOMAIN files
      <4>1. rows'[p].hash = files[p].hash /\ rows'[p].meta = files[p].meta /\ p \in DOMAIN rows'
        BY <2>1, <3>1
      <4>2. /\ files[p].meta = disk[p]
            /\ \/ files[p].hash.quick = Quick[disk[p]]
               \/ files[p].hash.quick = None /\ p \in history.unread
        BY <1>1, <1>4, <3>1 DEF Data, Listed
      <4> QED BY <1>2, <4>1, <4>2 DEF RowStands
    <3>2. CASE p \notin DOMAIN files
      BY <1>2, <2>1, <2>3, <3>2 DEF RowStands
    <3> QED BY <3>1, <3>2
  <2>4. Durable'
    BY <1>1, <1>2, <2>3 DEF Data, Durable
  <2> QED BY <2>1, <2>2, <2>3, <2>4
<1> QED BY <1>3, <1>4 DEF Writes

\* The scan goes on to another point with its list and its queue.
LEMMA DataKept ==
    ASSUME CInv, Writes, UNCHANGED <<disk, source, files, queue>>, up' \in BOOLEAN,
           history' \in {history, Faulty}, checkpoint' = checkpoint, scan' \in Scans,
           scan'.from = scan.from, scan'.cache = scan.cache, scan'.visited = scan.visited
    PROVE  Sorts' /\ Data'
<1>1. Sorts /\ Data
  BY DEF CInv
<1>2. /\ rows' \in Tables /\ Honest(rows)' /\ Durable'
  BY WrittenRows
<1>3. /\ history' \in Histories /\ history'.stable = history.stable
      /\ history'.gone = history.gone /\ history'.unread = history.unread
  BY <1>1, HistoryKept
<1>4. Sorts'
  BY <1>1, <1>2, <1>3 DEF Sorts
<1>5. Honest(files)' /\ Honest(scan.cache)' /\ StableStays' /\ Listed' /\ Revisited'
  BY <1>1, <1>3 DEF Data, Honest, StableStays, Listed, Revisited
<1>6. Queued' /\ CacheStands' /\ PrefixKnown'
  <2>1. CASE rows' = rows
    BY <1>1, <1>3, <2>1 DEF Data, Queued, CacheStands, PrefixKnown
  <2>2. CASE Persist /\ queue = {}
    <3>1. /\ DOMAIN rows' = DOMAIN rows \cup DOMAIN files
          /\ \A p \in DOMAIN rows \ DOMAIN files : rows'[p] = rows[p]
      BY <1>1, <2>2, Persisted
    <3>2. Queued'
      BY <2>2 DEF Queued
    <3>3. CacheStands'
      BY <1>1, <3>1 DEF Data, CacheStands
    <3>4. PrefixKnown'
      BY <1>1, <3>1 DEF Data, PrefixKnown
    <3> QED BY <3>2, <3>3, <3>4
  <2> QED BY <2>1, <2>2 DEF Writes
<1> QED BY <1>2, <1>4, <1>5, <1>6 DEF Data

\* The scan ends: its list and queue are gone, the checkpoint keeps its place.
LEMMA ReturnStep ==
    ASSUME CInv, Writes, UNCHANGED <<disk, source>>, up' \in BOOLEAN,
           history' \in {history, Faulty},
           NEW S, S \subseteq Statuses, Return(S)
    PROVE  CInv'
<1>1. Sorts /\ Data
  BY DEF CInv
<1>2. PICK s \in S : checkpoint' = [checkpoint EXCEPT !.status = s]
  BY DEF Return
<1>3. checkpoint'.last = checkpoint.last /\ checkpoint' \in [status : Statuses, last : 0..N]
  BY <1>1, <1>2 DEF Sorts
<1>4. /\ scan' = Idle /\ files' = << >> /\ queue' = {}
  BY DEF Return
<1>5. /\ scan' \in Scans /\ scan'.pc = "idle" /\ scan'.from = 0 /\ scan'.cache = << >>
      /\ scan'.todo = {} /\ scan'.visited = {}
  BY <1>4, IdleScan
<1>6. /\ rows' \in Tables /\ Honest(rows)' /\ Durable'
  BY <1>3, WrittenRows
<1>7. /\ history' \in Histories /\ history'.stable = history.stable
      /\ history'.gone = history.gone /\ history'.unread = history.unread
  BY <1>1, HistoryKept
<1>8. DOMAIN files' = {} /\ files' \in Lists /\ DOMAIN scan'.cache = {}
  BY <1>4, <1>5, EmptyTable
<1>9. Sorts'
  <2>1. Cardinality(queue') <= Workers
    BY <1>4, FS_EmptySet, ConstantsAssumption
  <2> QED BY <1>1, <1>3, <1>4, <1>5, <1>6, <1>7, <1>8, <2>1 DEF Sorts
<1>10. Data'
  <2>1. Honest(files)' /\ Honest(scan.cache)'
    BY <1>8 DEF Honest
  <2>2. StableStays'
    BY <1>1, <1>7 DEF Data, StableStays
  <2>3. Listed' /\ Queued' /\ CacheStands' /\ Revisited'
    BY <1>4, <1>5, <1>8 DEF Listed, Queued, CacheStands, Revisited
  <2>4. PrefixKnown'
    <3>1. DOMAIN rows' \subseteq Paths
      BY <1>6, TableMember
    <3> QED BY <1>5, <3>1, PathNumbers DEF PrefixKnown
  <2> QED BY <1>6, <2>1, <2>2, <2>3, <2>4 DEF Data
<1>11. Control'
  BY <1>4, <1>5 DEF Control, Places, Rests, Settled, Advancing, Todo, Walked, Ended, Completed,
     Hashed, Saved, Reconciled, After
<1> QED BY <1>9, <1>10, <1>11 DEF CInv

\* Data and list stay: what the points of the traversal need.
LEMMA TraversalControl ==
    ASSUME scan'.pc \in {"walk", "boundary", "drain"}, Places', Todo', Walked',
           scan'.pc = "drain" => scan'.cursor = N \/ scan'.partial \/ scan'.lost
                                 \/ scan'.cancelled \/ scan'.error
    PROVE  Control'
<1>1. Rests' /\ Settled' /\ Advancing' /\ Completed' /\ Hashed' /\ Saved' /\ Reconciled'
  BY DEF Rests, Settled, Advancing, Completed, Hashed, Saved, Reconciled, After
<1>2. Ended'
  BY DEF Ended, After
<1> QED BY <1>1, <1>2 DEF Control

\* A failure that is no cancellation marks the history as faulty.
LEMMA SpendKeeps == ASSUME Spend PROVE history' \in {history, Faulty}
BY DEF Spend

\* What a scan that returns may leave as its status.
LEMMA StatusSets ==
    ASSUME Sorts
    PROVE  /\ Give("aborted") \subseteq Statuses
           /\ Give("aborted") \cup {"paused_network"} \subseteq Statuses
           /\ Unchanged \subseteq Statuses
BY DEF Sorts, Give, Unchanged, Statuses

\* Every way a scan returns leaves rows and checkpoint as they were saved.
LEMMA ReturningSteps ==
    ASSUME CInv,
           DrainCancelled \/ DrainError \/ DrainFails \/ PassRejected \/ FullCancelled
           \/ FullRefused \/ SaveFails \/ Finish \/ StoreFails \/ Crash
    PROVE  CInv'
<1>1. Sorts /\ Control /\ up \in BOOLEAN
  BY DEF CInv, Sorts
<1>2. UNCHANGED <<disk, source>> /\ up' \in BOOLEAN
  BY <1>1 DEF DrainCancelled, DrainError, DrainFails, PassRejected, FullCancelled, FullRefused,
     SaveFails, Finish, StoreFails, Crash
<1>3. history' \in {history, Faulty}
  BY SpendKeeps DEF DrainCancelled, DrainError, DrainFails, PassRejected, FullCancelled, FullRefused,
     SaveFails, Finish, StoreFails, Crash
<1>4. Writes
  BY <1>1 DEF DrainCancelled, DrainError, DrainFails, PassRejected, FullCancelled, FullRefused,
     SaveFails, Finish, StoreFails, Crash, Writes, PersistFails, Control, Settled, At, After
<1>5. \E S : S \subseteq Statuses /\ Return(S)
  <2>1. \/ Return(Give("aborted")) \/ Return(Unchanged)
        \/ Return(Give("aborted") \cup IF Checked /\ ~up THEN {"paused_network"} ELSE {})
        \/ Return(Give("aborted") \cup IF ~up /\ ~scan.denied THEN {"paused_network"} ELSE {})
        \/ Return({IF scan.away THEN "paused_network" ELSE "completed"})
    BY DEF DrainCancelled, DrainError, DrainFails, PassRejected, FullCancelled, FullRefused,
       SaveFails, Finish, StoreFails, Crash
  <2>2. /\ Give("aborted") \subseteq Statuses /\ Unchanged \subseteq Statuses
        /\ Give("aborted") \cup (IF Checked /\ ~up THEN {"paused_network"} ELSE {}) \subseteq Statuses
        /\ Give("aborted") \cup (IF ~up /\ ~scan.denied THEN {"paused_network"} ELSE {}) \subseteq Statuses
        /\ {IF scan.away THEN "paused_network" ELSE "completed"} \subseteq Statuses
    BY <1>1, StatusSets DEF Statuses
  <2> QED BY <2>1, <2>2
<1> QED BY <1>2, <1>3, <1>4, <1>5, ReturnStep

-----------------------------------------------------------------------------
(* Steps of the traversal *)

\* What Control and Places say while the traversal goes on.
LEMMA Traversing ==
    ASSUME CInv, scan.pc \in {"walk", "boundary", "advance"}
    PROVE  /\ scan.from <= checkpoint.last /\ checkpoint.last <= scan.cursor
           /\ scan.last <= scan.cursor /\ Todo /\ \A p \in DOMAIN files : p <= scan.cursor
           /\ {scan.from, scan.cursor, scan.last, checkpoint.last} \subseteq 0..N
           /\ ~scan.partial => \A p \in Paths : scan.from < p /\ p <= scan.cursor
                                                   => p \in DOMAIN files \cup history.gone
BY DEF CInv, Sorts, Scans, Control, Places, Walked

\* The scan leaves its traversal, or only its point changes.
LEMMA PointChanges ==
    ASSUME CInv, scan.pc \in {"walk", "boundary", "advance"},
           NEW pc \in {"walk", "boundary", "drain"}, Goto(pc), Writes,
           UNCHANGED <<disk, source, up, checkpoint, files, queue>>, history' \in {history, Faulty},
           pc = "drain" => scan.cursor = N \/ scan.partial \/ scan.lost \/ scan.cancelled
    PROVE  CInv'
<1>1. scan \in Scans /\ up \in BOOLEAN /\ Sorts
  BY DEF CInv, Sorts
<1>2. /\ scan' \in Scans /\ scan'.pc = pc /\ scan'.from = scan.from /\ scan'.cache = scan.cache
      /\ scan'.visited = scan.visited /\ scan'.todo = scan.todo /\ scan'.cursor = scan.cursor
      /\ scan'.last = scan.last /\ scan'.partial = scan.partial /\ scan'.lost = scan.lost
      /\ scan'.cancelled = scan.cancelled /\ scan'.error = scan.error
  BY <1>1 DEF Goto, Scans, Steps
<1>3. Sorts' /\ Data'
  BY <1>1, <1>2, DataKept
<1>4. Places' /\ Todo' /\ Walked'
  BY <1>1, <1>2, Traversing, HistoryKept DEF Places, Todo, Walked
<1>5. Control'
  BY <1>2, <1>4, TraversalControl
<1> QED BY <1>3, <1>5 DEF CInv

\* Steps that only go to another point keep the invariant.
LEMMA PointSteps ==
    ASSUME CInv, WalkStops \/ WalkEnds \/ PassBoundary \/ PrefixLost
    PROVE  CInv'
<1> USE DEF At, Writes
<1>1. CASE WalkStops
  BY <1>1, PointChanges DEF WalkStops
<1>2. CASE WalkEnds
  BY <1>2, PointChanges DEF WalkEnds
<1>3. CASE PassBoundary
  BY <1>3, PointChanges DEF PassBoundary
<1>4. CASE PrefixLost
  BY <1>4, PointChanges DEF PrefixLost
<1> QED BY <1>1, <1>2, <1>3, <1>4

\* The traversal ends with an error or without its root.
LEMMA TraversalFails ==
    ASSUME CInv, RootUnavailable \/ RootUnreadable \/ SavePrefixFails \/ UpdateCheckpointFails
    PROVE  CInv'
<1>1. scan \in Scans /\ up \in BOOLEAN /\ Sorts
  BY DEF CInv, Sorts
<1>2. /\ scan' \in Scans /\ scan'.pc = "drain" /\ scan'.from = scan.from /\ scan'.cache = scan.cache
      /\ scan'.visited = scan.visited /\ scan'.todo = scan.todo /\ scan'.cursor = scan.cursor
      /\ scan'.last = scan.last /\ (scan'.partial = scan.partial \/ scan'.partial)
      /\ (scan'.partial \/ scan'.error)
      /\ scan.pc \in {"walk", "boundary", "advance"}
  BY <1>1 DEF RootUnavailable, RootUnreadable, SavePrefixFails, UpdateCheckpointFails, Scans, Steps, At
<1>3. /\ UNCHANGED <<disk, source, up, checkpoint, files, queue>> /\ history' \in {history, Faulty}
  BY SpendKeeps DEF RootUnavailable, RootUnreadable, SavePrefixFails, UpdateCheckpointFails
<1>4. Writes
  BY DEF RootUnavailable, RootUnreadable, SavePrefixFails, UpdateCheckpointFails, PersistFails, Writes
<1>5. Sorts' /\ Data'
  BY <1>1, <1>2, <1>3, <1>4, DataKept
<1>6. Places' /\ Todo' /\ Walked'
  BY <1>1, <1>2, <1>3, Traversing, HistoryKept DEF Places, Todo, Walked
<1>7. Control'
  BY <1>2, <1>6, TraversalControl
<1> QED BY <1>5, <1>7 DEF CInv

\* Passing an entry moves the cursor of the walk and nothing else.
LEMMA PassedScan ==
    ASSUME Sorts, scan.pc = "walk", Here \in Paths, NEW s, s = Passed(scan)
    PROVE  /\ s \in Scans /\ s.cursor = Here /\ s.pc \in {"walk", "boundary"}
           /\ s.from = scan.from /\ s.cache = scan.cache /\ s.visited = scan.visited
           /\ s.todo = scan.todo /\ s.last = scan.last /\ s.partial = scan.partial
<1>1. Here \in 0..N /\ scan \in Scans
  BY PathNumbers DEF Sorts
<1> QED BY <1>1 DEF Passed, Scans, Steps

\* The traversal passes a path without a file of its own for it.
LEMMA PassStep ==
    ASSUME CInv, scan.pc = "walk", Here \in Paths,
           UNCHANGED <<disk, source, up, rows, checkpoint, files, queue>>,
           history' \in {history, Faulty},
           \E away \in BOOLEAN :
              \/ scan' = Passed(scan) /\ Here \in history.gone
              \/ scan' = [Passed(scan) EXCEPT !.partial = TRUE, !.away = @ \/ away]
    PROVE  CInv'
<1>1. Sorts /\ up \in BOOLEAN
  BY DEF CInv, Sorts
<1>2. /\ scan' \in Scans /\ scan'.cursor = Here /\ scan'.pc \in {"walk", "boundary"}
      /\ scan'.from = scan.from /\ scan'.cache = scan.cache /\ scan'.visited = scan.visited
      /\ scan'.todo = scan.todo /\ scan'.last = scan.last
      /\ scan'.partial \/ (scan'.partial = scan.partial /\ Here \in history.gone)
  <2>1. PICK s : s = Passed(scan)
    OBVIOUS
  <2>2. /\ s \in Scans /\ s.cursor = Here /\ s.pc \in {"walk", "boundary"}
        /\ s.from = scan.from /\ s.cache = scan.cache /\ s.visited = scan.visited
        /\ s.todo = scan.todo /\ s.last = scan.last /\ s.partial = scan.partial
    BY <1>1, <2>1, PassedScan
  <2>3. CASE scan' = s /\ Here \in history.gone
    BY <2>2, <2>3
  <2>4. CASE \E away \in BOOLEAN : scan' = [s EXCEPT !.partial = TRUE, !.away = @ \/ away]
    BY <2>2, <2>4 DEF Scans
  <2> QED BY <2>1, <2>3, <2>4
<1>3. Sorts' /\ Data'
  BY <1>1, <1>2, DataKept DEF Writes
<1>4. Here = scan.cursor + 1
  BY DEF Here
<1>5. Places' /\ Todo'
  <2>1. \A q \in DOMAIN files : q \in Nat /\ q <= scan.cursor
    BY <1>1, Traversing, QueuePaths, PathNumbers
  <2>2. \A q \in DOMAIN files : q <= Here
    BY <1>4, <2>1, Traversing
  <2> QED BY <1>2, <1>4, <2>2, Traversing DEF Places, Todo
<1>6. Walked'
  <2> SUFFICES ASSUME ~scan'.partial, NEW p \in Paths, scan.from < p, p <= Here
               PROVE  p \in DOMAIN files \cup history'.gone
    BY <1>2 DEF Walked
  <2>1. p <= scan.cursor \/ p = Here
    BY <1>4, PathNumbers, Traversing
  <2> QED BY <1>1, <1>2, <2>1, Traversing, HistoryKept
<1>7. Control'
  BY <1>2, <1>5, <1>6, TraversalControl
<1> QED BY <1>3, <1>7 DEF CInv

\* A file that has gone is passed over.
LEMMA SkipStep ==
    ASSUME CInv, Skip
    PROVE  CInv'
<1>1. Here \in Paths
  BY DEF CInv, Sorts, Histories, Skip
<1> QED BY <1>1, PassStep DEF Skip, At

\* An entry that cannot be read is passed over and makes the scan partial.
LEMMA UnreadableStep ==
    ASSUME CInv, Unreadable
    PROVE  CInv'
<1>1. PICK away \in BOOLEAN : scan' = [Passed(scan) EXCEPT !.partial = TRUE, !.away = @ \/ away]
  BY DEF Unreadable, Interruptions
<1> QED BY <1>1, PassStep DEF Unreadable, At

\* The prefix is saved before the checkpoint moves.
LEMMA SavePrefixStep ==
    ASSUME CInv, SavePrefix
    PROVE  CInv'
<1>1. scan \in Scans /\ up \in BOOLEAN /\ Sorts /\ Data
  BY DEF CInv, Sorts
<1>2. /\ scan' \in Scans /\ scan'.pc = "advance" /\ scan'.from = scan.from /\ scan'.cache = scan.cache
      /\ scan'.visited = scan.visited /\ scan'.todo = scan.todo /\ scan'.cursor = scan.cursor
      /\ scan'.last = scan.last /\ scan'.partial = scan.partial
      /\ scan.pc = "boundary"
  BY <1>1 DEF SavePrefix, Goto, Scans, Steps, At
<1>3. /\ Persist /\ queue = {} /\ UNCHANGED <<disk, source, up, checkpoint, files, queue, history>>
      /\ scan.last > checkpoint.last /\ ~scan.partial
  BY DEF SavePrefix, Advances
<1>4. Sorts' /\ Data'
  BY <1>1, <1>2, <1>3, DataKept DEF Writes
<1>5. Places' /\ Todo' /\ Walked'
  BY <1>2, <1>3, Traversing DEF Places, Todo, Walked
<1>6. Advancing'
  <2>1. ASSUME NEW p \in history.stable, p <= scan.last
        PROVE  RowStands(p)'
    <3>1. p \in Paths
      BY <1>1 DEF Sorts, Histories
    <3>2. CASE p <= scan.from
      <4>1. RowStands(p)
        BY <1>1, <1>2, <3>1, <3>2, PathNumbers, Traversing DEF Data, Durable
      <4> QED BY <1>3, <4>1, WrittenRows DEF Writes
    <3>3. CASE ~(p <= scan.from)
      <4>1. p \in DOMAIN files
        BY <1>1, <1>2, <1>3, <2>1, <3>1, <3>3, PathNumbers, Traversing DEF Data, StableStays
      <4> QED BY <1>3, <4>1, WrittenRows DEF Writes
    <3> QED BY <3>2, <3>3
  <2> QED BY <1>2, <1>3, <2>1 DEF Advancing
<1>7. Control'
  BY <1>2, <1>3, <1>5, <1>6 DEF Control, Rests, Settled, Ended, Completed, Hashed, Saved, Reconciled, After
<1> QED BY <1>4, <1>7 DEF CInv

\* The checkpoint moves over files whose rows are saved.
LEMMA UpdateCheckpointStep ==
    ASSUME CInv, UpdateCheckpoint
    PROVE  CInv'
<1>1. scan \in Scans /\ up \in BOOLEAN /\ Sorts /\ Data
  BY DEF CInv, Sorts
<1>2. /\ scan' \in Scans /\ scan'.pc = "walk" /\ scan'.from = scan.from /\ scan'.cache = scan.cache
      /\ scan'.visited = scan.visited /\ scan'.todo = scan.todo /\ scan'.cursor = scan.cursor
      /\ scan'.last = scan.last /\ scan'.partial = scan.partial
      /\ scan.pc = "advance"
  BY <1>1 DEF UpdateCheckpoint, Goto, Scans, Steps, At
<1>3. UNCHANGED <<disk, source, up, rows, files, queue, history>>
  BY DEF UpdateCheckpoint
<1>4. checkpoint' \in [status : Statuses, last : 0..N] /\ checkpoint'.last = scan.last
  <2>1. scan.last \in 0..N /\ checkpoint \in [status : Statuses, last : 0..N]
    BY <1>1 DEF Scans, Sorts
  <2> QED BY <2>1 DEF UpdateCheckpoint
<1>5. /\ queue = {} /\ scan.last > checkpoint.last
      /\ \A p \in history.stable : p <= scan.last => RowStands(p)
  BY <1>2 DEF CInv, Control, Settled, Advancing
<1>6. Sorts'
  BY <1>1, <1>2, <1>3, <1>4 DEF Sorts
<1>7. Durable'
  <2>1. \A p : RowStands(p) <=> RowStands(p)'
    BY <1>3 DEF RowStands
  <2> QED BY <1>3, <1>4, <1>5, <2>1 DEF Durable
<1>8. /\ Honest(rows)' /\ Honest(files)' /\ Honest(scan.cache)' /\ StableStays' /\ Listed'
      /\ CacheStands' /\ Revisited' /\ PrefixKnown'
  BY <1>1, <1>2, <1>3 DEF Data, Honest, StableStays, Listed, CacheStands, Revisited, PrefixKnown
<1>9. Queued'
  BY <1>3, <1>5 DEF Queued
<1>10. Places' /\ Todo' /\ Walked'
  BY <1>2, <1>3, <1>4, <1>5, Traversing DEF Places, Todo, Walked
<1>11. Control'
  BY <1>2, <1>10, TraversalControl
<1> QED BY <1>6, <1>7, <1>8, <1>9, <1>11 DEF CInv, Data

-----------------------------------------------------------------------------
(* Steps of the hash workers and of the list *)

\* A file without hashes.
LEMMA NoHashKnown == NoHash \in Hashes /\ NoHash.quick = None /\ NoHash.full = None
BY DEF NoHash, Hashes

\* A visited file is listed with the hash that is still valid, or queued for one.
LEMMA VisitFileFacts ==
    ASSUME Sorts, NEW p \in Paths, p \notin DOMAIN files, VisitFile(p)
    PROVE  /\ disk[p] # Absent /\ files' \in Lists /\ DOMAIN files' = DOMAIN files \cup {p}
           /\ \A q \in DOMAIN files : files'[q] = files[q]
           /\ files'[p].meta = disk[p] /\ files'[p].failed = FALSE
           /\ queue' \subseteq DOMAIN files' /\ Cardinality(queue') <= Workers
           /\ \/ queue' = queue \cup {p} /\ files'[p].hash = NoHash
              \/ /\ queue' = queue /\ p \in DOMAIN scan.cache
                 /\ scan.cache[p].meta = disk[p] /\ scan.cache[p].hash.quick # None
                 /\ files'[p].hash = scan.cache[p].hash
<1>1. PICK hash : /\ List(p, [meta |-> disk[p], hash |-> hash, failed |-> FALSE])
                  /\ \/ /\ queue' = queue \cup {p} /\ hash = NoHash /\ Cardinality(queue) < Workers
                     \/ /\ queue' = queue /\ p \in DOMAIN scan.cache
                        /\ scan.cache[p].meta = disk[p] /\ scan.cache[p].hash.quick # None
                        /\ hash = scan.cache[p].hash
  BY DEF VisitFile, canReuseCachedHash, LooksCached
<1>2. disk[p] # Absent /\ disk[p] \in Contents
  BY DEF VisitFile, Sorts
<1>3. hash \in Hashes
  <2>1. scan.cache \in Tables
    BY DEF Sorts, Scans
  <2>2. \A q \in DOMAIN scan.cache : scan.cache[q].hash \in Hashes
    BY <2>1, TableMember DEF Row
  <2> QED BY <1>1, <2>2, NoHashKnown
<1> DEFINE file == [meta |-> disk[p], hash |-> hash, failed |-> FALSE]
           S == DOMAIN files \cup {p}
<1>4. file \in File
  BY <1>2, <1>3 DEF File
<1>5. files' = [q \in S |-> IF q = p THEN file ELSE files[q]]
  BY <1>1 DEF List
<1>6. S \subseteq Paths /\ \A q \in DOMAIN files : files[q] \in File
  BY ListMember DEF Sorts
<1>7. files' \in Lists
  <2>1. PICK t : t = files'
    OBVIOUS
  <2>2. t = [q \in S |-> t[q]] /\ \A q \in S : t[q] \in File
    BY <1>4, <1>5, <1>6, <2>1
  <2> HIDE DEF S, file
  <2> QED BY <1>6, <2>1, <2>2, ListSet
<1>8. /\ DOMAIN files' = S /\ files'[p] = file
      /\ \A q \in DOMAIN files : files'[q] = files[q]
  BY <1>5
<1>9. queue' \subseteq DOMAIN files' /\ Cardinality(queue') <= Workers
  <2>1. queue \subseteq DOMAIN files /\ p \notin queue /\ IsFiniteSet(queue)
        /\ Cardinality(queue) <= Workers
    BY QueuePaths DEF Sorts
  <2>2. Cardinality(queue) \in Nat /\ Cardinality(queue \cup {p}) = Cardinality(queue) + 1
    BY <2>1, FS_AddElement, FS_CardinalityType
  <2>3. Cardinality(queue') <= Workers
    <3>1. CASE queue' = queue
      BY <2>1, <3>1
    <3>2. CASE queue' = queue \cup {p} /\ Cardinality(queue) < Workers
      BY <2>2, <3>2, ConstantsAssumption
    <3> QED BY <1>1, <3>1, <3>2
  <2>4. queue' \subseteq queue \cup {p}
    BY <1>1
  <2> QED BY <1>8, <2>1, <2>3, <2>4
<1> QED BY <1>1, <1>2, <1>7, <1>8, <1>9

\* A visit keeps what rows, list and queue say of each other.
LEMMA VisitData ==
    ASSUME CInv, NEW p \in Paths, p \notin DOMAIN files, VisitFile(p),
           p \in history.stable /\ p <= checkpoint.last =>
              p \in DOMAIN rows /\ rows[p].hash.quick = Quick[disk[p]],
           UNCHANGED <<disk, source, up, rows, checkpoint, history>>, scan' \in Scans,
           scan'.from = scan.from, scan'.cache = scan.cache,
           IF p <= scan.from THEN scan'.visited = scan.visited \cup {p}
                             ELSE scan'.visited = scan.visited
    PROVE  Sorts' /\ Data'
<1>1. Sorts /\ Data
  BY DEF CInv
<1>2. /\ disk[p] # Absent /\ files' \in Lists /\ DOMAIN files' = DOMAIN files \cup {p}
      /\ \A q \in DOMAIN files : files'[q] = files[q]
      /\ files'[p].meta = disk[p]
      /\ queue' \subseteq DOMAIN files' /\ Cardinality(queue') <= Workers
      /\ \/ queue' = queue \cup {p} /\ files'[p].hash = NoHash
         \/ /\ queue' = queue /\ p \in DOMAIN scan.cache
            /\ scan.cache[p].meta = disk[p] /\ scan.cache[p].hash.quick # None
            /\ files'[p].hash = scan.cache[p].hash
  BY <1>1, VisitFileFacts
<1>3. Sorts'
  BY <1>1, <1>2 DEF Sorts
<1>4. files'[p].hash.quick \in {None, Quick[disk[p]]} /\ files'[p].hash.full \in {None, disk[p]}
  BY <1>1, <1>2, NoHashKnown DEF Data, Honest
<1>5. \/ files'[p].hash.quick = Quick[disk[p]]
      \/ files'[p].hash.quick = None /\ p \in queue'
  BY <1>1, <1>2, NoHashKnown DEF Data, Honest
<1>6. Honest(files)' /\ Honest(rows)' /\ Honest(scan.cache)'
  BY <1>1, <1>2, <1>4 DEF Data, Honest
<1>7. Listed'
  BY <1>1, <1>2, <1>5 DEF Data, Listed
<1>8. StableStays' /\ Durable' /\ PrefixKnown'
  BY <1>1, <1>2 DEF Data, StableStays, Durable, RowStands, PrefixKnown
<1>9. Queued'
  BY <1>1, <1>2, NoHashKnown DEF Data, Queued, Sorts
<1>10. CacheStands' /\ Revisited'
  BY <1>1, <1>2 DEF Data, CacheStands, Revisited
<1> QED BY <1>3, <1>6, <1>7, <1>8, <1>9, <1>10 DEF Data

\* A visit during the walk keeps the invariant.
LEMMA VisitStep ==
    ASSUME CInv, Visit
    PROVE  CInv'
<1> DEFINE p == Here
<1>1. Sorts /\ Data /\ scan.pc = "walk" /\ p \in Paths /\ p = scan.cursor + 1 /\ VisitFile(p)
  BY DEF CInv, Visit, At, Here
<1>2. PICK s : s = Passed(scan)
  OBVIOUS
<1>3. /\ s \in Scans /\ s.cursor = p /\ s.pc \in {"walk", "boundary"}
      /\ s.from = scan.from /\ s.cache = scan.cache /\ s.visited = scan.visited
      /\ s.todo = scan.todo /\ s.partial = scan.partial
  BY <1>1, <1>2, PassedScan
<1>4. scan' = [s EXCEPT !.last = p]
  BY <1>2 DEF Visit
<1>5. /\ scan' \in Scans /\ scan'.cursor = p /\ scan'.pc \in {"walk", "boundary"}
      /\ scan'.from = scan.from /\ scan'.cache = scan.cache /\ scan'.visited = scan.visited
      /\ scan'.todo = scan.todo /\ scan'.partial = scan.partial /\ scan'.last = p
  <2>1. p \in 0..N
    BY <1>1, PathNumbers
  <2> QED BY <1>3, <1>4, <2>1 DEF Scans
<1> HIDE DEF p
<1>6. p \notin DOMAIN files /\ ~(p <= checkpoint.last) /\ ~(p <= scan.from)
  BY <1>1, Traversing, PathNumbers
<1>7. UNCHANGED <<disk, source, up, rows, checkpoint, history>>
  BY DEF Visit
<1>8. Sorts' /\ Data'
  BY <1>1, <1>5, <1>6, <1>7, VisitData
<1>9. DOMAIN files' = DOMAIN files \cup {p}
  BY <1>1, <1>6, VisitFileFacts
<1>10. Places'
  <2>1. \A q \in DOMAIN files : q \in Nat /\ q <= scan.cursor
    BY <1>1, Traversing, QueuePaths, PathNumbers
  <2>2. \A q \in DOMAIN files' : q <= p
    BY <1>1, <1>9, <2>1, Traversing, PathNumbers
  <2> QED BY <1>1, <1>5, <1>7, <2>2, Traversing DEF Places
<1>11. Todo'
  BY <1>5, <1>6, <1>9, <1>1, Traversing DEF Todo
<1>12. Walked'
  <2> SUFFICES ASSUME ~scan'.partial, NEW q \in Paths, scan.from < q, q <= p
               PROVE  q \in DOMAIN files' \cup history'.gone
    BY <1>5 DEF Walked
  <2>1. q <= scan.cursor \/ q = p
    BY <1>1, PathNumbers, Traversing
  <2> QED BY <1>1, <1>5, <1>7, <1>9, <2>1, Traversing
<1>13. Control'
  BY <1>5, <1>10, <1>11, <1>12, TraversalControl
<1> QED BY <1>8, <1>13 DEF CInv

\* The points between the traversal and the full hashes.
LEMMA PassControl ==
    ASSUME scan'.pc \in {"resume", "pass"}, Places', Todo', Walked',
           scan'.pc = "resume" => queue' = {},
           scan'.cursor = N \/ scan'.partial \/ scan'.away \/ scan'.cancelled
    PROVE  Control'
<1>1. /\ Rests' /\ Settled' /\ Advancing' /\ Ended' /\ Completed' /\ Hashed' /\ Saved' /\ Reconciled'
  BY DEF Rests, Settled, Advancing, Ended, Completed, Hashed, Saved, Reconciled, After
<1> QED BY <1>1 DEF Control

\* What Control and Places say after the traversal.
LEMMA AfterTraversal ==
    ASSUME CInv, scan.pc \in After \cup {"drain"}
    PROVE  /\ scan.from <= checkpoint.last /\ checkpoint.last <= scan.cursor
           /\ scan.last <= scan.cursor /\ Todo /\ \A p \in DOMAIN files : p <= scan.cursor
           /\ {scan.from, scan.cursor, scan.last, checkpoint.last} \subseteq 0..N
           /\ ~scan.partial => \A p \in Paths : scan.from < p /\ p <= scan.cursor
                                                   => p \in DOMAIN files \cup history.gone
           /\ scan.pc \in After => scan.cursor = N \/ scan.partial \/ scan.away \/ scan.cancelled
BY DEF CInv, Sorts, Scans, Control, Places, Walked, Ended, After

\* A candidate of the prefix is visited again by the pass.
LEMMA RevisitStep ==
    ASSUME CInv, Revisit
    PROVE  CInv'
<1>1. Sorts /\ Data /\ scan \in Scans /\ scan.pc = "pass"
  BY DEF CInv, Sorts, Revisit, At
<1>2. PICK p \in scan.todo :
         /\ VisitFile(p)
         /\ scan' = [scan EXCEPT !.todo = @ \ {p}, !.visited = @ \cup {p}]
  BY DEF Revisit
<1>3. UNCHANGED <<disk, source, up, rows, checkpoint, history>>
  BY DEF Revisit
<1>4. p \in Paths /\ p \notin DOMAIN files /\ p \in DOMAIN scan.cache /\ p <= scan.from
      /\ scan.cache[p].hash.quick # None
  BY <1>1, AfterTraversal DEF Todo, After, Scans
<1>5. /\ scan' \in Scans /\ scan'.pc = "pass" /\ scan'.cursor = scan.cursor /\ scan'.from = scan.from
      /\ scan'.cache = scan.cache /\ scan'.visited = scan.visited \cup {p} /\ scan'.last = scan.last
      /\ scan'.todo = scan.todo \ {p} /\ scan'.partial = scan.partial /\ scan'.away = scan.away
      /\ scan'.cancelled = scan.cancelled
  BY <1>1, <1>2, <1>4 DEF Scans
<1>6. p \in history.stable /\ p <= checkpoint.last =>
         p \in DOMAIN rows /\ rows[p].hash.quick = Quick[disk[p]]
  BY <1>1, <1>4 DEF Data, Durable, RowStands, CacheStands
<1>7. Sorts' /\ Data'
  BY <1>2, <1>3, <1>4, <1>5, <1>6, VisitData
<1>8. DOMAIN files' = DOMAIN files \cup {p}
  BY <1>1, <1>2, <1>4, VisitFileFacts
<1>9. Places'
  <2>1. p <= scan.cursor
    BY <1>1, <1>4, AfterTraversal, PathNumbers DEF After
  <2> QED BY <1>1, <1>3, <1>5, <1>8, <2>1, AfterTraversal DEF Places, After
<1>10. Todo' /\ Walked'
  BY <1>1, <1>3, <1>5, <1>8, AfterTraversal DEF Todo, Walked, After
<1>11. Control'
  BY <1>1, <1>5, <1>9, <1>10, PassControl, AfterTraversal DEF After
<1> QED BY <1>7, <1>11 DEF CInv

\* A step within the pass that leaves list and queue alone.
LEMMA PassGoesOn ==
    ASSUME CInv, scan.pc \in {"resume", "pass"},
           UNCHANGED <<disk, source, up, rows, checkpoint, files, queue>>,
           history' \in {history, Faulty}, scan' \in Scans, scan'.pc \in {"resume", "pass"},
           scan'.pc = "resume" => queue = {}, Todo',
           scan'.from = scan.from, scan'.cursor = scan.cursor, scan'.last = scan.last,
           scan'.cache = scan.cache, scan'.visited = scan.visited, scan'.partial = scan.partial,
           scan'.cancelled = scan.cancelled, scan.away => scan'.away
    PROVE  CInv'
<1>1. Sorts /\ up \in BOOLEAN /\ scan \in Scans
  BY DEF CInv, Sorts
<1>2. Sorts' /\ Data'
  BY <1>1, DataKept DEF Writes
<1>3. Places' /\ Walked'
  BY <1>1, HistoryKept, AfterTraversal DEF Places, Walked, After
<1>4. Control'
  BY <1>3, PassControl, AfterTraversal DEF After
<1> QED BY <1>2, <1>4 DEF CInv

\* A candidate of the prefix that cannot be read again is recorded as missed.
LEMMA NotRevisitedStep ==
    ASSUME CInv, NotRevisited
    PROVE  CInv'
<1>1. Sorts /\ up \in BOOLEAN /\ scan \in Scans /\ scan.pc = "pass" /\ Todo
  BY AfterTraversal DEF CInv, Sorts, NotRevisited, At, Control
<1>2. PICK T \in SUBSET scan.todo, away \in BOOLEAN :
         scan' = [scan EXCEPT !.missed = TRUE, !.away = @ \/ away, !.todo = T]
  <2>1. PICK p \in scan.todo, away \in BOOLEAN :
           scan' = [scan EXCEPT !.missed = TRUE, !.away = @ \/ away,
                                !.todo = IF scan.lost \/ scan.cancelled THEN {} ELSE @ \ {p}]
    BY DEF NotRevisited, Interruptions
  <2>2. PICK T : T = IF scan.lost \/ scan.cancelled THEN {} ELSE scan.todo \ {p}
    OBVIOUS
  <2>3. scan' = [scan EXCEPT !.missed = TRUE, !.away = @ \/ away, !.todo = T]
    BY <2>1, <2>2
  <2> QED BY <2>2, <2>3
<1>3. /\ scan' \in Scans /\ scan'.pc = "pass" /\ scan'.cursor = scan.cursor /\ scan'.from = scan.from
      /\ scan'.cache = scan.cache /\ scan'.visited = scan.visited /\ scan'.last = scan.last
      /\ scan'.todo = T /\ scan'.partial = scan.partial /\ (scan.away => scan'.away)
      /\ scan'.cancelled = scan.cancelled
  BY <1>1, <1>2 DEF Scans
<1>4. UNCHANGED <<disk, source, up, rows, checkpoint, files, queue>> /\ history' \in {history, Faulty}
  BY DEF NotRevisited
<1>5. Todo'
  BY <1>1, <1>2, <1>3, <1>4 DEF Todo
<1> QED BY <1>1, <1>3, <1>4, <1>5, PassGoesOn

\* What resumeHashCandidates knows and offers.
LEMMA CandidateFacts ==
    ASSUME CInv, NEW p, p \in Candidates
    PROVE  /\ p \in DOMAIN scan.cache \ DOMAIN files /\ p <= scan.from
           /\ scan.cache[p].hash.quick # None
<1> DEFINE prefix == {q \in DOMAIN scan.cache : q <= scan.from}
           known == [q \in prefix \cup DOMAIN files |->
                        IF q \in DOMAIN files THEN files[q].hash ELSE scan.cache[q].hash]
           hash == [q \in {r \in DOMAIN known : known[r].quick # None} |-> known[q]]
<1>1. p \in DOMAIN hash \ scan.visited /\ p <= scan.from
  BY DEF Candidates
<1>2. p \in prefix \cup DOMAIN files /\ known[p].quick # None
  BY <1>1
<1>3. p \notin DOMAIN files
  BY <1>1 DEF CInv, Data, Revisited
<1> QED BY <1>1, <1>2, <1>3

\* The pass over the candidates of the prefix begins.
LEMMA BeginPassStep ==
    ASSUME CInv, BeginPass
    PROVE  CInv'
<1>1. Sorts /\ scan \in Scans /\ scan.pc = "resume"
  BY DEF CInv, Sorts, BeginPass, At
<1>2. PICK T : T = Candidates
  OBVIOUS
<1>3. T \subseteq Paths
  BY <1>1, <1>2, CandidateFacts, QueuePaths
<1>4. /\ scan' \in Scans /\ scan'.pc = "pass" /\ scan'.cursor = scan.cursor /\ scan'.from = scan.from
      /\ scan'.cache = scan.cache /\ scan'.visited = scan.visited /\ scan'.last = scan.last
      /\ scan'.todo = T /\ scan'.partial = scan.partial /\ scan'.away = scan.away
      /\ scan'.cancelled = scan.cancelled
  <2>1. scan' = [scan EXCEPT !.pc = "pass", !.todo = T]
    BY <1>2 DEF BeginPass
  <2> QED BY <1>1, <1>3, <2>1 DEF Scans, Steps
<1>5. UNCHANGED <<disk, source, up, rows, checkpoint, files, queue, history>>
  BY DEF BeginPass
<1>6. Todo'
  BY <1>2, <1>4, <1>5, CandidateFacts DEF Todo
<1> QED BY <1>1, <1>4, <1>5, <1>6, PassGoesOn

\* A set with two different members has more than one.
LEMMA TwoMembers ==
    ASSUME NEW S, IsFiniteSet(S), NEW x \in S, NEW y \in S, x # y
    PROVE  Cardinality(S) > 1
<1>1. Cardinality(S) \in Nat /\ S # {}
  BY FS_CardinalityType
<1>2. Cardinality(S) # 0
  BY <1>1, FS_EmptySet
<1>3. Cardinality(S) # 1
  BY FS_Singleton
<1> QED BY <1>1, <1>2, <1>3

\* Two files with the same quick hash have full hashes once no candidate is left.
LEMMA NoCandidatesLeft ==
    ASSUME CInv, Candidates = {}, NEW p \in Prefix \ DOMAIN files, NEW q \in Prefix \cup DOMAIN files,
           p # q, HashOf(p).quick # None, HashOf(p).quick = HashOf(q).quick
    PROVE  HashOf(p).full # None /\ HashOf(q).full # None
<1> DEFINE prefix == {r \in DOMAIN scan.cache : r <= scan.from}
           known == [r \in prefix \cup DOMAIN files |->
                        IF r \in DOMAIN files THEN files[r].hash ELSE scan.cache[r].hash]
           hash == [r \in {s \in DOMAIN known : known[s].quick # None} |-> known[r]]
<1>1. /\ p \in DOMAIN hash /\ q \in DOMAIN hash
      /\ hash[p] = HashOf(p) /\ hash[q] = HashOf(q)
  BY DEF Prefix, HashOf
<1>2. p \notin scan.visited /\ p <= scan.from
  BY DEF CInv, Data, Revisited, Prefix
<1>3. DOMAIN hash \subseteq Paths
  BY QueuePaths DEF CInv
<1>4. \A r \in DOMAIN hash \ scan.visited :
         ~(/\ r <= scan.from /\ Cardinality(Group(r, hash)) > 1
           /\ \E s \in Group(r, hash) : hash[s].full = None)
  BY DEF Candidates
<1> HIDE DEF hash
<1>5. p \in Group(p, hash) /\ q \in Group(p, hash) /\ Group(p, hash) \subseteq Paths
  BY <1>1, <1>3 DEF Group
<1>6. Cardinality(Group(p, hash)) > 1
  BY <1>5, PathNumbers, FS_Subset, TwoMembers
<1> QED BY <1>1, <1>2, <1>4, <1>5, <1>6

\* The points from the full hashes on.
LEMMA FinalControl ==
    ASSUME scan'.pc \in {"full", "save", "reconcile", "finish"}, queue' = {}, Places', Todo', Walked',
           scan'.cursor = N \/ scan'.partial \/ scan'.away \/ scan'.cancelled,
           Completed', Hashed', Saved', Reconciled'
    PROVE  Control'
BY DEF Control, Rests, Settled, Advancing, Ended, After

\* Without candidates the prefix needs no pass.
LEMMA NoCandidatesStep ==
    ASSUME CInv, NoCandidates
    PROVE  CInv'
<1>1. Sorts /\ up \in BOOLEAN /\ scan \in Scans /\ scan.pc = "resume" /\ queue = {}
  BY DEF CInv, Sorts, NoCandidates, At, Control, Settled, After
<1>2. /\ scan' \in Scans /\ scan'.pc = "full" /\ scan'.cursor = scan.cursor /\ scan'.from = scan.from
      /\ scan'.cache = scan.cache /\ scan'.visited = scan.visited /\ scan'.last = scan.last
      /\ scan'.todo = scan.todo /\ scan'.partial = scan.partial /\ scan'.away = scan.away
      /\ scan'.cancelled = scan.cancelled
  BY <1>1 DEF NoCandidates, Goto, Scans, Steps
<1>3. UNCHANGED <<disk, source, up, rows, checkpoint, files, queue, history>>
  BY DEF NoCandidates
<1>4. Sorts' /\ Data'
  BY <1>1, <1>2, <1>3, DataKept DEF Writes
<1>5. Places' /\ Todo' /\ Walked'
  BY <1>1, <1>2, <1>3, AfterTraversal DEF Places, Todo, Walked, After
<1>6. Completed'
  <2>1. \A p \in Prefix \ DOMAIN files, q \in Prefix \cup DOMAIN files :
          p # q /\ HashOf(p).quick # None /\ HashOf(p).quick = HashOf(q).quick =>
             HashOf(p).full # None /\ HashOf(q).full # None
    BY NoCandidatesLeft DEF NoCandidates
  <2> QED BY <1>2, <1>3, <2>1 DEF Completed, Prefix, HashOf
<1>7. Hashed' /\ Saved' /\ Reconciled'
  BY <1>2 DEF Hashed, Saved, Reconciled
<1>8. Control'
  BY <1>1, <1>2, <1>3, <1>5, <1>6, <1>7, FinalControl, AfterTraversal DEF After
<1> QED BY <1>4, <1>8 DEF CInv

\* The pass ends when its list and the queue are empty.
LEMMA EndPassStep ==
    ASSUME CInv, EndPass
    PROVE  CInv'
<1>1. Sorts /\ up \in BOOLEAN /\ scan \in Scans /\ scan.pc = "pass" /\ queue = {}
  BY DEF CInv, Sorts, EndPass, At
<1>2. /\ scan' \in Scans /\ scan'.cursor = scan.cursor /\ scan'.from = scan.from
      /\ scan'.cache = scan.cache /\ scan'.visited = scan.visited /\ scan'.last = scan.last
      /\ scan'.todo = scan.todo /\ scan'.partial = scan.partial /\ (scan.away => scan'.away)
      /\ scan'.cancelled = scan.cancelled
      /\ \/ scan'.pc = "resume"
         \/ scan'.pc = "full" /\ scan'.away
  BY <1>1 DEF EndPass, Scans, Steps
<1>3. UNCHANGED <<disk, source, up, rows, checkpoint, files, queue, history>>
  BY DEF EndPass
<1>4. Todo'
  BY <1>1, <1>2, <1>3, AfterTraversal DEF Todo, After
<1>5. CASE scan'.pc = "resume"
  BY <1>1, <1>2, <1>3, <1>4, <1>5, PassGoesOn
<1>6. CASE scan'.pc = "full" /\ scan'.away
  <2>1. Sorts' /\ Data'
    BY <1>1, <1>2, <1>3, DataKept DEF Writes
  <2>2. Places' /\ Walked'
    BY <1>1, <1>2, <1>3, AfterTraversal DEF Places, Walked, After
  <2>3. Completed' /\ Hashed' /\ Saved' /\ Reconciled'
    BY <1>6 DEF Completed, Hashed, Saved, Reconciled
  <2>4. Control'
    BY <1>1, <1>3, <1>4, <1>6, <2>2, <2>3, FinalControl
  <2> QED BY <2>1, <2>4 DEF CInv
<1> QED BY <1>2, <1>5, <1>6

-----------------------------------------------------------------------------
(* Hashes *)

\* What changes when a worker returns with one of the two hashes of p.
LEMMA ReadScan ==
    ASSUME Sorts, NEW o, Mind(o)
    PROVE  /\ scan' \in Scans /\ scan'.pc = scan.pc /\ scan'.cursor = scan.cursor
           /\ scan'.from = scan.from /\ scan'.cache = scan.cache /\ scan'.visited = scan.visited
           /\ scan'.last = scan.last /\ scan'.todo = scan.todo /\ scan'.partial = scan.partial
           /\ scan'.away = scan.away /\ scan'.cancelled = scan.cancelled
           /\ scan'.error = scan.error /\ (scan.lost => scan'.lost)
BY DEF Sorts, Scans, Mind

\* A reading may use up a fault and changes nothing else of the history.
LEMMA ReadHistory ==
    ASSUME Sorts, NEW o, NEW h, h = Spent(o)
    PROVE  /\ h \in Histories
           /\ h.stable = history.stable /\ h.gone = history.gone /\ h.unread = history.unread
BY DEF Sorts, Histories, Spent, Faulty

\* One file of the list is replaced.
LEMMA FileReplaced ==
    ASSUME Sorts, NEW p \in DOMAIN files, NEW f \in File, files' = [files EXCEPT ![p] = f]
    PROVE  /\ files' \in Lists /\ DOMAIN files' = DOMAIN files /\ files'[p] = f
           /\ \A q \in DOMAIN files : q # p => files'[q] = files[q]
<1>1. DOMAIN files \subseteq Paths /\ \A q \in DOMAIN files : files[q] \in File
  BY ListMember DEF Sorts
<1>2. PICK S : S = DOMAIN files
  OBVIOUS
<1>3. PICK t : t = files'
  OBVIOUS
<1>4. t = [q \in S |-> t[q]] /\ \A q \in S : t[q] \in File
  BY <1>1, <1>2, <1>3
<1>5. t \in Lists
  BY <1>1, <1>2, <1>4, ListSet
<1> QED BY <1>3, <1>5

\* A quick hash is stored with its file and nowhere else.
LEMMA QuickFile ==
    ASSUME Sorts, NEW p \in DOMAIN files, disk[p] # Absent,
           files' = [files EXCEPT ![p].hash.quick = Quick[disk[p]]]
    PROVE  /\ files' \in Lists /\ DOMAIN files' = DOMAIN files
           /\ files'[p].meta = files[p].meta /\ files'[p].hash.full = files[p].hash.full
           /\ files'[p].hash.quick = Quick[disk[p]]
           /\ \A q \in DOMAIN files : q # p => files'[q] = files[q]
<1>1. files[p] \in File /\ p \in Paths
  BY ListMember DEF Sorts
<1>2. disk[p] \in Contents
  BY <1>1 DEF Sorts
<1>3. PICK k : k = Quick[disk[p]]
  OBVIOUS
<1>4. k \in {Quick[c] : c \in Contents} \cup {None}
  BY <1>2, <1>3
<1>5. PICK f : f = [files[p] EXCEPT !.hash.quick = k]
  OBVIOUS
<1>6. f \in File /\ f.meta = files[p].meta /\ f.hash.full = files[p].hash.full /\ f.hash.quick = k
  BY <1>1, <1>4, <1>5 DEF File, Hashes
<1>7. files' = [files EXCEPT ![p] = f]
  BY <1>3, <1>5
<1> QED BY <1>3, <1>6, <1>7, FileReplaced

\* A worker hashes a queued file or marks it failed.
LEMMA QuickHashStep ==
    ASSUME CInv, NEW p \in Paths, QuickHash(p)
    PROVE  CInv'
<1>1. /\ Sorts /\ Data /\ p \in queue /\ p \in DOMAIN files /\ files[p].hash.quick = None
      /\ queue' = queue \ {p} /\ UNCHANGED <<disk, source, up, rows, checkpoint>>
      /\ p \in history.stable /\ p <= checkpoint.last =>
             p \in DOMAIN rows /\ rows[p].hash.quick = Quick[disk[p]]
  BY DEF CInv, Sorts, Data, Queued, QuickHash
<1>2. PICK o \in Reads(p) :
       /\ files' = IF o = "ok" THEN [files EXCEPT ![p].hash.quick = Quick[disk[p]]] ELSE files
       /\ history' = [Spent(o) EXCEPT
            !.unread = IF o = "ok" THEN @ \ {p} ELSE @ \cup {p},
            !.refused = IF o \in {"permission", "error"} THEN @ \cup {p} ELSE @ \ {p}]
       /\ Mind(o)
  BY DEF QuickHash
<1>3. o = "ok" => disk[p] # Absent
  BY <1>2 DEF Reads
<1>4. /\ history' \in Histories /\ history'.stable = history.stable /\ history'.gone = history.gone
      /\ history'.unread = IF o = "ok" THEN history.unread \ {p} ELSE history.unread \cup {p}
  <2>1. PICK h : h = Spent(o)
    OBVIOUS
  <2>2. /\ h \in Histories
        /\ h.stable = history.stable /\ h.gone = history.gone /\ h.unread = history.unread
    BY <1>1, <2>1, ReadHistory
  <2>3. history' = [h EXCEPT
            !.unread = IF o = "ok" THEN @ \ {p} ELSE @ \cup {p},
            !.refused = IF o \in {"permission", "error"} THEN @ \cup {p} ELSE @ \ {p}]
    BY <1>2, <2>1
  <2> QED BY <2>2, <2>3 DEF Histories
<1>5. /\ scan' \in Scans /\ scan'.pc = scan.pc /\ scan'.cursor = scan.cursor
      /\ scan'.from = scan.from /\ scan'.cache = scan.cache /\ scan'.visited = scan.visited
      /\ scan'.last = scan.last /\ scan'.todo = scan.todo /\ scan'.partial = scan.partial
      /\ scan'.away = scan.away /\ scan'.cancelled = scan.cancelled
      /\ scan'.error = scan.error /\ (scan.lost => scan'.lost)
  BY <1>1, <1>2, ReadScan
<1>6. /\ files' \in Lists /\ DOMAIN files' = DOMAIN files
      /\ files'[p].meta = files[p].meta /\ files'[p].hash.full = files[p].hash.full
      /\ files'[p].hash.quick = IF o = "ok" THEN Quick[disk[p]] ELSE None
      /\ \A q \in DOMAIN files : q # p => files'[q] = files[q]
  <2>1. CASE o = "ok"
    BY <1>1, <1>2, <1>3, <2>1, QuickFile
  <2>2. CASE o # "ok"
    BY <1>1, <1>2, <2>2 DEF Sorts
  <2> QED BY <2>1, <2>2
<1>7. Sorts'
  <2>1. queue' \subseteq queue /\ IsFiniteSet(queue) /\ Cardinality(queue) <= Workers
    BY <1>1, QueuePaths DEF Sorts
  <2>2. Cardinality(queue') <= Cardinality(queue) /\ Cardinality(queue') \in Nat
        /\ Cardinality(queue) \in Nat
    BY <2>1, FS_Subset, FS_CardinalityType
  <2>3. Cardinality(queue') <= Workers
    BY <2>1, <2>2, ConstantsAssumption
  <2> QED BY <1>1, <1>4, <1>5, <1>6, <2>1, <2>3 DEF Sorts
<1>8. Honest(files)' /\ Honest(rows)' /\ Honest(scan.cache)'
  BY <1>1, <1>5, <1>6 DEF Data, Honest
<1>9. Listed'
  <2> SUFFICES ASSUME NEW q \in history.stable \cap DOMAIN files
               PROVE  /\ files'[q].meta = disk[q]
                      /\ \/ files'[q].hash.quick = Quick[disk[q]]
                         \/ files'[q].hash.quick = None /\ q \in queue' \cup history'.unread
    BY <1>1, <1>4, <1>6 DEF Listed
  <2>1. /\ files[q].meta = disk[q]
        /\ \/ files[q].hash.quick = Quick[disk[q]]
           \/ files[q].hash.quick = None /\ q \in queue \cup history.unread
    BY <1>1 DEF Data, Listed
  <2>2. CASE q = p
    BY <1>4, <1>6, <2>1, <2>2
  <2>3. CASE q # p
    BY <1>1, <1>4, <1>6, <2>1, <2>3
  <2> QED BY <2>2, <2>3
<1>10. Durable'
  <2> SUFFICES ASSUME NEW q \in history.stable, q <= checkpoint.last
               PROVE  RowStands(q)'
    BY <1>1, <1>4 DEF Durable
  <2>1. RowStands(q)
    BY <1>1 DEF Data, Durable
  <2>2. CASE q = p
    BY <1>1, <2>1, <2>2 DEF RowStands
  <2>3. CASE q # p
    BY <1>1, <1>4, <2>1, <2>3 DEF RowStands
  <2> QED BY <2>2, <2>3
<1>11. Queued'
  <2>1. \A q \in queue' : q \in queue /\ q # p /\ q \in DOMAIN files /\ files'[q] = files[q]
    BY <1>1, <1>6 DEF Sorts
  <2> QED BY <1>1, <1>4, <2>1 DEF Data, Queued
<1>12. StableStays' /\ CacheStands' /\ Revisited' /\ PrefixKnown'
  BY <1>1, <1>4, <1>5, <1>6 DEF Data, StableStays, CacheStands, Revisited, PrefixKnown
<1>13. Data'
  BY <1>8, <1>9, <1>10, <1>11, <1>12 DEF Data
<1>14. scan.pc \in {"walk", "boundary", "drain", "pass"}
  <2>1. scan.pc # "idle"
    BY <1>1, EmptyTable DEF CInv, Control, Rests
  <2>2. scan.pc \in Steps
    BY <1>1 DEF Sorts, Scans
  <2> QED BY <1>1, <2>1, <2>2 DEF CInv, Control, Settled, Steps, After
<1>15. Places' /\ Todo' /\ Walked'
  <2>1. CASE scan.pc \in {"walk", "boundary"}
    BY <1>1, <1>4, <1>5, <1>6, <2>1, Traversing DEF Places, Todo, Walked
  <2>2. CASE scan.pc \in {"drain", "pass"}
    BY <1>1, <1>4, <1>5, <1>6, <2>2, AfterTraversal DEF Places, Todo, Walked, After
  <2> QED BY <1>14, <2>1, <2>2
<1>16. Control'
  <2>1. CASE scan.pc \in {"walk", "boundary", "drain"}
    <3>1. scan.pc = "drain" => scan.cursor = N \/ scan.partial \/ scan.lost \/ scan.cancelled
                               \/ scan.error
      BY DEF CInv, Control, Ended
    <3> QED BY <1>5, <1>15, <2>1, <3>1, TraversalControl
  <2>2. CASE scan.pc = "pass"
    BY <1>5, <1>15, <2>2, PassControl, AfterTraversal DEF After
  <2> QED BY <1>14, <2>1, <2>2
<1> QED BY <1>7, <1>13, <1>16 DEF CInv

\* A full hash is stored with its file and nowhere else.
LEMMA FullFile ==
    ASSUME Sorts, NEW p \in DOMAIN files, disk[p] # Absent,
           files' = [files EXCEPT ![p].hash.full = disk[p]]
    PROVE  /\ files' \in Lists /\ DOMAIN files' = DOMAIN files
           /\ files'[p].meta = files[p].meta /\ files'[p].hash.quick = files[p].hash.quick
           /\ files'[p].hash.full = disk[p] /\ disk[p] \in Contents
           /\ \A q \in DOMAIN files : q # p => files'[q] = files[q]
<1>1. files[p] \in File /\ p \in Paths
  BY ListMember DEF Sorts
<1>2. disk[p] \in Contents
  BY <1>1 DEF Sorts
<1>3. PICK f : f = [files[p] EXCEPT !.hash.full = disk[p]]
  OBVIOUS
<1>4. /\ f \in File /\ f.meta = files[p].meta /\ f.hash.quick = files[p].hash.quick
      /\ f.hash.full = disk[p]
  BY <1>1, <1>2, <1>3 DEF File, Hashes
<1>5. files' = [files EXCEPT ![p] = f]
  BY <1>3
<1> QED BY <1>2, <1>4, <1>5, FileReplaced

\* A failure is stored with its file and nowhere else.
LEMMA FailedFile ==
    ASSUME Sorts, NEW p \in DOMAIN files, files' = [files EXCEPT ![p].failed = TRUE]
    PROVE  /\ files' \in Lists /\ DOMAIN files' = DOMAIN files
           /\ files'[p].meta = files[p].meta /\ files'[p].hash = files[p].hash
           /\ \A q \in DOMAIN files : q # p => files'[q] = files[q]
<1>1. files[p] \in File
  BY ListMember DEF Sorts
<1>2. PICK f : f = [files[p] EXCEPT !.failed = TRUE]
  OBVIOUS
<1>3. f \in File /\ f.meta = files[p].meta /\ f.hash = files[p].hash
  BY <1>1, <1>2 DEF File
<1>4. files' = [files EXCEPT ![p] = f]
  BY <1>2
<1> QED BY <1>3, <1>4, FileReplaced

\* A worker hashes a candidate or marks it failed.
LEMMA FullHashStep ==
    ASSUME CInv, NEW p \in Paths, FullHash(p)
    PROVE  CInv'
<1>1. /\ Sorts /\ Data /\ p \in DOMAIN files /\ files[p].hash.full = None /\ scan.pc = "full"
      /\ UNCHANGED <<disk, source, up, rows, checkpoint, queue>> /\ queue = {}
  BY DEF CInv, FullHash, At, Pending, Control, Settled, After
<1>2. PICK o \in Reads(p) :
       /\ files' = IF o = "ok" THEN [files EXCEPT ![p].hash.full = disk[p]]
                              ELSE [files EXCEPT ![p].failed = TRUE]
       /\ history' = Spent(o)
       /\ Mind(o)
  BY DEF FullHash
<1>3. o = "ok" => disk[p] # Absent
  BY <1>2 DEF Reads
<1>4. /\ history' \in Histories /\ history'.stable = history.stable /\ history'.gone = history.gone
      /\ history'.unread = history.unread
  <2>1. PICK h : h = Spent(o)
    OBVIOUS
  <2>2. /\ h \in Histories
        /\ h.stable = history.stable /\ h.gone = history.gone /\ h.unread = history.unread
    BY <1>1, <2>1, ReadHistory
  <2> QED BY <1>2, <2>1, <2>2
<1>5. /\ scan' \in Scans /\ scan'.pc = "full" /\ scan'.cursor = scan.cursor
      /\ scan'.from = scan.from /\ scan'.cache = scan.cache /\ scan'.visited = scan.visited
      /\ scan'.last = scan.last /\ scan'.todo = scan.todo /\ scan'.partial = scan.partial
      /\ scan'.away = scan.away /\ scan'.cancelled = scan.cancelled
  BY <1>1, <1>2, ReadScan
<1>6. /\ files' \in Lists /\ DOMAIN files' = DOMAIN files
      /\ files'[p].meta = files[p].meta /\ files'[p].hash.quick = files[p].hash.quick
      /\ \/ files'[p].hash.full = disk[p] /\ disk[p] \in Contents
         \/ files'[p].hash.full = None
      /\ \A q \in DOMAIN files : q # p => files'[q] = files[q]
  <2>1. CASE o = "ok"
    BY <1>1, <1>2, <1>3, <2>1, FullFile
  <2>2. CASE o # "ok"
    BY <1>1, <1>2, <2>2, FailedFile
  <2> QED BY <2>1, <2>2
<1>7. Sorts'
  BY <1>1, <1>4, <1>5, <1>6 DEF Sorts
<1>8. Honest(files)' /\ Honest(rows)' /\ Honest(scan.cache)'
  BY <1>1, <1>5, <1>6 DEF Data, Honest
<1>9. Listed'
  BY <1>1, <1>4, <1>6 DEF Data, Listed
<1>10. Durable' /\ Queued' /\ StableStays' /\ CacheStands' /\ Revisited' /\ PrefixKnown'
  BY <1>1, <1>4, <1>5, <1>6
     DEF Data, Durable, RowStands, Queued, StableStays, CacheStands, Revisited, PrefixKnown
<1>11. Data'
  BY <1>8, <1>9, <1>10 DEF Data
<1>12. Places' /\ Todo' /\ Walked'
  BY <1>1, <1>4, <1>5, <1>6, AfterTraversal DEF Places, Todo, Walked, After
<1>13. Completed'
  <2>1. \A q : q \in DOMAIN files \/ q \in Prefix =>
           HashOf(q)'.quick = HashOf(q).quick /\ (HashOf(q).full # None => HashOf(q)'.full # None)
    <3> SUFFICES ASSUME NEW q
                 PROVE  HashOf(q)'.quick = HashOf(q).quick
                        /\ (HashOf(q).full # None => HashOf(q)'.full # None)
      OBVIOUS
    <3>1. CASE q \notin DOMAIN files
      BY <1>5, <1>6, <3>1 DEF HashOf
    <3>2. CASE q \in DOMAIN files /\ q # p
      BY <1>6, <3>2 DEF HashOf
    <3>3. CASE q = p
      BY <1>1, <1>6, <3>3 DEF HashOf
    <3> QED BY <3>1, <3>2, <3>3
  <2>2. Prefix' = Prefix
    BY <1>5 DEF Prefix
  <2>3. Completed
    BY DEF CInv, Control
  <2> QED BY <1>1, <1>5, <1>6, <2>1, <2>2, <2>3 DEF Completed
<1>14. Hashed' /\ Saved' /\ Reconciled'
  BY <1>5 DEF Hashed, Saved, Reconciled
<1>15. Control'
  BY <1>1, <1>5, <1>12, <1>13, <1>14, FinalControl, AfterTraversal DEF After
<1> QED BY <1>7, <1>11, <1>15 DEF CInv

-----------------------------------------------------------------------------
(* Steps after the traversal that write or go on *)

\* What a drained queue has hashed is saved before the scan goes on.
LEMMA DrainStep ==
    ASSUME CInv, Drain
    PROVE  CInv'
<1>1. /\ Sorts /\ up \in BOOLEAN /\ scan \in Scans /\ scan.pc = "drain" /\ queue = {} /\ Persist
      /\ ~scan.cancelled /\ ~scan.error
      /\ UNCHANGED <<disk, source, up, checkpoint, files, queue, history>>
  BY DEF CInv, Sorts, Drain, At
<1>2. /\ scan' \in Scans /\ scan'.cursor = scan.cursor /\ scan'.from = scan.from
      /\ scan'.cache = scan.cache /\ scan'.visited = scan.visited /\ scan'.last = scan.last
      /\ scan'.todo = scan.todo /\ scan'.partial = scan.partial
      /\ scan'.away = (scan.away \/ scan.lost)
      /\ \/ scan'.pc = "resume"
         \/ scan'.pc = "full" /\ (scan'.away \/ ~(scan.from > 0))
  BY <1>1 DEF Drain, Scans, Steps
<1>3. Sorts' /\ Data'
  BY <1>1, <1>2, DataKept DEF Writes
<1>4. Places' /\ Todo' /\ Walked'
  BY <1>1, <1>2, AfterTraversal DEF Places, Todo, Walked
<1>5. scan'.cursor = N \/ scan'.partial \/ scan'.away
  BY <1>1, <1>2 DEF CInv, Control, Ended
<1>6. CASE scan'.pc = "resume"
  <2>1. Control'
    BY <1>1, <1>4, <1>5, <1>6, PassControl
  <2> QED BY <1>3, <2>1 DEF CInv
<1>7. CASE scan'.pc = "full" /\ (scan'.away \/ ~(scan.from > 0))
  <2>1. Completed'
    <3>1. CASE scan'.away
      BY <3>1 DEF Completed
    <3>2. CASE ~(scan.from > 0)
      <4>1. scan'.from = 0
        BY <1>1, <1>2, <3>2, ConstantsAssumption DEF Scans
      <4>2. \A p \in Paths : ~(p <= 0)
        BY PathNumbers
      <4>3. Prefix' = {}
        BY <1>1, <1>2, <4>1, <4>2, QueuePaths DEF Prefix
      <4> QED BY <4>3 DEF Completed
    <3> QED BY <1>7, <3>1, <3>2
  <2>2. Hashed' /\ Saved' /\ Reconciled'
    BY <1>7 DEF Hashed, Saved, Reconciled
  <2>3. Control'
    BY <1>1, <1>4, <1>5, <1>7, <2>1, <2>2, FinalControl
  <2> QED BY <1>3, <2>3 DEF CInv
<1> QED BY <1>2, <1>6, <1>7

\* The full hashes end with none pending, or with the source lost.
LEMMA FullEndsStep ==
    ASSUME CInv, FullEnds
    PROVE  CInv'
<1>1. /\ Sorts /\ up \in BOOLEAN /\ scan \in Scans /\ scan.pc = "full" /\ queue = {}
      /\ (scan.lost \/ Pending = {})
      /\ UNCHANGED <<disk, source, up, rows, checkpoint, files, queue, history>>
  BY DEF CInv, Sorts, FullEnds, At, Control, Settled, After
<1>2. /\ scan' \in Scans /\ scan'.pc = "save" /\ scan'.cursor = scan.cursor /\ scan'.from = scan.from
      /\ scan'.cache = scan.cache /\ scan'.visited = scan.visited /\ scan'.last = scan.last
      /\ scan'.todo = scan.todo /\ scan'.partial = scan.partial
      /\ scan'.away = (scan.away \/ scan.lost) /\ scan'.cancelled = scan.cancelled
  BY <1>1 DEF FullEnds, Scans, Steps
<1>3. Sorts' /\ Data'
  BY <1>1, <1>2, DataKept DEF Writes
<1>4. Places' /\ Todo' /\ Walked'
  BY <1>1, <1>2, AfterTraversal DEF Places, Todo, Walked, After
<1>5. Completed'
  <2>1. Prefix' = Prefix /\ \A q : HashOf(q)' = HashOf(q)
    BY <1>1, <1>2 DEF Prefix, HashOf
  <2>2. Completed
    BY DEF CInv, Control
  <2> QED BY ZenonT(30), <1>1, <1>2, <2>1, <2>2 DEF Completed
<1>6. Hashed' /\ Saved' /\ Reconciled'
  BY <1>1, <1>2 DEF Hashed, Pending, Saved, Reconciled
<1>7. Control'
  BY <1>1, <1>2, <1>4, <1>5, <1>6, FinalControl, AfterTraversal DEF After
<1> QED BY <1>3, <1>7 DEF CInv

\* The final save writes every listed file.
LEMMA SaveStep ==
    ASSUME CInv, Save
    PROVE  CInv'
<1>1. /\ Sorts /\ up \in BOOLEAN /\ scan \in Scans /\ scan.pc = "save" /\ queue = {} /\ Persist
      /\ UNCHANGED <<disk, source, up, checkpoint, files, queue, history>>
  BY DEF CInv, Sorts, Save, At, Control, Settled, After
<1>2. /\ scan' \in Scans /\ scan'.pc = "reconcile" /\ scan'.cursor = scan.cursor
      /\ scan'.from = scan.from /\ scan'.cache = scan.cache /\ scan'.visited = scan.visited
      /\ scan'.last = scan.last /\ scan'.todo = scan.todo /\ scan'.partial = scan.partial
      /\ scan'.away = scan.away /\ scan'.cancelled = scan.cancelled
  BY <1>1 DEF Save, Goto, Scans, Steps
<1>3. Sorts' /\ Data'
  BY <1>1, <1>2, DataKept DEF Writes
<1>4. Places' /\ Todo' /\ Walked'
  BY <1>1, <1>2, AfterTraversal DEF Places, Todo, Walked, After
<1>5. Completed' /\ Hashed'
  BY <1>1, <1>2 DEF CInv, Control, Completed, Prefix, HashOf, Hashed, Pending
<1>6. Saved'
  BY <1>1, Persisted DEF Saved
<1>7. Reconciled'
  BY <1>2 DEF Reconciled
<1>8. Control'
  BY <1>1, <1>2, <1>4, <1>5, <1>6, <1>7, FinalControl, AfterTraversal DEF After
<1> QED BY <1>3, <1>8 DEF CInv

\* The reconciliation changes statuses only, and leaves no active row unseen.
LEMMA ReconciledRows ==
    ASSUME Sorts, Reconcile
    PROVE  /\ rows' \in Tables /\ DOMAIN rows' = DOMAIN rows
           /\ \A p \in DOMAIN rows :
                 /\ rows'[p].meta = rows[p].meta /\ rows'[p].hash = rows[p].hash
                 /\ p \in Seen => rows'[p] = rows[p]
                 /\ p \notin Seen => rows'[p].status # "active"
                 /\ rows'[p].status = "missing" => rows[p].status = "missing" \/ Complete
<1>1. DOMAIN rows \subseteq Paths /\ \A p \in DOMAIN rows : rows[p] \in Row
  BY TableMember DEF Sorts
<1>2. /\ DOMAIN rows' = DOMAIN rows /\ rows' = [p \in DOMAIN rows |-> rows'[p]]
      /\ \A p \in DOMAIN rows :
           rows'[p] = IF p \in Seen THEN rows[p]
              ELSE IF Complete /\ rows[p].status # "missing" THEN [rows[p] EXCEPT !.status = "missing"]
              ELSE IF ~Complete /\ rows[p].status = "active" THEN [rows[p] EXCEPT !.status = "unavailable"]
              ELSE rows[p]
  BY DEF Reconcile
<1>3. ASSUME NEW p \in DOMAIN rows
      PROVE  /\ rows'[p] \in Row
             /\ rows'[p].meta = rows[p].meta /\ rows'[p].hash = rows[p].hash
             /\ p \in Seen => rows'[p] = rows[p]
             /\ p \notin Seen => rows'[p].status # "active"
             /\ rows'[p].status = "missing" => rows[p].status = "missing" \/ Complete
  <2>1. rows[p] \in Row
    BY <1>1
  <2>2. \/ rows'[p] = rows[p] /\ (p \in Seen \/ rows[p].status # "active")
        \/ rows'[p] = [rows[p] EXCEPT !.status = "missing"] /\ p \notin Seen /\ Complete
        \/ rows'[p] = [rows[p] EXCEPT !.status = "unavailable"] /\ p \notin Seen
    BY <1>2
  <2> QED BY <2>1, <2>2 DEF Row
<1>4. PICK t : t = rows'
  OBVIOUS
<1>5. t \in Tables
  BY <1>1, <1>2, <1>3, <1>4, TableSet
<1> QED BY <1>2, <1>3, <1>4, <1>5

\* A complete scan declares missing only what it has not seen.
LEMMA ReconcileStep ==
    ASSUME CInv, Reconcile
    PROVE  CInv'
<1>1. /\ Sorts /\ Data /\ scan \in Scans /\ scan.pc = "reconcile" /\ queue = {}
      /\ UNCHANGED <<disk, source, up, checkpoint, files, queue, history>>
  BY DEF CInv, Sorts, Reconcile, At, Control, Settled, After
<1>2. /\ scan' \in Scans /\ scan'.pc = "finish" /\ scan'.cursor = scan.cursor
      /\ scan'.from = scan.from /\ scan'.cache = scan.cache /\ scan'.visited = scan.visited
      /\ scan'.last = scan.last /\ scan'.todo = scan.todo /\ scan'.partial = scan.partial
      /\ scan'.away = scan.away /\ scan'.cancelled = scan.cancelled
  BY <1>1 DEF Reconcile, Goto, Scans, Steps
<1>3. /\ rows' \in Tables /\ DOMAIN rows' = DOMAIN rows
      /\ \A p \in DOMAIN rows :
            /\ rows'[p].meta = rows[p].meta /\ rows'[p].hash = rows[p].hash
            /\ p \in Seen => rows'[p] = rows[p]
            /\ p \notin Seen => rows'[p].status # "active"
  BY <1>1, ReconciledRows
<1>4. Sorts'
  BY <1>1, <1>2, <1>3 DEF Sorts
<1>5. Honest(files)' /\ Honest(rows)' /\ Honest(scan.cache)'
  BY <1>1, <1>2, <1>3 DEF Data, Honest
<1>6. Listed' /\ StableStays' /\ Queued' /\ CacheStands' /\ Revisited'
  BY <1>1, <1>2, <1>3 DEF Data, Listed, StableStays, Queued, CacheStands, Revisited
<1>7. Durable'
  <2>1. \A p : RowStands(p) => RowStands(p)'
    BY <1>1, <1>3 DEF RowStands
  <2> QED BY <1>1, <2>1 DEF Data, Durable
<1>8. PrefixKnown'
  BY <1>1, <1>2, <1>3 DEF Data, PrefixKnown
<1>9. Data'
  BY <1>5, <1>6, <1>7, <1>8 DEF Data
<1>10. Places' /\ Todo' /\ Walked'
  BY <1>1, <1>2, AfterTraversal DEF Places, Todo, Walked, After
<1>11. Completed' /\ Hashed'
  <2>1. Prefix' = Prefix /\ \A q : HashOf(q)' = HashOf(q)
    BY <1>1, <1>2 DEF Prefix, HashOf
  <2>2. Completed /\ Hashed /\ Pending' = Pending
    BY <1>1 DEF CInv, Control, Pending
  <2> QED BY <1>1, <1>2, <2>1, <2>2 DEF Completed, Hashed
<1>12. Saved'
  BY <1>1, <1>3 DEF CInv, Control, Saved
<1>13. Reconciled'
  BY <1>1, <1>2, <1>3 DEF Reconciled, Seen
<1>14. Control'
  BY <1>1, <1>2, <1>10, <1>11, <1>12, <1>13, FinalControl, AfterTraversal DEF After
<1> QED BY <1>4, <1>9, <1>14 DEF CInv

-----------------------------------------------------------------------------
(* The beginning of a scan and the environment *)

\* A scan starts afresh or from the checkpoint it was left with.
LEMMA StartStep ==
    ASSUME CInv, NEW mode, Start(mode)
    PROVE  CInv'
<1> DEFINE resumed == mode = "resume" /\ Resumable
           present == {p \in Paths : disk[p] # Absent}
           active == {p \in DOMAIN rows : rows[p].status = "active"}
<1>1. /\ Sorts /\ Data /\ scan = Idle /\ files = << >>
      /\ UNCHANGED <<disk, source, up, rows, files, queue>>
  BY DEF CInv, Start, At, Control, Rests
<1>2. DOMAIN files = {} /\ queue = {}
  BY <1>1, EmptyTable DEF Sorts
<1>3. /\ checkpoint' \in [status : Statuses, last : 0..N]
      /\ checkpoint'.last = IF resumed THEN checkpoint.last ELSE 0
  BY <1>1, PathNumbers DEF Start, Sorts, Statuses
<1>4. PICK C \in SUBSET active : C = IF mode = "full" THEN {} ELSE active
  OBVIOUS
<1>5. PICK t : t = [p \in C |-> rows[p]]
  OBVIOUS
<1>6. t \in Tables /\ DOMAIN t = C /\ \A p \in C : t[p] = rows[p]
  <2>1. active \subseteq Paths /\ \A p \in active : rows[p] \in Row
    BY <1>1, TableMember DEF Sorts
  <2>2. C \subseteq Paths /\ t = [p \in C |-> t[p]] /\ \A p \in C : t[p] \in Row
    BY <1>4, <1>5, <2>1
  <2>3. t \in Tables
    BY <2>2, TableSet
  <2> QED BY <1>5, <2>3
<1>7. PICK l \in 0..N : l = checkpoint'.last
  BY <1>3
<1>8. scan' = [Idle EXCEPT !.pc = "walk", !.from = l, !.cursor = l, !.cache = t]
  BY <1>4, <1>5, <1>7 DEF Start
<1>9. /\ scan' \in Scans /\ scan'.pc = "walk" /\ scan'.from = l /\ scan'.cursor = l
      /\ scan'.cache = t /\ scan'.todo = {} /\ scan'.visited = {} /\ scan'.last = 0
  BY <1>6, <1>8, EmptyTable, PathNumbers DEF Idle, Scans, Steps
<1>10. /\ history' \in Histories /\ history'.gone = Paths \ present
       /\ history'.stable = IF resumed THEN history.stable ELSE present
       /\ history'.unread = IF resumed THEN history.unread ELSE {}
  BY <1>1 DEF Start, Sorts, Histories
<1>11. Sorts'
  BY <1>1, <1>3, <1>9, <1>10 DEF Sorts
<1>12. Honest(files)' /\ Honest(rows)' /\ Honest(scan.cache)'
  BY <1>1, <1>4, <1>6, <1>9 DEF Data, Honest
<1>13. StableStays'
  <2>1. history.stable \subseteq Paths /\ \A p \in history.stable : disk[p] # Absent
    BY <1>1 DEF Sorts, Histories, Data, StableStays
  <2> QED BY <1>1, <1>10, <2>1 DEF StableStays
<1>14. Durable'
  <2>1. CASE resumed
    BY <1>1, <1>3, <1>10, <2>1 DEF Data, Durable, RowStands
  <2>2. CASE ~resumed
    <3>1. checkpoint'.last = 0 /\ history'.stable \subseteq Paths
      BY <1>3, <1>10, <2>2
    <3>2. \A p \in Paths : ~(p <= 0)
      BY PathNumbers
    <3> QED BY <3>1, <3>2 DEF Durable
  <2> QED BY <2>1, <2>2
<1>15. Listed' /\ Queued' /\ CacheStands' /\ Revisited'
  BY <1>1, <1>2, <1>4, <1>6, <1>9 DEF Listed, Queued, CacheStands, Revisited
<1>16. PrefixKnown'
  <2>1. CASE mode = "full"
    <3>1. l = 0 /\ DOMAIN rows \subseteq Paths
      BY <1>1, <1>3, <1>7, <2>1, QueuePaths
    <3> QED BY <1>1, <1>9, <3>1, PathNumbers DEF PrefixKnown
  <2>2. CASE mode # "full"
    BY <1>1, <1>4, <1>6, <1>9, <2>2 DEF PrefixKnown
  <2> QED BY <2>1, <2>2
<1>17. Data'
  BY <1>12, <1>13, <1>14, <1>15, <1>16 DEF Data
<1>18. Places' /\ Todo' /\ Walked'
  <2>1. l \in Nat /\ 0 <= l /\ checkpoint'.last = l
    BY <1>7, ConstantsAssumption
  <2>2. Places'
    BY <1>1, <1>2, <1>9, <2>1 DEF Places
  <2>3. \A p \in Paths : ~(l < p /\ p <= l)
    BY <2>1, PathNumbers
  <2> QED BY <1>9, <2>2, <2>3 DEF Todo, Walked
<1>19. Control'
  BY <1>9, <1>18, TraversalControl
<1> QED BY <1>11, <1>17, <1>19 DEF CInv

\* A step that touches nothing the points of a scan speak of.
LEMMA ControlKept ==
    ASSUME CInv, UNCHANGED <<disk, rows, checkpoint, files, queue>>,
           history'.stable = history.stable, history'.gone = history.gone,
           history'.unread = history.unread,
           \/ scan' = scan
           \/ scan' = [scan EXCEPT !.cancelled = TRUE] /\ scan.pc # "idle"
    PROVE  Control'
<1>1. Control /\ scan \in Scans
  BY DEF CInv, Sorts
<1>2. /\ scan'.pc = scan.pc /\ scan'.cursor = scan.cursor /\ scan'.from = scan.from
      /\ scan'.cache = scan.cache /\ scan'.visited = scan.visited /\ scan'.last = scan.last
      /\ scan'.todo = scan.todo /\ scan'.partial = scan.partial /\ scan'.away = scan.away
      /\ scan'.lost = scan.lost /\ scan'.error = scan.error
      /\ (scan.cancelled => scan'.cancelled) /\ (scan.pc = "idle" => scan' = scan)
  BY <1>1 DEF Scans
<1>3. Places' /\ Rests' /\ Settled' /\ Todo' /\ Walked' /\ Ended'
  BY <1>1, <1>2 DEF Control, Places, Rests, Settled, Todo, Walked, Ended
<1>4. Advancing'
  <2>1. \A p : RowStands(p) => RowStands(p)'
    BY DEF RowStands
  <2> QED BY <1>1, <1>2, <2>1 DEF Control, Advancing
<1>5. Completed'
  <2>1. Prefix' = Prefix /\ \A q : HashOf(q)' = HashOf(q)
    BY <1>2 DEF Prefix, HashOf
  <2> QED BY <1>1, <1>2, <2>1 DEF Control, Completed
<1>6. Hashed' /\ Saved' /\ Reconciled'
  <2>1. Pending' = Pending /\ Seen' = Seen
    BY <1>2 DEF Pending, Seen
  <2> QED BY <1>1, <1>2, <2>1 DEF Control, Hashed, Saved, Reconciled
<1> QED BY <1>3, <1>4, <1>5, <1>6 DEF Control

\* Cancelling and the coming and going of the source touch no row.
LEMMA EnvironmentSteps ==
    ASSUME CInv, Cancel \/ Drop \/ Reach
    PROVE  CInv'
<1>1. Sorts /\ up \in BOOLEAN /\ scan \in Scans
  BY DEF CInv, Sorts
<1>2. /\ UNCHANGED <<disk, source, rows, checkpoint, files, queue>> /\ up' \in BOOLEAN
      /\ history' \in {history, Faulty}
      /\ \/ scan' = scan
         \/ scan' = [scan EXCEPT !.cancelled = TRUE] /\ scan.pc # "idle"
  BY <1>1 DEF Cancel, Drop, Reach, At
<1>3. /\ scan' \in Scans /\ scan'.from = scan.from /\ scan'.cache = scan.cache
      /\ scan'.visited = scan.visited
  BY <1>1, <1>2 DEF Scans
<1>4. Sorts' /\ Data'
  BY <1>2, <1>3, DataKept DEF Writes
<1>5. Control'
  BY <1>1, <1>2, HistoryKept, ControlKept
<1> QED BY <1>4, <1>5 DEF CInv

\* An edit marks what it changes, so the scan answers for the rest only.
LEMMA EditStep ==
    ASSUME CInv, NEW p \in Paths, Edit(p)
    PROVE  CInv'
<1>1. /\ Sorts /\ Data /\ Control
      /\ UNCHANGED <<source, up, rows, checkpoint, scan, files, queue>>
  BY DEF CInv, Edit
<1>2. PICK c \in (Contents \cup {Absent}) \ ({disk[p]} \cup Recorded(p)) :
       /\ disk' = [disk EXCEPT ![p] = c]
       /\ history' = [history EXCEPT !.faults = @ + 1, !.stable = @ \ {p},
                        !.gone = IF c = Absent THEN @ \cup {p} ELSE @]
  BY DEF Edit
<1>3. /\ disk' \in [Paths -> Contents \cup {Absent}] /\ disk'[p] = c
      /\ \A q \in Paths : q # p => disk'[q] = disk[q]
  BY <1>1, <1>2 DEF Sorts
<1>4. /\ history' \in Histories /\ history'.stable = history.stable \ {p}
      /\ history'.unread = history.unread
      /\ history'.gone = IF c = Absent THEN history.gone \cup {p} ELSE history.gone
  <2>1. PICK g : g = IF c = Absent THEN history.gone \cup {p} ELSE history.gone
    OBVIOUS
  <2>2. PICK s, n : s = history.stable \ {p} /\ n = history.faults + 1
    OBVIOUS
  <2>3. history' = [history EXCEPT !.faults = n, !.stable = s, !.gone = g]
    BY <1>2, <2>1, <2>2
  <2>4. history \in Histories /\ g \subseteq Paths /\ s \subseteq Paths /\ n \in Nat
    BY <1>1, <2>1, <2>2 DEF Sorts, Histories
  <2>5. /\ history' \in Histories /\ history'.stable = s /\ history'.gone = g
        /\ history'.unread = history.unread
    BY <2>3, <2>4 DEF Histories
  <2> QED BY <2>1, <2>2, <2>5
<1>5. ASSUME NEW t \in {rows, files, scan.cache}, p \in DOMAIN t
      PROVE  t[p].meta # disk'[p]
  BY <1>2, <1>3, <1>5 DEF Recorded
<1>6. /\ DOMAIN rows \subseteq Paths /\ DOMAIN files \subseteq Paths
      /\ DOMAIN scan.cache \subseteq Paths /\ history.stable \subseteq Paths
  BY <1>1, QueuePaths DEF Sorts, Histories
<1>7. Honest(rows)' /\ Honest(files)' /\ Honest(scan.cache)'
  <2>1. Honest(rows)'
    BY <1>1, <1>3, <1>5, <1>6 DEF Data, Honest
  <2>2. Honest(files)'
    BY <1>1, <1>3, <1>5, <1>6 DEF Data, Honest
  <2>3. Honest(scan.cache)'
    BY <1>1, <1>3, <1>5, <1>6 DEF Data, Honest
  <2> QED BY <2>1, <2>2, <2>3
<1>8. Sorts'
  BY <1>1, <1>3, <1>4 DEF Sorts
<1>9. StableStays' /\ Listed' /\ Queued'
  BY <1>1, <1>3, <1>4, <1>6 DEF Data, StableStays, Listed, Queued
<1>10. \A q \in history'.stable : RowStands(q) => RowStands(q)'
  BY <1>1, <1>3, <1>4, <1>6 DEF RowStands
<1>11. Durable'
  BY <1>1, <1>4, <1>10 DEF Data, Durable
<1>12. CacheStands' /\ Revisited' /\ PrefixKnown'
  BY <1>1 DEF Data, CacheStands, Revisited, PrefixKnown
<1>13. Data'
  BY <1>7, <1>9, <1>11, <1>12 DEF Data
<1>14. Advancing'
  BY <1>1, <1>4, <1>10 DEF Control, Advancing
<1>15. Places' /\ Rests' /\ Settled' /\ Todo' /\ Walked' /\ Ended'
  BY <1>1, <1>4 DEF Control, Places, Rests, Settled, Todo, Walked, Ended
<1>16. Completed'
  <2>1. Prefix' = Prefix /\ \A q : HashOf(q)' = HashOf(q)
    BY <1>1 DEF Prefix, HashOf
  <2> QED BY <1>1, <2>1 DEF Control, Completed
<1>17. Hashed' /\ Saved' /\ Reconciled'
  <2>1. Pending' = Pending /\ Seen' = Seen
    BY <1>1 DEF Pending, Seen
  <2> QED BY <1>1, <2>1 DEF Control, Hashed, Saved, Reconciled
<1> QED BY <1>8, <1>13, <1>14, <1>15, <1>16, <1>17 DEF CInv, Control

-----------------------------------------------------------------------------
(* The invariant *)

\* The invariant holds initially.
LEMMA Initially == Init => CInv
<1> SUFFICES ASSUME Init PROVE CInv
  OBVIOUS
<1>1. /\ DOMAIN rows = {} /\ DOMAIN files = {} /\ rows \in Tables /\ files \in Lists
      /\ queue = {} /\ scan = Idle /\ files = << >>
  BY EmptyTable DEF Init
<1>2. /\ scan \in Scans /\ scan.pc = "idle" /\ scan.from = 0 /\ DOMAIN scan.cache = {}
      /\ scan.todo = {} /\ scan.visited = {}
  BY <1>1, IdleScan, EmptyTable
<1>3. history \in Histories /\ history.stable = {} /\ history.gone = {}
  BY DEF Init, Histories
<1>4. Sorts
  <2>1. Cardinality(queue) <= Workers
    BY <1>1, FS_EmptySet, ConstantsAssumption
  <2>2. disk \in [Paths -> Contents \cup {Absent}] /\ source \in Sources /\ up \in BOOLEAN
    BY ConstantsAssumption DEF Init
  <2>3. checkpoint \in [status : Statuses, last : 0..N]
    BY PathNumbers DEF Init, Statuses
  <2> QED BY <1>1, <1>2, <1>3, <2>1, <2>2, <2>3 DEF Sorts
<1>5. Data
  BY <1>1, <1>2, <1>3 DEF Data, Honest, StableStays, Listed, Durable, Queued, CacheStands, Revisited,
     PrefixKnown
<1>6. Control
  BY <1>1, <1>2 DEF Control, Places, Rests, Settled, Advancing, Todo, Walked, Ended, Completed,
     Hashed, Saved, Reconciled, After
<1> QED BY <1>4, <1>5, <1>6 DEF CInv

\* A stuttering step keeps the invariant.
LEMMA Stuttering ==
    ASSUME CInv, UNCHANGED vars
    PROVE  CInv'
<1>1. UNCHANGED <<disk, source, up, rows, checkpoint, scan, files, queue, history>>
  BY DEF vars
<1>2. Sorts' /\ Data'
  <2>1. Sorts /\ up' \in BOOLEAN /\ scan' \in Scans
    BY <1>1 DEF CInv, Sorts
  <2> QED BY <1>1, <2>1, DataKept DEF Writes
<1>3. Control'
  BY <1>1, ControlKept
<1> QED BY <1>2, <1>3 DEF CInv

\* Every step keeps the invariant.
LEMMA Inductive == CInv /\ [Next]_vars => CInv'
<1> SUFFICES ASSUME CInv, [Next]_vars PROVE CInv'
  OBVIOUS
<1>1. CASE UNCHANGED vars
  BY <1>1, Stuttering
<1>2. CASE \E mode \in Modes : Start(mode)
  BY <1>2, StartStep
<1>3. CASE RootUnavailable \/ RootUnreadable \/ SavePrefixFails \/ UpdateCheckpointFails
  BY <1>3, TraversalFails
<1>4. CASE Visit \/ Skip \/ Unreadable
  BY <1>4, VisitStep, SkipStep, UnreadableStep
<1>5. CASE WalkStops \/ WalkEnds \/ PassBoundary \/ PrefixLost
  BY <1>5, PointSteps
<1>6. CASE SavePrefix \/ UpdateCheckpoint
  BY <1>6, SavePrefixStep, UpdateCheckpointStep
<1>7. CASE Drain \/ BeginPass \/ NoCandidates \/ Revisit \/ NotRevisited \/ EndPass
  BY <1>7, DrainStep, BeginPassStep, NoCandidatesStep, RevisitStep, NotRevisitedStep, EndPassStep
<1>8. CASE \/ DrainCancelled \/ DrainError \/ DrainFails \/ PassRejected \/ FullCancelled
           \/ FullRefused \/ SaveFails \/ Finish \/ StoreFails \/ Crash
  BY <1>8, ReturningSteps
<1>9. CASE FullEnds \/ Save \/ Reconcile
  BY <1>9, FullEndsStep, SaveStep, ReconcileStep
<1>10. CASE \E p \in Paths : QuickHash(p) \/ FullHash(p)
  BY <1>10, QuickHashStep, FullHashStep
<1>11. CASE Cancel \/ Drop \/ Reach
  BY <1>11, EnvironmentSteps
<1>12. CASE \E p \in Paths : Edit(p)
  BY <1>12, EditStep
<1> QED
  BY <1>1, <1>2, <1>3, <1>4, <1>5, <1>6, <1>7, <1>8, <1>9, <1>10, <1>11, <1>12 DEF Next, ScanStep

\* The invariant holds in every reachable state.
LEMMA Invariance == Spec => []CInv
BY Initially, Inductive, PTL DEF Spec

\* Every state has rows, a checkpoint, a scan and a list of the kinds the code
\* declares, and the workers never hold more than their slots (runner.go Submit).
THEOREM TypeCorrect == Spec => []TypeOK
<1>1. CInv => TypeOK
  <2> SUFFICES ASSUME CInv PROVE TypeOK
    OBVIOUS
  <2>1. Sorts /\ Rests
    BY DEF CInv, Control
  <2>2. /\ DOMAIN rows \subseteq Paths /\ \A p \in DOMAIN rows : rows[p] \in Row
        /\ DOMAIN files \subseteq Paths /\ \A p \in DOMAIN files : files[p] \in File
    BY <2>1, TableMember, ListMember DEF Sorts
  <2>3. {checkpoint.last, scan.from, scan.last, scan.cursor} \subseteq 0 .. N
        /\ checkpoint.status \in Statuses
    BY <2>1 DEF Sorts, Scans
  <2> QED BY <2>1, <2>2, <2>3 DEF Sorts, Rests, TypeOK, Row, File, Statuses, At
<1> QED BY Invariance, <1>1, PTL

\* While a scan can be resumed, what lies behind its checkpoint is durable:
\* resume skips no file whose row a crash has lost (scan.go:376-398).
THEOREM PrefixIsDurable == Spec => []DurablePrefix
<1>1. CInv => DurablePrefix
  BY DEF CInv, Data, Durable, RowStands, DurablePrefix
<1> QED BY Invariance, <1>1, PTL

-----------------------------------------------------------------------------
(* The rows that nothing answers for *)

\* Only the reconciliation changes the status of a row.
LEMMA OtherRows ==
    ASSUME CInv, [Next]_vars, ~Reconcile, NEW p \in DOMAIN rows
    PROVE  rows'[p].status = rows[p].status
<1>1. rows' = rows \/ Persist
  BY DEF vars, Next, ScanStep, Start, RootUnavailable, RootUnreadable, Visit, Skip, Unreadable,
     WalkStops, WalkEnds, PassBoundary, SavePrefix, SavePrefixFails, PrefixLost, UpdateCheckpoint,
     UpdateCheckpointFails, DrainCancelled, Drain, DrainError, DrainFails, BeginPass, NoCandidates,
     Revisit, NotRevisited, EndPass, PassRejected, FullCancelled, FullRefused, FullEnds, Save,
     SaveFails, Finish, StoreFails, QuickHash, FullHash, Crash, Cancel, Drop, Reach, Edit, PersistFails
<1>2. CASE Persist
  <2>1. \A q \in DOMAIN rows \cup DOMAIN files :
           rows'[q] = IF q \notin DOMAIN files THEN rows[q]
                      ELSE [meta |-> files[q].meta, hash |-> files[q].hash,
                            status |-> IF q \in DOMAIN rows THEN rows[q].status ELSE "active"]
    BY <1>2 DEF Persist, Upsert
  <2>2. CASE p \in DOMAIN files
    <3>1. rows'[p] = [meta |-> files[p].meta, hash |-> files[p].hash, status |-> rows[p].status]
      BY <2>1, <2>2
    <3> QED BY <3>1
  <2>3. CASE p \notin DOMAIN files
    BY <2>1, <2>3
  <2> QED BY <2>2, <2>3
<1> QED BY <1>1, <1>2

\* A file that was there all through the scan is declared missing only if it
\* lies in the prefix that a resumed scan skips and its row was unavailable
\* (scan.go:716-737, sqlite.go:1146), wherever scans were interrupted.
THEOREM MissingOnlyIfGone == Spec => MissingWasGone
<1>1. ASSUME CInv, [Next]_vars, NEW p \in DOMAIN rows, rows[p].status # "missing",
             rows'[p].status = "missing"
      PROVE  p \in history.gone \/ (rows[p].status = "unavailable" /\ p <= scan.from)
  <2>1. Reconcile
    BY <1>1, OtherRows
  <2>2. Sorts /\ scan.pc = "reconcile" /\ ~scan.cancelled
    BY <1>1, <2>1 DEF CInv, Reconcile, At
  <2>3. Complete /\ p \notin Seen
    BY <1>1, <2>1 DEF Reconcile
  <2>4. scan.cursor = N /\ ~scan.partial
    BY <1>1, <2>2, <2>3, AfterTraversal DEF After, Complete
  <2>5. p \in Paths /\ rows[p] \in Row
    BY <2>2, TableMember DEF Sorts
  <2>6. p \notin DOMAIN files /\ ~(p \in DOMAIN scan.cache /\ p <= scan.from)
    BY <2>3 DEF Seen
  <2>7. p \in Nat /\ scan.from \in Nat /\ p <= N
    BY <1>1, <2>2, <2>5, AfterTraversal, PathNumbers, ConstantsAssumption DEF After
  <2>8. CASE p <= scan.from
    <3>1. rows[p].status # "active"
      BY <1>1, <2>6, <2>8 DEF CInv, Data, PrefixKnown
    <3> QED BY <1>1, <2>5, <2>8, <3>1 DEF Row
  <2>9. CASE ~(p <= scan.from)
    <3>1. scan.from < p /\ p <= scan.cursor
      BY <2>4, <2>7, <2>9
    <3> QED BY <1>1, <2>2, <2>4, <2>5, <2>6, <3>1, AfterTraversal DEF After
  <2> QED BY <2>8, <2>9
<1>2. CInv /\ [Next]_vars =>
        [\A p \in DOMAIN rows : rows[p].status # "missing" /\ rows'[p].status = "missing"
             => \/ p \in history.gone
                \/ rows[p].status = "unavailable" /\ p <= scan.from]_vars
  BY <1>1
<1> QED BY Invariance, <1>2, PTL DEF Spec, MissingWasGone

-----------------------------------------------------------------------------
(* The end of a scan *)

\* Only a scan that finishes within reach of its source completes.
LEMMA CompletesAtFinish ==
    ASSUME CInv, [Next]_vars, checkpoint'.status = "completed", checkpoint.status # "completed"
    PROVE  Finish /\ ~scan.away
<1>1. \A S : Return(S) => checkpoint'.status \in S
  BY DEF Return, CInv, Sorts
<1>2. ~Return(Unchanged) /\ ~Return(Give("aborted"))
      /\ ~Return(Give("aborted") \cup IF Checked /\ ~up THEN {"paused_network"} ELSE {})
      /\ ~Return(Give("aborted") \cup IF ~up /\ ~scan.denied THEN {"paused_network"} ELSE {})
  BY <1>1 DEF Give, Unchanged
<1>3. ASSUME NEW mode, Start(mode)
      PROVE  FALSE
  <2>1. checkpoint' = checkpoint \/ checkpoint' = [status |-> "running", last |-> 0]
    BY <1>3 DEF Start
  <2> QED BY <2>1
<1>4. ~UpdateCheckpoint
  BY DEF UpdateCheckpoint, CInv, Sorts
<1>5. checkpoint' # checkpoint
  OBVIOUS
<1>6. Finish
  BY <1>2, <1>3, <1>4, <1>5
     DEF vars, Next, ScanStep, RootUnavailable, RootUnreadable, Visit, Skip, Unreadable, WalkStops, WalkEnds,
     PassBoundary, SavePrefix, SavePrefixFails, PrefixLost, UpdateCheckpointFails,
     DrainCancelled, Drain, DrainError, DrainFails, BeginPass, NoCandidates, Revisit, NotRevisited,
     EndPass, PassRejected, FullCancelled, FullRefused, FullEnds, Save, SaveFails, Reconcile,
     StoreFails, QuickHash, FullHash, Crash, Cancel, Drop, Reach, Edit
<1> QED BY <1>1, <1>6 DEF Finish

\* Where the hash of a row comes from when the scan finishes.
LEMMA FinalHashes ==
    ASSUME CInv, scan.pc = "finish", NEW p \in DOMAIN rows, rows[p].status = "active"
    PROVE  /\ p \in DOMAIN files \cup Prefix
           /\ rows[p].hash = HashOf(p)
<1>1. p \in Seen
  BY DEF CInv, Control, Reconciled
<1>2. p \in DOMAIN files \cup Prefix
  BY <1>1 DEF Seen, Prefix
<1>3. CASE p \in DOMAIN files
  BY <1>2, <1>3 DEF CInv, Control, Saved, HashOf
<1>4. CASE p \notin DOMAIN files
  BY <1>2, <1>4 DEF CInv, Data, CacheStands, Prefix, HashOf
<1> QED BY <1>2, <1>3, <1>4

\* When a scan completes, its duplicate candidates have the full hash of
\* their content or a failure it reports, also across the boundary of a
\* resume (scan.go:512-651).
THEOREM CompletionMeansHashed == Spec => CompletedIsHashed
<1>1. ASSUME CInv, [Next]_vars, checkpoint'.status = "completed", checkpoint.status # "completed",
             NEW p \in history.stable \cap DOMAIN rows, NEW q \in history.stable \cap DOMAIN rows,
             p # q, rows[p].status = "active", rows[q].status = "active",
             rows[p].hash.quick # None, rows[p].hash.quick = rows[q].hash.quick
      PROVE  rows[p].hash.full = disk[p] \/ (p \in DOMAIN files /\ files[p].failed)
  <2>1. scan.pc = "finish" /\ ~scan.away
    BY <1>1, CompletesAtFinish DEF Finish, At
  <2>2. /\ p \in DOMAIN files \cup Prefix /\ rows[p].hash = HashOf(p)
        /\ q \in DOMAIN files \cup Prefix /\ rows[q].hash = HashOf(q)
    BY <1>1, <2>1, FinalHashes
  <2>3. Completed /\ Hashed /\ Sorts /\ Data
    BY <1>1 DEF CInv, Control
  <2>4. CASE p \in Prefix \ DOMAIN files
    <3>1. HashOf(p).full # None
      BY <1>1, <2>1, <2>2, <2>3, <2>4 DEF Completed
    <3>2. p <= checkpoint.last
      <4>1. p \in Paths /\ p <= scan.from
        BY <2>3, <2>4, QueuePaths DEF Prefix
      <4> QED BY <1>1, <2>1, <4>1, AfterTraversal, PathNumbers DEF After
    <3>3. rows[p].meta = disk[p]
      BY <1>1, <2>3, <3>2 DEF Data, Durable, RowStands
    <3> QED BY <1>1, <2>2, <2>3, <3>1, <3>3 DEF Data, Honest
  <2>5. CASE p \in DOMAIN files /\ q \in Prefix \ DOMAIN files
    <3>1. HashOf(p).full # None
      BY <1>1, <2>1, <2>2, <2>3, <2>5 DEF Completed
    <3>2. files[p].meta = disk[p]
      BY <1>1, <2>3, <2>5 DEF Data, Listed
    <3> QED BY <2>2, <2>3, <2>5, <3>1, <3>2 DEF Data, Honest, HashOf
  <2>6. CASE p \in DOMAIN files /\ q \in DOMAIN files
    <3>1. files[p].hash = rows[p].hash /\ files[q].hash = rows[q].hash
      BY <2>2, <2>6 DEF HashOf
    <3>2. files[p].hash.full # None \/ files[p].failed
      BY <1>1, <2>1, <2>3, <2>6, <3>1 DEF Hashed, Pending
    <3>3. files[p].meta = disk[p]
      BY <1>1, <2>3, <2>6 DEF Data, Listed
    <3> QED BY <2>3, <2>6, <3>1, <3>2, <3>3 DEF Data, Honest
  <2> QED BY <2>2, <2>4, <2>5, <2>6
<1>2. CInv /\ [Next]_vars =>
        [checkpoint'.status = "completed" /\ checkpoint.status # "completed" =>
           \A p, q \in history.stable \cap DOMAIN rows :
             /\ p # q /\ rows[p].status = "active" /\ rows[q].status = "active"
             /\ rows[p].hash.quick # None /\ rows[p].hash.quick = rows[q].hash.quick
             => \/ rows[p].hash.full = disk[p]
                \/ p \in DOMAIN files /\ files[p].failed]_vars
  BY <1>1
<1> QED BY Invariance, <1>2, PTL DEF Spec, CompletedIsHashed
=============================================================================
