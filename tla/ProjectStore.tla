---------------------------- MODULE ProjectStore ----------------------------
(***************************************************************************)
(* Projects on disk: how several processes (desktop windows, CLI commands) *)
(* create a project from a source, open a project database for writing or  *)
(* for reading, bring its schema up to date, and share the list of recent  *)
(* projects.  internal/project/service.go claims a directory with mkdir    *)
(* and rolls the claim back on any failure; store.Open takes the owner     *)
(* lease, looks at the layout before it writes, and then runs migrations   *)
(* that are not one transaction.  A process may die between any two steps. *)
(*                                                                         *)
(* Places 1..N are the directories that one display name can be given, in  *)
(* the order claimProjectDirectory tries them; place 0 is a database file  *)
(* the user keeps elsewhere, which may hold anything at first.             *)
(***************************************************************************)
EXTENDS Integers, Sequences, FiniteSets

CONSTANTS
    Proc,        \* processes
    N,           \* candidate directories of the display name
    Root,        \* readable directories outside the application's own one
    Below,       \* <<r, s>> when r is s or lies inside s
    Covering,    \* <<r, d>> when r contains the database of place d
    MaxRecent,   \* recentMaxEntries
    MaxSessions, \* creations and opens that are begun
    MaxCrashes,  \* processes that die
    None         \* no process, no root

ASSUME ProjectStoreAssumption ==
    /\ N \in Nat \ {0} /\ MaxRecent \in Nat \ {0}
    /\ MaxSessions \in Nat /\ MaxCrashes \in Nat
    /\ None \notin Proc \cup Root
    /\ Below \subseteq Root \X Root /\ \A r \in Root : <<r, r>> \in Below
    /\ Covering \subseteq Root \X (0 .. N)

Dir   == 1 .. N
Place == 0 .. N

\* A layout as preflightGovernanceSchema tells them apart: no file, a file
\* without objects, an unfinished initialisation, a complete release before
\* governance, the present schema, and a database of something else.
Layout == {"none", "empty", "partial", "legacy", "current", "foreign"}

VARIABLES
    dirs,      \* project directories that exist
    db,        \* layout of the database at each place
    meta,      \* directories with a project.json
    source,    \* storages registered in the database of each place
    owner,     \* the process holding the place's owner lease
    recent,    \* the manifest of recent projects, latest first
    listLock,  \* the process holding the manifest's lock
    session,   \* what each process is doing
    begun,     \* sessions begun so far
    crashes    \* processes that died so far

disk   == <<dirs, db, meta, source>>
list   == <<recent, listLock>>
bounds == <<begun, crashes>>
vars   == <<disk, owner, list, session, bounds>>

Idle == [pc |-> "idle", kind |-> "none", at |-> 0, root |-> None, seen |-> <<>>]

\* In these steps a session that writes holds the owner lease of its place.
Holding == {"file", "preflight", "migrate", "govern", "register", "meta",
            "wire", "record", "write", "open"}

At(p, pc) == session[p].pc = pc
Goto(p, pc) == session' = [session EXCEPT ![p].pc = pc]

Init ==
    /\ dirs = {} /\ meta = {}
    /\ db \in {f \in [Place -> {"none", "legacy", "foreign"}] :
                  \A d \in Dir : f[d] = "none"}
    /\ source = [d \in Place |-> {}]
    /\ owner = [d \in Place |-> None]
    /\ recent = <<>> /\ listLock = None
    /\ session = [p \in Proc |-> Idle]
    /\ begun = 0 /\ crashes = 0

-----------------------------------------------------------------------------
(* Creating a project from a source *)

\* ValidateScanSource with the sources `existing` of the project at place d;
\* CreateFromSource names no project file, so d is then no place.
ValidScanSource(r, existing, d) ==
    /\ <<r, d>> \notin Covering
    /\ \A s \in existing : <<r, s>> \notin Below /\ <<s, r>> \notin Below

CreateFromSource(p, r) ==
    /\ At(p, "idle") /\ begun < MaxSessions /\ begun' = begun + 1
    /\ ValidScanSource(r, {}, None)
    /\ session' = [session EXCEPT ![p] = [Idle EXCEPT
                       !.pc = "claim", !.kind = "create", !.at = 1, !.root = r]]
    /\ UNCHANGED <<disk, owner, list, crashes>>

\* Mutant of Claim: a directory that exists already is taken as claimed
\* (MkdirAll in the place of Mkdir).
ClaimAnyway(p) ==
    LET d == session[p].at IN
    /\ At(p, "claim")
    /\ dirs' = dirs \cup {d}
    /\ Goto(p, "lease")
    /\ UNCHANGED <<db, meta, source, owner, list, bounds>>

\* One mkdir: the directory is this process's, or the next name is tried.
Claim(p) ==
    LET d == session[p].at IN
    /\ At(p, "claim")
    /\ \/ /\ d \notin dirs
          /\ dirs' = dirs \cup {d}
          /\ Goto(p, "lease")
       \/ /\ d \in dirs /\ UNCHANGED dirs
          /\ session' = [session EXCEPT ![p] = IF d < N THEN [@ EXCEPT !.at = d + 1]
                                                         ELSE Idle]
    /\ UNCHANGED <<db, meta, source, owner, list, bounds>>

-----------------------------------------------------------------------------
(* Opening a database *)

\* The user opens what was handed over, never a directory whose creation or
\* removal is under way in another process: nothing in the program shows it.
Settled(d) ==
    /\ d = 0 \/ d \in dirs
    /\ \A q \in Proc : session[q].kind = "create" /\ session[q].at = d =>
           session[q].pc \in {"claim", "record", "write", "open"}

\* OpenProjectReadWrite of the desktop, or a command of the CLI.
OpenReadWrite(p, kind, d) ==
    /\ At(p, "idle") /\ begun < MaxSessions /\ begun' = begun + 1 /\ Settled(d)
    /\ kind \in {"desktop", "command"}
    /\ session' = [session EXCEPT ![p] = [Idle EXCEPT
                       !.pc = "lease", !.kind = kind, !.at = d]]
    /\ UNCHANGED <<disk, owner, list, crashes>>

\* OpenProject, the read-only desktop session: no lease, no migration, but
\* listing the storages must work.
OpenProject(p, d) ==
    /\ At(p, "idle") /\ begun < MaxSessions /\ begun' = begun + 1 /\ Settled(d)
    /\ db[d] \in {"partial", "legacy", "current"}
    /\ session' = [session EXCEPT ![p] = [Idle EXCEPT
                       !.pc = "record", !.kind = "reader", !.at = d]]
    /\ UNCHANGED <<disk, owner, list, crashes>>

\* Mutant of Abort: a failed open returns without releasing the lease.
AbortKeepsLease(p) ==
    /\ UNCHANGED owner
    /\ session' = [session EXCEPT ![p] = IF @.kind = "create"
                       THEN [@ EXCEPT !.pc = "remove"] ELSE Idle]

\* An error before the session is handed over: the database is closed, the
\* lease released, and only then a creation removes the directory it claimed.
Abort(p) ==
    /\ owner' = [d \in Place |-> IF owner[d] = p THEN None ELSE owner[d]]
    /\ session' = [session EXCEPT ![p] = IF @.kind = "create"
                       THEN [@ EXCEPT !.pc = "remove"] ELSE Idle]

\* The lease is a non-blocking flock: a held one refuses the open.
AcquireOwner(p) ==
    LET d == session[p].at IN
    /\ At(p, "lease")
    /\ \/ /\ owner[d] = None
          /\ owner' = [owner EXCEPT ![d] = p]
          /\ Goto(p, "file")
       \/ owner[d] # None /\ Abort(p)
    /\ UNCHANGED <<disk, list, bounds>>

CreateFile(p) ==
    LET d == session[p].at IN
    /\ At(p, "file")
    /\ db' = [db EXCEPT ![d] = IF @ = "none" THEN "empty" ELSE @]
    /\ Goto(p, "preflight")
    /\ UNCHANGED <<dirs, meta, source, owner, list, bounds>>

\* Mutant of Preflight: any database that can be read is taken.
PreflightAny(p) ==
    /\ At(p, "preflight") /\ Goto(p, "migrate")
    /\ UNCHANGED <<disk, owner, list, bounds>>

\* Only an empty file and the two known layouts go on to the writable open.
Preflight(p) ==
    /\ At(p, "preflight")
    /\ \/ /\ db[session[p].at] \in {"empty", "legacy", "current"}
          /\ Goto(p, "migrate") /\ UNCHANGED owner
       \/ db[session[p].at] \in {"partial", "foreign"} /\ Abort(p)
    /\ UNCHANGED <<disk, list, bounds>>

\* The migrations before governance commit statement by statement; on a
\* complete layout they change nothing.
Migrated(layout) ==
    CASE layout \in {"legacy", "current"} -> {layout}
      [] layout = "empty"                 -> {"partial", "legacy"}
      [] OTHER                            -> {"partial", "legacy"} \ {layout}

Migrate(p) ==
    LET d == session[p].at IN
    /\ At(p, "migrate")
    /\ \E l \in Migrated(db[d]) :
          /\ db' = [db EXCEPT ![d] = l]
          /\ Goto(p, IF l = "partial" THEN "migrate" ELSE "govern")
    /\ UNCHANGED <<dirs, meta, source, owner, list, bounds>>

\* One transaction brings tables, columns and version marker together.
ApplyGovernanceMigration(p) ==
    LET d == session[p].at IN
    /\ At(p, "govern")
    /\ db' = [db EXCEPT ![d] = "current"]
    /\ Goto(p, CASE session[p].kind = "create"  -> "register"
                 [] session[p].kind = "desktop" -> "wire"
                 [] session[p].kind = "command" -> "open")
    /\ UNCHANGED <<dirs, meta, source, owner, list, bounds>>

-----------------------------------------------------------------------------
(* The rest of a creation, and the recent projects *)

RegisterStorage(p) ==
    /\ At(p, "register")
    /\ source' = [source EXCEPT ![session[p].at] = @ \cup {session[p].root}]
    /\ Goto(p, "meta")
    /\ UNCHANGED <<dirs, db, meta, owner, list, bounds>>

\* project.json appears with one rename; syncing the directory after it can
\* still fail.
WriteMeta(p) ==
    /\ At(p, "meta")
    /\ meta' = meta \cup {session[p].at}
    /\ \/ Goto(p, "wire") /\ UNCHANGED owner
       \/ Abort(p)
    /\ UNCHANGED <<dirs, db, source, list, bounds>>

\* The adapter builds its services and reads the project's storages.
Wire(p) ==
    /\ At(p, "wire") /\ Goto(p, "record")
    /\ UNCHANGED <<disk, owner, list, bounds>>

\* Mutant of LockRecent: a held lock is not waited for.
LockRecentNoWait(p) ==
    /\ At(p, "record")
    /\ listLock' = p
    /\ session' = [session EXCEPT ![p].pc = "write", ![p].seen = recent]
    /\ UNCHANGED <<disk, owner, recent, bounds>>

\* RecordRecent waits for the lock of the manifest and reads it.
LockRecent(p) ==
    /\ At(p, "record")
    /\ listLock = None /\ listLock' = p
    /\ session' = [session EXCEPT ![p].pc = "write", ![p].seen = recent]
    /\ UNCHANGED <<disk, owner, recent, bounds>>

\* The place to the front, the others in order, the list cut to its length.
\* The list names a place at most once, so the filter drops one entry.
Recorded(entries, d) ==
    LET others == IF \E i \in 1 .. Len(entries) : entries[i] = d
                  THEN LET i == CHOOSE i \in 1 .. Len(entries) : entries[i] = d
                       IN  SubSeq(entries, 1, i - 1) \o SubSeq(entries, i + 1, Len(entries))
                  ELSE entries
        moved  == <<d>> \o others
    IN  SubSeq(moved, 1, IF Len(moved) > MaxRecent THEN MaxRecent ELSE Len(moved))

WriteRecent(p) ==
    /\ At(p, "write")
    /\ recent' = Recorded(session[p].seen, session[p].at)
    /\ listLock' = None
    /\ session' = [session EXCEPT ![p].pc = "open", ![p].seen = <<>>]
    /\ UNCHANGED <<disk, owner, bounds>>

\* Every error of RecordRecent is ignored by its callers.
SkipRecent(p) ==
    /\ session[p].pc \in {"record", "write"}
    /\ listLock' = IF listLock = p THEN None ELSE listLock
    /\ session' = [session EXCEPT ![p].pc = "open", ![p].seen = <<>>]
    /\ UNCHANGED <<disk, owner, recent, bounds>>

-----------------------------------------------------------------------------
(* An open project, and every way a session ends *)

\* RegisterScanSource looks at the sources already registered.
RegisterScanSource(p, r) ==
    LET d == session[p].at IN
    /\ At(p, "open") /\ session[p].kind \in {"create", "desktop"}
    /\ ValidScanSource(r, source[d], d)
    /\ source' = [source EXCEPT ![d] = @ \cup {r}]
    /\ UNCHANGED <<dirs, db, meta, owner, list, session, bounds>>

\* A scan registers its own root; StartScan only refuses a root that contains
\* the project's database, the command of the CLI takes any.
StartScan(p, r) ==
    LET d == session[p].at IN
    /\ At(p, "open") /\ session[p].kind # "reader"
    /\ session[p].kind = "command" \/ <<r, d>> \notin Covering
    /\ source' = [source EXCEPT ![d] = @ \cup {r}]
    /\ UNCHANGED <<dirs, db, meta, owner, list, session, bounds>>

CloseProject(p) ==
    /\ At(p, "open")
    /\ owner' = [d \in Place |-> IF owner[d] = p THEN None ELSE owner[d]]
    /\ session' = [session EXCEPT ![p] = Idle]
    /\ UNCHANGED <<disk, list, bounds>>

\* The disk or SQLite refuses a step of the open or of the creation.
Fail(p) ==
    /\ session[p].pc \in {"file", "migrate", "govern", "register", "meta", "wire"}
    /\ Abort(p)
    /\ UNCHANGED <<disk, list, bounds>>

\* RemoveAll of the claimed directory, entry by entry, the directory last; an
\* error stops it and is ignored.
RemoveClaimed(p) ==
    LET d == session[p].at IN
    /\ At(p, "remove")
    /\ \/ /\ db[d] # "none"
          /\ db' = [db EXCEPT ![d] = "none"]
          /\ source' = [source EXCEPT ![d] = {}]
          /\ UNCHANGED <<dirs, meta, session>>
       \/ /\ d \in meta /\ meta' = meta \ {d}
          /\ UNCHANGED <<dirs, db, source, session>>
       \/ /\ db[d] = "none" /\ d \notin meta
          /\ dirs' = dirs \ {d}
          /\ session' = [session EXCEPT ![p] = Idle]
          /\ UNCHANGED <<db, meta, source>>
       \/ /\ session' = [session EXCEPT ![p] = Idle]
          /\ UNCHANGED disk
    /\ UNCHANGED <<owner, list, bounds>>

\* The process dies; the kernel drops its locks, the disk stays as it is.
Crash(p) ==
    /\ ~At(p, "idle") /\ crashes < MaxCrashes
    /\ crashes' = crashes + 1
    /\ owner' = [d \in Place |-> IF owner[d] = p THEN None ELSE owner[d]]
    /\ listLock' = IF listLock = p THEN None ELSE listLock
    /\ session' = [session EXCEPT ![p] = Idle]
    /\ UNCHANGED <<disk, recent, begun>>

Next ==
    \E p \in Proc :
        \/ \E r \in Root : CreateFromSource(p, r) \/ RegisterScanSource(p, r) \/ StartScan(p, r)
        \/ \E d \in Place, kind \in {"desktop", "command"} : OpenReadWrite(p, kind, d)
        \/ \E d \in Place : OpenProject(p, d)
        \/ Claim(p) \/ AcquireOwner(p) \/ CreateFile(p) \/ Preflight(p) \/ Migrate(p)
        \/ ApplyGovernanceMigration(p) \/ RegisterStorage(p) \/ WriteMeta(p) \/ Wire(p)
        \/ LockRecent(p) \/ WriteRecent(p) \/ SkipRecent(p)
        \/ CloseProject(p) \/ Fail(p) \/ RemoveClaimed(p) \/ Crash(p)

Spec == Init /\ [][Next]_vars

-----------------------------------------------------------------------------
(* Properties *)

\* A session holds the owner lease of its place exactly while it writes there,
\* and the manifest's lock exactly while it records: neither outlives a failed
\* open (store.Open, CreateFromSource), a close, or the process.
TypeOK ==
    /\ dirs \subseteq Dir /\ meta \subseteq dirs
    /\ db \in [Place -> Layout] /\ source \in [Place -> SUBSET Root]
    /\ \A d \in Dir : db[d] # "none" => d \in dirs
    /\ \A p \in Proc, d \in Place :
          owner[d] = p <=> /\ session[p].kind # "reader" /\ session[p].at = d
                           /\ session[p].pc \in Holding
    /\ \A p \in Proc : listLock = p <=> At(p, "write")
    /\ recent \in Seq(Place) /\ Len(recent) <= MaxRecent
    /\ \A i, j \in 1 .. Len(recent) : recent[i] = recent[j] => i = j
    /\ begun \in 0 .. MaxSessions /\ crashes \in 0 .. MaxCrashes

\* A project handed to its user stays whole while it is open: its directory,
\* its database at the present schema, its project.json and the source it was
\* made from, whatever another creation of the same name claims, loses and
\* rolls back meanwhile (claimProjectDirectory, removeClaimedProjectDir).
HandedOver ==
    \A p \in Proc :
        session[p].kind = "create" /\ session[p].pc \in {"record", "write", "open"} =>
            LET d == session[p].at IN
            d \in dirs /\ d \in meta /\ db[d] = "current" /\ session[p].root \in source[d]

\* The recent projects name only databases that are there: no creation that
\* was rolled back is offered to the user (RecordRecent after the handover).
RecentStands ==
    \A i \in 1 .. Len(recent) : db[recent[i]] \notin {"none", "empty"}

\* What a user has been given stands: an open project is whole, and a recent
\* project is on the disk (project/service.go CreateFromSource, RecordRecent).
ProjectsStand == HandedOver /\ RecentStands

\* Every change of the manifest is one project moved to the front of the list
\* as it was: two processes that record at once never lose each other's entry
\* (RecordRecent under lockFile).
RecentKeeps ==
    [][recent' # recent => \E d \in Place : recent' = Recorded(recent, d)]_vars

\* A database that is not this program's is never written, and one that has
\* the present schema keeps it, with every storage registered in it, unless
\* the creation that claimed its directory is taking itself back
\* (preflightGovernanceSchema before the writable open, Init, RegisterStorage).
DatabasesAreKept ==
    [][\A d \in Place :
          /\ db[d] = "foreign" => db'[d] = "foreign"
          /\ db[d] = "current" =>
                \/ db'[d] = "current" /\ source[d] \subseteq source'[d]
                \/ \E p \in Proc : /\ session[p].kind = "create" /\ session[p].at = d
                                   /\ At(p, "remove")]_vars
=============================================================================
