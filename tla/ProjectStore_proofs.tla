------------------------ MODULE ProjectStore_proofs ------------------------
(***************************************************************************)
(* That an open project stays whole, that recording never loses an entry   *)
(* and that no foreign database is written, for any number of processes,   *)
(* directories and sources.  The heart of the argument is Exclusive: from  *)
(* its mkdir until it hands the project over or has taken it back, a       *)
(* creation is alone at its place, so a rollback destroys nothing of       *)
(* anybody else.  The mkdir alone gives that to the creation: every other  *)
(* session at a place needs the directory to be there already.             *)
(***************************************************************************)
EXTENDS ProjectStore, SequenceTheorems, TLAPS

Steps == Holding \cup {"idle", "claim", "lease", "remove"}
Kinds == {"none", "create", "desktop", "command", "reader"}
Sessions == [pc : Steps, kind : Kinds, at : Place, root : Root \cup {None}, seen : Seq(Place)]

SessionTypeOK ==
    /\ session \in [Proc -> Sessions]
    /\ owner \in [Place -> Proc \cup {None}] /\ listLock \in Proc \cup {None}

\* What the step of a session says of its kind, place and source.
SessionOK(p) ==
    LET s == session[p] IN
    /\ s.pc = "idle" => s = Idle
    /\ s.kind = "none" => s.pc = "idle"
    /\ s.kind = "create" => s.at \in Dir /\ s.root \in Root
    /\ s.pc \in {"claim", "register", "meta", "remove"} => s.kind = "create"
    /\ s.kind = "reader" => s.pc \in {"record", "write", "open"}
    /\ s.kind = "command" => s.pc \notin {"wire", "record", "write"}
    /\ s.pc = "write" => s.seen = recent

\* How far the work of a session has come on the disk.
Progress(p) ==
    LET s == session[p] IN
    /\ s.pc \notin {"idle", "claim"} => s.at = 0 \/ s.at \in dirs
    /\ s.pc = "preflight" => db[s.at] # "none"
    /\ s.pc = "migrate" => db[s.at] \in {"empty", "partial", "legacy", "current"}
    /\ s.pc = "govern" => db[s.at] \in {"legacy", "current"}
    /\ s.pc \in {"register", "meta", "wire"} => db[s.at] = "current"
    /\ s.pc \in {"record", "write", "open"} =>
          /\ db[s.at] \in {"partial", "legacy", "current"}
          /\ s.kind # "reader" => db[s.at] = "current"
    /\ s.kind = "create" /\ s.pc \in {"meta", "wire"} => s.root \in source[s.at]
    /\ s.kind = "create" /\ s.pc = "wire" => s.at \in meta

\* A creation between its mkdir and the handover or the end of its rollback.
Making == {"lease", "file", "preflight", "migrate", "govern", "register", "meta",
           "wire", "remove"}
MakingAt(p, d) == session[p].kind = "create" /\ session[p].at = d /\ session[p].pc \in Making

Exclusive ==
    \A p, q \in Proc, d \in Place :
        p # q /\ MakingAt(p, d) /\ session[q].at = d => session[q].pc \in {"idle", "claim"}

RecentIsMade ==
    \A i \in 1 .. Len(recent) :
        /\ db[recent[i]] \notin {"none", "empty"}
        /\ \A p \in Proc : ~MakingAt(p, recent[i])

NoForeignDir == \A d \in Dir : db[d] # "foreign"

IInv ==
    /\ TypeOK /\ SessionTypeOK /\ NoForeignDir
    /\ \A p \in Proc : SessionOK(p) /\ Progress(p)
    /\ Exclusive /\ RecentIsMade /\ HandedOver

-----------------------------------------------------------------------------
(* Steps of one session *)

\* The step of p makes its session s; s has a place to exclude others from, or
\* to be excluded from, only if it had that place before.
Onward(p, s) ==
    /\ session' = [session EXCEPT ![p] = s]
    /\ s.pc \notin {"idle", "claim"} => /\ session[p].pc \notin {"idle", "claim"}
                                        /\ s.at = session[p].at /\ s.kind = session[p].kind
    /\ s.kind = "create" /\ s.pc \in Making => session[p].pc \in Making

\* Moving on to step x changes nothing else of the session (Goto).
LEMMA GotoStep ==
    ASSUME SessionTypeOK, NEW p \in Proc, NEW x \in Steps, Goto(p, x)
    PROVE  \E s \in Sessions :
              /\ session' = [session EXCEPT ![p] = s]
              /\ s.pc = x /\ s.kind = session[p].kind /\ s.at = session[p].at
              /\ s.root = session[p].root /\ s.seen = session[p].seen
<1> DEFINE s == [session[p] EXCEPT !.pc = x]
<1>1. session[p] \in Sessions
  BY DEF SessionTypeOK
<1>2. /\ s \in Sessions /\ s.pc = x /\ s.kind = session[p].kind /\ s.at = session[p].at
      /\ s.root = session[p].root /\ s.seen = session[p].seen
  BY <1>1 DEF Sessions
<1>3. session' = [session EXCEPT ![p] = s]
  BY DEF Goto
<1> QED BY <1>2, <1>3

\* A session without a purpose is a session (Idle).
LEMMA IdleIsSession ==
    ASSUME ProjectStoreAssumption
    PROVE  /\ Idle \in Sessions /\ Idle.pc = "idle" /\ Idle.kind = "none" /\ Idle.at = 0
           /\ Idle.root = None /\ Idle.seen = <<>>
BY DEF Idle, Sessions, Steps, Kinds, Place

\* One session stepping onward keeps every creation alone (Exclusive).
LEMMA OnwardKeepsExclusive ==
    ASSUME SessionTypeOK, Exclusive, NEW p \in Proc, NEW s \in Sessions, Onward(p, s)
    PROVE  Exclusive'
<1> SUFFICES ASSUME NEW x \in Proc, NEW q \in Proc, NEW d \in Place, x # q,
                    MakingAt(x, d)', session'[q].at = d
             PROVE  session'[q].pc \in {"idle", "claim"}
  BY DEF Exclusive
<1>1. session'[p] = s /\ \A r \in Proc \ {p} : session'[r] = session[r]
  BY DEF Onward, SessionTypeOK
<1>2. CASE x = p
  <2>1. MakingAt(p, d)
    BY <1>1, <1>2 DEF MakingAt, Making, Onward
  <2> QED BY <1>1, <1>2, <2>1 DEF Exclusive
<1>3. CASE q = p
  <2>1. MakingAt(x, d)
    BY <1>1, <1>3 DEF MakingAt
  <2>2. CASE s.pc \notin {"idle", "claim"}
    <3>1. session[p].at = d /\ session[p].pc \notin {"idle", "claim"}
      BY <1>1, <1>3, <2>2 DEF Onward
    <3> QED BY <1>3, <2>1, <3>1 DEF Exclusive
  <2> QED BY <1>1, <1>3, <2>2
<1>4. CASE x # p /\ q # p
  BY <1>1, <1>4 DEF Exclusive, MakingAt
<1> QED BY <1>2, <1>3, <1>4

\* Creating the file makes a layout without objects at the most (CreateFile).
LEMMA CreateFileKeeps ==
    ASSUME ProjectStoreAssumption, IInv, NEW p \in Proc, CreateFile(p)
    PROVE  IInv'
<1>0. PICK s \in Sessions :
         /\ session' = [session EXCEPT ![p] = s] /\ s.pc = "preflight"
         /\ s.kind = session[p].kind /\ s.at = session[p].at
         /\ s.root = session[p].root /\ s.seen = session[p].seen
  BY GotoStep DEF CreateFile, IInv, Steps, Holding
<1>w. session[p].at \in Place /\ (session[p].at \in Dir => session[p].at \in dirs)
  <2>1. session[p].at \in Place
    BY DEF IInv, SessionTypeOK, Sessions
  <2>2. session[p].at = 0 \/ session[p].at \in dirs
    BY DEF CreateFile, IInv, Progress, At
  <2> QED BY <2>1, <2>2 DEF Dir
<1>1. TypeOK'
  <2>1. \A q \in Proc, e \in Place :
           owner'[e] = q <=> /\ session'[q].kind # "reader" /\ session'[q].at = e
                             /\ session'[q].pc \in Holding
    BY <1>0 DEF CreateFile, IInv, TypeOK, Holding, At
  <2>2. \A q \in Proc : listLock' = q <=> session'[q].pc = "write"
    BY <1>0 DEF CreateFile, IInv, TypeOK, At, list
  <2>3. /\ dirs' \subseteq Dir /\ meta' \subseteq dirs'
        /\ db' \in [Place -> Layout] /\ source' \in [Place -> SUBSET Root]
        /\ \A e \in Dir : db'[e] # "none" => e \in dirs'
    <3>1. Dir \subseteq Place /\ "empty" \in Layout
      BY DEF Dir, Place, Layout
    <3>2. \A e \in Dir : db'[e] # "none" => e \in dirs'
      BY <1>w, <3>1 DEF CreateFile, IInv, TypeOK
    <3>3. db' \in [Place -> Layout]
      BY <1>w, <3>1 DEF CreateFile, IInv, TypeOK
    <3> QED BY <3>2, <3>3 DEF CreateFile, IInv, TypeOK
  <2>4. /\ recent' \in Seq(Place) /\ Len(recent') <= MaxRecent
        /\ \A i, j \in 1 .. Len(recent') : recent'[i] = recent'[j] => i = j
        /\ begun' \in 0 .. MaxSessions /\ crashes' \in 0 .. MaxCrashes
    BY DEF CreateFile, IInv, TypeOK, list, bounds
  <2> QED BY <2>1, <2>2, <2>3, <2>4 DEF TypeOK, At
<1>2. SessionTypeOK'
  BY <1>0 DEF CreateFile, IInv, SessionTypeOK, list
<1>3. NoForeignDir'
  BY DEF CreateFile, IInv, NoForeignDir
<1>4. (\A q \in Proc : SessionOK(q))'
  BY <1>0 DEF CreateFile, IInv, SessionOK, At, list
<1>5. (\A q \in Proc : Progress(q))'
  BY <1>0 DEF CreateFile, IInv, TypeOK, Progress, Sessions, At
<1>6. Exclusive'
  BY <1>0, OnwardKeepsExclusive DEF CreateFile, IInv, Onward, At, Making
<1>7. RecentIsMade'
  BY <1>0 DEF CreateFile, IInv, RecentIsMade, MakingAt, Making, At, list
<1>8. HandedOver'
  BY <1>0 DEF CreateFile, IInv, HandedOver
<1> QED BY <1>1, <1>2, <1>3, <1>4, <1>5, <1>6, <1>7, <1>8 DEF IInv

\* A statement of the old migrations leads to a known layout (Migrate).
LEMMA MigrateKeeps ==
    ASSUME ProjectStoreAssumption, IInv, NEW p \in Proc, Migrate(p)
    PROVE  IInv'
<1> DEFINE d == session[p].at
<1>a. PICK l \in Migrated(db[d]) :
         /\ db' = [db EXCEPT ![d] = l]
         /\ Goto(p, IF l = "partial" THEN "migrate" ELSE "govern")
  BY DEF Migrate
<1>b. /\ db[d] \in {"empty", "partial", "legacy", "current"}
      /\ l \in {"partial", "legacy", "current"} 
      /\ (db[d] = "current" <=> l = "current") /\ (db[d] = "legacy" => l = "legacy")
  BY DEF Migrate, Migrated, IInv, Progress, At
<1>0. PICK s \in Sessions :
         /\ session' = [session EXCEPT ![p] = s]
         /\ s.pc = IF l = "partial" THEN "migrate" ELSE "govern"
         /\ s.kind = session[p].kind /\ s.at = session[p].at
         /\ s.root = session[p].root /\ s.seen = session[p].seen
  BY <1>a, GotoStep DEF IInv, Steps, Holding
<1>1. TypeOK'
  <2>1. \A q \in Proc, e \in Place :
           owner'[e] = q <=> /\ session'[q].kind # "reader" /\ session'[q].at = e
                             /\ session'[q].pc \in Holding
    BY <1>0 DEF Migrate, IInv, TypeOK, Holding, At
  <2>2. \A q \in Proc : listLock' = q <=> session'[q].pc = "write"
    BY <1>0 DEF Migrate, IInv, TypeOK, At, list
  <2>3. /\ dirs' \subseteq Dir /\ meta' \subseteq dirs'
        /\ db' \in [Place -> Layout] /\ source' \in [Place -> SUBSET Root]
        /\ \A e \in Dir : db'[e] # "none" => e \in dirs'
    BY <1>0, <1>a, <1>b DEF Migrate, IInv, TypeOK, Sessions, Place, Layout
  <2>4. /\ recent' \in Seq(Place) /\ Len(recent') <= MaxRecent
        /\ \A i, j \in 1 .. Len(recent') : recent'[i] = recent'[j] => i = j
        /\ begun' \in 0 .. MaxSessions /\ crashes' \in 0 .. MaxCrashes
    BY DEF Migrate, IInv, TypeOK, list, bounds
  <2> QED BY <2>1, <2>2, <2>3, <2>4 DEF TypeOK, At
<1>2. SessionTypeOK'
  BY <1>0 DEF Migrate, IInv, SessionTypeOK, list
<1>3. NoForeignDir'
  BY <1>a, <1>b DEF Migrate, IInv, NoForeignDir
<1>4. (\A q \in Proc : SessionOK(q))'
  BY <1>0 DEF Migrate, IInv, SessionOK, At, list
<1>5. (\A q \in Proc : Progress(q))'
  BY <1>0, <1>a, <1>b DEF Migrate, IInv, TypeOK, Progress, Sessions, At
<1>6. Exclusive'
  BY <1>0, OnwardKeepsExclusive DEF Migrate, IInv, Onward, At, Making
<1>7. RecentIsMade'
  BY <1>0, <1>a, <1>b DEF Migrate, IInv, RecentIsMade, MakingAt, Making, At, list
<1>8. HandedOver'
  BY <1>0, <1>a, <1>b DEF Migrate, IInv, HandedOver
<1> QED BY <1>1, <1>2, <1>3, <1>4, <1>5, <1>6, <1>7, <1>8 DEF IInv

\* The governance migration leaves the present schema (ApplyGovernanceMigration).
LEMMA ApplyGovernanceMigrationKeeps ==
    ASSUME ProjectStoreAssumption, IInv, NEW p \in Proc, ApplyGovernanceMigration(p)
    PROVE  IInv'
<1>a. /\ session[p].kind \in {"create", "desktop", "command"}
      /\ session[p].pc = "govern"
  BY DEF ApplyGovernanceMigration, IInv, SessionOK, SessionTypeOK, Sessions, Kinds, At
<1>b. PICK x \in {"register", "wire", "open"} :
         /\ x = "register" <=> session[p].kind = "create"
         /\ x = "wire" <=> session[p].kind = "desktop"
         /\ Goto(p, x)
  BY <1>a DEF ApplyGovernanceMigration
<1>0. PICK s \in Sessions :
         /\ session' = [session EXCEPT ![p] = s] /\ s.pc = x
         /\ s.kind = session[p].kind /\ s.at = session[p].at
         /\ s.root = session[p].root /\ s.seen = session[p].seen
  BY <1>b, GotoStep DEF Steps, Holding, IInv
<1>1. TypeOK'
  <2>1. \A q \in Proc, e \in Place :
           owner'[e] = q <=> /\ session'[q].kind # "reader" /\ session'[q].at = e
                             /\ session'[q].pc \in Holding
    BY <1>0, <1>a DEF ApplyGovernanceMigration, IInv, TypeOK, Holding
  <2>2. \A q \in Proc : listLock' = q <=> session'[q].pc = "write"
    BY <1>0 DEF ApplyGovernanceMigration, IInv, TypeOK, At, list
  <2>3. /\ dirs' \subseteq Dir /\ meta' \subseteq dirs'
        /\ db' \in [Place -> Layout] /\ source' \in [Place -> SUBSET Root]
        /\ \A e \in Dir : db'[e] # "none" => e \in dirs'
    <3>1. session[p].at \in Place /\ (session[p].at = 0 \/ session[p].at \in dirs)
      BY <1>a DEF IInv, SessionTypeOK, Sessions, Progress
    <3>2. /\ dirs' = dirs /\ meta' = meta /\ source' = source
          /\ db' = [db EXCEPT ![session[p].at] = "current"]
      BY DEF ApplyGovernanceMigration
    <3>3. 0 \notin Dir /\ "current" \in Layout
      BY DEF Dir, Layout
    <3> QED BY <3>1, <3>2, <3>3 DEF IInv, TypeOK
  <2>4. /\ recent' \in Seq(Place) /\ Len(recent') <= MaxRecent
        /\ \A i, j \in 1 .. Len(recent') : recent'[i] = recent'[j] => i = j
        /\ begun' \in 0 .. MaxSessions /\ crashes' \in 0 .. MaxCrashes
    BY DEF ApplyGovernanceMigration, IInv, TypeOK, list, bounds
  <2> QED BY <2>1, <2>2, <2>3, <2>4 DEF TypeOK, At
<1>2. SessionTypeOK'
  BY <1>0 DEF ApplyGovernanceMigration, IInv, SessionTypeOK, list
<1>3. NoForeignDir'
  BY DEF ApplyGovernanceMigration, IInv, NoForeignDir
<1>4. (\A q \in Proc : SessionOK(q))'
  BY <1>0, <1>a, <1>b DEF ApplyGovernanceMigration, IInv, SessionOK, list
<1>5. (\A q \in Proc : Progress(q))'
  BY <1>0, <1>a, <1>b DEF ApplyGovernanceMigration, IInv, TypeOK, Progress, Place, Dir
<1>6. Exclusive'
  BY <1>0, <1>a, OnwardKeepsExclusive DEF ApplyGovernanceMigration, IInv, Onward, Making
<1>7. RecentIsMade'
  BY <1>0, <1>a DEF ApplyGovernanceMigration, IInv, RecentIsMade, MakingAt, Making, list
<1>8. HandedOver'
  BY <1>0, <1>b DEF ApplyGovernanceMigration, IInv, HandedOver
<1> QED BY <1>1, <1>2, <1>3, <1>4, <1>5, <1>6, <1>7, <1>8 DEF IInv

\* The creation registers its source (RegisterStorage).
LEMMA RegisterStorageKeeps ==
    ASSUME ProjectStoreAssumption, IInv, NEW p \in Proc, RegisterStorage(p)
    PROVE  IInv'
<1>0. PICK s \in Sessions :
         /\ session' = [session EXCEPT ![p] = s] /\ s.pc = "meta"
         /\ s.kind = session[p].kind /\ s.at = session[p].at
         /\ s.root = session[p].root /\ s.seen = session[p].seen
  BY GotoStep DEF RegisterStorage, IInv, Steps, Holding
<1>1. TypeOK'
  <2>1. \A q \in Proc, e \in Place :
           owner'[e] = q <=> /\ session'[q].kind # "reader" /\ session'[q].at = e
                             /\ session'[q].pc \in Holding
    BY <1>0 DEF RegisterStorage, IInv, TypeOK, Holding, At
  <2>2. \A q \in Proc : listLock' = q <=> session'[q].pc = "write"
    BY <1>0 DEF RegisterStorage, IInv, TypeOK, At, list
  <2>3. /\ dirs' \subseteq Dir /\ meta' \subseteq dirs'
        /\ db' \in [Place -> Layout] /\ source' \in [Place -> SUBSET Root]
        /\ \A e \in Dir : db'[e] # "none" => e \in dirs'
    BY DEF RegisterStorage, IInv, TypeOK, SessionOK, At, Place, Dir
  <2>4. /\ recent' \in Seq(Place) /\ Len(recent') <= MaxRecent
        /\ \A i, j \in 1 .. Len(recent') : recent'[i] = recent'[j] => i = j
        /\ begun' \in 0 .. MaxSessions /\ crashes' \in 0 .. MaxCrashes
    BY DEF RegisterStorage, IInv, TypeOK, list, bounds
  <2> QED BY <2>1, <2>2, <2>3, <2>4 DEF TypeOK, At
<1>2. SessionTypeOK'
  BY <1>0 DEF RegisterStorage, IInv, SessionTypeOK, list
<1>3. NoForeignDir'
  BY DEF RegisterStorage, IInv, NoForeignDir
<1>4. (\A q \in Proc : SessionOK(q))'
  BY <1>0 DEF RegisterStorage, IInv, SessionOK, At, list
<1>5. (\A q \in Proc : Progress(q))'
  BY <1>0 DEF RegisterStorage, IInv, TypeOK, SessionOK, Progress, Place, Dir, At
<1>6. Exclusive'
  BY <1>0, OnwardKeepsExclusive DEF RegisterStorage, IInv, Onward, At, Making
<1>7. RecentIsMade'
  BY <1>0 DEF RegisterStorage, IInv, RecentIsMade, MakingAt, Making, At, list
<1>8. HandedOver'
  BY <1>0 DEF RegisterStorage, IInv, HandedOver
<1> QED BY <1>1, <1>2, <1>3, <1>4, <1>5, <1>6, <1>7, <1>8 DEF IInv

\* With its services built the project is handed over (Wire).
LEMMA WireKeeps ==
    ASSUME ProjectStoreAssumption, IInv, NEW p \in Proc, Wire(p)
    PROVE  IInv'
<1>0. PICK s \in Sessions :
         /\ session' = [session EXCEPT ![p] = s] /\ s.pc = "record"
         /\ s.kind = session[p].kind /\ s.at = session[p].at
         /\ s.root = session[p].root /\ s.seen = session[p].seen
  BY GotoStep DEF Wire, IInv, Steps, Holding
<1>1. TypeOK'
  <2>1. \A q \in Proc, e \in Place :
           owner'[e] = q <=> /\ session'[q].kind # "reader" /\ session'[q].at = e
                             /\ session'[q].pc \in Holding
    BY <1>0 DEF Wire, IInv, TypeOK, Holding, At
  <2>2. \A q \in Proc : listLock' = q <=> session'[q].pc = "write"
    BY <1>0 DEF Wire, IInv, TypeOK, At, list
  <2>3. /\ dirs' \subseteq Dir /\ meta' \subseteq dirs'
        /\ db' \in [Place -> Layout] /\ source' \in [Place -> SUBSET Root]
        /\ \A e \in Dir : db'[e] # "none" => e \in dirs'
    BY DEF Wire, IInv, TypeOK, disk
  <2>4. /\ recent' \in Seq(Place) /\ Len(recent') <= MaxRecent
        /\ \A i, j \in 1 .. Len(recent') : recent'[i] = recent'[j] => i = j
        /\ begun' \in 0 .. MaxSessions /\ crashes' \in 0 .. MaxCrashes
    BY DEF Wire, IInv, TypeOK, list, bounds
  <2> QED BY <2>1, <2>2, <2>3, <2>4 DEF TypeOK, At
<1>2. SessionTypeOK'
  BY <1>0 DEF Wire, IInv, SessionTypeOK, list
<1>3. NoForeignDir'
  BY DEF Wire, IInv, NoForeignDir, disk
<1>4. (\A q \in Proc : SessionOK(q))'
  BY <1>0 DEF Wire, IInv, SessionOK, At, list
<1>5. (\A q \in Proc : Progress(q))'
  BY <1>0 DEF Wire, IInv, Progress, At, disk
<1>6. Exclusive'
  BY <1>0, OnwardKeepsExclusive DEF Wire, IInv, Onward, At, Making
<1>7. RecentIsMade'
  BY <1>0 DEF Wire, IInv, RecentIsMade, MakingAt, Making, disk, list
<1>8. HandedOver'
  <2>1. disk' = disk /\ session[p].pc = "wire"
    BY DEF Wire, At
  <2>2. session[p].kind = "create" =>
           /\ session[p].at \in Dir /\ session[p].at \in meta /\ db[session[p].at] = "current"
           /\ session[p].root \in source[session[p].at]
    BY <2>1 DEF IInv, SessionOK, Progress
  <2>3. meta \subseteq dirs /\ session \in [Proc -> Sessions]
    BY DEF IInv, TypeOK, SessionTypeOK
  <2> QED BY <1>0, <2>1, <2>2, <2>3 DEF IInv, HandedOver, disk
<1> QED BY <1>1, <1>2, <1>3, <1>4, <1>5, <1>6, <1>7, <1>8 DEF IInv

\* A creation begins without a place (CreateFromSource).
LEMMA CreateFromSourceKeeps ==
    ASSUME ProjectStoreAssumption, IInv, NEW p \in Proc, NEW r \in Root, CreateFromSource(p, r)
    PROVE  IInv'
<1>0. PICK s \in Sessions :
         /\ session' = [session EXCEPT ![p] = s]
         /\ s.pc = "claim" /\ s.kind = "create" /\ s.at = 1 /\ s.root = r /\ s.seen = <<>>
  <2> DEFINE s == [Idle EXCEPT !.pc = "claim", !.kind = "create", !.at = 1, !.root = r]
  <2>0. "claim" \in Steps /\ "create" \in Kinds /\ 1 \in Place
    BY DEF Steps, Kinds, Place
  <2>1. s \in Sessions
    BY <2>0, IdleIsSession DEF Sessions
  <2>2. s.pc = "claim" /\ s.kind = "create" /\ s.at = 1 /\ s.root = r /\ s.seen = <<>>
    BY IdleIsSession
  <2> QED BY <2>1, <2>2 DEF CreateFromSource
<1>1. TypeOK'
  BY ProjectStoreAssumption DEF ProjectStoreAssumption, CreateFromSource, IInv, TypeOK,
     SessionTypeOK, Holding, Place, Dir, Layout, At, disk, list
<1>2. SessionTypeOK'
  BY <1>0 DEF CreateFromSource, IInv, SessionTypeOK, list
<1>3. NoForeignDir'
  BY DEF CreateFromSource, IInv, NoForeignDir, disk
<1>4. (\A q \in Proc : SessionOK(q))'
  <2>1. \A q \in Proc \ {p} : session'[q] = session[q]
    BY <1>0 DEF IInv
  <2>2. \A q \in Proc \ {p} : SessionOK(q)'
    BY <2>1 DEF IInv, SessionOK, CreateFromSource, list
  <2>3. SessionOK(p)'
    BY DEF IInv, SessionOK, CreateFromSource, Dir, list
  <2> QED BY <2>2, <2>3
<1>5. (\A q \in Proc : Progress(q))'
  BY DEF CreateFromSource, IInv, Progress, disk
<1>6. Exclusive'
  BY <1>0, OnwardKeepsExclusive DEF CreateFromSource, IInv, Onward, Making
<1>7. RecentIsMade'
  BY DEF CreateFromSource, IInv, RecentIsMade, MakingAt, Making, disk, list
<1>8. HandedOver'
  BY DEF CreateFromSource, IInv, HandedOver, disk
<1> QED BY <1>1, <1>2, <1>3, <1>4, <1>5, <1>6, <1>7, <1>8 DEF IInv

\* A lock or a lease of p given up, and its session ended (CloseProject, Crash).
LEMMA EndKeeps ==
    ASSUME ProjectStoreAssumption, IInv, NEW p \in Proc, CloseProject(p) \/ Crash(p)
    PROVE  IInv'
<1>0. PICK s \in Sessions :
         /\ session' = [session EXCEPT ![p] = s] /\ s = Idle
         /\ s.pc = "idle" /\ s.kind = "none" /\ s.at = 0 /\ s.root = None /\ s.seen = <<>>
  BY IdleIsSession DEF CloseProject, Crash
<1>9. /\ \A q \in Proc \ {p} : session'[q] = session[q] /\ \A d \in Place : owner'[d] = q <=> owner[d] = q
      /\ session'[p] = s /\ \A d \in Place : owner'[d] # p
  BY <1>0 DEF CloseProject, Crash, IInv, SessionTypeOK
<1>1. TypeOK'
  <2>1. \A q \in Proc, d \in Place :
           owner'[d] = q <=> /\ session'[q].kind # "reader" /\ session'[q].at = d
                             /\ session'[q].pc \in Holding
    BY <1>0, <1>9 DEF IInv, TypeOK, Holding
  <2>2. \A q \in Proc : listLock' = q <=> session'[q].pc = "write"
    BY <1>0, <1>9 DEF CloseProject, Crash, IInv, TypeOK, At, list
  <2> QED
    BY <2>1, <2>2 DEF CloseProject, Crash, IInv, TypeOK, At, disk, list, bounds
<1>2. SessionTypeOK'
  BY <1>0 DEF CloseProject, Crash, IInv, SessionTypeOK, list
<1>3. NoForeignDir'
  BY DEF CloseProject, Crash, IInv, NoForeignDir, disk
<1>4. (\A q \in Proc : SessionOK(q))'
  BY <1>0 DEF CloseProject, Crash, IInv, SessionOK, list
<1>5. (\A q \in Proc : Progress(q))'
  BY <1>0 DEF CloseProject, Crash, IInv, Progress, disk
<1>6. Exclusive'
  BY <1>0, OnwardKeepsExclusive DEF CloseProject, Crash, IInv, Onward
<1>7. RecentIsMade'
  BY <1>0 DEF CloseProject, Crash, IInv, RecentIsMade, MakingAt, disk, list
<1>8. HandedOver'
  BY <1>0 DEF CloseProject, Crash, IInv, HandedOver, disk
<1> QED BY <1>1, <1>2, <1>3, <1>4, <1>5, <1>6, <1>7, <1>8 DEF IInv

\* A failed open gives its lease up; a creation goes on to its rollback, any
\* other session ends (Abort).
LEMMA AbortKeeps ==
    ASSUME ProjectStoreAssumption, IInv, NEW p \in Proc, session[p].pc \in Making \ {"remove"},
           Abort(p), meta' \in {meta, meta \cup {session[p].at}}, session[p].at \in dirs \/ meta' = meta,
           UNCHANGED <<dirs, db, source, list, bounds>>
    PROVE  IInv'
<1>0. PICK s \in Sessions :
         /\ session' = [session EXCEPT ![p] = s]
         /\ session[p].kind = "create" => s.pc = "remove" /\ s.kind = session[p].kind
                /\ s.at = session[p].at /\ s.root = session[p].root /\ s.seen = session[p].seen
         /\ session[p].kind # "create" => s = Idle
                /\ s.pc = "idle" /\ s.kind = "none" /\ s.at = 0 /\ s.root = None /\ s.seen = <<>>
  <2>1. CASE session[p].kind = "create"
    <3>1. Goto(p, "remove")
      BY <2>1 DEF Abort, Goto
    <3> QED BY <2>1, <3>1, GotoStep DEF IInv, Steps
  <2>2. CASE session[p].kind # "create"
    BY <2>2, IdleIsSession DEF Abort
  <2> QED BY <2>1, <2>2
<1>9. /\ \A q \in Proc \ {p} : session'[q] = session[q] /\ \A d \in Place : owner'[d] = q <=> owner[d] = q
      /\ session'[p] = s /\ \A d \in Place : owner'[d] # p
  BY <1>0 DEF Abort, IInv, SessionTypeOK
<1>1. TypeOK'
  <2>1. \A q \in Proc, d \in Place :
           owner'[d] = q <=> /\ session'[q].kind # "reader" /\ session'[q].at = d
                             /\ session'[q].pc \in Holding
    BY <1>0, <1>9 DEF IInv, TypeOK, Holding
  <2>2. \A q \in Proc : listLock' = q <=> session'[q].pc = "write"
    BY <1>0 DEF Abort, IInv, TypeOK, At, Making, list
  <2> QED
    BY <2>1, <2>2 DEF Abort, IInv, TypeOK, At, list, bounds
<1>2. SessionTypeOK'
  BY <1>0 DEF Abort, IInv, SessionTypeOK, list
<1>3. NoForeignDir'
  BY DEF Abort, IInv, NoForeignDir
<1>4. (\A q \in Proc : SessionOK(q))'
  BY <1>0 DEF Abort, IInv, SessionOK, list
<1>5. (\A q \in Proc : Progress(q))'
  <2>1. \A q \in Proc \ {p} : Progress(q)'
    BY <1>9 DEF IInv, Progress
  <2>2. Progress(p)'
    BY <1>0 DEF IInv, Progress, Making
  <2> QED BY <2>1, <2>2
<1>6. Exclusive'
  BY ZenonT(40), <1>0, OnwardKeepsExclusive DEF Abort, IInv, Onward, Making
<1>7. RecentIsMade'
  BY <1>0 DEF Abort, IInv, RecentIsMade, MakingAt, list
<1>8. HandedOver'
  BY <1>0 DEF Abort, IInv, HandedOver
<1> QED BY <1>1, <1>2, <1>3, <1>4, <1>5, <1>6, <1>7, <1>8 DEF IInv

\* A sequence after another.
LEMMA Concatenation ==
    ASSUME NEW T, NEW u \in Seq(T), NEW v \in Seq(T)
    PROVE  /\ u \o v \in Seq(T) /\ Len(u \o v) = Len(u) + Len(v)
           /\ \A i \in 1 .. Len(u) + Len(v) :
                 (u \o v)[i] = IF i <= Len(u) THEN u[i] ELSE v[i - Len(u)]
OBVIOUS

\* Recording gives a list of the length allowed that names no place twice and
\* nothing but the new place and the old ones (Recorded).
LEMMA RecordedKeeps ==
    ASSUME MaxRecent \in Nat \ {0}, NEW entries \in Seq(Place), NEW d \in Place,
           \A i, j \in 1 .. Len(entries) : entries[i] = entries[j] => i = j,
           NEW new, new = Recorded(entries, d)
    PROVE  /\ new \in Seq(Place) /\ Len(new) <= MaxRecent
           /\ \A i, j \in 1 .. Len(new) : new[i] = new[j] => i = j
           /\ \A i \in 1 .. Len(new) :
                 new[i] = d \/ \E j \in 1 .. Len(entries) : new[i] = entries[j]
<1>1. PICK others \in Seq(Place) :
         /\ \A i \in 1 .. Len(others) :
               others[i] # d /\ \E j \in 1 .. Len(entries) : others[i] = entries[j]
         /\ \A i, j \in 1 .. Len(others) : others[i] = others[j] => i = j
         /\ Recorded(entries, d) =
               LET moved == <<d>> \o others
               IN  SubSeq(moved, 1, IF Len(moved) > MaxRecent THEN MaxRecent ELSE Len(moved))
  <2>1. CASE \E i \in 1 .. Len(entries) : entries[i] = d
    <3>1. PICK k \in 1 .. Len(entries) :
             /\ k = CHOOSE i \in 1 .. Len(entries) : entries[i] = d
             /\ entries[k] = d
      BY <2>1
    <3> DEFINE before == SubSeq(entries, 1, k - 1)
               after  == SubSeq(entries, k + 1, Len(entries))
               others == before \o after
    <3>a. /\ before \in Seq(Place) /\ Len(before) = k - 1
          /\ \A i \in 1 .. k - 1 : before[i] = entries[i]
      OBVIOUS
    <3>b. /\ after \in Seq(Place) /\ Len(after) = Len(entries) - k
          /\ \A i \in 1 .. Len(entries) - k : after[i] = entries[k + i]
      OBVIOUS
    <3> HIDE DEF before, after
    <3>c. /\ others \in Seq(Place) /\ Len(others) = Len(entries) - 1
          /\ \A i \in 1 .. Len(before) : others[i] = before[i]
          /\ \A i \in 1 .. Len(after) : others[Len(before) + i] = after[i]
      <4>a. before \in Seq(Place) /\ after \in Seq(Place)
        BY <3>a, <3>b
      <4>1. others \in Seq(Place) /\ Len(others) = Len(before) + Len(after)
        <5>1. before \o after \in Seq(Place) /\ Len(before \o after) = Len(before) + Len(after)
          BY <4>a, Concatenation
        <5> QED BY <5>1
      <4>2. \A i \in 1 .. Len(before) + Len(after) :
               others[i] = IF i <= Len(before) THEN before[i] ELSE after[i - Len(before)]
        <5>1. \A i \in 1 .. Len(before) + Len(after) :
                 (before \o after)[i] = IF i <= Len(before) THEN before[i] ELSE after[i - Len(before)]
          BY <4>a, Concatenation
        <5> QED BY <5>1
      <4>3. \A i \in 1 .. Len(before) : others[i] = before[i]
        BY <3>a, <3>b, <4>2
      <4>4. \A i \in 1 .. Len(after) : others[Len(before) + i] = after[i]
        <5> TAKE i \in 1 .. Len(after)
        <5> DEFINE j == Len(before) + i
        <5>1. j \in 1 .. Len(before) + Len(after) /\ j > Len(before) /\ j - Len(before) = i
          BY <3>a, <3>b
        <5> HIDE DEF j
        <5>2. others[j] = after[j - Len(before)]
          BY <3>a, <4>2, <5>1
        <5> QED BY <5>1, <5>2 DEF j
      <4> HIDE DEF others
      <4> QED BY <3>a, <3>b, <4>1, <4>3, <4>4
    <3>2. \A i \in 1 .. Len(others) :
             \/ i < k /\ others[i] = entries[i]
             \/ i >= k /\ others[i] = entries[i + 1]
      <4> TAKE i \in 1 .. Len(others)
      <4>1. CASE i < k
        BY <3>a, <3>c, <4>1
      <4>2. CASE i >= k
        <5> DEFINE j == i - k + 1
        <5>1. j \in 1 .. Len(after) /\ Len(before) + j = i /\ k + j = i + 1
          BY <3>a, <3>b, <3>c, <4>2
        <5>2. others[Len(before) + j] = after[j] /\ after[j] = entries[k + j]
          BY <3>b, <3>c, <5>1
        <5> QED BY <4>2, <5>1, <5>2
      <4> QED BY <4>1, <4>2
    <3> HIDE DEF others
    <3>4. \A i \in 1 .. Len(others) :
             others[i] # d /\ \E j \in 1 .. Len(entries) : others[i] = entries[j]
      <4> TAKE i \in 1 .. Len(others)
      <4>1. PICK j \in 1 .. Len(entries) : j # k /\ others[i] = entries[j]
        BY <3>c, <3>2
      <4> QED BY <3>1, <4>1
    <3>5. \A i, j \in 1 .. Len(others) : others[i] = others[j] => i = j
      <4> TAKE i, j \in 1 .. Len(others)
      <4> QED BY <3>c, <3>2
    <3>6. Recorded(entries, d) =
               LET moved == <<d>> \o others
               IN  SubSeq(moved, 1, IF Len(moved) > MaxRecent THEN MaxRecent ELSE Len(moved))
      BY <2>1, <3>1 DEF Recorded, others, before, after
    <3> QED BY <3>c, <3>4, <3>5, <3>6
  <2>2. CASE ~ \E i \in 1 .. Len(entries) : entries[i] = d
    BY <2>2 DEF Recorded
  <2> QED BY <2>1, <2>2
<1> DEFINE moved == <<d>> \o others
           n == IF Len(moved) > MaxRecent THEN MaxRecent ELSE Len(moved)
<1>2. /\ moved \in Seq(Place) /\ Len(moved) = Len(others) + 1
      /\ moved[1] = d /\ \A i \in 2 .. Len(moved) : moved[i] = others[i - 1]
  OBVIOUS
<1>3. \A i, j \in 1 .. Len(moved) : moved[i] = moved[j] => i = j
  <2> SUFFICES ASSUME NEW i \in 1 .. Len(moved), NEW j \in 1 .. Len(moved), moved[i] = moved[j], i < j
               PROVE  FALSE
    BY <1>2
  <2>1. moved[j] = others[j - 1] /\ j - 1 \in 1 .. Len(others)
    BY <1>2
  <2>2. CASE i = 1
    BY <1>1, <1>2, <2>1, <2>2
  <2>3. CASE i # 1
    <3>1. moved[i] = others[i - 1] /\ i - 1 \in 1 .. Len(others)
      BY <1>2, <2>3
    <3>2. i - 1 = j - 1
      BY <1>1, <2>1, <3>1
    <3> QED BY <3>2
  <2> QED BY <2>2, <2>3
<1>4. \A i \in 1 .. Len(moved) :
         moved[i] = d \/ \E j \in 1 .. Len(entries) : moved[i] = entries[j]
  <2> TAKE i \in 1 .. Len(moved)
  <2>1. CASE i # 1
    <3>1. moved[i] = others[i - 1] /\ i - 1 \in 1 .. Len(others)
      BY <1>2, <2>1
    <3> QED BY <1>1, <3>1
  <2> QED BY <1>2, <2>1
<1> HIDE DEF moved
<1>5. n \in 1 .. Len(moved) /\ n <= MaxRecent
  BY <1>2
<1>6. /\ SubSeq(moved, 1, n) \in Seq(Place) /\ Len(SubSeq(moved, 1, n)) = n
      /\ \A i \in 1 .. n : SubSeq(moved, 1, n)[i] = moved[i]
  BY <1>2, <1>5
<1>7. Recorded(entries, d) = SubSeq(moved, 1, n)
  BY <1>1 DEF moved
<1> QED BY <1>3, <1>4, <1>5, <1>6, <1>7

\* Only a known layout goes on to the migrations (Preflight).
LEMMA PreflightKeeps ==
    ASSUME ProjectStoreAssumption, IInv, NEW p \in Proc, Preflight(p)
    PROVE  IInv'
<1>1. CASE db[session[p].at] \in {"empty", "legacy", "current"} /\ Goto(p, "migrate") /\ UNCHANGED owner
  <2>0. PICK s \in Sessions :
           /\ session' = [session EXCEPT ![p] = s] /\ s.pc = "migrate"
           /\ s.kind = session[p].kind /\ s.at = session[p].at
           /\ s.root = session[p].root /\ s.seen = session[p].seen
    BY <1>1, GotoStep DEF Preflight, IInv, Steps, Holding
  <2>1. TypeOK'
    <3>1. \A q \in Proc, e \in Place :
             owner'[e] = q <=> /\ session'[q].kind # "reader" /\ session'[q].at = e
                               /\ session'[q].pc \in Holding
      BY <2>0, <1>1 DEF Preflight, IInv, TypeOK, Holding, At
    <3>2. \A q \in Proc : listLock' = q <=> session'[q].pc = "write"
      BY <2>0, <1>1 DEF Preflight, IInv, TypeOK, At, list
    <3>3. /\ dirs' \subseteq Dir /\ meta' \subseteq dirs'
          /\ db' \in [Place -> Layout] /\ source' \in [Place -> SUBSET Root]
          /\ \A e \in Dir : db'[e] # "none" => e \in dirs'
      BY <1>1 DEF Preflight, IInv, TypeOK, disk
    <3>4. /\ recent' \in Seq(Place) /\ Len(recent') <= MaxRecent
          /\ \A i, j \in 1 .. Len(recent') : recent'[i] = recent'[j] => i = j
          /\ begun' \in 0 .. MaxSessions /\ crashes' \in 0 .. MaxCrashes
      BY DEF Preflight, IInv, TypeOK, list, bounds
    <3> QED BY <3>1, <3>2, <3>3, <3>4 DEF TypeOK, At
  <2>2. SessionTypeOK'
    BY <2>0, <1>1 DEF Preflight, IInv, SessionTypeOK, list
  <2>3. NoForeignDir'
    BY <1>1 DEF Preflight, IInv, NoForeignDir, disk
  <2>4. (\A q \in Proc : SessionOK(q))'
    BY <2>0, <1>1 DEF Preflight, IInv, SessionOK, At, list
  <2>5. (\A q \in Proc : Progress(q))'
    BY <2>0, <1>1 DEF Preflight, IInv, Progress, At, disk
  <2>6. Exclusive'
    BY <2>0, <1>1, OnwardKeepsExclusive DEF Preflight, IInv, Onward, At, Making
  <2>7. RecentIsMade'
    BY <2>0, <1>1 DEF Preflight, IInv, RecentIsMade, MakingAt, Making, At, disk, list
  <2>8. HandedOver'
    BY <2>0, <1>1 DEF Preflight, IInv, HandedOver, disk
  <2> QED BY <2>1, <2>2, <2>3, <2>4, <2>5, <2>6, <2>7, <2>8 DEF IInv
<1>2. CASE Abort(p)
  BY <1>2, AbortKeeps DEF Preflight, Making, At, disk
<1> QED BY <1>1, <1>2 DEF Preflight

\* The lease goes to one session, the others' opens fail (AcquireOwner).
LEMMA AcquireOwnerKeeps ==
    ASSUME ProjectStoreAssumption, IInv, NEW p \in Proc, AcquireOwner(p)
    PROVE  IInv'
<1> DEFINE d == session[p].at
<1>1. CASE owner[d] = None /\ owner' = [owner EXCEPT ![d] = p] /\ Goto(p, "file")
  <2>0. PICK s \in Sessions :
           /\ session' = [session EXCEPT ![p] = s] /\ s.pc = "file"
           /\ s.kind = session[p].kind /\ s.at = session[p].at
           /\ s.root = session[p].root /\ s.seen = session[p].seen
    BY <1>1, GotoStep DEF AcquireOwner, IInv, Steps, Holding
  <2>1. TypeOK'
    <3>1. \A q \in Proc, e \in Place :
             owner'[e] = q <=> /\ session'[q].kind # "reader" /\ session'[q].at = e
                               /\ session'[q].pc \in Holding
      BY <2>0, <1>1 DEF AcquireOwner, IInv, TypeOK, SessionTypeOK, SessionOK, Holding, At
    <3>2. \A q \in Proc : listLock' = q <=> session'[q].pc = "write"
      BY <2>0, <1>1 DEF AcquireOwner, IInv, TypeOK, At, list
    <3>3. /\ dirs' \subseteq Dir /\ meta' \subseteq dirs'
          /\ db' \in [Place -> Layout] /\ source' \in [Place -> SUBSET Root]
          /\ \A e \in Dir : db'[e] # "none" => e \in dirs'
      BY <1>1 DEF AcquireOwner, IInv, TypeOK, disk
    <3>4. /\ recent' \in Seq(Place) /\ Len(recent') <= MaxRecent
          /\ \A i, j \in 1 .. Len(recent') : recent'[i] = recent'[j] => i = j
          /\ begun' \in 0 .. MaxSessions /\ crashes' \in 0 .. MaxCrashes
      BY DEF AcquireOwner, IInv, TypeOK, list, bounds
    <3> QED BY <3>1, <3>2, <3>3, <3>4 DEF TypeOK, At
  <2>2. SessionTypeOK'
    BY <2>0, <1>1 DEF AcquireOwner, IInv, SessionTypeOK, list
  <2>3. NoForeignDir'
    BY <1>1 DEF AcquireOwner, IInv, NoForeignDir, disk
  <2>4. (\A q \in Proc : SessionOK(q))'
    BY <2>0, <1>1 DEF AcquireOwner, IInv, SessionOK, At, list
  <2>5. (\A q \in Proc : Progress(q))'
    BY <2>0, <1>1 DEF AcquireOwner, IInv, Progress, At, disk
  <2>6. Exclusive'
    BY <2>0, <1>1, OnwardKeepsExclusive DEF AcquireOwner, IInv, Onward, At, Making
  <2>7. RecentIsMade'
    BY <2>0, <1>1 DEF AcquireOwner, IInv, RecentIsMade, MakingAt, Making, At, disk, list
  <2>8. HandedOver'
    BY <2>0, <1>1 DEF AcquireOwner, IInv, HandedOver, disk
  <2> QED BY <2>1, <2>2, <2>3, <2>4, <2>5, <2>6, <2>7, <2>8 DEF IInv
<1>2. CASE Abort(p)
  BY <1>2, AbortKeeps DEF AcquireOwner, Making, At, disk
<1> QED BY <1>1, <1>2 DEF AcquireOwner

\* The creation writes project.json, whether syncing it fails or not (WriteMeta).
LEMMA WriteMetaKeeps ==
    ASSUME ProjectStoreAssumption, IInv, NEW p \in Proc, WriteMeta(p)
    PROVE  IInv'
<1>1. CASE Goto(p, "wire") /\ UNCHANGED owner
  <2>0. PICK s \in Sessions :
           /\ session' = [session EXCEPT ![p] = s] /\ s.pc = "wire"
           /\ s.kind = session[p].kind /\ s.at = session[p].at
           /\ s.root = session[p].root /\ s.seen = session[p].seen
    BY <1>1, GotoStep DEF WriteMeta, IInv, Steps, Holding
  <2>w. session[p].at \in dirs
    BY DEF WriteMeta, IInv, SessionOK, Progress, At, Dir
  <2>1. TypeOK'
    <3>1. \A q \in Proc, e \in Place :
             owner'[e] = q <=> /\ session'[q].kind # "reader" /\ session'[q].at = e
                               /\ session'[q].pc \in Holding
      BY <2>0, <1>1 DEF WriteMeta, IInv, TypeOK, Holding, At
    <3>2. \A q \in Proc : listLock' = q <=> session'[q].pc = "write"
      BY <2>0, <1>1 DEF WriteMeta, IInv, TypeOK, At, list
    <3>3. /\ dirs' \subseteq Dir /\ meta' \subseteq dirs'
          /\ db' \in [Place -> Layout] /\ source' \in [Place -> SUBSET Root]
          /\ \A e \in Dir : db'[e] # "none" => e \in dirs'
      BY <2>w DEF WriteMeta, IInv, TypeOK
    <3>4. /\ recent' \in Seq(Place) /\ Len(recent') <= MaxRecent
          /\ \A i, j \in 1 .. Len(recent') : recent'[i] = recent'[j] => i = j
          /\ begun' \in 0 .. MaxSessions /\ crashes' \in 0 .. MaxCrashes
      BY DEF WriteMeta, IInv, TypeOK, list, bounds
    <3> QED BY <3>1, <3>2, <3>3, <3>4 DEF TypeOK, At
  <2>2. SessionTypeOK'
    BY <2>0, <1>1 DEF WriteMeta, IInv, SessionTypeOK, list
  <2>3. NoForeignDir'
    BY <1>1 DEF WriteMeta, IInv, NoForeignDir
  <2>4. (\A q \in Proc : SessionOK(q))'
    BY <2>0, <1>1 DEF WriteMeta, IInv, SessionOK, At, list
  <2>5. (\A q \in Proc : Progress(q))'
    BY <2>0, <1>1 DEF WriteMeta, IInv, Progress, At
  <2>6. Exclusive'
    BY <2>0, <1>1, OnwardKeepsExclusive DEF WriteMeta, IInv, Onward, At, Making
  <2>7. RecentIsMade'
    BY <2>0, <1>1 DEF WriteMeta, IInv, RecentIsMade, MakingAt, Making, At, list
  <2>8. HandedOver'
    BY <2>0, <1>1 DEF WriteMeta, IInv, HandedOver
  <2> QED BY <2>1, <2>2, <2>3, <2>4, <2>5, <2>6, <2>7, <2>8 DEF IInv
<1>2. CASE Abort(p)
  <2>1. session[p].at \in dirs
    BY DEF WriteMeta, IInv, Progress, SessionOK, At, Dir
  <2> QED BY <1>2, <2>1, AbortKeeps DEF WriteMeta, Making, At
<1> QED BY <1>1, <1>2 DEF WriteMeta

\* A step that the disk refuses is an abort (Fail).
LEMMA FailKeeps ==
    ASSUME ProjectStoreAssumption, IInv, NEW p \in Proc, Fail(p)
    PROVE  IInv'
BY AbortKeeps DEF Fail, Making, disk

\* The session that gets the manifest's lock has read the manifest (LockRecent).
LEMMA LockRecentKeeps ==
    ASSUME ProjectStoreAssumption, IInv, NEW p \in Proc, LockRecent(p)
    PROVE  IInv'
<1>0. PICK s \in Sessions :
         /\ session' = [session EXCEPT ![p] = s] /\ s.pc = "write"
         /\ s.kind = session[p].kind /\ s.at = session[p].at
         /\ s.root = session[p].root /\ s.seen = recent
  <2> DEFINE s == [session[p] EXCEPT !.pc = "write", !.seen = recent]
  <2>1. session[p] \in Sessions /\ recent \in Seq(Place) /\ "write" \in Steps
    BY DEF IInv, TypeOK, SessionTypeOK, Steps, Holding
  <2>2. /\ s \in Sessions /\ s.pc = "write" /\ s.kind = session[p].kind
        /\ s.at = session[p].at /\ s.root = session[p].root /\ s.seen = recent
    BY <2>1 DEF Sessions
  <2>3. session' = [session EXCEPT ![p] = s]
    BY DEF LockRecent, IInv
  <2> QED BY <2>2, <2>3
<1>1. TypeOK'
  <2>1. \A q \in Proc, e \in Place :
           owner'[e] = q <=> /\ session'[q].kind # "reader" /\ session'[q].at = e
                             /\ session'[q].pc \in Holding
    BY DEF LockRecent, IInv, TypeOK, SessionTypeOK, Holding, At
  <2>2. \A q \in Proc : listLock' = q <=> session'[q].pc = "write"
    BY DEF LockRecent, IInv, TypeOK, SessionTypeOK, At
  <2>3. /\ dirs' \subseteq Dir /\ meta' \subseteq dirs'
        /\ db' \in [Place -> Layout] /\ source' \in [Place -> SUBSET Root]
        /\ \A e \in Dir : db'[e] # "none" => e \in dirs'
    BY DEF LockRecent, IInv, TypeOK, disk
  <2>4. /\ recent' \in Seq(Place) /\ Len(recent') <= MaxRecent
        /\ \A i, j \in 1 .. Len(recent') : recent'[i] = recent'[j] => i = j
        /\ begun' \in 0 .. MaxSessions /\ crashes' \in 0 .. MaxCrashes
    BY DEF LockRecent, IInv, TypeOK, bounds
  <2> QED BY <2>1, <2>2, <2>3, <2>4 DEF TypeOK, At
<1>2. SessionTypeOK'
  <2>1. owner' = owner /\ listLock' = p
    BY DEF LockRecent
  <2> QED BY <1>0, <2>1 DEF IInv, SessionTypeOK
<1>3. NoForeignDir'
  BY DEF LockRecent, IInv, NoForeignDir, disk
<1>4. (\A q \in Proc : SessionOK(q))'
  BY DEF LockRecent, IInv, SessionTypeOK, SessionOK, At
<1>5. (\A q \in Proc : Progress(q))'
  BY DEF LockRecent, IInv, SessionTypeOK, Progress, At, disk
<1>6. Exclusive'
  BY <1>0, OnwardKeepsExclusive DEF LockRecent, IInv, Onward, At, Making
<1>7. RecentIsMade'
  BY DEF LockRecent, IInv, SessionTypeOK, RecentIsMade, MakingAt, Making, disk
<1>8. HandedOver'
  BY DEF LockRecent, IInv, SessionTypeOK, HandedOver, At, disk
<1> QED BY <1>1, <1>2, <1>3, <1>4, <1>5, <1>6, <1>7, <1>8 DEF IInv

\* A session whose record fails is open all the same (SkipRecent).
LEMMA SkipRecentKeeps ==
    ASSUME ProjectStoreAssumption, IInv, NEW p \in Proc, SkipRecent(p)
    PROVE  IInv'
<1>0. PICK s \in Sessions :
         /\ session' = [session EXCEPT ![p] = s] /\ s.pc = "open"
         /\ s.kind = session[p].kind /\ s.at = session[p].at
         /\ s.root = session[p].root /\ s.seen = <<>>
  <2> DEFINE s == [session[p] EXCEPT !.pc = "open", !.seen = <<>>]
  <2>1. session[p] \in Sessions /\ <<>> \in Seq(Place) /\ "open" \in Steps
    BY DEF IInv, SessionTypeOK, Steps, Holding
  <2>2. /\ s \in Sessions /\ s.pc = "open" /\ s.kind = session[p].kind
        /\ s.at = session[p].at /\ s.root = session[p].root /\ s.seen = <<>>
    BY <2>1 DEF Sessions
  <2>3. session' = [session EXCEPT ![p] = s]
    BY DEF SkipRecent, IInv
  <2> QED BY <2>2, <2>3
<1>1. TypeOK'
  BY ProjectStoreAssumption DEF ProjectStoreAssumption, SkipRecent, IInv, TypeOK,
     SessionTypeOK, Holding, At, disk, bounds
<1>2. SessionTypeOK'
  BY <1>0 DEF SkipRecent, IInv, SessionTypeOK
<1>3. NoForeignDir'
  BY DEF SkipRecent, IInv, NoForeignDir, disk
<1>4. (\A q \in Proc : SessionOK(q))'
  BY DEF SkipRecent, IInv, SessionTypeOK, SessionOK
<1>5. (\A q \in Proc : Progress(q))'
  BY DEF SkipRecent, IInv, SessionTypeOK, Progress, disk
<1>6. Exclusive'
  BY <1>0, OnwardKeepsExclusive DEF SkipRecent, IInv, Onward, Making
<1>7. RecentIsMade'
  BY DEF SkipRecent, IInv, SessionTypeOK, RecentIsMade, MakingAt, Making, disk
<1>8. HandedOver'
  BY DEF SkipRecent, IInv, SessionTypeOK, HandedOver, disk
<1> QED BY <1>1, <1>2, <1>3, <1>4, <1>5, <1>6, <1>7, <1>8 DEF IInv

\* The session writes the manifest it holds the lock of (WriteRecent).
LEMMA WriteRecentKeeps ==
    ASSUME ProjectStoreAssumption, IInv, NEW p \in Proc, WriteRecent(p)
    PROVE  IInv'
<1>0. PICK s \in Sessions :
         /\ session' = [session EXCEPT ![p] = s] /\ s.pc = "open"
         /\ s.kind = session[p].kind /\ s.at = session[p].at
         /\ s.root = session[p].root /\ s.seen = <<>>
  <2> DEFINE s == [session[p] EXCEPT !.pc = "open", !.seen = <<>>]
  <2>1. session[p] \in Sessions /\ <<>> \in Seq(Place) /\ "open" \in Steps
    BY DEF IInv, SessionTypeOK, Steps, Holding
  <2>2. /\ s \in Sessions /\ s.pc = "open" /\ s.kind = session[p].kind
        /\ s.at = session[p].at /\ s.root = session[p].root /\ s.seen = <<>>
    BY <2>1 DEF Sessions
  <2>3. session' = [session EXCEPT ![p] = s]
    BY DEF WriteRecent, IInv
  <2> QED BY <2>2, <2>3
<1>a. /\ recent' = Recorded(recent, session[p].at) /\ session[p].at \in Place
      /\ recent \in Seq(Place) /\ \A i, j \in 1 .. Len(recent) : recent[i] = recent[j] => i = j
  BY DEF WriteRecent, IInv, SessionOK, SessionTypeOK, Sessions, At
<1>b. /\ recent' \in Seq(Place) /\ Len(recent') <= MaxRecent
      /\ \A i, j \in 1 .. Len(recent') : recent'[i] = recent'[j] => i = j
      /\ \A i \in 1 .. Len(recent') :
            recent'[i] = session[p].at \/ \E j \in 1 .. Len(recent) : recent'[i] = recent[j]
  <2>1. MaxRecent \in Nat \ {0}
    BY ProjectStoreAssumption DEF ProjectStoreAssumption
  <2> DEFINE d == session[p].at
  <2>2. d \in Place
    BY <1>a
  <2> HIDE DEF d
  <2>3. /\ Recorded(recent, d) \in Seq(Place) /\ Len(Recorded(recent, d)) <= MaxRecent
        /\ \A i, j \in 1 .. Len(Recorded(recent, d)) :
              Recorded(recent, d)[i] = Recorded(recent, d)[j] => i = j
        /\ \A i \in 1 .. Len(Recorded(recent, d)) :
              Recorded(recent, d)[i] = d
              \/ \E j \in 1 .. Len(recent) : Recorded(recent, d)[i] = recent[j]
    BY <1>a, <2>1, <2>2, RecordedKeeps
  <2>4. recent' = Recorded(recent, d)
    BY <1>a DEF d
  <2>5. /\ recent' \in Seq(Place) /\ Len(recent') <= MaxRecent
        /\ \A i, j \in 1 .. Len(recent') : recent'[i] = recent'[j] => i = j
        /\ \A i \in 1 .. Len(recent') :
              recent'[i] = d \/ \E j \in 1 .. Len(recent) : recent'[i] = recent[j]
    BY <2>3, <2>4
  <2> QED BY <2>5 DEF d
<1>1. TypeOK'
  <2>1. /\ disk' = disk /\ owner' = owner /\ bounds' = bounds
        /\ listLock' = None /\ session[p].pc = "write"
    BY DEF WriteRecent, At
  <2>2. \A q \in Proc, e \in Place :
           owner'[e] = q <=> /\ session'[q].kind # "reader" /\ session'[q].at = e
                             /\ session'[q].pc \in Holding
    BY <1>0, <2>1 DEF IInv, TypeOK, SessionTypeOK, Holding
  <2>3. \A q \in Proc : listLock' = q <=> session'[q].pc = "write"
    <3>1. \A q \in Proc : session[q].pc = "write" <=> q = p
      BY <2>1 DEF IInv, TypeOK, At
    <3>2. None \notin Proc
      BY ProjectStoreAssumption DEF ProjectStoreAssumption
    <3> QED BY <1>0, <2>1, <3>1, <3>2 DEF IInv, SessionTypeOK
  <2>4. /\ dirs' \subseteq Dir /\ meta' \subseteq dirs'
        /\ db' \in [Place -> Layout] /\ source' \in [Place -> SUBSET Root]
        /\ \A e \in Dir : db'[e] # "none" => e \in dirs'
        /\ begun' \in 0 .. MaxSessions /\ crashes' \in 0 .. MaxCrashes
    BY <2>1 DEF IInv, TypeOK, disk, bounds
  <2> QED BY <1>b, <2>2, <2>3, <2>4 DEF TypeOK, At
<1>2. SessionTypeOK'
  <2>1. owner' = owner /\ listLock' = None
    BY DEF WriteRecent, disk
  <2> QED BY <1>0, <2>1 DEF IInv, SessionTypeOK
<1>3. NoForeignDir'
  BY DEF WriteRecent, IInv, NoForeignDir, disk
<1>4. (\A q \in Proc : SessionOK(q))'
  BY DEF WriteRecent, IInv, SessionTypeOK, SessionOK, TypeOK, At
<1>5. (\A q \in Proc : Progress(q))'
  BY DEF WriteRecent, IInv, SessionTypeOK, Progress, At, disk
<1>6. Exclusive'
  BY <1>0, <1>a, OnwardKeepsExclusive DEF WriteRecent, IInv, Onward, At, Making
<1>7. RecentIsMade'
  <2>1. /\ db[session[p].at] \notin {"none", "empty"}
        /\ \A q \in Proc : ~MakingAt(q, session[p].at)
    BY <1>a DEF WriteRecent, IInv, Progress, Exclusive, MakingAt, Making, At
  <2>2. \A q \in Proc, d \in Place : MakingAt(q, d)' => MakingAt(q, d)
    BY <1>0 DEF IInv, MakingAt, Making
  <2>3. db' = db
    BY DEF WriteRecent, disk
  <2> QED BY <1>b, <2>1, <2>2, <2>3 DEF IInv, RecentIsMade
<1>8. HandedOver'
  BY DEF WriteRecent, IInv, SessionTypeOK, HandedOver, At, disk
<1> QED BY <1>1, <1>2, <1>3, <1>4, <1>5, <1>6, <1>7, <1>8 DEF IInv

\* A registered source is one more (RegisterScanSource).
LEMMA RegisterScanSourceKeeps ==
    ASSUME ProjectStoreAssumption, IInv, NEW p \in Proc, NEW r \in Root, RegisterScanSource(p, r)
    PROVE  IInv'
<1>1. TypeOK'
  <2>1. \A q \in Proc, e \in Place :
           owner'[e] = q <=> /\ session'[q].kind # "reader" /\ session'[q].at = e
                             /\ session'[q].pc \in Holding
    BY DEF RegisterScanSource, IInv, TypeOK
  <2>2. \A q \in Proc : listLock' = q <=> session'[q].pc = "write"
    BY DEF RegisterScanSource, IInv, TypeOK, At, list
  <2>3. /\ dirs' \subseteq Dir /\ meta' \subseteq dirs'
        /\ db' \in [Place -> Layout] /\ source' \in [Place -> SUBSET Root]
        /\ \A e \in Dir : db'[e] # "none" => e \in dirs'
    BY DEF RegisterScanSource, IInv, TypeOK, SessionTypeOK, Sessions
  <2>4. /\ recent' \in Seq(Place) /\ Len(recent') <= MaxRecent
        /\ \A i, j \in 1 .. Len(recent') : recent'[i] = recent'[j] => i = j
        /\ begun' \in 0 .. MaxSessions /\ crashes' \in 0 .. MaxCrashes
    BY DEF RegisterScanSource, IInv, TypeOK, list, bounds
  <2> QED BY <2>1, <2>2, <2>3, <2>4 DEF TypeOK, At
<1>2. SessionTypeOK'
  BY DEF RegisterScanSource, IInv, SessionTypeOK, list
<1>3. NoForeignDir'
  BY DEF RegisterScanSource, IInv, NoForeignDir
<1>4. (\A q \in Proc : SessionOK(q))'
  BY DEF RegisterScanSource, IInv, SessionOK, list
<1>5. (\A q \in Proc : Progress(q))'
  BY DEF RegisterScanSource, IInv, Progress
<1>6. Exclusive'
  BY DEF RegisterScanSource, IInv, Exclusive, MakingAt
<1>7. RecentIsMade'
  BY DEF RegisterScanSource, IInv, RecentIsMade, MakingAt, list
<1>8. HandedOver'
  BY DEF RegisterScanSource, IInv, HandedOver
<1> QED BY <1>1, <1>2, <1>3, <1>4, <1>5, <1>6, <1>7, <1>8 DEF IInv

\* A scan registers its root (StartScan).
LEMMA StartScanKeeps ==
    ASSUME ProjectStoreAssumption, IInv, NEW p \in Proc, NEW r \in Root, StartScan(p, r)
    PROVE  IInv'
<1>1. TypeOK'
  <2>1. \A q \in Proc, e \in Place :
           owner'[e] = q <=> /\ session'[q].kind # "reader" /\ session'[q].at = e
                             /\ session'[q].pc \in Holding
    BY DEF StartScan, IInv, TypeOK
  <2>2. \A q \in Proc : listLock' = q <=> session'[q].pc = "write"
    BY DEF StartScan, IInv, TypeOK, At, list
  <2>3. /\ dirs' \subseteq Dir /\ meta' \subseteq dirs'
        /\ db' \in [Place -> Layout] /\ source' \in [Place -> SUBSET Root]
        /\ \A e \in Dir : db'[e] # "none" => e \in dirs'
    BY DEF StartScan, IInv, TypeOK, SessionTypeOK, Sessions
  <2>4. /\ recent' \in Seq(Place) /\ Len(recent') <= MaxRecent
        /\ \A i, j \in 1 .. Len(recent') : recent'[i] = recent'[j] => i = j
        /\ begun' \in 0 .. MaxSessions /\ crashes' \in 0 .. MaxCrashes
    BY DEF StartScan, IInv, TypeOK, list, bounds
  <2> QED BY <2>1, <2>2, <2>3, <2>4 DEF TypeOK, At
<1>2. SessionTypeOK'
  BY DEF StartScan, IInv, SessionTypeOK, list
<1>3. NoForeignDir'
  BY DEF StartScan, IInv, NoForeignDir
<1>4. (\A q \in Proc : SessionOK(q))'
  BY DEF StartScan, IInv, SessionOK, list
<1>5. (\A q \in Proc : Progress(q))'
  BY DEF StartScan, IInv, Progress
<1>6. Exclusive'
  BY DEF StartScan, IInv, Exclusive, MakingAt
<1>7. RecentIsMade'
  BY DEF StartScan, IInv, RecentIsMade, MakingAt, list
<1>8. HandedOver'
  BY DEF StartScan, IInv, HandedOver
<1> QED BY <1>1, <1>2, <1>3, <1>4, <1>5, <1>6, <1>7, <1>8 DEF IInv

\* An open begins where no creation is under way (OpenReadWrite).
LEMMA OpenReadWriteKeeps ==
    ASSUME ProjectStoreAssumption, IInv, NEW p \in Proc, NEW kind \in {"desktop", "command"}, NEW d \in Place, OpenReadWrite(p, kind, d)
    PROVE  IInv'
<1>0. PICK s \in Sessions :
         /\ session' = [session EXCEPT ![p] = s]
         /\ s.pc = "lease" /\ s.kind = kind /\ s.at = d /\ s.root = None /\ s.seen = <<>>
  <2> DEFINE s == [Idle EXCEPT !.pc = "lease", !.kind = kind, !.at = d]
  <2>1. "lease" \in Steps /\ kind \in Kinds
    BY DEF Steps, Kinds
  <2>2. s \in Sessions
    BY <2>1, IdleIsSession DEF Sessions
  <2>3. s.pc = "lease" /\ s.kind = kind /\ s.at = d /\ s.root = None /\ s.seen = <<>>
    BY IdleIsSession
  <2> QED BY <2>2, <2>3 DEF OpenReadWrite
<1>a. /\ session'[p] = s /\ \A q \in Proc \ {p} : session'[q] = session[q]
      /\ session[p] = Idle
  BY <1>0 DEF OpenReadWrite, IInv, SessionTypeOK, SessionOK, At
<1>b. /\ d = 0 \/ d \in dirs
      /\ \A q \in Proc : ~MakingAt(q, d)
  BY DEF OpenReadWrite, Settled, MakingAt, Making
<1>1. TypeOK'
  <2>1. \A q \in Proc, e \in Place :
           owner'[e] = q <=> /\ session'[q].kind # "reader" /\ session'[q].at = e
                             /\ session'[q].pc \in Holding
    BY <1>a, IdleIsSession DEF OpenReadWrite, IInv, TypeOK, Holding
  <2>2. \A q \in Proc : listLock' = q <=> session'[q].pc = "write"
    BY IdleIsSession DEF OpenReadWrite, IInv, TypeOK, At, list
  <2>3. /\ dirs' \subseteq Dir /\ meta' \subseteq dirs'
        /\ db' \in [Place -> Layout] /\ source' \in [Place -> SUBSET Root]
        /\ \A e \in Dir : db'[e] # "none" => e \in dirs'
    BY IdleIsSession DEF OpenReadWrite, IInv, TypeOK, disk
  <2>4. /\ recent' \in Seq(Place) /\ Len(recent') <= MaxRecent
        /\ \A i, j \in 1 .. Len(recent') : recent'[i] = recent'[j] => i = j
        /\ begun' \in 0 .. MaxSessions /\ crashes' \in 0 .. MaxCrashes
    BY DEF OpenReadWrite, IInv, TypeOK, list
  <2> QED BY <2>1, <2>2, <2>3, <2>4 DEF TypeOK, At
<1>2. SessionTypeOK'
  BY <1>0 DEF OpenReadWrite, IInv, SessionTypeOK, list
<1>3. NoForeignDir'
  BY DEF OpenReadWrite, IInv, NoForeignDir, disk
<1>4. (\A q \in Proc : SessionOK(q))'
  <2>1. \A q \in Proc \ {p} : SessionOK(q)'
    BY DEF OpenReadWrite, IInv, SessionOK, list
  <2>2. SessionOK(p)'
    BY <1>0, <1>a DEF SessionOK
  <2> QED BY <2>1, <2>2
<1>5. (\A q \in Proc : Progress(q))'
  <2>1. \A q \in Proc \ {p} : Progress(q)'
    BY DEF OpenReadWrite, IInv, Progress, disk
  <2>2. Progress(p)'
    BY <1>0, <1>a, <1>b DEF OpenReadWrite, Progress, disk
  <2> QED BY <2>1, <2>2
<1>6. Exclusive'
  BY <1>0, <1>b DEF IInv, Exclusive, MakingAt
<1>7. RecentIsMade'
  <2>1. \A q \in Proc, e \in Place : MakingAt(q, e)' => MakingAt(q, e)
    BY <1>0 DEF MakingAt
  <2> QED BY <2>1 DEF OpenReadWrite, IInv, TypeOK, RecentIsMade, disk, list
<1>8. HandedOver'
  BY DEF OpenReadWrite, IInv, HandedOver, disk
<1> QED BY <1>1, <1>2, <1>3, <1>4, <1>5, <1>6, <1>7, <1>8 DEF IInv

\* A reader needs a database it can list (OpenProject).
LEMMA OpenProjectKeeps ==
    ASSUME ProjectStoreAssumption, IInv, NEW p \in Proc, NEW d \in Place, OpenProject(p, d)
    PROVE  IInv'
<1>0. PICK s \in Sessions :
         /\ session' = [session EXCEPT ![p] = s]
         /\ s.pc = "record" /\ s.kind = "reader" /\ s.at = d /\ s.root = None /\ s.seen = <<>>
  <2> DEFINE s == [Idle EXCEPT !.pc = "record", !.kind = "reader", !.at = d]
  <2>1. "record" \in Steps /\ "reader" \in Kinds
    BY DEF Steps, Kinds, Holding
  <2>2. s \in Sessions
    BY <2>1, IdleIsSession DEF Sessions
  <2>3. s.pc = "record" /\ s.kind = "reader" /\ s.at = d /\ s.root = None /\ s.seen = <<>>
    BY IdleIsSession
  <2> QED BY <2>2, <2>3 DEF OpenProject
<1>a. /\ session'[p] = s /\ \A q \in Proc \ {p} : session'[q] = session[q]
      /\ session[p] = Idle
  BY <1>0 DEF OpenProject, IInv, SessionTypeOK, SessionOK, At
<1>b. /\ d = 0 \/ d \in dirs
      /\ \A q \in Proc : ~MakingAt(q, d)
  BY DEF OpenProject, Settled, MakingAt, Making
<1>1. TypeOK'
  <2>1. \A q \in Proc, e \in Place :
           owner'[e] = q <=> /\ session'[q].kind # "reader" /\ session'[q].at = e
                             /\ session'[q].pc \in Holding
    BY <1>a, IdleIsSession DEF OpenProject, IInv, TypeOK, Holding
  <2>2. \A q \in Proc : listLock' = q <=> session'[q].pc = "write"
    BY IdleIsSession DEF OpenProject, IInv, TypeOK, At, list
  <2>3. /\ dirs' \subseteq Dir /\ meta' \subseteq dirs'
        /\ db' \in [Place -> Layout] /\ source' \in [Place -> SUBSET Root]
        /\ \A e \in Dir : db'[e] # "none" => e \in dirs'
    BY IdleIsSession DEF OpenProject, IInv, TypeOK, disk
  <2>4. /\ recent' \in Seq(Place) /\ Len(recent') <= MaxRecent
        /\ \A i, j \in 1 .. Len(recent') : recent'[i] = recent'[j] => i = j
        /\ begun' \in 0 .. MaxSessions /\ crashes' \in 0 .. MaxCrashes
    BY DEF OpenProject, IInv, TypeOK, list
  <2> QED BY <2>1, <2>2, <2>3, <2>4 DEF TypeOK, At
<1>2. SessionTypeOK'
  BY <1>0 DEF OpenProject, IInv, SessionTypeOK, list
<1>3. NoForeignDir'
  BY DEF OpenProject, IInv, NoForeignDir, disk
<1>4. (\A q \in Proc : SessionOK(q))'
  <2>1. \A q \in Proc \ {p} : SessionOK(q)'
    BY DEF OpenProject, IInv, SessionOK, list
  <2>2. SessionOK(p)'
    BY <1>0, <1>a DEF SessionOK
  <2> QED BY <2>1, <2>2
<1>5. (\A q \in Proc : Progress(q))'
  <2>1. \A q \in Proc \ {p} : Progress(q)'
    BY DEF OpenProject, IInv, Progress, disk
  <2>2. Progress(p)'
    BY <1>0, <1>a, <1>b DEF OpenProject, Progress, disk
  <2> QED BY <2>1, <2>2
<1>6. Exclusive'
  BY <1>0, <1>b DEF IInv, Exclusive, MakingAt
<1>7. RecentIsMade'
  <2>1. \A q \in Proc, e \in Place : MakingAt(q, e)' => MakingAt(q, e)
    BY <1>0 DEF MakingAt
  <2> QED BY <2>1 DEF OpenProject, IInv, TypeOK, RecentIsMade, disk, list
<1>8. HandedOver'
  BY DEF OpenProject, IInv, HandedOver, disk
<1> QED BY <1>1, <1>2, <1>3, <1>4, <1>5, <1>6, <1>7, <1>8 DEF IInv

\* One mkdir gives the place to the creation, or the next name is tried (Claim).
LEMMA ClaimKeeps ==
    ASSUME ProjectStoreAssumption, IInv, NEW p \in Proc, Claim(p)
    PROVE  IInv'
<1> DEFINE d == session[p].at
<1>a. session[p].kind = "create" /\ d \in Dir /\ session[p].root \in Root
  BY DEF Claim, IInv, SessionOK, At
<1>1. CASE d \notin dirs /\ dirs' = dirs \cup {d} /\ Goto(p, "lease")
  <2>0. PICK s \in Sessions :
           /\ session' = [session EXCEPT ![p] = s] /\ s.pc = "lease"
           /\ s.kind = session[p].kind /\ s.at = session[p].at
           /\ s.root = session[p].root /\ s.seen = session[p].seen
    BY <1>1, GotoStep DEF IInv, Steps
  <2>9. /\ session'[p] = s /\ \A q \in Proc \ {p} : session'[q] = session[q]
    BY <2>0 DEF IInv, SessionTypeOK
  <2>b. \A q \in Proc : session[q].at = d => session[q].pc \in {"idle", "claim"}
    BY <1>1, <1>a DEF IInv, Progress, Dir
  <2>c. \A i \in 1 .. Len(recent) : recent[i] # d
    BY <1>1, <1>a DEF IInv, TypeOK, RecentIsMade
  <2>1. TypeOK'
    <3>1. \A q \in Proc, e \in Place :
             owner'[e] = q <=> /\ session'[q].kind # "reader" /\ session'[q].at = e
                               /\ session'[q].pc \in Holding
      BY <2>0, <2>9, <1>1 DEF Claim, IInv, TypeOK, Holding, At
    <3>2. \A q \in Proc : listLock' = q <=> session'[q].pc = "write"
      BY <2>0, <2>9, <1>1 DEF Claim, IInv, TypeOK, At, list
    <3>3. /\ dirs' \subseteq Dir /\ meta' \subseteq dirs'
          /\ db' \in [Place -> Layout] /\ source' \in [Place -> SUBSET Root]
          /\ \A e \in Dir : db'[e] # "none" => e \in dirs'
      BY <2>9, <1>a, <1>1 DEF Claim, IInv, TypeOK
    <3>4. /\ recent' \in Seq(Place) /\ Len(recent') <= MaxRecent
          /\ \A i, j \in 1 .. Len(recent') : recent'[i] = recent'[j] => i = j
          /\ begun' \in 0 .. MaxSessions /\ crashes' \in 0 .. MaxCrashes
      BY DEF Claim, IInv, TypeOK, list, bounds
    <3> QED BY <3>1, <3>2, <3>3, <3>4 DEF TypeOK, At
  <2>2. SessionTypeOK'
    BY <2>0 DEF Claim, IInv, SessionTypeOK, list
  <2>3. NoForeignDir'
    BY DEF Claim, IInv, NoForeignDir
  <2>4. (\A q \in Proc : SessionOK(q))'
    <3>1. \A q \in Proc \ {p} : SessionOK(q)'
      BY <2>9 DEF Claim, IInv, SessionOK, list
    <3>2. SessionOK(p)'
      BY <2>0, <2>9, <1>a DEF SessionOK
    <3> QED BY <3>1, <3>2
  <2>5. (\A q \in Proc : Progress(q))'
    <3>1. \A q \in Proc \ {p} : Progress(q)'
      BY <2>9, <1>1 DEF Claim, IInv, Progress
    <3>2. Progress(p)'
      BY <2>0, <2>9, <1>1 DEF Progress
    <3> QED BY <3>1, <3>2
  <2>6. Exclusive'
    BY <2>0, <2>9, <2>b DEF IInv, Exclusive, MakingAt, Making
  <2>7. RecentIsMade'
    BY <2>0, <2>9, <2>c DEF Claim, IInv, RecentIsMade, MakingAt, list
  <2>8. HandedOver'
    BY <2>0, <2>9, <1>1 DEF Claim, IInv, HandedOver
  <2> QED BY <2>1, <2>2, <2>3, <2>4, <2>5, <2>6, <2>7, <2>8 DEF IInv
<1>2. CASE d \in dirs /\ UNCHANGED dirs /\ session' = [session EXCEPT ![p] = IF d < N THEN [@ EXCEPT !.at = d + 1] ELSE Idle]
  <2>0. PICK s \in Sessions :
           /\ session' = [session EXCEPT ![p] = s]
           /\ \/ /\ d < N /\ s.pc = "claim" /\ s.kind = "create" /\ s.at = d + 1
                 /\ s.root = session[p].root
              \/ s = Idle
    <3>1. CASE d < N
      <4> DEFINE s == [session[p] EXCEPT !.at = d + 1]
      <4>1. session[p] \in Sessions /\ d + 1 \in Place /\ session[p].pc = "claim"
        BY <3>1, <1>a DEF Claim, IInv, SessionTypeOK, At, Place, Dir
      <4>2. /\ s \in Sessions /\ s.pc = "claim" /\ s.kind = "create" /\ s.at = d + 1
            /\ s.root = session[p].root
        BY <1>a, <4>1 DEF Sessions
      <4>3. session' = [session EXCEPT ![p] = s]
        BY <3>1, <1>2
      <4> QED BY <3>1, <4>2, <4>3
    <3>2. CASE ~(d < N)
      BY <1>2, <3>2, IdleIsSession
    <3> QED BY <3>1, <3>2
  <2>9. /\ session'[p] = s /\ \A q \in Proc \ {p} : session'[q] = session[q]
        /\ s.pc \in {"claim", "idle"} /\ session[p].pc = "claim"
        /\ s.kind \in {"create", "none"} /\ (s.pc = "claim" <=> s.kind = "create")
    BY <2>0, IdleIsSession DEF Claim, At, IInv, SessionTypeOK
  <2>1. TypeOK'
    <3>1. \A q \in Proc, e \in Place :
             owner'[e] = q <=> /\ session'[q].kind # "reader" /\ session'[q].at = e
                               /\ session'[q].pc \in Holding
      BY <2>9, <1>2 DEF Claim, IInv, TypeOK, Holding
    <3>2. \A q \in Proc : listLock' = q <=> session'[q].pc = "write"
      BY <2>9, <1>2 DEF Claim, IInv, TypeOK, At, list
    <3>3. /\ dirs' \subseteq Dir /\ meta' \subseteq dirs'
          /\ db' \in [Place -> Layout] /\ source' \in [Place -> SUBSET Root]
          /\ \A e \in Dir : db'[e] # "none" => e \in dirs'
      BY <2>9, <1>2 DEF Claim, IInv, TypeOK
    <3>4. /\ recent' \in Seq(Place) /\ Len(recent') <= MaxRecent
          /\ \A i, j \in 1 .. Len(recent') : recent'[i] = recent'[j] => i = j
          /\ begun' \in 0 .. MaxSessions /\ crashes' \in 0 .. MaxCrashes
      BY DEF Claim, IInv, TypeOK, list, bounds
    <3> QED BY <3>1, <3>2, <3>3, <3>4 DEF TypeOK, At
  <2>2. SessionTypeOK'
    BY <2>0 DEF Claim, IInv, SessionTypeOK, list
  <2>3. NoForeignDir'
    BY DEF Claim, IInv, NoForeignDir
  <2>4. (\A q \in Proc : SessionOK(q))'
    <3>1. \A q \in Proc \ {p} : SessionOK(q)'
      BY <2>9 DEF Claim, IInv, SessionOK, list
    <3>2. SessionOK(p)'
      BY <2>0, <2>9, <1>a, IdleIsSession DEF SessionOK, Dir
    <3> QED BY <3>1, <3>2
  <2>5. (\A q \in Proc : Progress(q))'
    <3>1. \A q \in Proc \ {p} : Progress(q)'
      BY <2>9, <1>2 DEF Claim, IInv, Progress
    <3>2. Progress(p)'
      BY <2>9 DEF Progress
    <3> QED BY <3>1, <3>2
  <2>6. Exclusive'
    BY <2>9 DEF IInv, Exclusive, MakingAt, Making
  <2>7. RecentIsMade'
    BY <2>9 DEF Claim, IInv, RecentIsMade, MakingAt, Making, list
  <2>8. HandedOver'
    BY <2>9, <1>2 DEF Claim, IInv, HandedOver
  <2> QED BY <2>1, <2>2, <2>3, <2>4, <2>5, <2>6, <2>7, <2>8 DEF IInv
<1> QED BY <1>1, <1>2 DEF Claim

\* The rollback takes from a place where the creation is alone (RemoveClaimed).
LEMMA RemoveClaimedKeeps ==
    ASSUME ProjectStoreAssumption, IInv, NEW p \in Proc, RemoveClaimed(p)
    PROVE  IInv'
<1> DEFINE d == session[p].at
<1>a. /\ session[p].kind = "create" /\ session[p].pc = "remove" /\ d \in Dir /\ d \in Place /\ d \in dirs
      /\ MakingAt(p, d)
  <2>1. session[p].kind = "create" /\ session[p].pc = "remove" /\ d \in Dir
    BY DEF RemoveClaimed, IInv, SessionOK, At
  <2>2. d \in dirs
    BY <2>1 DEF IInv, Progress, Dir
  <2> QED BY <2>1, <2>2 DEF Dir, Place, MakingAt, Making
<1>b. \A q \in Proc \ {p} : session[q].at = d => session[q].pc \in {"idle", "claim"}
  BY <1>a DEF IInv, Exclusive
<1>c. \A i \in 1 .. Len(recent) : recent[i] # d
  BY <1>a DEF IInv, RecentIsMade
<1>d. /\ dirs' \subseteq dirs /\ dirs \ {d} \subseteq dirs' /\ meta' \subseteq meta /\ meta \ {d} \subseteq meta' /\ meta' \subseteq dirs'
      /\ db' \in [Place -> Layout] /\ source' \in [Place -> SUBSET Root]
      /\ \A e \in Place : e # d => db'[e] = db[e] /\ source'[e] = source[e]
      /\ db'[d] \in {db[d], "none"} /\ (d \notin dirs' => db'[d] = "none")
      /\ UNCHANGED <<owner, recent, listLock, begun, crashes>>
  BY <1>a DEF RemoveClaimed, IInv, TypeOK, Layout, disk, list, bounds
<1>0. PICK s \in Sessions :
         /\ session' = [session EXCEPT ![p] = s]
         /\ \/ s = session[p] /\ dirs' = dirs
            \/ s = Idle
  <2>1. CASE UNCHANGED session
    BY <2>1, <1>d DEF IInv, SessionTypeOK, RemoveClaimed
  <2>2. CASE session' = [session EXCEPT ![p] = Idle]
    BY <2>2, IdleIsSession
  <2> QED BY <2>1, <2>2 DEF RemoveClaimed
<1>9. /\ session'[p] = s /\ \A q \in Proc \ {p} : session'[q] = session[q]
      /\ s.pc \in {"remove", "idle"} /\ s.kind \in {"create", "none"}
      /\ (s.pc = "remove" => s = session[p])
  BY <1>0, <1>a, IdleIsSession DEF IInv, SessionTypeOK
<1>1. TypeOK'
  <2>1. \A q \in Proc, e \in Place :
           owner'[e] = q <=> /\ session'[q].kind # "reader" /\ session'[q].at = e
                             /\ session'[q].pc \in Holding
    BY <1>9, <1>a, <1>d DEF IInv, TypeOK, Holding
  <2>2. \A q \in Proc : listLock' = q <=> session'[q].pc = "write"
    BY <1>9, <1>a, <1>d DEF IInv, TypeOK, At
  <2>3. /\ dirs' \subseteq Dir /\ meta' \subseteq dirs'
        /\ db' \in [Place -> Layout] /\ source' \in [Place -> SUBSET Root]
        /\ \A e \in Dir : db'[e] # "none" => e \in dirs'
    <3>1. Dir \subseteq Place
      BY DEF Dir, Place
    <3>2. ASSUME NEW e \in Dir, db'[e] # "none"
          PROVE  e \in dirs'
      <4>1. CASE e = d
        BY <1>d, <3>2, <4>1
      <4>2. CASE e # d
        BY <1>d, <3>1, <3>2, <4>2 DEF IInv, TypeOK
      <4> QED BY <4>1, <4>2
    <3> QED BY <1>d, <3>2 DEF IInv, TypeOK
  <2>4. /\ recent' \in Seq(Place) /\ Len(recent') <= MaxRecent
        /\ \A i, j \in 1 .. Len(recent') : recent'[i] = recent'[j] => i = j
        /\ begun' \in 0 .. MaxSessions /\ crashes' \in 0 .. MaxCrashes
    BY <1>d DEF IInv, TypeOK
  <2> QED BY <2>1, <2>2, <2>3, <2>4 DEF TypeOK, At
<1>2. SessionTypeOK'
  BY <1>0, <1>d DEF IInv, SessionTypeOK
<1>3. NoForeignDir'
  BY <1>d DEF IInv, NoForeignDir, Dir, Place
<1>4. (\A q \in Proc : SessionOK(q))'
  <2>1. \A q \in Proc \ {p} : SessionOK(q)'
    BY <1>9, <1>d DEF IInv, SessionOK
  <2>2. SessionOK(p)'
    BY <1>0, <1>d, IdleIsSession DEF IInv, SessionOK
  <2> QED BY <2>1, <2>2
<1>5. (\A q \in Proc : Progress(q))'
  <2>1. ASSUME NEW q \in Proc \ {p}
        PROVE  Progress(q)'
    <3>1. session'[q] = session[q] /\ session[q].at \in Place /\ Progress(q)
      BY <1>9 DEF IInv, SessionTypeOK, Sessions
    <3>2. CASE session[q].at = d
      BY <1>b, <3>1, <3>2 DEF Progress
    <3>3. CASE session[q].at # d
      <4>1. /\ db'[session[q].at] = db[session[q].at]
            /\ source'[session[q].at] = source[session[q].at]
            /\ session[q].at \in dirs => session[q].at \in dirs'
            /\ session[q].at \in meta => session[q].at \in meta'
        BY <1>d, <3>1, <3>3
      <4> QED BY <3>1, <4>1 DEF Progress
    <3> QED BY <3>2, <3>3
  <2>2. Progress(p)'
    BY <1>0, <1>9, <1>a, IdleIsSession DEF Progress
  <2> QED BY <2>1, <2>2
<1>6. Exclusive'
  BY <1>9 DEF IInv, Exclusive, MakingAt, Making
<1>7. RecentIsMade'
  BY <1>9, <1>c, <1>d DEF IInv, TypeOK, RecentIsMade, MakingAt, Making
<1>8. HandedOver'
  <2> SUFFICES ASSUME NEW q \in Proc, session'[q].kind = "create",
                      session'[q].pc \in {"record", "write", "open"}
               PROVE  /\ session'[q].at \in dirs' /\ session'[q].at \in meta'
                      /\ db'[session'[q].at] = "current"
                      /\ session'[q].root \in source'[session'[q].at]
    BY DEF HandedOver
  <2>1. q # p /\ session'[q] = session[q] /\ session[q].at \in Place /\ session[q].at # d
    BY <1>9, <1>b DEF IInv, SessionTypeOK, Sessions
  <2>2. /\ session[q].at \in dirs /\ session[q].at \in meta
        /\ db[session[q].at] = "current" /\ session[q].root \in source[session[q].at]
    BY <2>1 DEF IInv, HandedOver
  <2>3. /\ db'[session[q].at] = db[session[q].at]
        /\ source'[session[q].at] = source[session[q].at]
    BY <1>d, <2>1
  <2> QED BY <1>d, <2>1, <2>2, <2>3
<1> QED BY <1>1, <1>2, <1>3, <1>4, <1>5, <1>6, <1>7, <1>8 DEF IInv

-----------------------------------------------------------------------------
(* The theorems *)

\* A stuttering step keeps the invariant.
LEMMA StutterKeeps ==
    ASSUME IInv, UNCHANGED vars
    PROVE  IInv'
BY DEF IInv, TypeOK, SessionTypeOK, NoForeignDir, SessionOK, Progress, Exclusive,
   MakingAt, RecentIsMade, HandedOver, At, vars, disk, list, bounds

\* The invariant holds initially.
LEMMA InitEstablishes ==
    ASSUME ProjectStoreAssumption, Init
    PROVE  IInv
<1>1. /\ session \in [Proc -> Sessions]
      /\ \A p \in Proc : session[p] = Idle /\ session[p].pc = "idle" /\ session[p].kind = "none"
  BY IdleIsSession DEF Init
<1>2. TypeOK
  <2>1. \A p \in Proc, d \in Place : owner[d] # p
    BY DEF Init
  <2>2. \A p \in Proc : listLock # p
    BY DEF Init
  <2>3. db \in [Place -> Layout] /\ source \in [Place -> SUBSET Root]
    BY DEF Init, Layout
  <2>4. recent \in Seq(Place) /\ Len(recent) = 0
    BY DEF Init
  <2>5. begun \in 0 .. MaxSessions /\ crashes \in 0 .. MaxCrashes
    BY DEF Init
  <2>6. Len(recent) <= MaxRecent /\ \A i, j \in 1 .. Len(recent) : recent[i] = recent[j] => i = j
    BY <2>4
  <2>7. dirs \subseteq Dir /\ meta \subseteq dirs /\ \A d \in Dir : db[d] # "none" => d \in dirs
    BY DEF Init
  <2> QED BY <1>1, <2>1, <2>2, <2>3, <2>4, <2>5, <2>6, <2>7 DEF TypeOK, Holding, At
<1>3. SessionTypeOK
  BY <1>1 DEF Init, SessionTypeOK
<1>4. NoForeignDir
  BY DEF Init, NoForeignDir
<1>5. \A p \in Proc : SessionOK(p) /\ Progress(p)
  BY <1>1 DEF SessionOK, Progress
<1>6. Exclusive /\ HandedOver
  BY <1>1 DEF Exclusive, HandedOver
<1>7. RecentIsMade
  BY DEF Init, RecentIsMade
<1> QED BY <1>2, <1>3, <1>4, <1>5, <1>6, <1>7 DEF IInv

\* Every step keeps the invariant.
LEMMA NextKeeps ==
    ASSUME ProjectStoreAssumption, IInv, Next
    PROVE  IInv'
<1> SUFFICES ASSUME NEW p \in Proc,
                    \/ \E r \in Root : CreateFromSource(p, r) \/ RegisterScanSource(p, r) \/ StartScan(p, r)
                    \/ \E d \in Place, kind \in {"desktop", "command"} : OpenReadWrite(p, kind, d)
                    \/ \E d \in Place : OpenProject(p, d)
                    \/ Claim(p) \/ AcquireOwner(p) \/ CreateFile(p) \/ Preflight(p) \/ Migrate(p)
                    \/ ApplyGovernanceMigration(p) \/ RegisterStorage(p) \/ WriteMeta(p) \/ Wire(p)
                    \/ LockRecent(p) \/ WriteRecent(p) \/ SkipRecent(p)
                    \/ CloseProject(p) \/ Fail(p) \/ RemoveClaimed(p) \/ Crash(p)
             PROVE  IInv'
  BY DEF Next
<1>1. CASE \E r \in Root : CreateFromSource(p, r)
  BY <1>1, CreateFromSourceKeeps
<1>2. CASE \E r \in Root : RegisterScanSource(p, r)
  BY <1>2, RegisterScanSourceKeeps
<1>3. CASE \E r \in Root : StartScan(p, r)
  BY <1>3, StartScanKeeps
<1>4. CASE \E d \in Place, kind \in {"desktop", "command"} : OpenReadWrite(p, kind, d)
  BY <1>4, OpenReadWriteKeeps
<1>5. CASE \E d \in Place : OpenProject(p, d)
  BY <1>5, OpenProjectKeeps
<1>6. CASE Claim(p)
  BY <1>6, ClaimKeeps
<1>7. CASE AcquireOwner(p)
  BY <1>7, AcquireOwnerKeeps
<1>8. CASE CreateFile(p)
  BY <1>8, CreateFileKeeps
<1>9. CASE Preflight(p)
  BY <1>9, PreflightKeeps
<1>10. CASE Migrate(p)
  BY <1>10, MigrateKeeps
<1>11. CASE ApplyGovernanceMigration(p)
  BY <1>11, ApplyGovernanceMigrationKeeps
<1>12. CASE RegisterStorage(p)
  BY <1>12, RegisterStorageKeeps
<1>13. CASE WriteMeta(p)
  BY <1>13, WriteMetaKeeps
<1>14. CASE Wire(p)
  BY <1>14, WireKeeps
<1>15. CASE LockRecent(p)
  BY <1>15, LockRecentKeeps
<1>16. CASE WriteRecent(p)
  BY <1>16, WriteRecentKeeps
<1>17. CASE SkipRecent(p)
  BY <1>17, SkipRecentKeeps
<1>18. CASE Fail(p)
  BY <1>18, FailKeeps
<1>19. CASE RemoveClaimed(p)
  BY <1>19, RemoveClaimedKeeps
<1>20. CASE CloseProject(p) \/ Crash(p)
  BY <1>20, EndKeeps
<1> QED
  BY <1>1, <1>2, <1>3, <1>4, <1>5, <1>6, <1>7, <1>8, <1>9, <1>10, <1>11, <1>12, <1>13,
     <1>14, <1>15, <1>16, <1>17, <1>18, <1>19, <1>20

\* The invariant holds in every reachable state.
LEMMA Invariance == Spec => []IInv
<1>1. Init => IInv
  BY InitEstablishes, ProjectStoreAssumption
<1>2. IInv /\ [Next]_vars => IInv'
  BY NextKeeps, StutterKeeps, ProjectStoreAssumption
<1> QED BY <1>1, <1>2, PTL DEF Spec

\* A lease and a lock are held exactly by the sessions that work under them:
\* neither outlives a failed open, a close or the process (store.Open, lockFile).
THEOREM TypeCorrect == Spec => []TypeOK
<1>1. IInv => TypeOK
  BY DEF IInv
<1> QED BY <1>1, Invariance, PTL

\* An open project stays whole and a recent project stays on the disk, however
\* many creations of the same name fail and roll back (CreateFromSource).
THEOREM GivenProjectsStand == Spec => []ProjectsStand
<1>1. IInv => ProjectsStand
  BY DEF IInv, ProjectsStand, RecentIsMade, RecentStands
<1> QED BY <1>1, Invariance, PTL

\* Two processes that record at once never lose each other's entry: what is
\* written was made from the list that is replaced (RecordRecent, lockFile).
THEOREM RecordingKeepsEntries == Spec => RecentKeeps
<1>1. ASSUME IInv, [Next]_vars, recent' # recent
      PROVE  \E d \in Place : recent' = Recorded(recent, d)
  <2>1. PICK p \in Proc : WriteRecent(p)
    <3> SUFFICES ASSUME \A p \in Proc : ~WriteRecent(p) PROVE FALSE
      OBVIOUS
    <3>0. PICK p \in Proc :
              \/ \E r \in Root : CreateFromSource(p, r) \/ RegisterScanSource(p, r) \/ StartScan(p, r)
              \/ \E d \in Place, kind \in {"desktop", "command"} : OpenReadWrite(p, kind, d)
              \/ \E d \in Place : OpenProject(p, d)
              \/ Claim(p) \/ AcquireOwner(p) \/ CreateFile(p) \/ Preflight(p) \/ Migrate(p)
              \/ ApplyGovernanceMigration(p) \/ RegisterStorage(p) \/ WriteMeta(p) \/ Wire(p)
              \/ LockRecent(p) \/ SkipRecent(p)
              \/ CloseProject(p) \/ Fail(p) \/ RemoveClaimed(p) \/ Crash(p)
      BY <1>1 DEF Next, vars, list
    <3>1. \A r \in Root : ~CreateFromSource(p, r) /\ ~RegisterScanSource(p, r) /\ ~StartScan(p, r)
      BY <1>1 DEF CreateFromSource, RegisterScanSource, StartScan, list
    <3>2. \A d \in Place : ~OpenProject(p, d) /\ \A kind : ~OpenReadWrite(p, kind, d)
      BY <1>1 DEF OpenProject, OpenReadWrite, list
    <3>3. ~Claim(p) /\ ~AcquireOwner(p) /\ ~CreateFile(p)
      BY <1>1 DEF Claim, AcquireOwner, CreateFile, list
    <3>4. ~Preflight(p) /\ ~Migrate(p) /\ ~ApplyGovernanceMigration(p)
      BY <1>1 DEF Preflight, Migrate, ApplyGovernanceMigration, list
    <3>5. ~RegisterStorage(p) /\ ~WriteMeta(p) /\ ~Wire(p)
      BY <1>1 DEF RegisterStorage, WriteMeta, Wire, list
    <3>6. ~LockRecent(p) /\ ~SkipRecent(p)
      BY <1>1 DEF LockRecent, SkipRecent
    <3>7. ~CloseProject(p) /\ ~Fail(p) /\ ~RemoveClaimed(p) /\ ~Crash(p)
      BY <1>1 DEF CloseProject, Fail, RemoveClaimed, Crash, list
    <3> QED BY <3>0, <3>1, <3>2, <3>3, <3>4, <3>5, <3>6, <3>7
  <2>2. session[p].at \in Place /\ session[p].seen = recent
    BY <1>1, <2>1 DEF WriteRecent, IInv, SessionOK, SessionTypeOK, Sessions, At
  <2> QED BY <2>1, <2>2 DEF WriteRecent
<1>2. IInv /\ [Next]_vars => (recent' # recent => \E d \in Place : recent' = Recorded(recent, d))
  BY <1>1
<1> QED BY <1>2, Invariance, PTL DEF Spec, RecentKeeps

\* No database of another program is ever written, and a database at the
\* present schema keeps it and its sources unless the creation that made it
\* takes itself back (preflightGovernanceSchema, Init, removeClaimedProjectDir).
THEOREM DatabasesKeepTheirContent == Spec => DatabasesAreKept
<1> DEFINE Kept(d) ==
          /\ db[d] = "foreign" => db'[d] = "foreign"
          /\ db[d] = "current" =>
                \/ db'[d] = "current" /\ source[d] \subseteq source'[d]
                \/ \E p \in Proc : session[p].kind = "create" /\ session[p].at = d /\ At(p, "remove")
<1>1. ASSUME IInv, Next, NEW d \in Place
      PROVE  Kept(d)
  <2>1. CASE db' = db /\ source' = source
    BY <2>1
  <2>2. ASSUME NEW p \in Proc, CreateFile(p)
        PROVE  Kept(d)
    BY <1>1, <2>2 DEF CreateFile, IInv
  <2>3. ASSUME NEW p \in Proc, Migrate(p)
        PROVE  Kept(d)
    <3>1. db[session[p].at] \in {"empty", "partial", "legacy", "current"}
      BY <1>1, <2>3 DEF Migrate, IInv, Progress, At
    <3>2. db[session[p].at] = "current" => db'[session[p].at] = "current"
      BY <1>1, <2>3 DEF Migrate, Migrated, IInv
    <3>3. source' = source /\ \A e \in Place : e # session[p].at => db'[e] = db[e]
      BY <1>1, <2>3 DEF Migrate, IInv
    <3> QED BY <3>1, <3>2, <3>3
  <2>4. ASSUME NEW p \in Proc, ApplyGovernanceMigration(p)
        PROVE  Kept(d)
    <3>1. db[session[p].at] \in {"legacy", "current"}
      BY <1>1, <2>4 DEF ApplyGovernanceMigration, IInv, Progress, At
    <3>2. db' = [db EXCEPT ![session[p].at] = "current"] /\ source' = source
      BY <2>4 DEF ApplyGovernanceMigration
    <3> QED BY <1>1, <3>1, <3>2 DEF IInv
  <2>5. ASSUME NEW p \in Proc, NEW r \in Root,
               RegisterScanSource(p, r) \/ StartScan(p, r)
        PROVE  Kept(d)
    BY <1>1, <2>5 DEF RegisterScanSource, StartScan, IInv, TypeOK
  <2>6. ASSUME NEW p \in Proc, RemoveClaimed(p)
        PROVE  Kept(d)
    <3>1. session[p].kind = "create" /\ session[p].at \in Dir
      BY <1>1, <2>6 DEF RemoveClaimed, IInv, SessionOK, At
    <3>2. CASE d = session[p].at
      <4>1. db[d] # "foreign"
        BY <1>1, <3>1, <3>2 DEF IInv, NoForeignDir
      <4> QED BY <2>6, <3>1, <3>2, <4>1 DEF RemoveClaimed
    <3>3. CASE d # session[p].at
      BY <1>1, <2>6, <3>3 DEF RemoveClaimed, IInv, TypeOK, disk
    <3> QED BY <3>2, <3>3
  <2>7. ASSUME NEW p \in Proc, RegisterStorage(p)
        PROVE  Kept(d)
    BY <1>1, <2>7 DEF RegisterStorage, IInv
  <2>8. \/ db' = db /\ source' = source
        \/ \E p \in Proc : \/ CreateFile(p) \/ Migrate(p) \/ ApplyGovernanceMigration(p)
                           \/ RegisterStorage(p) \/ RemoveClaimed(p)
                           \/ \E r \in Root : RegisterScanSource(p, r) \/ StartScan(p, r)
    BY ZenonT(40), <1>1 DEF Next, CreateFromSource, OpenReadWrite, OpenProject, Claim,
       AcquireOwner, Preflight, WriteMeta, Wire, LockRecent, WriteRecent, SkipRecent,
       CloseProject, Fail, Crash, disk
  <2> HIDE DEF Kept
  <2> QED BY <2>1, <2>2, <2>3, <2>4, <2>5, <2>6, <2>7, <2>8
<1>2. ASSUME UNCHANGED vars, NEW d \in Place
      PROVE  Kept(d)
  BY <1>2 DEF vars, disk
<1>3. IInv /\ [Next]_vars =>
         \A d \in Place :
            /\ db[d] = "foreign" => db'[d] = "foreign"
            /\ db[d] = "current" =>
                  \/ db'[d] = "current" /\ source[d] \subseteq source'[d]
                  \/ \E p \in Proc : /\ session[p].kind = "create" /\ session[p].at = d
                                     /\ At(p, "remove")
  BY <1>1, <1>2
<1> QED BY <1>3, Invariance, PTL DEF Spec, DatabasesAreKept
=============================================================================
