-------------------------- MODULE ConnectionsProofs --------------------------
(***************************************************************************)
(* What holds of the connections for every number of them, of tables, of   *)
(* pages, of rows and of constructions: the types, TablesAsAcked,          *)
(* AloneIsSafe, LockHeld and LockAndStoreReleased.                         *)
(*                                                                         *)
(* The invariant has one part for each.  Budget counts the descriptors a   *)
(* construction may still open, so one is always free.  FileSound relates  *)
(* what the connections have cached to the catalog: an entry is the one in *)
(* the file or that of a table being created, whose page is empty and      *)
(* nobody else's.  Alone says that the only connection has read what is in *)
(* the file.  Descriptors says whose the descriptors are until one was     *)
(* opened between the two calls that close a lock file.                    *)
(***************************************************************************)
EXTENDS Connections, FiniteSetTheorems, NaturalsInduction, WellFoundedInduction, TLAPS

Working == {"idle", "insert", "scanned", "delete", "create"}
WithHeader == {"header", "logged"} \cup Working
WithSize == {"sized"} \cup WithHeader
WithLock == {"opened", "locked", "closing"} \cup WithSize
WithStore == {"lockGone", "flush", "flushed"} \cup WithSize

Page(c) == conn[c].entries[conn[c].table]

Counters ==
    /\ opens \in 0..MaxOpens /\ issued \in 0..MaxRows /\ failed \in Nat
    /\ together \in BOOLEAN /\ tool \in BOOLEAN

StageOf(c) ==
    /\ At(c, "new") => conn[c] = Closed
    /\ ~At(c, "new") => conn[c].lockFd \in 1..MaxFds
    /\ conn[c].at \in WithStore => conn[c].storeFd \in 1..MaxFds
    /\ conn[c].at \in {"opened", "locked"} => conn[c].storeFd = 0
    /\ conn[c].at \in WithHeader => conn[c].count # 0
    /\ conn[c].at \in Working \ {"idle"} => conn[c].table \in Tables /\ Page(c) # 0
    /\ At(c, "insert") => conn[c].row # 0

Stages == \A c \in Conns : StageOf(c)

Used == {n \in 1..MaxFds : fds[n] # Free}
StoreDue == {c \in Conns : conn[c].at \in {"opened", "locked"}}
WalDue == {c \in Conns : conn[c].at \in {"opened", "locked", "sized", "header"}}

Budget ==
    /\ IsFiniteSet(WalDue)
    /\ Cardinality(Used) + Cardinality(StoreDue) + Cardinality(WalDue) <= 3 * opens

FileSound ==
    /\ RowsAsAcked
    /\ \A t, u \in Tables : t # u /\ catalog[t] # 0 => catalog[t] # catalog[u]
    /\ \A t \in Tables : catalog[t] # 0 => catalog[t] < fileSize
    /\ \A c \in Conns, t \in Tables :
          \/ conn[c].entries[t] \in {0, catalog[t]}
          \/ At(c, "create") /\ conn[c].table = t
    /\ \A c \in Conns : At(c, "create") =>
          /\ Page(c) < fileSize /\ rows[Page(c)] = {}
          /\ \A t \in Tables : catalog[t] # Page(c)
          /\ \A d \in Conns \ {c} : At(d, "create") => Page(d) # Page(c)

UpToDate(c) ==
    /\ conn[c].at \in WithSize => conn[c].count = fileSize
    /\ conn[c].at \in Working \ {"create"} => conn[c].entries = catalog
    /\ At(c, "create") => catalog = [conn[c].entries EXCEPT ![conn[c].table] = 0]
    /\ conn[c].at \in {"insert", "delete"} => conn[c].body = rows[Page(c)]
    /\ At(c, "flush") => conn[c].page0 = catalog

Alone ==
    /\ mishaps = {}
    /\ \A c, d \in Conns : c # d => At(c, "new") \/ At(d, "new")
    /\ \A c \in Conns : UpToDate(c)

\* Descriptors of stores that no connection knows any more.
Leaked == {n \in 1..MaxFds :
              \E c \in Conns : fds[n] = <<c, "store">> /\ conn[c].storeFd # n}

Descriptors ==
    /\ \A c \in Conns :
          /\ conn[c].at \in WithLock => fds[conn[c].lockFd] = <<c, "lock">>
          /\ Usable(c) => conn[c].lockFd \in locks
          /\ conn[c].storeFd # 0 => Own(c)
          /\ At(c, "lockClosed") => fds[conn[c].lockFd] = Free
    /\ \A n \in 1..MaxFds, c \in Conns :
          fds[n] = <<c, "lock">> => conn[c].at \in WithLock /\ conn[c].lockFd = n
    /\ \A n \in locks : \E c \in Conns : fds[n] = <<c, "lock">>
    /\ Cardinality(Leaked) = failed

Inv ==
    /\ TypeOK /\ Counters /\ Stages /\ Budget
    /\ tool => locks = {}
    /\ Running => FileSound
    /\ ~together => Alone
    /\ "overlap" \notin mishaps => Descriptors

-----------------------------------------------------------------------------
(* Descriptors                                                             *)

LEMMA Bounds == MaxRows \in Nat /\ MaxPages \in Nat \ {0} /\ MaxOpens \in Nat /\ MaxFds \in Nat
BY ConnAssumption DEF MaxFds

\* A descriptor that is open is not free.
LEMMA OpenNotFree == \A c, k : <<c, k>> # Free
BY DEF Free

\* There is always a lowest free descriptor.
LEMMA LowestFreeFound ==
    ASSUME TypeOK, Counters, Budget
    PROVE  LowestFree \in 1..MaxFds /\ fds[LowestFree] = Free
<1> DEFINE S == {n \in 1..MaxFds : fds[n] = Free}
<1>1. S # {}
  <2> SUFFICES ASSUME S = {} PROVE FALSE
    OBVIOUS
  <2>1. Used = 1..MaxFds
    BY DEF Used
  <2>2. Cardinality(Used) = MaxFds
    BY <2>1, Bounds, FS_Interval
  <2>3. IsFiniteSet(StoreDue)
    BY FS_Subset DEF Budget, StoreDue, WalDue
  <2>4. Cardinality(StoreDue) \in Nat /\ Cardinality(WalDue) \in Nat
    BY <2>3, FS_CardinalityType DEF Budget
  <2>5. opens \in Nat /\ opens <= MaxOpens
    BY Bounds DEF Counters
  <2> QED BY <2>2, <2>4, <2>5, Bounds DEF Budget, MaxFds
<1>2. S \subseteq Nat
  OBVIOUS
<1>3. PICK n \in S : \A m \in S : n <= m
  <2> DEFINE R == OpToRel(<, Nat)
  <2>1. PICK n \in S : \A m \in S : ~(<<m, n>> \in R)
    BY <1>1, <1>2, NatLessThanWellFounded, WFMin
  <2>2. \A m \in S : m < n => <<m, n>> \in R
    BY <1>2 DEF OpToRel
  <2>3. \A m \in S : m \in Nat /\ n \in Nat
    BY <1>2
  <2> HIDE DEF R, S
  <2>4. \A m \in S : ~(m < n)
    BY <2>1, <2>2
  <2>5. \A m \in S : n <= m
    BY <2>3, <2>4
  <2> QED BY <2>5
<1>4. n \in 1..MaxFds /\ fds[n] = Free /\ \A k \in 1..(n - 1) : fds[k] # Free
  BY <1>3, Bounds
<1> QED BY <1>4 DEF LowestFree

-----------------------------------------------------------------------------
(* Types                                                                   *)

LEMMA ClosedType == Closed \in Records
BY Bounds DEF Closed, Records, Places

LEMMA InitInv == Init => Inv
<1> SUFFICES ASSUME Init PROVE Inv
  OBVIOUS
<1>1. TypeOK
  BY Bounds, ClosedType, ConnAssumption DEF Init, TypeOK
<1>2. Counters /\ (tool => locks = {})
  <2>1. together \in BOOLEAN /\ tool \in BOOLEAN
    BY DEF Init
  <2>2. opens \in 0..MaxOpens /\ issued \in 0..MaxRows /\ failed \in Nat
    BY Bounds DEF Init
  <2> QED BY <2>1, <2>2 DEF Init, Counters
<1>3. \A c \in Conns : conn[c].at = "new" /\ conn[c].lockFd = 0 /\ conn[c].storeFd = 0
                         /\ \A t \in Tables : conn[c].entries[t] = 0
  BY DEF Init, Closed
<1>4. Stages
  BY <1>3 DEF Init, Stages, StageOf, At, WithStore, WithSize, WithHeader, Working
<1>5. Budget
  <2>1. Used = {} /\ StoreDue = {} /\ WalDue = {}
    BY <1>3 DEF Init, Used, StoreDue, WalDue
  <2> QED BY <2>1, FS_EmptySet DEF Init, Budget
<1>6. FileSound
  BY <1>3, Bounds, ConnAssumption DEF Init, FileSound, RowsAsAcked, At, Closed
<1>7. Alone
  BY <1>3 DEF Init, Alone, UpToDate, At, Working, WithSize, WithHeader
<1>8. Descriptors
  <2>1. Leaked = {}
    BY OpenNotFree DEF Init, Leaked
  <2> QED BY <1>3, <2>1, FS_EmptySet, OpenNotFree
          DEF Init, Descriptors, At, Usable, WithLock, WithSize, WithHeader, Working, Places
<1> QED BY <1>1, <1>2, <1>4, <1>5, <1>6, <1>7, <1>8 DEF Inv

-----------------------------------------------------------------------------
(* Types                                                                   *)

\* What the steps share: a window noted, a descriptor opened, one closed.
LEMMA NoteFacts ==
    ASSUME TypeOK, NEW w \in Windows, NEW hit, Note(w, hit)
    PROVE  /\ mishaps' \subseteq Windows /\ mishaps \subseteq mishaps'
           /\ w \notin mishaps' => ~hit /\ mishaps' = mishaps
BY DEF TypeOK, Note

LEMMA OpenFdFacts ==
    ASSUME TypeOK, Counters, Budget, NEW c \in Conns, NEW role \in {"lock", "store", "wal"},
           OpenFd(c, role)
    PROVE  /\ LowestFree \in 1..MaxFds /\ fds[LowestFree] = Free
           /\ fds' \in [1..MaxFds -> {Free} \cup (Conns \X {"lock", "store", "wal"})]
           /\ fds'[LowestFree] = <<c, role>>
           /\ \A n \in 1..MaxFds : n # LowestFree => fds'[n] = fds[n]
           /\ mishaps' \subseteq Windows /\ mishaps \subseteq mishaps'
           /\ "overlap" \notin mishaps' =>
                 mishaps' = mishaps /\ \A d \in Conns : d # c => ~At(d, "lockClosed")
<1>1. "overlap" \in Windows
  BY DEF Windows
<1>2. Note("overlap", \E d \in Conns \ {c} : At(d, "lockClosed"))
  BY DEF OpenFd
<1>3. LowestFree \in 1..MaxFds /\ fds[LowestFree] = Free
  BY LowestFreeFound
<1>4. fds' = [fds EXCEPT ![LowestFree] = <<c, role>>]
  BY DEF OpenFd
<1>5. fds \in [1..MaxFds -> {Free} \cup (Conns \X {"lock", "store", "wal"})]
  BY DEF TypeOK
<1> HIDE DEF LowestFree
<1>6. /\ fds' \in [1..MaxFds -> {Free} \cup (Conns \X {"lock", "store", "wal"})]
      /\ fds'[LowestFree] = <<c, role>>
      /\ \A n \in 1..MaxFds : n # LowestFree => fds'[n] = fds[n]
  BY <1>3, <1>4, <1>5
<1> QED BY <1>1, <1>2, <1>3, <1>6, NoteFacts

LEMMA CloseFdFacts ==
    ASSUME TypeOK, NEW n, CloseFd(n)
    PROVE  /\ fds' \in [1..MaxFds -> {Free} \cup (Conns \X {"lock", "store", "wal"})]
           /\ n \in 1..MaxFds => fds'[n] = Free
           /\ \A m \in 1..MaxFds : m # n => fds'[m] = fds[m]
           /\ locks' = locks \ {n} /\ locks' \subseteq 1..MaxFds
BY DEF TypeOK, CloseFd

LEMMA RecordType == ASSUME TypeOK, NEW c \in Conns PROVE conn[c] \in Records
BY DEF TypeOK

LEMMA FieldTypes ==
    ASSUME TypeOK, NEW c \in Conns
    PROVE  /\ conn[c].at \in Places /\ conn[c].count \in 0..(MaxPages + 1)
           /\ conn[c].entries \in [Tables -> 0..MaxPages]
           /\ conn[c].page0 \in [Tables -> 0..MaxPages]
           /\ conn[c].lockFd \in 0..MaxFds /\ conn[c].storeFd \in 0..MaxFds
           /\ conn[c].row \in 0..MaxRows /\ conn[c].body \in SUBSET (1..MaxRows)
BY RecordType DEF Records

LEMMA PageType ==
    ASSUME TypeOK, Stages, NEW c \in Conns, conn[c].at \in Working \ {"idle"}
    PROVE  conn[c].table \in Tables /\ Page(c) \in 1..MaxPages
BY FieldTypes, Bounds DEF Stages, StageOf, Page

-----------------------------------------------------------------------------
(* What each step does to the record of its connection                     *)

OnlyMoves(c) ==
    /\ conn' \in [Conns -> Records]
    /\ \A d \in Conns : d # c => conn'[d] = conn[d]

SameFds(c) == conn'[c].lockFd = conn[c].lockFd /\ conn'[c].storeFd = conn[c].storeFd
SameView(c) == conn'[c].count = conn[c].count /\ conn'[c].entries = conn[c].entries
SameWork(c) == conn'[c].table = conn[c].table /\ conn'[c].row = conn[c].row

LEMMA StepFacts ==
    ASSUME TypeOK, NEW c \in Conns, NEW r \in Records, Step(c, r)
    PROVE  OnlyMoves(c) /\ conn'[c] = r
BY DEF TypeOK, Step, OnlyMoves

LEMMA MovedFields ==
    ASSUME TypeOK, NEW c \in Conns, NEW place \in Places, Step(c, Moved(c, place))
    PROVE  /\ OnlyMoves(c) /\ SameFds(c) /\ SameView(c) /\ SameWork(c)
           /\ conn'[c].at = place /\ conn'[c].body = conn[c].body
<1>1. PICK r \in Records : r = conn[c]
  BY RecordType
<1>2. PICK s \in Records : s = [r EXCEPT !.at = place]
  BY DEF Records
<1>3. Step(c, s)
  BY <1>1, <1>2 DEF Moved
<1>4. /\ s.at = place /\ s.lockFd = r.lockFd /\ s.storeFd = r.storeFd /\ s.count = r.count
      /\ s.entries = r.entries /\ s.table = r.table /\ s.row = r.row /\ s.body = r.body
  BY <1>2 DEF Records
<1> QED BY <1>1, <1>3, <1>4, StepFacts DEF SameFds, SameView, SameWork

LEMMA StoreOpenFields ==
    ASSUME TypeOK, Counters, Budget, NEW c \in Conns, StoreOpen(c)
    PROVE  /\ OnlyMoves(c) /\ SameWork(c)
           /\ conn'[c].lockFd = conn[c].lockFd
           /\ conn'[c].entries = conn[c].entries /\ conn'[c].at = "sized"
           /\ conn'[c].storeFd = LowestFree /\ conn'[c].count = fileSize
<1>1. PICK r \in Records : r = conn[c]
  BY RecordType
<1>2. [r EXCEPT !.at = "sized", !.storeFd = LowestFree, !.count = fileSize] \in Records
  <2>1. LowestFree \in 0..MaxFds /\ fileSize \in 0..(MaxPages + 1)
    BY OpenFdFacts DEF StoreOpen, TypeOK
  <2> QED BY <2>1 DEF Records, Places
<1>3. PICK s \in Records : s = [r EXCEPT !.at = "sized", !.storeFd = LowestFree, !.count = fileSize]
  BY <1>2
<1>4. Step(c, s)
  BY <1>1, <1>3 DEF StoreOpen
<1>5. /\ s.at = "sized" /\ s.storeFd = LowestFree /\ s.count = fileSize
      /\ s.lockFd = r.lockFd /\ s.entries = r.entries /\ s.table = r.table
      /\ s.row = r.row
  BY <1>3 DEF Records
<1> QED BY <1>1, <1>4, <1>5, StepFacts DEF SameFds, SameView, SameWork

LEMMA WriteHeaderFields ==
    ASSUME TypeOK, NEW c \in Conns, WriteHeader(c)
    PROVE  /\ OnlyMoves(c) /\ SameFds(c) /\ SameWork(c)
           /\ conn'[c].entries = conn[c].entries /\ conn'[c].at = "header"
           /\ conn'[c].count = 1
<1>1. PICK r \in Records : r = conn[c]
  BY RecordType
<1>2. [r EXCEPT !.at = "header", !.count = 1] \in Records
  <2>1. 1 \in 0..(MaxPages + 1)
    BY Bounds
  <2> QED BY <2>1 DEF Records, Places
<1>3. PICK s \in Records : s = [r EXCEPT !.at = "header", !.count = 1]
  BY <1>2
<1>4. Step(c, s)
  BY <1>1, <1>3 DEF WriteHeader
<1>5. /\ s.at = "header" /\ s.count = 1 /\ s.lockFd = r.lockFd
      /\ s.storeFd = r.storeFd /\ s.entries = r.entries /\ s.table = r.table
      /\ s.row = r.row
  BY <1>3 DEF Records
<1> QED BY <1>1, <1>4, <1>5, StepFacts DEF SameFds, SameView, SameWork

LEMMA HeaderFailsFields ==
    ASSUME TypeOK, NEW c \in Conns, HeaderFails(c)
    PROVE  /\ OnlyMoves(c) /\ SameView(c) /\ SameWork(c)
           /\ conn'[c].lockFd = conn[c].lockFd /\ conn'[c].at = "closing"
           /\ conn'[c].storeFd = 0
<1>1. PICK r \in Records : r = conn[c]
  BY RecordType
<1>2. [r EXCEPT !.at = "closing", !.storeFd = 0] \in Records
  <2>1. 0 \in 0..MaxFds
    BY Bounds
  <2> QED BY <2>1 DEF Records, Places
<1>3. PICK s \in Records : s = [r EXCEPT !.at = "closing", !.storeFd = 0]
  BY <1>2
<1>4. Step(c, s)
  BY <1>1, <1>3 DEF HeaderFails
<1>5. /\ s.at = "closing" /\ s.storeFd = 0 /\ s.lockFd = r.lockFd
      /\ s.count = r.count /\ s.entries = r.entries /\ s.table = r.table
      /\ s.row = r.row
  BY <1>3 DEF Records
<1> QED BY <1>1, <1>4, <1>5, StepFacts DEF SameFds, SameView, SameWork

LEMMA ReplayFailsFields ==
    ASSUME TypeOK, NEW c \in Conns, ReplayFails(c)
    PROVE  /\ OnlyMoves(c) /\ SameView(c) /\ SameWork(c)
           /\ conn'[c].lockFd = conn[c].lockFd /\ conn'[c].at = "closing"
           /\ conn'[c].storeFd = 0
<1>1. PICK r \in Records : r = conn[c]
  BY RecordType
<1>2. [r EXCEPT !.at = "closing", !.storeFd = 0] \in Records
  <2>1. 0 \in 0..MaxFds
    BY Bounds
  <2> QED BY <2>1 DEF Records, Places
<1>3. PICK s \in Records : s = [r EXCEPT !.at = "closing", !.storeFd = 0]
  BY <1>2
<1>4. Step(c, s)
  BY <1>1, <1>3 DEF ReplayFails
<1>5. /\ s.at = "closing" /\ s.storeFd = 0 /\ s.lockFd = r.lockFd
      /\ s.count = r.count /\ s.entries = r.entries /\ s.table = r.table
      /\ s.row = r.row
  BY <1>3 DEF Records
<1> QED BY <1>1, <1>4, <1>5, StepFacts DEF SameFds, SameView, SameWork

LEMMA LoadCatalogFields ==
    ASSUME TypeOK, NEW c \in Conns, LoadCatalog(c)
    PROVE  /\ OnlyMoves(c) /\ SameFds(c) /\ SameWork(c)
           /\ conn'[c].count = conn[c].count /\ conn'[c].at = "idle"
           /\ conn'[c].entries = catalog
<1>1. PICK r \in Records : r = conn[c]
  BY RecordType
<1>2. [r EXCEPT !.at = "idle", !.entries = catalog] \in Records
  BY <1>1 DEF TypeOK, Records, Places
<1>3. PICK s \in Records : s = [r EXCEPT !.at = "idle", !.entries = catalog]
  BY <1>2
<1>4. Step(c, s)
  BY <1>1, <1>3 DEF LoadCatalog
<1>5. /\ s.at = "idle" /\ s.entries = catalog /\ s.lockFd = r.lockFd
      /\ s.storeFd = r.storeFd /\ s.count = r.count /\ s.table = r.table
      /\ s.row = r.row
  BY <1>3 DEF Records
<1> QED BY <1>1, <1>4, <1>5, StepFacts DEF SameFds, SameView, SameWork

LEMMA FlushReadFields ==
    ASSUME TypeOK, NEW c \in Conns, FlushRead(c)
    PROVE  /\ OnlyMoves(c) /\ SameFds(c) /\ SameView(c) /\ SameWork(c)
           /\ conn'[c].at = "flush" /\ conn'[c].page0 = catalog
<1>1. PICK r \in Records : r = conn[c]
  BY RecordType
<1>2. [r EXCEPT !.at = "flush", !.page0 = catalog] \in Records
  BY <1>1 DEF TypeOK, Records, Places
<1>3. PICK s \in Records : s = [r EXCEPT !.at = "flush", !.page0 = catalog]
  BY <1>2
<1>4. Step(c, s)
  BY <1>1, <1>3 DEF FlushRead
<1>5. /\ s.at = "flush" /\ s.page0 = catalog /\ s.lockFd = r.lockFd
      /\ s.storeFd = r.storeFd /\ s.count = r.count /\ s.entries = r.entries
      /\ s.table = r.table /\ s.row = r.row
  BY <1>3 DEF Records
<1> QED BY <1>1, <1>4, <1>5, StepFacts DEF SameFds, SameView, SameWork

LEMMA InsertReadFields ==
    ASSUME TypeOK, Counters, NEW c \in Conns, NEW t \in Tables, InsertRead(c, t)
    PROVE  /\ OnlyMoves(c) /\ SameFds(c) /\ SameView(c)
           /\ conn'[c].at = "insert" /\ conn'[c].table = t
           /\ conn'[c].row = issued + 1
           /\ conn'[c].body = rows[conn[c].entries[t]]
<1>1. PICK r \in Records : r = conn[c]
  BY RecordType
<1>2. [r EXCEPT !.at = "insert", !.table = t, !.row = issued + 1, !.body = rows[r.entries[t]]] \in Records
  <2>1. issued + 1 \in 0..MaxRows
    BY Bounds DEF Counters, InsertRead
  <2>2. r.entries[t] \in 1..MaxPages
    <3>1. r.entries[t] \in 0..MaxPages
      BY DEF Records
    <3>2. r.entries[t] # 0
      BY <1>1 DEF InsertRead
    <3> QED BY ONLY <3>1, <3>2, Bounds
  <2>3. rows[r.entries[t]] \in SUBSET (1..MaxRows)
    BY <2>2 DEF TypeOK
  <2> QED BY <2>1, <2>3 DEF Records, Places
<1>3. PICK s \in Records :
         s = [r EXCEPT !.at = "insert", !.table = t, !.row = issued + 1, !.body = rows[r.entries[t]]]
  BY <1>2
<1>4. Step(c, s)
  BY <1>1, <1>3 DEF InsertRead
<1>5. /\ s.at = "insert" /\ s.table = t /\ s.row = issued + 1
      /\ s.body = rows[r.entries[t]] /\ s.lockFd = r.lockFd
      /\ s.storeFd = r.storeFd /\ s.count = r.count /\ s.entries = r.entries
  BY <1>3 DEF Records
<1> QED BY <1>1, <1>4, <1>5, StepFacts DEF SameFds, SameView, SameWork

LEMMA DeleteScanFields ==
    ASSUME TypeOK, NEW c \in Conns, NEW t \in Tables, NEW n \in 1..MaxRows, DeleteScan(c, t, n)
    PROVE  /\ OnlyMoves(c) /\ SameFds(c) /\ SameView(c)
           /\ conn'[c].at = "scanned" /\ conn'[c].table = t /\ conn'[c].row = n
<1>1. PICK r \in Records : r = conn[c]
  BY RecordType
<1>2. [r EXCEPT !.at = "scanned", !.table = t, !.row = n] \in Records
  <2>1. n \in 0..MaxRows
    BY Bounds
  <2> QED BY <2>1 DEF Records, Places
<1>3. PICK s \in Records : s = [r EXCEPT !.at = "scanned", !.table = t, !.row = n]
  BY <1>2
<1>4. Step(c, s)
  BY <1>1, <1>3 DEF DeleteScan
<1>5. /\ s.at = "scanned" /\ s.table = t /\ s.row = n /\ s.lockFd = r.lockFd
      /\ s.storeFd = r.storeFd /\ s.count = r.count /\ s.entries = r.entries
  BY <1>3 DEF Records
<1> QED BY <1>1, <1>4, <1>5, StepFacts DEF SameFds, SameView, SameWork

LEMMA DeleteReadFields ==
    ASSUME TypeOK, Stages, NEW c \in Conns, DeleteRead(c)
    PROVE  /\ OnlyMoves(c) /\ SameFds(c) /\ SameView(c) /\ SameWork(c)
           /\ conn'[c].at = "delete"
           /\ conn'[c].body = rows[conn[c].entries[conn[c].table]]
<1>1. PICK r \in Records : r = conn[c]
  BY RecordType
<1>2. [r EXCEPT !.at = "delete", !.body = rows[r.entries[r.table]]] \in Records
  <2>1. r.table \in Tables /\ r.entries[r.table] # 0
    BY <1>1 DEF Stages, StageOf, DeleteRead, At, Page, Working
  <2>2. r.entries[r.table] \in 1..MaxPages
    BY <2>1, Bounds DEF Records
  <2>3. rows[r.entries[r.table]] \in SUBSET (1..MaxRows)
    BY <2>2 DEF TypeOK
  <2> QED BY <2>3 DEF Records, Places
<1>3. PICK s \in Records : s = [r EXCEPT !.at = "delete", !.body = rows[r.entries[r.table]]]
  BY <1>2
<1>4. Step(c, s)
  BY <1>1, <1>3 DEF DeleteRead
<1>5. /\ s.at = "delete" /\ s.body = rows[r.entries[r.table]]
      /\ s.lockFd = r.lockFd /\ s.storeFd = r.storeFd /\ s.count = r.count
      /\ s.entries = r.entries /\ s.table = r.table /\ s.row = r.row
  BY <1>3 DEF Records
<1> QED BY <1>1, <1>4, <1>5, StepFacts DEF SameFds, SameView, SameWork

LEMMA PageWriteFields ==
    ASSUME TypeOK, NEW c \in Conns, PageWrite(c)
    PROVE  /\ OnlyMoves(c) /\ SameFds(c) /\ SameView(c)
           /\ conn'[c].at = "idle" /\ conn'[c].table = 0 /\ conn'[c].row = 0
           /\ conn'[c].body = {}
<1>1. PICK r \in Records : r = conn[c]
  BY RecordType
<1>2. [r EXCEPT !.at = "idle", !.table = 0, !.row = 0, !.body = {}] \in Records
  <2>1. 0 \in 0..MaxRows
    BY Bounds
  <2> QED BY <2>1 DEF Records, Places
<1>3. PICK s \in Records : s = [r EXCEPT !.at = "idle", !.table = 0, !.row = 0, !.body = {}]
  BY <1>2
<1>4. Step(c, s)
  BY <1>1, <1>3 DEF PageWrite
<1>5. /\ s.at = "idle" /\ s.table = 0 /\ s.row = 0 /\ s.body = {}
      /\ s.lockFd = r.lockFd /\ s.storeFd = r.storeFd /\ s.count = r.count
      /\ s.entries = r.entries
  BY <1>3 DEF Records
<1> QED BY <1>1, <1>4, <1>5, StepFacts DEF SameFds, SameView, SameWork

LEMMA CreateAllocFields ==
    ASSUME TypeOK, NEW c \in Conns, NEW t \in Tables, CreateAlloc(c, t)
    PROVE  /\ OnlyMoves(c) /\ SameFds(c)
           /\ conn'[c].row = conn[c].row /\ conn'[c].at = "create"
           /\ conn'[c].table = t
           /\ conn'[c].entries = [conn[c].entries EXCEPT ![t] = conn[c].count]
           /\ conn'[c].count = conn[c].count + 1
<1>1. PICK r \in Records : r = conn[c]
  BY RecordType
<1>2. [r EXCEPT !.at = "create", !.table = t, !.entries[t] = r.count, !.count = r.count + 1] \in Records
  <2>1. r.count \in 0..MaxPages /\ r.count + 1 \in 0..(MaxPages + 1)
    BY <1>1, Bounds DEF CreateAlloc, Records
  <2> QED BY <2>1 DEF Records, Places
<1>3. PICK s \in Records :
         s = [r EXCEPT !.at = "create", !.table = t, !.entries[t] = r.count, !.count = r.count + 1]
  BY <1>2
<1>4. Step(c, s)
  BY <1>1, <1>3 DEF CreateAlloc
<1>5. /\ s.at = "create" /\ s.table = t
      /\ s.entries = [r.entries EXCEPT ![t] = r.count] /\ s.count = r.count + 1
      /\ s.lockFd = r.lockFd /\ s.storeFd = r.storeFd /\ s.row = r.row
  BY <1>3 DEF Records
<1> QED BY <1>1, <1>4, <1>5, StepFacts DEF SameFds, SameView, SameWork

LEMMA CreateFlushFields ==
    ASSUME TypeOK, NEW c \in Conns, CreateFlush(c)
    PROVE  /\ OnlyMoves(c) /\ SameFds(c) /\ SameView(c)
           /\ conn'[c].row = conn[c].row /\ conn'[c].at = "idle"
           /\ conn'[c].table = 0
<1>1. PICK r \in Records : r = conn[c]
  BY RecordType
<1>2. [r EXCEPT !.at = "idle", !.table = 0] \in Records
  BY <1>1 DEF Records, Places
<1>3. PICK s \in Records : s = [r EXCEPT !.at = "idle", !.table = 0]
  BY <1>2
<1>4. Step(c, s)
  BY <1>1, <1>3 DEF CreateFlush
<1>5. /\ s.at = "idle" /\ s.table = 0 /\ s.lockFd = r.lockFd
      /\ s.storeFd = r.storeFd /\ s.count = r.count /\ s.entries = r.entries
      /\ s.row = r.row
  BY <1>3 DEF Records
<1> QED BY <1>1, <1>4, <1>5, StepFacts DEF SameFds, SameView, SameWork

LEMMA LockOpenFields ==
    ASSUME TypeOK, Counters, Budget, NEW c \in Conns, LockOpen(c)
    PROVE  /\ OnlyMoves(c)
           /\ conn'[c].at = "opened" /\ conn'[c].lockFd = LowestFree /\ conn'[c].storeFd = 0
           /\ \A t \in Tables : conn'[c].entries[t] = 0
<1>1. PICK r \in Records : r = Closed
  BY ClosedType
<1>2. [r EXCEPT !.at = "opened", !.lockFd = LowestFree] \in Records
  <2>1. LowestFree \in 0..MaxFds
    BY OpenFdFacts DEF LockOpen
  <2> QED BY <2>1 DEF Records, Places
<1>3. PICK s \in Records : s = [r EXCEPT !.at = "opened", !.lockFd = LowestFree]
  BY <1>2
<1>4. Step(c, s)
  BY <1>1, <1>3 DEF LockOpen
<1>5. s.at = "opened" /\ s.lockFd = LowestFree /\ s.storeFd = r.storeFd /\ s.entries = r.entries
  BY <1>3 DEF Records
<1> QED BY <1>1, <1>4, <1>5, StepFacts DEF Closed

\* The steps that only move.
LEMMA MoversFields ==
    ASSUME TypeOK, NEW c \in Conns
    PROVE  /\ LockShared(c) => Step(c, Moved(c, "locked"))
           /\ LockBusy(c) \/ ExecutorFails(c) => Step(c, Moved(c, "closing"))
           /\ ReadHeader(c) => Step(c, Moved(c, "header"))
           /\ WalOpen(c) => Step(c, Moved(c, "logged"))
           /\ LockFileClose(c) /\ conn[c].storeFd # 0 => Step(c, Moved(c, "lockGone"))
           /\ FlushWrite(c) => Step(c, Moved(c, "flushed"))
BY DEF LockShared, LockBusy, ExecutorFails, ReadHeader, WalOpen, LockFileClose, FlushWrite

LEMMA LockCloseFields ==
    ASSUME TypeOK, NEW c \in Conns, LockClose(c)
    PROVE  /\ OnlyMoves(c) /\ SameFds(c) /\ conn'[c].at = "lockClosed"
           /\ conn'[c].entries = Closed.entries
<1>1. PICK r \in Records : r = Closed
  BY ClosedType
<1>2. [r EXCEPT !.at = "lockClosed", !.lockFd = conn[c].lockFd, !.storeFd = conn[c].storeFd] \in Records
  <2>1. conn[c].lockFd \in 0..MaxFds /\ conn[c].storeFd \in 0..MaxFds
    BY FieldTypes
  <2> QED BY <2>1 DEF Records, Places
<1>3. PICK s \in Records :
         s = [r EXCEPT !.at = "lockClosed", !.lockFd = conn[c].lockFd, !.storeFd = conn[c].storeFd]
  BY <1>2
<1>4. Step(c, s)
  BY <1>1, <1>3 DEF LockClose
<1>5. /\ s.at = "lockClosed" /\ s.lockFd = conn[c].lockFd /\ s.storeFd = conn[c].storeFd
      /\ s.entries = r.entries
  BY <1>3 DEF Records
<1> QED BY <1>1, <1>4, <1>5, StepFacts DEF SameFds

LEMMA NextType ==
    ASSUME TypeOK, Counters, Stages, Budget, Next
    PROVE  TypeOK'
<1>1. ASSUME NEW c \in Conns, LockOpen(c) PROVE TypeOK'
  BY <1>1, LockOpenFields, OpenFdFacts DEF LockOpen, file, OnlyMoves, TypeOK
<1>2. ASSUME NEW c \in Conns, LockShared(c) PROVE TypeOK'
  <2>1. conn' \in [Conns -> Records]
    BY <1>2, MoversFields, MovedFields DEF OnlyMoves, Places
  <2> QED BY <1>2, <2>1 DEF LockShared, file, Stages, StageOf, At, TypeOK
<1>3. ASSUME NEW c \in Conns, LockBusy(c) PROVE TypeOK'
  <2>1. conn' \in [Conns -> Records]
    BY <1>3, MoversFields, MovedFields DEF OnlyMoves, Places
  <2> QED BY <1>3, <2>1 DEF LockBusy, file, TypeOK
<1>4. ASSUME NEW c \in Conns, StoreOpen(c) PROVE TypeOK'
  BY <1>4, StoreOpenFields, OpenFdFacts DEF StoreOpen, file, OnlyMoves, TypeOK
<1>5. ASSUME NEW c \in Conns, WriteHeader(c) PROVE TypeOK'
  <2>1. conn' \in [Conns -> Records]
    BY <1>5, WriteHeaderFields DEF OnlyMoves
  <2>2. mishaps' \subseteq Windows
    BY <1>5, NoteFacts DEF WriteHeader, Windows
  <2> QED BY <1>5, <2>1, <2>2, Bounds DEF WriteHeader, Closed, TypeOK
<1>6. ASSUME NEW c \in Conns, ReadHeader(c) PROVE TypeOK'
  <2>1. conn' \in [Conns -> Records]
    BY <1>6, MoversFields, MovedFields DEF OnlyMoves, Places
  <2> QED BY <1>6, <2>1 DEF ReadHeader, file, TypeOK
<1>7. ASSUME NEW c \in Conns, HeaderFails(c) PROVE TypeOK'
  BY <1>7, HeaderFailsFields, CloseFdFacts DEF HeaderFails, file, OnlyMoves, TypeOK
<1>8. ASSUME NEW c \in Conns, ReplayFails(c) PROVE TypeOK'
  BY <1>8, ReplayFailsFields DEF ReplayFails, file, OnlyMoves, TypeOK
<1>9. ASSUME NEW c \in Conns, WalOpen(c) PROVE TypeOK'
  <2>1. conn' \in [Conns -> Records]
    BY <1>9, MoversFields, MovedFields DEF OnlyMoves, Places
  <2> QED BY <1>9, <2>1, OpenFdFacts DEF WalOpen, file, TypeOK
<1>10. ASSUME NEW c \in Conns, LoadCatalog(c) PROVE TypeOK'
  BY <1>10, LoadCatalogFields DEF LoadCatalog, file, OnlyMoves, TypeOK
<1>11. ASSUME NEW c \in Conns, LockClose(c) PROVE TypeOK'
  <2>1. conn' \in [Conns -> Records]
    BY <1>11, LockCloseFields DEF OnlyMoves
  <2> QED BY <1>11, <2>1, CloseFdFacts DEF LockClose, file, TypeOK
<1>12. ASSUME NEW c \in Conns, LockFileClose(c) PROVE TypeOK'
  <2>1. conn' \in [Conns -> Records]
    <3>1. CASE conn[c].storeFd = 0
      BY <1>12, <3>1, StepFacts, ClosedType DEF LockFileClose, OnlyMoves
    <3>2. CASE conn[c].storeFd # 0
      BY <1>12, <3>2, MoversFields, MovedFields DEF OnlyMoves, Places
    <3> QED BY <3>1, <3>2
  <2> QED BY <1>12, <2>1, CloseFdFacts DEF LockFileClose, file, TypeOK
<1>13. ASSUME NEW c \in Conns, FlushRead(c) PROVE TypeOK'
  BY <1>13, FlushReadFields DEF FlushRead, file, OnlyMoves, TypeOK
<1>14. ASSUME NEW c \in Conns, FlushWrite(c) PROVE TypeOK'
  <2>1. conn' \in [Conns -> Records]
    BY <1>14, MoversFields, MovedFields DEF OnlyMoves, Places
  <2>2. mishaps' \subseteq Windows
    BY <1>14, NoteFacts DEF FlushWrite, Windows
  <2> QED BY <1>14, <2>1, <2>2, FieldTypes DEF FlushWrite, TypeOK
<1>15. ASSUME NEW c \in Conns, StoreClose(c) PROVE TypeOK'
  BY <1>15, CloseFdFacts, ClosedType, StepFacts DEF StoreClose, file, OnlyMoves, TypeOK
<1>16. ASSUME NEW c \in Conns, NEW t \in Tables, InsertRead(c, t) PROVE TypeOK'
  BY <1>16, InsertReadFields DEF InsertRead, file, OnlyMoves, TypeOK
<1>17. ASSUME NEW c \in Conns, NEW t \in Tables, NEW n \in 1..MaxRows, DeleteScan(c, t, n)
       PROVE  TypeOK'
  BY <1>17, DeleteScanFields DEF DeleteScan, file, OnlyMoves, TypeOK
<1>18. ASSUME NEW c \in Conns, DeleteRead(c) PROVE TypeOK'
  BY <1>18, DeleteReadFields DEF DeleteRead, file, OnlyMoves, TypeOK
<1>19. ASSUME NEW c \in Conns, PageWrite(c) PROVE TypeOK'
  <2>1. conn' \in [Conns -> Records]
    BY <1>19, PageWriteFields DEF OnlyMoves
  <2>2. mishaps' \subseteq Windows
    BY <1>19, NoteFacts DEF PageWrite, Windows
  <2>3. /\ At(c, "insert") => conn[c].row \in 1..MaxRows
        /\ conn[c].body \in SUBSET (1..MaxRows)
    BY FieldTypes, Bounds DEF Stages, StageOf
  <2>4. /\ rows' \in [1..MaxPages -> SUBSET (1..MaxRows)]
        /\ acked' \in [Tables -> SUBSET (1..MaxRows)]
    BY <1>19, <2>3 DEF PageWrite, TypeOK
  <2> QED BY <1>19, <2>1, <2>2, <2>4 DEF PageWrite, TypeOK
<1>20. ASSUME NEW c \in Conns, NEW t \in Tables, CreateAlloc(c, t) PROVE TypeOK'
  <2>1. conn' \in [Conns -> Records]
    BY <1>20, CreateAllocFields DEF OnlyMoves
  <2>2. mishaps' \subseteq Windows
    BY <1>20, NoteFacts DEF CreateAlloc, Windows
  <2>3. conn[c].count \in 0..MaxPages /\ fileSize \in 0..(MaxPages + 1)
    BY <1>20, FieldTypes, Bounds DEF CreateAlloc, TypeOK
  <2>4. fileSize' \in 0..(MaxPages + 1)
    BY <1>20, <2>3, Bounds DEF CreateAlloc
  <2>5. rows' \in [1..MaxPages -> SUBSET (1..MaxRows)]
    BY <1>20 DEF CreateAlloc, TypeOK
  <2> QED BY <1>20, <2>1, <2>2, <2>4, <2>5 DEF CreateAlloc, TypeOK
<1>21. ASSUME NEW c \in Conns, CreateFlush(c) PROVE TypeOK'
  <2>1. conn' \in [Conns -> Records]
    BY <1>21, CreateFlushFields DEF OnlyMoves
  <2>2. mishaps' \subseteq Windows
    BY <1>21, NoteFacts DEF CreateFlush, Windows
  <2> QED BY <1>21, <2>1, <2>2, FieldTypes DEF CreateFlush, TypeOK
<1>22. ASSUME ToolLock \/ ToolRelease PROVE TypeOK'
  BY <1>22 DEF ToolLock, ToolRelease, file, history, TypeOK
<1>23. ASSUME NEW c \in Conns, ExecutorFails(c) PROVE TypeOK'
  <2>1. conn' \in [Conns -> Records]
    BY <1>23, MoversFields, MovedFields DEF OnlyMoves, Places
  <2> QED BY <1>23, <2>1 DEF ExecutorFails, file, TypeOK
<1>24. ASSUME NEW c \in Conns, CloseFails(c) PROVE TypeOK'
  BY <1>24, ClosedType, StepFacts DEF CloseFails, file, OnlyMoves, TypeOK
<1> QED
  BY <1>1, <1>2, <1>3, <1>4, <1>5, <1>6, <1>7, <1>8, <1>9, <1>10, <1>11, <1>12, <1>13, <1>14,
     <1>15, <1>16, <1>17, <1>18, <1>19, <1>20, <1>21, <1>22, <1>23, <1>24
     DEF Next, Continue, Close, Cleanup

-----------------------------------------------------------------------------
(* Counters, the lock of the tool, and the place of each connection        *)

LEMMA NextCases ==
    ASSUME Next
    PROVE  (\E c \in Conns : \E r : Step(c, r)) \/ ToolLock \/ ToolRelease
<1>1. ASSUME NEW c \in Conns,
             \/ LockOpen(c) \/ Continue(c) \/ Close(c)
             \/ DeleteRead(c) \/ PageWrite(c) \/ CreateFlush(c)
             \/ \E t \in Tables : \/ InsertRead(c, t) \/ CreateAlloc(c, t)
                                  \/ \E r \in 1..MaxRows : DeleteScan(c, t, r)
      PROVE  \E r : Step(c, r)
  BY <1>1, Zenon
     DEF Continue, Close, Cleanup, LockOpen, LockShared, LockBusy,
         StoreOpen, WriteHeader, ReadHeader, HeaderFails, ReplayFails, WalOpen, LoadCatalog,
         ExecutorFails, LockClose, LockFileClose, FlushRead, FlushWrite, StoreClose, CloseFails,
         InsertRead, DeleteScan,
         DeleteRead, PageWrite, CreateAlloc, CreateFlush
<1> QED BY <1>1 DEF Next

LEMMA NextCounters ==
    ASSUME Counters, Next
    PROVE  Counters'
<1>1. together' \in BOOLEAN
  <2>1. ASSUME NEW c, NEW r, Step(c, r) PROVE together' \in BOOLEAN
    BY <2>1 DEF Step
  <2>2. CASE ToolLock \/ ToolRelease
    BY <2>2 DEF ToolLock, ToolRelease, history, Counters
  <2> QED BY <2>1, <2>2, NextCases
<1>2. tool' \in BOOLEAN
  <2>1. ASSUME NEW c \in Conns,
               \/ LockOpen(c) \/ LockShared(c) \/ LockBusy(c) \/ StoreOpen(c) \/ WriteHeader(c)
               \/ ReadHeader(c) \/ HeaderFails(c) \/ ReplayFails(c) \/ ExecutorFails(c)
        PROVE  tool' = tool
    BY <2>1 DEF LockOpen, LockShared, LockBusy, StoreOpen, WriteHeader, ReadHeader, HeaderFails,
                ReplayFails, ExecutorFails
  <2>2. ASSUME NEW c \in Conns,
               \/ WalOpen(c) \/ LoadCatalog(c) \/ LockClose(c) \/ LockFileClose(c)
               \/ FlushRead(c) \/ FlushWrite(c) \/ StoreClose(c) \/ CloseFails(c)
        PROVE  tool' = tool
    BY <2>2 DEF WalOpen, LoadCatalog, LockClose, LockFileClose, FlushRead, FlushWrite, StoreClose,
                CloseFails
  <2>3. ASSUME NEW c \in Conns, DeleteRead(c) \/ PageWrite(c) \/ CreateFlush(c)
        PROVE  tool' = tool
    BY <2>3 DEF DeleteRead, PageWrite, CreateFlush
  <2>4. ASSUME NEW c \in Conns, NEW t \in Tables,
               \/ InsertRead(c, t) \/ CreateAlloc(c, t)
               \/ \E n \in 1..MaxRows : DeleteScan(c, t, n)
        PROVE  tool' = tool
    BY <2>4 DEF InsertRead, DeleteScan, CreateAlloc
  <2>5. (ToolLock \/ ToolRelease) \/ tool' = tool
    BY <2>1, <2>2, <2>3, <2>4 DEF Next, Continue, Close, Cleanup
  <2>6. ASSUME ToolLock \/ ToolRelease PROVE tool' \in BOOLEAN
    BY <2>6 DEF ToolLock, ToolRelease
  <2> QED BY <2>5, <2>6 DEF Counters
<1>3. ASSUME NEW c \in Conns, Continue(c) \/ Close(c) \/ DeleteRead(c) \/ PageWrite(c) \/ CreateFlush(c)
      PROVE  opens' = opens /\ issued' = issued /\ failed' \in {failed, failed + 1}
  BY <1>3
     DEF Continue, Close, Cleanup, LockOpen, LockShared, LockBusy,
         StoreOpen, WriteHeader, ReadHeader, HeaderFails, ReplayFails, WalOpen, LoadCatalog,
         ExecutorFails, LockClose, LockFileClose, FlushRead, FlushWrite, StoreClose, CloseFails,
         InsertRead, DeleteScan,
         DeleteRead, PageWrite, CreateAlloc, CreateFlush
<1>4. ASSUME NEW c \in Conns, NEW t \in Tables, NEW n \in 1..MaxRows,
             CreateAlloc(c, t) \/ DeleteScan(c, t, n)
      PROVE  opens' = opens /\ issued' = issued /\ failed' = failed
  BY <1>4 DEF CreateAlloc, DeleteScan
<1>5. ASSUME NEW c \in Conns, NEW t \in Tables, LockOpen(c) \/ InsertRead(c, t)
      PROVE  opens' \in 0..MaxOpens /\ issued' \in 0..MaxRows /\ failed' = failed
  BY <1>5, Bounds DEF LockOpen, InsertRead, Counters
<1>6. ASSUME ToolLock \/ ToolRelease
      PROVE  opens' = opens /\ issued' = issued /\ failed' = failed
  BY <1>6 DEF ToolLock, ToolRelease, history
<1>7. ASSUME NEW c \in Conns, NEW t \in Tables, CreateAlloc(c, t)
      PROVE  opens' = opens /\ issued' = issued /\ failed' = failed
  BY <1>7 DEF CreateAlloc
<1>8. opens' \in 0..MaxOpens /\ issued' \in 0..MaxRows /\ failed' \in Nat
  BY <1>3, <1>4, <1>5, <1>6, <1>7, ConnAssumption DEF Next, Counters
<1> QED BY <1>1, <1>2, <1>8 DEF Counters

LEMMA NextTool ==
    ASSUME tool => locks = {}, Next
    PROVE  (tool => locks = {})'
<1>1. CASE ToolLock \/ ToolRelease
  BY <1>1 DEF ToolLock, ToolRelease
<1>2. ASSUME NEW c \in Conns, LockShared(c) PROVE (tool => locks = {})'
  BY <1>2 DEF LockShared
<1>3. ASSUME NEW c \in Conns,
             \/ HeaderFails(c) \/ LockClose(c) \/ LockFileClose(c) \/ StoreClose(c)
      PROVE  tool' = tool /\ locks' \subseteq locks
  BY <1>3 DEF HeaderFails, LockClose, LockFileClose, StoreClose, CloseFd
<1>4. ASSUME NEW c \in Conns,
             \/ LockOpen(c) \/ LockBusy(c) \/ StoreOpen(c) \/ WriteHeader(c) \/ ReadHeader(c)
             \/ ReplayFails(c) \/ WalOpen(c) \/ LoadCatalog(c) \/ FlushRead(c) \/ FlushWrite(c)
             \/ ExecutorFails(c) \/ CloseFails(c) \/ DeleteRead(c) \/ PageWrite(c) \/ CreateFlush(c)
      PROVE  tool' = tool /\ locks' = locks
  BY <1>4 DEF LockOpen, LockBusy, StoreOpen, WriteHeader, ReadHeader, ReplayFails, WalOpen,
              LoadCatalog, ExecutorFails, FlushRead, FlushWrite, CloseFails, DeleteRead, PageWrite,
              CreateFlush
<1>5. ASSUME NEW c \in Conns, NEW t \in Tables,
             \/ InsertRead(c, t) \/ CreateAlloc(c, t)
             \/ \E n \in 1..MaxRows : DeleteScan(c, t, n)
      PROVE  tool' = tool /\ locks' = locks
  BY <1>5 DEF InsertRead, DeleteScan, CreateAlloc
<1> QED BY <1>1, <1>2, <1>3, <1>4, <1>5 DEF Next, Continue, Close, Cleanup

LEMMA StagesKept ==
    ASSUME Stages, NEW c \in Conns, OnlyMoves(c), StageOf(c)'
    PROVE  Stages'
BY DEF Stages, StageOf, OnlyMoves, At, Page

LEMMA NextStages ==
    ASSUME TypeOK, Counters, Stages, Budget, Next
    PROVE  Stages'
<1> USE DEF WithStore, WithSize, WithHeader, Working
<1>1. ASSUME NEW c \in Conns, LockOpen(c) PROVE Stages'
  BY <1>1, LockOpenFields, OpenFdFacts, StagesKept
     DEF LockOpen, SameFds, SameView, SameWork, Stages, StageOf, At, Page
<1>2. ASSUME NEW c \in Conns, LockShared(c) PROVE Stages'
  BY <1>2, MoversFields, MovedFields, StagesKept
     DEF LockShared, Places, SameFds, SameView, SameWork, Stages, StageOf, At, Page
<1>3. ASSUME NEW c \in Conns, LockBusy(c) PROVE Stages'
  BY <1>3, MoversFields, MovedFields, StagesKept
     DEF LockBusy, Places, SameFds, SameView, SameWork, Stages, StageOf, At, Page
<1>4. ASSUME NEW c \in Conns, StoreOpen(c) PROVE Stages'
  BY <1>4, StoreOpenFields, OpenFdFacts, StagesKept
     DEF StoreOpen, SameFds, SameView, SameWork, Stages, StageOf, At, Page
<1>5. ASSUME NEW c \in Conns, WriteHeader(c) PROVE Stages'
  <2>1. StageOf(c)'
    <3>1. conn[c].at = "sized"
      BY <1>5 DEF WriteHeader, At
    <3> QED BY <1>5, <3>1, WriteHeaderFields DEF SameFds, SameWork, Stages, StageOf, At, Page
  <2> QED BY <1>5, <2>1, WriteHeaderFields, StagesKept
<1>6. ASSUME NEW c \in Conns, ReadHeader(c) PROVE Stages'
  BY <1>6, MoversFields, MovedFields, StagesKept
     DEF ReadHeader, Places, SameFds, SameView, SameWork, Stages, StageOf, At, Page
<1>7. ASSUME NEW c \in Conns, HeaderFails(c) PROVE Stages'
  BY <1>7, HeaderFailsFields, StagesKept
     DEF HeaderFails, SameFds, SameView, SameWork, Stages, StageOf, At, Page
<1>8. ASSUME NEW c \in Conns, ReplayFails(c) PROVE Stages'
  BY <1>8, ReplayFailsFields, StagesKept
     DEF ReplayFails, SameFds, SameView, SameWork, Stages, StageOf, At, Page
<1>9. ASSUME NEW c \in Conns, WalOpen(c) PROVE Stages'
  BY <1>9, MoversFields, MovedFields, StagesKept
     DEF WalOpen, Places, SameFds, SameView, SameWork, Stages, StageOf, At, Page
<1>10. ASSUME NEW c \in Conns, LoadCatalog(c) PROVE Stages'
  BY <1>10, LoadCatalogFields, StagesKept
     DEF LoadCatalog, SameFds, SameView, SameWork, Stages, StageOf, At, Page
<1>11. ASSUME NEW c \in Conns, Close(c) \/ Cleanup(c) PROVE Stages'
  <2>1. OnlyMoves(c) /\ SameFds(c) /\ conn'[c].at = "lockClosed"
    BY <1>11, LockCloseFields DEF Close, Cleanup
  <2>2. conn[c].lockFd \in 1..MaxFds
    BY <1>11 DEF Close, Cleanup, Stages, StageOf, At
  <2>3. StageOf(c)'
    BY <2>1, <2>2 DEF SameFds, StageOf, At
  <2> QED BY <2>1, <2>3, StagesKept
<1>12. ASSUME NEW c \in Conns, LockFileClose(c) PROVE Stages'
  <2>1. CASE conn[c].storeFd = 0
    <3>1. OnlyMoves(c) /\ conn'[c] = Closed
      BY <1>12, <2>1, StepFacts, ClosedType DEF LockFileClose
    <3>2. StageOf(c)'
      BY <3>1 DEF StageOf, At, Closed
    <3> QED BY <3>1, <3>2, StagesKept
  <2>2. CASE conn[c].storeFd # 0
    BY <1>12, <2>2, MoversFields, MovedFields, FieldTypes, StagesKept
       DEF LockFileClose, Places, SameFds, SameView, SameWork, Stages, StageOf, At, Page
  <2> QED BY <2>1, <2>2
<1>13. ASSUME NEW c \in Conns, FlushRead(c) PROVE Stages'
  BY <1>13, FlushReadFields, StagesKept
     DEF FlushRead, SameFds, SameView, SameWork, Stages, StageOf, At, Page
<1>14. ASSUME NEW c \in Conns, FlushWrite(c) PROVE Stages'
  BY <1>14, MoversFields, MovedFields, StagesKept
     DEF FlushWrite, Places, SameFds, SameView, SameWork, Stages, StageOf, At, Page
<1>15. ASSUME NEW c \in Conns, StoreClose(c) PROVE Stages'
  <2>1. OnlyMoves(c) /\ conn'[c] = Closed
    BY <1>15, StepFacts, ClosedType DEF StoreClose
  <2>2. StageOf(c)'
    BY <2>1 DEF StageOf, At, Closed
  <2> QED BY <2>1, <2>2, StagesKept
<1>16. ASSUME NEW c \in Conns, NEW t \in Tables, InsertRead(c, t) PROVE Stages'
  <2>1. conn[c].at = "idle" /\ conn[c].entries[t] # 0
    BY <1>16 DEF InsertRead, CanStart, At
  <2>2. StageOf(c)'
    BY <1>16, <2>1, InsertReadFields, Bounds
       DEF Counters, SameFds, SameView, Stages, StageOf, At, Page
  <2> QED BY <1>16, <2>2, InsertReadFields, StagesKept
<1>17. ASSUME NEW c \in Conns, NEW t \in Tables, NEW n \in 1..MaxRows, DeleteScan(c, t, n)
       PROVE  Stages'
  <2>1. conn[c].at = "idle" /\ conn[c].entries[t] # 0
    BY <1>17 DEF DeleteScan, CanStart, At
  <2>2. StageOf(c)'
    BY <1>17, <2>1, DeleteScanFields DEF SameFds, SameView, Stages, StageOf, At, Page
  <2> QED BY <1>17, <2>2, DeleteScanFields, StagesKept
<1>18. ASSUME NEW c \in Conns, DeleteRead(c) PROVE Stages'
  <2>1. StageOf(c)'
    BY <1>18, DeleteReadFields
       DEF DeleteRead, SameFds, SameView, SameWork, Stages, StageOf, At, Page
  <2> QED BY <1>18, <2>1, DeleteReadFields, StagesKept
<1>19. ASSUME NEW c \in Conns, PageWrite(c) PROVE Stages'
  BY <1>19, PageWriteFields, StagesKept
     DEF PageWrite, SameFds, SameView, SameWork, Stages, StageOf, At, Page
<1>20. ASSUME NEW c \in Conns, NEW t \in Tables, CreateAlloc(c, t) PROVE Stages'
  <2>1. conn[c].at = "idle" /\ conn[c].entries[t] = 0
    BY <1>20 DEF CreateAlloc, CanStart, At
  <2>2. StageOf(c)'
    <3>1. conn[c].count \in Nat \ {0} /\ conn[c].entries \in [Tables -> 0..MaxPages]
      BY <2>1, FieldTypes, Bounds DEF Stages, StageOf
    <3>2. /\ conn'[c].entries = [conn[c].entries EXCEPT ![t] = conn[c].count]
          /\ conn'[c].count = conn[c].count + 1
      BY <1>20, CreateAllocFields
    <3>3. conn'[c].entries[t] = conn[c].count
      BY <3>1, <3>2
    <3>4. conn'[c].count # 0
      BY <3>1, <3>2
    <3> QED BY <1>20, <2>1, <3>1, <3>3, <3>4, CreateAllocFields DEF SameFds, Stages, StageOf, At, Page
  <2> QED BY <1>20, <2>2, CreateAllocFields, StagesKept
<1>21. ASSUME NEW c \in Conns, CreateFlush(c) PROVE Stages'
  BY <1>21, CreateFlushFields, StagesKept
     DEF CreateFlush, SameFds, SameView, SameWork, Stages, StageOf, At, Page
<1>22. ASSUME ToolLock \/ ToolRelease PROVE Stages'
  BY <1>22 DEF ToolLock, ToolRelease, Stages, StageOf, At, Page
<1>23. ASSUME NEW c \in Conns, ExecutorFails(c) PROVE Stages'
  BY <1>23, MoversFields, MovedFields, StagesKept
     DEF ExecutorFails, Places, SameFds, SameView, SameWork, Stages, StageOf, At, Page
<1>24. ASSUME NEW c \in Conns, CloseFails(c) PROVE Stages'
  <2>1. OnlyMoves(c) /\ conn'[c] = Closed
    BY <1>24, StepFacts, ClosedType DEF CloseFails
  <2>2. StageOf(c)'
    BY <2>1 DEF StageOf, At, Closed
  <2> QED BY <2>1, <2>2, StagesKept
<1> QED
  BY <1>1, <1>2, <1>3, <1>4, <1>5, <1>6, <1>7, <1>8, <1>9, <1>10, <1>11, <1>12, <1>13, <1>14,
     <1>15, <1>16, <1>17, <1>18, <1>19, <1>20, <1>21, <1>22, <1>23, <1>24
     DEF Next, Continue, Close, Cleanup

-----------------------------------------------------------------------------
(* The budget of descriptors                                               *)

LEMMA BudgetFinite ==
    ASSUME Budget
    PROVE  /\ IsFiniteSet(Used) /\ IsFiniteSet(StoreDue) /\ IsFiniteSet(WalDue)
           /\ Cardinality(Used) \in Nat /\ Cardinality(StoreDue) \in Nat
           /\ Cardinality(WalDue) \in Nat
<1>1. IsFiniteSet(Used)
  <2>1. IsFiniteSet(1..MaxFds) /\ Used \in SUBSET (1..MaxFds)
    BY Bounds, FS_Interval DEF Used
  <2> QED BY <2>1, FS_Subset
<1>2. IsFiniteSet(StoreDue)
  BY FS_Subset DEF Budget, StoreDue, WalDue
<1> QED BY <1>1, <1>2, FS_CardinalityType DEF Budget

LEMMA BudgetShrinks ==
    ASSUME Counters, Budget, Used' \subseteq Used, StoreDue' \subseteq StoreDue,
           WalDue' \subseteq WalDue, opens' = opens
    PROVE  Budget'
<1>1. /\ IsFiniteSet(Used') /\ Cardinality(Used') <= Cardinality(Used)
      /\ IsFiniteSet(StoreDue') /\ Cardinality(StoreDue') <= Cardinality(StoreDue)
      /\ IsFiniteSet(WalDue') /\ Cardinality(WalDue') <= Cardinality(WalDue)
  BY BudgetFinite, FS_Subset
<1>2. Cardinality(Used') \in Nat /\ Cardinality(StoreDue') \in Nat /\ Cardinality(WalDue') \in Nat
  BY <1>1, FS_CardinalityType
<1>3. opens \in Nat
  BY Bounds DEF Counters
<1> QED BY <1>1, <1>2, <1>3, BudgetFinite DEF Budget

LEMMA UsedGrows ==
    ASSUME TypeOK, Counters, Budget, NEW c \in Conns, NEW role \in {"lock", "store", "wal"},
           OpenFd(c, role)
    PROVE  Cardinality(Used') = Cardinality(Used) + 1
<1>1. Used' = Used \cup {LowestFree} /\ LowestFree \notin Used
  BY OpenFdFacts, OpenNotFree DEF Used
<1> QED BY <1>1, BudgetFinite, FS_AddElement

LEMMA UsedShrinks ==
    ASSUME TypeOK, fds' = fds \/ \E n : CloseFd(n)
    PROVE  Used' \subseteq Used
BY CloseFdFacts DEF Used

LEMMA DueShrinks ==
    ASSUME NEW c \in Conns, OnlyMoves(c),
           conn'[c].at \in {"opened", "locked"} => conn[c].at \in {"opened", "locked"},
           conn'[c].at \in {"opened", "locked", "sized", "header"} =>
              conn[c].at \in {"opened", "locked", "sized", "header"}
    PROVE  StoreDue' \subseteq StoreDue /\ WalDue' \subseteq WalDue
BY DEF OnlyMoves, StoreDue, WalDue

LEMMA NextBudget ==
    ASSUME TypeOK, Counters, Stages, Budget, Next
    PROVE  Budget'
<1> DEFINE Shrinks == /\ Used' \subseteq Used /\ opens' = opens
                      /\ StoreDue' \subseteq StoreDue /\ WalDue' \subseteq WalDue
<1>1. ASSUME NEW c \in Conns, LockOpen(c) PROVE Budget'
  <2>1. conn[c].at = "new" /\ opens' = opens + 1 /\ OpenFd(c, "lock")
    BY <1>1 DEF LockOpen, At
  <2>2. /\ StoreDue' = StoreDue \cup {c} /\ c \notin StoreDue
        /\ WalDue' = WalDue \cup {c} /\ c \notin WalDue
    BY <1>1, <2>1, LockOpenFields DEF OnlyMoves, StoreDue, WalDue
  <2>3. /\ IsFiniteSet(WalDue')
        /\ Cardinality(StoreDue') = Cardinality(StoreDue) + 1
        /\ Cardinality(WalDue') = Cardinality(WalDue) + 1
    BY <2>2, BudgetFinite, FS_AddElement
  <2>4. Cardinality(Used') = Cardinality(Used) + 1
    BY <2>1, UsedGrows
  <2>5. opens \in Nat
    BY Bounds DEF Counters
  <2> QED BY <2>1, <2>3, <2>4, <2>5, BudgetFinite DEF Budget
<1>4. ASSUME NEW c \in Conns, StoreOpen(c) PROVE Budget'
  <2>1. conn[c].at = "locked" /\ opens' = opens /\ OpenFd(c, "store")
    BY <1>4 DEF StoreOpen, At
  <2>2. StoreDue' = StoreDue \ {c} /\ c \in StoreDue /\ WalDue' = WalDue
    BY <1>4, <2>1, StoreOpenFields DEF OnlyMoves, StoreDue, WalDue
  <2>3. Cardinality(StoreDue') = Cardinality(StoreDue) - 1
    BY <2>2, BudgetFinite, FS_RemoveElement
  <2>4. Cardinality(Used') = Cardinality(Used) + 1
    BY <2>1, UsedGrows
  <2> QED BY <2>1, <2>2, <2>3, <2>4, BudgetFinite DEF Budget, Counters
<1>9. ASSUME NEW c \in Conns, WalOpen(c) PROVE Budget'
  <2>1. conn[c].at = "header" /\ opens' = opens /\ OpenFd(c, "wal")
    BY <1>9 DEF WalOpen, At
  <2>2. WalDue' = WalDue \ {c} /\ c \in WalDue /\ StoreDue' = StoreDue
    BY <1>9, <2>1, MoversFields, MovedFields DEF OnlyMoves, StoreDue, WalDue, Places
  <2>3. IsFiniteSet(WalDue') /\ Cardinality(WalDue') = Cardinality(WalDue) - 1
    BY <2>2, BudgetFinite, FS_RemoveElement
  <2>4. Cardinality(Used') = Cardinality(Used) + 1
    BY <2>1, UsedGrows
  <2> QED BY <2>1, <2>2, <2>3, <2>4, BudgetFinite DEF Budget, Counters
<1>2. ASSUME NEW c \in Conns, LockShared(c) PROVE Shrinks
  BY <1>2, MoversFields, MovedFields, UsedShrinks, DueShrinks DEF LockShared, At, Places
<1>3. ASSUME NEW c \in Conns, LockBusy(c) PROVE Shrinks
  BY <1>3, MoversFields, MovedFields, UsedShrinks, DueShrinks DEF LockBusy, At, Places
<1>5. ASSUME NEW c \in Conns, WriteHeader(c) PROVE Shrinks
  BY <1>5, WriteHeaderFields, UsedShrinks, DueShrinks DEF WriteHeader, At
<1>6. ASSUME NEW c \in Conns, ReadHeader(c) PROVE Shrinks
  BY <1>6, MoversFields, MovedFields, UsedShrinks, DueShrinks DEF ReadHeader, At, Places
<1>7. ASSUME NEW c \in Conns, HeaderFails(c) PROVE Shrinks
  BY <1>7, HeaderFailsFields, UsedShrinks, DueShrinks DEF HeaderFails, At
<1>8. ASSUME NEW c \in Conns, ReplayFails(c) PROVE Shrinks
  BY <1>8, ReplayFailsFields, UsedShrinks, DueShrinks DEF ReplayFails, At
<1>10. ASSUME NEW c \in Conns, LoadCatalog(c) PROVE Shrinks
  BY <1>10, LoadCatalogFields, UsedShrinks, DueShrinks DEF LoadCatalog, At
<1>11. ASSUME NEW c \in Conns, LockClose(c) PROVE Shrinks
  BY <1>11, LockCloseFields, UsedShrinks, DueShrinks DEF LockClose
<1>12. ASSUME NEW c \in Conns, LockFileClose(c) PROVE Shrinks
  <2>1. CASE conn[c].storeFd = 0
    BY <1>12, <2>1, StepFacts, ClosedType, UsedShrinks, DueShrinks DEF LockFileClose, Closed
  <2>2. CASE conn[c].storeFd # 0
    BY <1>12, <2>2, MoversFields, MovedFields, UsedShrinks, DueShrinks DEF LockFileClose, Places
  <2> QED BY <2>1, <2>2
<1>13. ASSUME NEW c \in Conns, FlushRead(c) PROVE Shrinks
  BY <1>13, FlushReadFields, UsedShrinks, DueShrinks DEF FlushRead, At
<1>14. ASSUME NEW c \in Conns, FlushWrite(c) PROVE Shrinks
  BY <1>14, MoversFields, MovedFields, UsedShrinks, DueShrinks DEF FlushWrite, At, Places
<1>15. ASSUME NEW c \in Conns, StoreClose(c) PROVE Shrinks
  BY <1>15, StepFacts, ClosedType, UsedShrinks, DueShrinks DEF StoreClose, Closed
<1>16. ASSUME NEW c \in Conns, NEW t \in Tables, InsertRead(c, t) PROVE Shrinks
  BY <1>16, InsertReadFields, UsedShrinks, DueShrinks DEF InsertRead, At
<1>17. ASSUME NEW c \in Conns, NEW t \in Tables, NEW n \in 1..MaxRows, DeleteScan(c, t, n)
       PROVE  Shrinks
  BY <1>17, DeleteScanFields, UsedShrinks, DueShrinks DEF DeleteScan, At
<1>18. ASSUME NEW c \in Conns, DeleteRead(c) PROVE Shrinks
  BY <1>18, DeleteReadFields, UsedShrinks, DueShrinks DEF DeleteRead, At
<1>19. ASSUME NEW c \in Conns, PageWrite(c) PROVE Shrinks
  BY <1>19, PageWriteFields, UsedShrinks, DueShrinks DEF PageWrite, At
<1>20. ASSUME NEW c \in Conns, NEW t \in Tables, CreateAlloc(c, t) PROVE Shrinks
  BY <1>20, CreateAllocFields, UsedShrinks, DueShrinks DEF CreateAlloc, At
<1>21. ASSUME NEW c \in Conns, CreateFlush(c) PROVE Shrinks
  BY <1>21, CreateFlushFields, UsedShrinks, DueShrinks DEF CreateFlush, At
<1>22. ASSUME ToolLock \/ ToolRelease PROVE Shrinks
  BY <1>22 DEF ToolLock, ToolRelease, Used, StoreDue, WalDue
<1>23. ASSUME NEW c \in Conns, ExecutorFails(c) PROVE Shrinks
  BY <1>23, MoversFields, MovedFields, UsedShrinks, DueShrinks DEF ExecutorFails, At, Places
<1>24. ASSUME NEW c \in Conns, CloseFails(c) PROVE Shrinks
  BY <1>24, StepFacts, ClosedType, UsedShrinks, DueShrinks DEF CloseFails, Closed
<1> QED
  BY <1>1, <1>2, <1>3, <1>4, <1>5, <1>6, <1>7, <1>8, <1>9, <1>10, <1>11, <1>12, <1>13, <1>14,
     <1>15, <1>16, <1>17, <1>18, <1>19, <1>20, <1>21, <1>22, <1>23, <1>24, BudgetShrinks
     DEF Next, Continue, Close, Cleanup

-----------------------------------------------------------------------------
(* Whose the descriptors are                                               *)

LEMMA MishapsGrow ==
    ASSUME TypeOK, Next
    PROVE  mishaps \subseteq mishaps'
<1>1. ASSUME NEW c \in Conns, NEW t \in Tables,
             \/ WriteHeader(c) \/ FlushWrite(c) \/ PageWrite(c) \/ CreateAlloc(c, t) \/ CreateFlush(c)
             \/ LockOpen(c) \/ StoreOpen(c) \/ WalOpen(c)
      PROVE  mishaps \subseteq mishaps'
  <2>1. \E w, hit : Note(w, hit)
    BY <1>1 DEF WriteHeader, FlushWrite, PageWrite, CreateAlloc, CreateFlush, LockOpen, StoreOpen,
                WalOpen, OpenFd
  <2> QED BY <2>1 DEF Note
<1>2. ASSUME NEW c \in Conns, NEW t \in Tables,
             \/ LockShared(c) \/ LockBusy(c) \/ ReadHeader(c) \/ HeaderFails(c) \/ ReplayFails(c)
             \/ LoadCatalog(c) \/ LockClose(c) \/ LockFileClose(c) \/ FlushRead(c) \/ StoreClose(c)
             \/ ExecutorFails(c) \/ CloseFails(c)
             \/ DeleteRead(c) \/ InsertRead(c, t) \/ \E n \in 1..MaxRows : DeleteScan(c, t, n)
      PROVE  mishaps' = mishaps
  BY <1>2 DEF LockShared, LockBusy, ReadHeader, HeaderFails, ReplayFails, LoadCatalog, LockClose,
              LockFileClose, FlushRead, StoreClose, ExecutorFails, CloseFails, DeleteRead,
              InsertRead, DeleteScan
<1>3. CASE ToolLock \/ ToolRelease
  BY <1>3 DEF ToolLock, ToolRelease, history
<1> QED BY <1>1, <1>2, <1>3, ConnAssumption DEF Next, Continue, Close, Cleanup

\* A step that opens and closes nothing, and leaves its connection with or
\* without the lock.
LEMMA DescriptorsKept ==
    ASSUME TypeOK, Descriptors, NEW c \in Conns, OnlyMoves(c), SameFds(c),
           UNCHANGED <<fds, locks, failed>>,
           conn'[c].at \in WithLock <=> conn[c].at \in WithLock,
           Usable(c)' => Usable(c), ~At(c, "lockClosed")'
    PROVE  Descriptors'
<1>1. \A d \in Conns : conn'[d].lockFd = conn[d].lockFd /\ conn'[d].storeFd = conn[d].storeFd
  BY DEF OnlyMoves, SameFds
<1>2. Leaked' = Leaked
  BY <1>1 DEF Leaked
<1>3. \A d \in Conns :
         /\ conn'[d].at \in WithLock <=> conn[d].at \in WithLock
         /\ Usable(d)' => Usable(d)
         /\ At(d, "lockClosed")' => At(d, "lockClosed")
  BY DEF OnlyMoves, Usable, At
<1> HIDE DEF WithLock
<1>4. ASSUME NEW d \in Conns
      PROVE  /\ conn'[d].at \in WithLock => fds'[conn'[d].lockFd] = <<d, "lock">>
             /\ Usable(d)' => conn'[d].lockFd \in locks'
             /\ conn'[d].storeFd # 0 => Own(d)'
             /\ At(d, "lockClosed")' => fds'[conn'[d].lockFd] = Free
  BY <1>1, <1>3 DEF Descriptors, Own
<1>5. \A n \in 1..MaxFds, d \in Conns :
         fds'[n] = <<d, "lock">> => conn'[d].at \in WithLock /\ conn'[d].lockFd = n
  BY <1>1, <1>3 DEF Descriptors
<1>6. \A n \in locks' : \E d \in Conns : fds'[n] = <<d, "lock">>
  BY DEF Descriptors
<1> QED BY <1>2, <1>4, <1>5, <1>6 DEF Descriptors

\* A step that opens a descriptor while nobody is between the two calls.
LEMMA DescriptorsOpen ==
    ASSUME TypeOK, Counters, Stages, Budget, Descriptors,
           NEW c \in Conns, NEW role \in {"lock", "store", "wal"}, OpenFd(c, role),
           "overlap" \notin mishaps', OnlyMoves(c), UNCHANGED <<locks, failed>>,
           /\ conn'[c].at \in WithLock
           /\ Usable(c)' => Usable(c),
           role = "lock" => /\ conn[c].at = "new" /\ conn'[c].lockFd = LowestFree
                            /\ ~Usable(c)',
           role # "lock" => conn[c].at \in WithLock /\ conn'[c].lockFd = conn[c].lockFd,
           role = "store" => conn[c].storeFd = 0 /\ conn'[c].storeFd = LowestFree,
           role # "store" => conn'[c].storeFd = conn[c].storeFd
    PROVE  Descriptors'
<1> DEFINE n0 == LowestFree
<1>1. /\ n0 \in 1..MaxFds /\ fds[n0] = Free /\ fds'[n0] = <<c, role>>
      /\ \A n \in 1..MaxFds : n # n0 => fds'[n] = fds[n]
      /\ \A d \in Conns : d # c => ~At(d, "lockClosed")
  BY OpenFdFacts
<1> HIDE DEF n0
<1>2. \A n \in 1..MaxFds, d \in Conns :
         /\ fds[n] = <<d, "lock">> => n # n0 /\ fds'[n] = <<d, "lock">>
         /\ fds[n] = <<d, "store">> => n # n0 /\ fds'[n] = <<d, "store">>
  BY <1>1, OpenNotFree
<1>3. \A d \in Conns : conn[d].at \in WithLock => conn[d].lockFd \in 1..MaxFds
  BY DEF Stages, StageOf, At, WithLock, WithSize, WithHeader, Working
<1>4. \A d \in Conns : conn[d].storeFd # 0 => conn[d].storeFd \in 1..MaxFds
  BY FieldTypes, Bounds
<1>5. conn[c].at = "new" => conn[c].storeFd = 0 /\ conn[c].at \notin WithLock
  BY DEF Stages, StageOf, At, Closed, WithLock, WithSize, WithHeader, Working
<1>6. ASSUME NEW d \in Conns
      PROVE  /\ conn'[d].at \in WithLock => fds'[conn'[d].lockFd] = <<d, "lock">>
             /\ Usable(d)' => conn'[d].lockFd \in locks'
             /\ conn'[d].storeFd # 0 => fds'[conn'[d].storeFd] = <<d, "store">>
             /\ At(d, "lockClosed")' => fds'[conn'[d].lockFd] = Free
  <2>1. CASE d # c
    <3>1. conn'[d] = conn[d]
      BY <2>1 DEF OnlyMoves
    <3>2. conn'[d].at \in WithLock => fds'[conn'[d].lockFd] = <<d, "lock">>
      <4>1. conn[d].at \in WithLock =>
               conn[d].lockFd \in 1..MaxFds /\ fds[conn[d].lockFd] = <<d, "lock">>
        BY <1>3 DEF Descriptors
      <4> QED BY <1>2, <3>1, <4>1
    <3>3. Usable(d)' => conn'[d].lockFd \in locks'
      BY <3>1 DEF Descriptors, Usable
    <3>4. conn'[d].storeFd # 0 => fds'[conn'[d].storeFd] = <<d, "store">>
      <4>1. conn[d].storeFd # 0 =>
               conn[d].storeFd \in 1..MaxFds /\ fds[conn[d].storeFd] = <<d, "store">>
        BY <1>4 DEF Descriptors, Own
      <4> QED BY <1>2, <3>1, <4>1
    <3>5. ~At(d, "lockClosed")'
      BY <1>1, <2>1, <3>1 DEF At
    <3> QED BY <3>2, <3>3, <3>4, <3>5
  <2>2. CASE d = c
    <3>1. ~At(c, "lockClosed")'
      BY DEF At, WithLock, WithSize, WithHeader, Working
    <3>2. Usable(c)' => conn'[c].lockFd \in locks'
      BY DEF Descriptors
    <3>3. fds'[conn'[c].lockFd] = <<c, "lock">>
      BY <1>1, <1>2, <1>3 DEF Descriptors, n0
    <3>4. conn'[c].storeFd # 0 => fds'[conn'[c].storeFd] = <<c, "store">>
      <4>1. CASE role = "store"
        BY <1>1, <4>1 DEF n0
      <4>2. CASE role # "store"
        <5>1. conn[c].storeFd # 0 =>
                 conn[c].storeFd \in 1..MaxFds /\ fds[conn[c].storeFd] = <<c, "store">>
          BY <1>4 DEF Descriptors, Own
        <5> QED BY <1>2, <4>2, <5>1
      <4> QED BY <4>1, <4>2
    <3> QED BY <2>2, <3>1, <3>2, <3>3, <3>4
  <2> QED BY <2>1, <2>2
<1>7. ASSUME NEW n \in 1..MaxFds, NEW d \in Conns, fds'[n] = <<d, "lock">>
      PROVE  conn'[d].at \in WithLock /\ conn'[d].lockFd = n
  <2>1. CASE n = n0
    BY <1>1, <1>7, <2>1 DEF n0
  <2>2. CASE n # n0
    BY <1>1, <1>5, <1>7, <2>2 DEF Descriptors, OnlyMoves
  <2> QED BY <2>1, <2>2
<1>8. \A n \in locks' : \E d \in Conns : fds'[n] = <<d, "lock">>
  BY <1>2 DEF Descriptors, TypeOK
<1>9. Leaked' = Leaked
  <2>1. ASSUME NEW n \in 1..MaxFds, NEW d \in Conns
        PROVE  (fds'[n] = <<d, "store">> /\ conn'[d].storeFd # n) <=>
               (fds[n] = <<d, "store">> /\ conn[d].storeFd # n)
    <3>1. CASE n = n0
      <4>1. fds[n] # <<d, "store">>
        BY <1>1, <3>1, OpenNotFree
      <4>2. fds'[n] = <<d, "store">> => role = "store" /\ d = c /\ conn'[d].storeFd = n
        BY <1>1, <3>1 DEF n0
      <4> QED BY <4>1, <4>2
    <3>2. CASE n # n0
      BY <1>1, <3>2 DEF OnlyMoves, Descriptors, n0
    <3> QED BY <3>1, <3>2
  <2> QED BY <2>1 DEF Leaked
<1> QED BY <1>6, <1>7, <1>8, <1>9 DEF Descriptors, Own

\* A step that closes the descriptor n, its connection's lock or store, or
\* once more the one the lock had.
LEMMA DescriptorsClose ==
    ASSUME TypeOK, Stages, Descriptors, NEW c \in Conns, NEW n \in 1..MaxFds, CloseFd(n),
           OnlyMoves(c), failed' = failed,
           fds[n] \in {<<c, "lock">>, <<c, "store">>, Free},
           fds[n] = <<c, "store">> => conn[c].storeFd = n,
           ~Usable(c)',
           conn'[c].at \in WithLock =>
              conn[c].at \in WithLock /\ conn'[c].lockFd = conn[c].lockFd /\ n # conn[c].lockFd,
           conn[c].at \in WithLock /\ conn'[c].at \notin WithLock => n = conn[c].lockFd,
           At(c, "lockClosed")' => conn'[c].lockFd = n,
           conn'[c].storeFd # 0 => conn'[c].storeFd = conn[c].storeFd /\ conn[c].storeFd # n,
           conn'[c].storeFd = 0 => conn[c].storeFd \in {0, n}
    PROVE  Descriptors'
<1>1. /\ fds'[n] = Free /\ locks' = locks \ {n}
      /\ \A m \in 1..MaxFds : m # n => fds'[m] = fds[m]
  BY CloseFdFacts
<1>2. \A d \in Conns : \A k \in {"lock", "store"} : d # c => fds[n] # <<d, k>>
  BY OpenNotFree
<1>3. \A d \in Conns : conn[d].at \in WithLock => conn[d].lockFd \in 1..MaxFds
  BY DEF Stages, StageOf, At, WithLock, WithSize, WithHeader, Working
<1>4. \A d \in Conns : conn[d].storeFd # 0 => conn[d].storeFd \in 1..MaxFds
  BY FieldTypes, Bounds
<1>5. \A d \in Conns : Usable(d) => conn[d].at \in WithLock
  BY DEF Usable, WithLock, WithSize, WithHeader, Working, Places
<1>6. ASSUME NEW d \in Conns, d # c
      PROVE  /\ conn'[d].at \in WithLock => fds'[conn'[d].lockFd] = <<d, "lock">>
             /\ Usable(d)' => conn'[d].lockFd \in locks'
             /\ conn'[d].storeFd # 0 => Own(d)'
             /\ At(d, "lockClosed")' => fds'[conn'[d].lockFd] = Free
  <2>1. conn'[d] = conn[d]
    BY <1>6 DEF OnlyMoves
  <2>2. conn[d].at \in WithLock => conn[d].lockFd # n /\ fds'[conn[d].lockFd] = <<d, "lock">>
    BY <1>1, <1>2, <1>3, <1>6 DEF Descriptors
  <2>3. Usable(d) => conn[d].lockFd \in locks'
    BY <1>1, <1>5, <2>2 DEF Descriptors
  <2>4. conn[d].storeFd # 0 => fds'[conn[d].storeFd] = <<d, "store">>
    BY <1>1, <1>2, <1>4, <1>6 DEF Descriptors, Own
  <2>5. At(d, "lockClosed") => fds'[conn[d].lockFd] = Free
    <3>1. At(d, "lockClosed") => conn[d].lockFd \in 1..MaxFds /\ fds[conn[d].lockFd] = Free
      BY DEF Stages, StageOf, Descriptors, At
    <3> QED BY <1>1, <3>1
  <2> QED BY <2>1, <2>2, <2>3, <2>4, <2>5 DEF Usable, Own, At
<1>7. /\ conn'[c].at \in WithLock => fds'[conn'[c].lockFd] = <<c, "lock">>
      /\ Usable(c)' => conn'[c].lockFd \in locks'
      /\ conn'[c].storeFd # 0 => fds'[conn'[c].storeFd] = <<c, "store">>
      /\ At(c, "lockClosed")' => fds'[conn'[c].lockFd] = Free
  BY <1>1, <1>3, <1>4 DEF Descriptors, Own
<1>8. ASSUME NEW m \in 1..MaxFds, NEW d \in Conns, fds'[m] = <<d, "lock">>
      PROVE  conn'[d].at \in WithLock /\ conn'[d].lockFd = m
  <2>1. m # n /\ fds[m] = <<d, "lock">>
    BY <1>1, <1>8, OpenNotFree
  <2>2. conn[d].at \in WithLock /\ conn[d].lockFd = m
    BY <2>1 DEF Descriptors
  <2> QED BY <2>1, <2>2 DEF OnlyMoves
<1>9. \A m \in locks' : \E d \in Conns : fds'[m] = <<d, "lock">>
  <2>1. \A m \in locks' : m \in 1..MaxFds /\ m # n /\ m \in locks
    BY <1>1 DEF TypeOK
  <2> QED BY <1>1, <2>1 DEF Descriptors
<1>10. Leaked' = Leaked
  <2>1. ASSUME NEW m \in 1..MaxFds, NEW d \in Conns
        PROVE  (fds'[m] = <<d, "store">> /\ conn'[d].storeFd # m) <=>
               (fds[m] = <<d, "store">> /\ conn[d].storeFd # m)
    <3>1. CASE m = n
      BY <1>1, <1>2, <3>1, OpenNotFree
    <3>2. CASE m # n /\ d # c
      BY <1>1, <3>2 DEF OnlyMoves
    <3>3. CASE m # n /\ d = c
      BY <1>1, <3>3
    <3> QED BY <3>1, <3>2, <3>3
  <2> QED BY <2>1 DEF Leaked
<1> QED BY <1>6, <1>7, <1>8, <1>9, <1>10 DEF Descriptors, Own

LEMMA LockSharedDescriptors ==
    ASSUME TypeOK, Stages, Descriptors, NEW c \in Conns, LockShared(c)
    PROVE  Descriptors'
<1>1. /\ conn[c].at = "opened" /\ locks' = locks \cup {conn[c].lockFd}
      /\ UNCHANGED <<fds, failed>>
  BY DEF LockShared, At
<1>2. OnlyMoves(c) /\ SameFds(c) /\ conn'[c].at = "locked"
  BY MoversFields, MovedFields DEF Places
<1>3. conn[c].at \in WithLock /\ conn'[c].at \in WithLock
  BY <1>1, <1>2 DEF WithLock
<1>4. fds[conn[c].lockFd] = <<c, "lock">>
  BY <1>3 DEF Descriptors
<1>5. Leaked' = Leaked
  BY <1>1, <1>2 DEF Leaked, OnlyMoves, SameFds
<1>6. ASSUME NEW d \in Conns
      PROVE  /\ conn'[d].at \in WithLock => fds'[conn'[d].lockFd] = <<d, "lock">>
             /\ Usable(d)' => conn'[d].lockFd \in locks'
             /\ conn'[d].storeFd # 0 => Own(d)'
             /\ At(d, "lockClosed")' => fds'[conn'[d].lockFd] = Free
  <2>1. CASE d = c
    BY <1>1, <1>2, <1>4, <2>1 DEF Descriptors, SameFds, Own, At
  <2>2. CASE d # c
    BY <1>1, <1>2, <2>2 DEF Descriptors, OnlyMoves, Own, At, Usable
  <2> QED BY <2>1, <2>2
<1>7. \A n \in 1..MaxFds, d \in Conns :
         fds'[n] = <<d, "lock">> => conn'[d].at \in WithLock /\ conn'[d].lockFd = n
  BY <1>1, <1>2, <1>3 DEF Descriptors, OnlyMoves, SameFds
<1>8. \A n \in locks' : \E d \in Conns : fds'[n] = <<d, "lock">>
  BY <1>1, <1>4 DEF Descriptors
<1> QED BY <1>1, <1>5, <1>6, <1>7, <1>8 DEF Descriptors

LEMMA ReplayFailsDescriptors ==
    ASSUME TypeOK, Counters, Stages, Descriptors, NEW c \in Conns, ReplayFails(c)
    PROVE  Descriptors'
<1>1. conn[c].at = "header" /\ failed' = failed + 1 /\ UNCHANGED <<fds, locks>>
  BY DEF ReplayFails, At
<1>2. /\ OnlyMoves(c) /\ conn'[c].at = "closing" /\ conn'[c].storeFd = 0
      /\ conn'[c].lockFd = conn[c].lockFd
  BY ReplayFailsFields
<1>3. conn[c].at \in WithLock /\ conn'[c].at \in WithLock /\ ~Usable(c)'
  BY <1>1, <1>2 DEF WithLock, WithSize, WithHeader, Usable
<1>4. conn[c].storeFd \in 1..MaxFds /\ fds[conn[c].storeFd] = <<c, "store">>
  BY <1>1, Bounds DEF Stages, StageOf, Descriptors, Own, WithStore, WithSize, WithHeader
<1>5. Leaked' = Leaked \cup {conn[c].storeFd} /\ conn[c].storeFd \notin Leaked
  <2>1. ASSUME NEW n \in 1..MaxFds, NEW d \in Conns
        PROVE  (fds'[n] = <<d, "store">> /\ conn'[d].storeFd # n) <=>
               (fds[n] = <<d, "store">> /\ conn[d].storeFd # n) \/ (n = conn[c].storeFd /\ d = c)
    <3>1. CASE d = c
      BY <1>1, <1>2, <1>4, <3>1 DEF Descriptors
    <3>2. CASE d # c
      BY <1>1, <1>2, <1>4, <3>2 DEF OnlyMoves
    <3> QED BY <3>1, <3>2
  <2> QED BY <1>4, <2>1 DEF Leaked
<1>6. Cardinality(Leaked') = failed'
  <2>1. IsFiniteSet(1..MaxFds) /\ Leaked \in SUBSET (1..MaxFds)
    BY Bounds, FS_Interval DEF Leaked
  <2>2. IsFiniteSet(Leaked)
    BY <2>1, FS_Subset
  <2> QED BY <1>1, <1>5, <2>2, FS_AddElement DEF Descriptors
<1>7. ASSUME NEW d \in Conns
      PROVE  /\ conn'[d].at \in WithLock => fds'[conn'[d].lockFd] = <<d, "lock">>
             /\ Usable(d)' => conn'[d].lockFd \in locks'
             /\ conn'[d].storeFd # 0 => Own(d)'
             /\ At(d, "lockClosed")' => fds'[conn'[d].lockFd] = Free
  <2>1. CASE d = c
    BY <1>1, <1>2, <1>3, <2>1 DEF Descriptors, At
  <2>2. CASE d # c
    BY <1>1, <1>2, <2>2 DEF Descriptors, OnlyMoves, Own, At, Usable
  <2> QED BY <2>1, <2>2
<1>8. \A n \in 1..MaxFds, d \in Conns :
         fds'[n] = <<d, "lock">> => conn'[d].at \in WithLock /\ conn'[d].lockFd = n
  BY <1>1, <1>2, <1>3 DEF Descriptors, OnlyMoves
<1>9. \A n \in locks' : \E d \in Conns : fds'[n] = <<d, "lock">>
  BY <1>1 DEF Descriptors
<1> QED BY <1>6, <1>7, <1>8, <1>9 DEF Descriptors

LEMMA CloseFailsDescriptors ==
    ASSUME TypeOK, Counters, Stages, Descriptors, NEW c \in Conns, CloseFails(c)
    PROVE  Descriptors'
<1>1. /\ conn[c].at \in {"lockGone", "flush", "flushed"} /\ failed' = failed + 1
      /\ UNCHANGED <<fds, locks>>
  BY DEF CloseFails
<1>2. OnlyMoves(c) /\ conn'[c].at = "new" /\ conn'[c].storeFd = 0
  BY StepFacts, ClosedType DEF CloseFails, Closed
<1>3. conn[c].at \notin WithLock /\ conn'[c].at \notin WithLock /\ ~Usable(c)'
  BY <1>1, <1>2 DEF WithLock, WithSize, WithHeader, Working, Usable
<1>4. conn[c].storeFd \in 1..MaxFds /\ fds[conn[c].storeFd] = <<c, "store">>
  BY <1>1, Bounds DEF Stages, StageOf, Descriptors, Own, WithStore
<1>5. Leaked' = Leaked \cup {conn[c].storeFd} /\ conn[c].storeFd \notin Leaked
  <2>1. ASSUME NEW n \in 1..MaxFds, NEW d \in Conns
        PROVE  (fds'[n] = <<d, "store">> /\ conn'[d].storeFd # n) <=>
               (fds[n] = <<d, "store">> /\ conn[d].storeFd # n) \/ (n = conn[c].storeFd /\ d = c)
    <3>1. CASE d = c
      BY <1>1, <1>2, <1>4, <3>1 DEF Descriptors
    <3>2. CASE d # c
      BY <1>1, <1>2, <1>4, <3>2 DEF OnlyMoves
    <3> QED BY <3>1, <3>2
  <2> QED BY <1>4, <2>1 DEF Leaked
<1>6. Cardinality(Leaked') = failed'
  <2>1. IsFiniteSet(1..MaxFds) /\ Leaked \in SUBSET (1..MaxFds)
    BY Bounds, FS_Interval DEF Leaked
  <2>2. IsFiniteSet(Leaked)
    BY <2>1, FS_Subset
  <2> QED BY <1>1, <1>5, <2>2, FS_AddElement DEF Descriptors
<1>7. ASSUME NEW d \in Conns
      PROVE  /\ conn'[d].at \in WithLock => fds'[conn'[d].lockFd] = <<d, "lock">>
             /\ Usable(d)' => conn'[d].lockFd \in locks'
             /\ conn'[d].storeFd # 0 => Own(d)'
             /\ At(d, "lockClosed")' => fds'[conn'[d].lockFd] = Free
  <2>1. CASE d = c
    BY <1>1, <1>2, <1>3, <2>1 DEF Descriptors, At
  <2>2. CASE d # c
    BY <1>1, <1>2, <2>2 DEF Descriptors, OnlyMoves, Own, At, Usable
  <2> QED BY <2>1, <2>2
<1>8. \A n \in 1..MaxFds, d \in Conns :
         fds'[n] = <<d, "lock">> => conn'[d].at \in WithLock /\ conn'[d].lockFd = n
  BY <1>1, <1>2, <1>3 DEF Descriptors, OnlyMoves
<1>9. \A n \in locks' : \E d \in Conns : fds'[n] = <<d, "lock">>
  BY <1>1 DEF Descriptors
<1> QED BY <1>6, <1>7, <1>8, <1>9 DEF Descriptors

LEMMA NextDescriptors ==
    ASSUME TypeOK, Counters, Stages, Budget, Descriptors, Next, "overlap" \notin mishaps'
    PROVE  Descriptors'
<1> DEFINE Kept(c) == /\ OnlyMoves(c) /\ SameFds(c) /\ UNCHANGED <<fds, locks, failed>>
                      /\ conn'[c].at \in WithLock <=> conn[c].at \in WithLock
                      /\ Usable(c)' => Usable(c)
                      /\ ~At(c, "lockClosed")'
<1>1. ASSUME NEW c \in Conns, LockBusy(c) PROVE Kept(c)
  BY <1>1, MoversFields, MovedFields
     DEF LockBusy, At, Usable, Places, WithLock, WithSize, WithHeader, Working
<1>2. ASSUME NEW c \in Conns, WriteHeader(c) PROVE Kept(c)
  BY <1>2, WriteHeaderFields
     DEF WriteHeader, At, Usable, Places, WithLock, WithSize, WithHeader, Working
<1>3. ASSUME NEW c \in Conns, ReadHeader(c) PROVE Kept(c)
  BY <1>3, MoversFields, MovedFields
     DEF ReadHeader, At, Usable, Places, WithLock, WithSize, WithHeader, Working
<1>4. ASSUME NEW c \in Conns, LoadCatalog(c) PROVE Kept(c)
  BY <1>4, LoadCatalogFields
     DEF LoadCatalog, At, Usable, Places, WithLock, WithSize, WithHeader, Working
<1>5. ASSUME NEW c \in Conns, FlushRead(c) PROVE Kept(c)
  BY <1>5, FlushReadFields
     DEF FlushRead, At, Usable, Places, WithLock, WithSize, WithHeader, Working
<1>6. ASSUME NEW c \in Conns, FlushWrite(c) PROVE Kept(c)
  BY <1>6, MoversFields, MovedFields
     DEF FlushWrite, At, Usable, Places, WithLock, WithSize, WithHeader, Working
<1>7. ASSUME NEW c \in Conns, NEW t \in Tables, InsertRead(c, t) PROVE Kept(c)
  BY <1>7, InsertReadFields
     DEF InsertRead, CanStart, At, Usable, Places, WithLock, WithSize, WithHeader, Working
<1>8. ASSUME NEW c \in Conns, NEW t \in Tables, NEW n \in 1..MaxRows, DeleteScan(c, t, n)
      PROVE  Kept(c)
  BY <1>8, DeleteScanFields
     DEF DeleteScan, CanStart, At, Usable, Places, WithLock, WithSize, WithHeader, Working
<1>9. ASSUME NEW c \in Conns, DeleteRead(c) PROVE Kept(c)
  BY <1>9, DeleteReadFields
     DEF DeleteRead, At, Usable, Places, WithLock, WithSize, WithHeader, Working
<1>10. ASSUME NEW c \in Conns, PageWrite(c) PROVE Kept(c)
  BY <1>10, PageWriteFields
     DEF PageWrite, At, Usable, Places, WithLock, WithSize, WithHeader, Working
<1>11. ASSUME NEW c \in Conns, NEW t \in Tables, CreateAlloc(c, t) PROVE Kept(c)
  BY <1>11, CreateAllocFields
     DEF CreateAlloc, CanStart, At, Usable, Places, WithLock, WithSize, WithHeader, Working
<1>12. ASSUME NEW c \in Conns, CreateFlush(c) PROVE Kept(c)
  BY <1>12, CreateFlushFields
     DEF CreateFlush, At, Usable, Places, WithLock, WithSize, WithHeader, Working
<1>13. ASSUME NEW c \in Conns, LockShared(c) PROVE Descriptors'
  BY <1>13, LockSharedDescriptors
<1>14. ASSUME NEW c \in Conns, ReplayFails(c) PROVE Descriptors'
  BY <1>14, ReplayFailsDescriptors
<1>15. ASSUME NEW c \in Conns, LockOpen(c) PROVE Descriptors'
  <2>1. conn[c].at = "new" /\ OpenFd(c, "lock") /\ UNCHANGED <<locks, failed>>
    BY <1>15 DEF LockOpen, At
  <2>2. /\ OnlyMoves(c) /\ conn'[c].at = "opened" /\ conn'[c].lockFd = LowestFree
        /\ conn'[c].storeFd = 0 /\ conn[c].storeFd = 0
    BY <1>15, <2>1, LockOpenFields DEF Stages, StageOf, At, Closed
  <2>3. conn'[c].at \in WithLock /\ ~Usable(c)'
    BY <2>2 DEF WithLock, Usable
  <2> QED BY <2>1, <2>2, <2>3, DescriptorsOpen
<1>16. ASSUME NEW c \in Conns, StoreOpen(c) PROVE Descriptors'
  <2>1. conn[c].at = "locked" /\ OpenFd(c, "store") /\ UNCHANGED <<locks, failed>>
    BY <1>16 DEF StoreOpen, At
  <2>2. /\ OnlyMoves(c) /\ conn'[c].at = "sized" /\ conn'[c].storeFd = LowestFree
        /\ conn'[c].lockFd = conn[c].lockFd /\ conn[c].storeFd = 0
    BY <1>16, <2>1, StoreOpenFields DEF Stages, StageOf
  <2>3. conn'[c].at \in WithLock /\ conn[c].at \in WithLock /\ Usable(c)
    BY <2>1, <2>2 DEF WithLock, WithSize, Usable, Places
  <2> QED BY <2>1, <2>2, <2>3, DescriptorsOpen
<1>17. ASSUME NEW c \in Conns, WalOpen(c) PROVE Descriptors'
  <2>1. conn[c].at = "header" /\ OpenFd(c, "wal") /\ UNCHANGED <<locks, failed>>
    BY <1>17 DEF WalOpen, At
  <2>2. OnlyMoves(c) /\ conn'[c].at = "logged" /\ SameFds(c)
    BY <1>17, MoversFields, MovedFields DEF Places
  <2>3. conn'[c].at \in WithLock /\ conn[c].at \in WithLock /\ Usable(c)
    BY <2>1, <2>2 DEF WithLock, WithSize, WithHeader, Usable, Places
  <2> QED BY <2>1, <2>2, <2>3, DescriptorsOpen DEF SameFds
<1>18. ASSUME NEW c \in Conns, HeaderFails(c) PROVE Descriptors'
  <2>1. conn[c].at = "sized" /\ CloseFd(conn[c].storeFd) /\ failed' = failed
    BY <1>18 DEF HeaderFails, At
  <2>2. /\ OnlyMoves(c) /\ conn'[c].at = "closing" /\ conn'[c].storeFd = 0
        /\ conn'[c].lockFd = conn[c].lockFd
    BY <1>18, HeaderFailsFields
  <2>3. /\ conn'[c].at \in WithLock /\ conn[c].at \in WithLock /\ ~Usable(c)'
        /\ conn[c].at \in WithStore /\ ~At(c, "lockClosed")'
    BY <2>1, <2>2 DEF WithLock, WithStore, WithSize, Usable, At
  <2>4. conn[c].storeFd \in 1..MaxFds /\ fds[conn[c].storeFd] = <<c, "store">>
    BY <2>3, Bounds DEF Stages, StageOf, Descriptors, Own
  <2>5. conn[c].storeFd # conn[c].lockFd
    BY <2>3, <2>4 DEF Descriptors
  <2> QED BY <2>1, <2>2, <2>3, <2>4, <2>5, DescriptorsClose
<1>19. ASSUME NEW c \in Conns, Close(c) \/ Cleanup(c) PROVE Descriptors'
  <2>1. conn[c].at \in {"idle", "closing"} /\ CloseFd(conn[c].lockFd) /\ failed' = failed
    BY <1>19 DEF Close, Cleanup, LockClose, At
  <2>2. OnlyMoves(c) /\ conn'[c].at = "lockClosed" /\ SameFds(c)
    BY <1>19, LockCloseFields DEF Close, Cleanup
  <2>3. conn'[c].at \notin WithLock /\ conn[c].at \in WithLock /\ ~Usable(c)'
    BY <2>1, <2>2 DEF WithLock, WithSize, WithHeader, Working, Usable
  <2>4. conn[c].lockFd \in 1..MaxFds /\ fds[conn[c].lockFd] = <<c, "lock">>
    BY <2>1, <2>3 DEF Stages, StageOf, At, Descriptors
  <2>5. conn[c].storeFd # 0 => conn[c].storeFd # conn[c].lockFd
    BY <2>4 DEF Descriptors, Own
  <2>6. fds[conn[c].lockFd] # <<c, "store">>
    BY <2>4
  <2>7. /\ conn'[c].lockFd = conn[c].lockFd /\ conn'[c].storeFd = conn[c].storeFd
        /\ conn'[c].storeFd = 0 => conn[c].storeFd = 0
    BY <2>2 DEF SameFds
  <2> QED BY <2>1, <2>2, <2>3, <2>4, <2>5, <2>6, <2>7, DescriptorsClose
<1>20. ASSUME NEW c \in Conns, LockFileClose(c) PROVE Descriptors'
  <2>1. conn[c].at = "lockClosed" /\ CloseFd(conn[c].lockFd) /\ failed' = failed
    BY <1>20 DEF LockFileClose, At
  <2>2. conn[c].lockFd \in 1..MaxFds /\ fds[conn[c].lockFd] = Free
    BY <2>1 DEF Stages, StageOf, At, Descriptors
  <2>3. OnlyMoves(c) /\ conn'[c].at \in {"new", "lockGone"} /\ conn'[c].storeFd = conn[c].storeFd
    <3>1. CASE conn[c].storeFd = 0
      BY <1>20, <3>1, StepFacts, ClosedType DEF LockFileClose, Closed
    <3>2. CASE conn[c].storeFd # 0
      BY <1>20, <3>2, MoversFields, MovedFields DEF Places, SameFds
    <3> QED BY <3>1, <3>2
  <2>4. /\ conn'[c].at \notin WithLock /\ conn[c].at \notin WithLock /\ ~Usable(c)'
        /\ ~At(c, "lockClosed")'
    BY <2>1, <2>3 DEF WithLock, WithSize, WithHeader, Working, Usable, At
  <2>5. conn[c].storeFd # 0 => conn[c].storeFd # conn[c].lockFd
    <3>1. conn[c].storeFd # 0 => fds[conn[c].storeFd] = <<c, "store">>
      BY DEF Descriptors, Own
    <3> QED BY <2>2, <3>1, OpenNotFree
  <2> QED BY <2>1, <2>2, <2>3, <2>4, <2>5, OpenNotFree, DescriptorsClose
<1>21. ASSUME NEW c \in Conns, StoreClose(c) PROVE Descriptors'
  <2>1. conn[c].at = "flushed" /\ CloseFd(conn[c].storeFd) /\ failed' = failed
    BY <1>21 DEF StoreClose, At
  <2>2. OnlyMoves(c) /\ conn'[c].at = "new" /\ conn'[c].storeFd = 0
    BY <1>21, StepFacts, ClosedType DEF StoreClose, Closed
  <2>3. /\ conn'[c].at \notin WithLock /\ conn[c].at \notin WithLock /\ ~Usable(c)'
        /\ ~At(c, "lockClosed")' /\ conn[c].at \in WithStore
    BY <2>1, <2>2 DEF WithLock, WithStore, WithSize, WithHeader, Working, Usable, At
  <2>4. conn[c].storeFd \in 1..MaxFds /\ fds[conn[c].storeFd] = <<c, "store">>
    BY <2>3, Bounds DEF Stages, StageOf, Descriptors, Own
  <2> QED BY <2>1, <2>2, <2>3, <2>4, DescriptorsClose
<1>22. CASE ToolLock \/ ToolRelease
  <2>1. UNCHANGED <<conn, fds, locks, failed>>
    BY <1>22 DEF ToolLock, ToolRelease, history
  <2>2. Leaked' = Leaked
    BY <2>1 DEF Leaked
  <2> QED BY <2>1, <2>2 DEF Descriptors, At, Usable, Own
<1>23. ASSUME NEW c \in Conns, ExecutorFails(c) PROVE Kept(c)
  BY <1>23, MoversFields, MovedFields
     DEF ExecutorFails, At, Usable, Places, WithLock, WithSize, WithHeader, Working
<1>24. ASSUME NEW c \in Conns, CloseFails(c) PROVE Descriptors'
  BY <1>24, CloseFailsDescriptors
<1> QED
  BY <1>1, <1>2, <1>3, <1>4, <1>5, <1>6, <1>7, <1>8, <1>9, <1>10, <1>11, <1>12, <1>13, <1>14,
     <1>15, <1>16, <1>17, <1>18, <1>19, <1>20, <1>21, <1>22, <1>23, <1>24, DescriptorsKept
     DEF Next, Continue

-----------------------------------------------------------------------------
(* One connection at a time                                                *)

LEMMA AloneStep ==
    ASSUME ~together => Alone, NEW c \in Conns, NEW r, Step(c, r), ~together'
    PROVE  Alone /\ \A d \in Conns : d # c => At(d, "new")
BY DEF Step

LEMMA AloneKept ==
    ASSUME NEW c \in Conns, OnlyMoves(c), \A d \in Conns : d # c => At(d, "new"),
           mishaps' = {}, UpToDate(c)'
    PROVE  Alone'
<1>1. \A d \in Conns : d # c => At(d, "new")'
  BY DEF OnlyMoves, At
<1>2. \A d \in Conns : d # c => UpToDate(d)'
  BY <1>1 DEF UpToDate, At, WithSize, WithHeader, Working
<1> QED BY <1>1, <1>2 DEF Alone

LEMMA NextAlone ==
    ASSUME TypeOK, Counters, Stages, Budget, ~together => Alone, Next
    PROVE  (~together => Alone)'
<1> SUFFICES ASSUME ~together' PROVE Alone'
  OBVIOUS
<1>0. ASSUME NEW c \in Conns, NEW r, Step(c, r)
      PROVE  /\ mishaps = {} /\ UpToDate(c)
             /\ \A d \in Conns : d # c => At(d, "new")
  BY <1>0, AloneStep DEF Alone
<1> USE DEF WithSize, WithHeader, Working, At
<1>1. ASSUME NEW c \in Conns, LockOpen(c) PROVE Alone'
  <2>1. /\ mishaps = {} /\ UpToDate(c) /\ \A d \in Conns : d # c => At(d, "new")
    BY <1>1, <1>0 DEF LockOpen
  <2>2. OnlyMoves(c) /\ UpToDate(c)'
    BY <1>1, <2>1, LockOpenFields DEF LockOpen, file, UpToDate, Page, SameFds, SameView, SameWork
  <2>3. mishaps' = {}
    BY <1>1, <2>1 DEF LockOpen, OpenFd, Note
  <2> QED BY <2>1, <2>2, <2>3, AloneKept
<1>2. ASSUME NEW c \in Conns, LockShared(c) PROVE Alone'
  <2>1. /\ mishaps = {} /\ UpToDate(c) /\ \A d \in Conns : d # c => At(d, "new")
    BY <1>2, <1>0 DEF LockShared
  <2>2. OnlyMoves(c) /\ UpToDate(c)'
    BY <1>2, <2>1, MoversFields, MovedFields
       DEF LockShared, file, UpToDate, Page, SameFds, SameView, SameWork, Places
  <2>3. mishaps' = {}
    BY <1>2, <2>1 DEF LockShared
  <2> QED BY <2>1, <2>2, <2>3, AloneKept
<1>3. ASSUME NEW c \in Conns, LockBusy(c) PROVE Alone'
  <2>1. /\ mishaps = {} /\ UpToDate(c) /\ \A d \in Conns : d # c => At(d, "new")
    BY <1>3, <1>0 DEF LockBusy
  <2>2. OnlyMoves(c) /\ UpToDate(c)'
    BY <1>3, <2>1, MoversFields, MovedFields
       DEF LockBusy, file, UpToDate, Page, SameFds, SameView, SameWork, Places
  <2>3. mishaps' = {}
    BY <1>3, <2>1 DEF LockBusy
  <2> QED BY <2>1, <2>2, <2>3, AloneKept
<1>4. ASSUME NEW c \in Conns, StoreOpen(c) PROVE Alone'
  <2>1. /\ mishaps = {} /\ UpToDate(c) /\ \A d \in Conns : d # c => At(d, "new")
    BY <1>4, <1>0 DEF StoreOpen
  <2>2. OnlyMoves(c) /\ UpToDate(c)'
    BY <1>4, <2>1, StoreOpenFields
       DEF StoreOpen, file, UpToDate, Page, SameFds, SameView, SameWork
  <2>3. mishaps' = {}
    BY <1>4, <2>1 DEF StoreOpen, OpenFd, Note
  <2> QED BY <2>1, <2>2, <2>3, AloneKept
<1>5. ASSUME NEW c \in Conns, WriteHeader(c) PROVE Alone'
  <2>1. /\ mishaps = {} /\ UpToDate(c) /\ \A d \in Conns : d # c => At(d, "new")
    BY <1>5, <1>0 DEF WriteHeader
  <2>2. OnlyMoves(c) /\ UpToDate(c)'
    BY <1>5, <2>1, WriteHeaderFields DEF WriteHeader, UpToDate, Page, SameFds, SameView, SameWork
  <2>3. mishaps' = {}
    BY <1>5, <2>1 DEF WriteHeader, Note, UpToDate, Page
  <2> QED BY <2>1, <2>2, <2>3, AloneKept
<1>6. ASSUME NEW c \in Conns, ReadHeader(c) PROVE Alone'
  <2>1. /\ mishaps = {} /\ UpToDate(c) /\ \A d \in Conns : d # c => At(d, "new")
    BY <1>6, <1>0 DEF ReadHeader
  <2>2. OnlyMoves(c) /\ UpToDate(c)'
    BY <1>6, <2>1, MoversFields, MovedFields
       DEF ReadHeader, file, UpToDate, Page, SameFds, SameView, SameWork, Places
  <2>3. mishaps' = {}
    BY <1>6, <2>1 DEF ReadHeader
  <2> QED BY <2>1, <2>2, <2>3, AloneKept
<1>7. ASSUME NEW c \in Conns, HeaderFails(c) PROVE Alone'
  <2>1. /\ mishaps = {} /\ UpToDate(c) /\ \A d \in Conns : d # c => At(d, "new")
    BY <1>7, <1>0 DEF HeaderFails
  <2>2. OnlyMoves(c) /\ UpToDate(c)'
    BY <1>7, <2>1, HeaderFailsFields
       DEF HeaderFails, file, UpToDate, Page, SameFds, SameView, SameWork
  <2>3. mishaps' = {}
    BY <1>7, <2>1 DEF HeaderFails
  <2> QED BY <2>1, <2>2, <2>3, AloneKept
<1>8. ASSUME NEW c \in Conns, ReplayFails(c) PROVE Alone'
  <2>1. /\ mishaps = {} /\ UpToDate(c) /\ \A d \in Conns : d # c => At(d, "new")
    BY <1>8, <1>0 DEF ReplayFails
  <2>2. OnlyMoves(c) /\ UpToDate(c)'
    BY <1>8, <2>1, ReplayFailsFields
       DEF ReplayFails, file, UpToDate, Page, SameFds, SameView, SameWork
  <2>3. mishaps' = {}
    BY <1>8, <2>1 DEF ReplayFails
  <2> QED BY <2>1, <2>2, <2>3, AloneKept
<1>9. ASSUME NEW c \in Conns, WalOpen(c) PROVE Alone'
  <2>1. /\ mishaps = {} /\ UpToDate(c) /\ \A d \in Conns : d # c => At(d, "new")
    BY <1>9, <1>0 DEF WalOpen
  <2>2. OnlyMoves(c) /\ UpToDate(c)'
    BY <1>9, <2>1, MoversFields, MovedFields
       DEF WalOpen, file, UpToDate, Page, SameFds, SameView, SameWork, Places
  <2>3. mishaps' = {}
    BY <1>9, <2>1 DEF WalOpen, OpenFd, Note
  <2> QED BY <2>1, <2>2, <2>3, AloneKept
<1>10. ASSUME NEW c \in Conns, LoadCatalog(c) PROVE Alone'
  <2>1. /\ mishaps = {} /\ UpToDate(c) /\ \A d \in Conns : d # c => At(d, "new")
    BY <1>10, <1>0 DEF LoadCatalog
  <2>2. OnlyMoves(c) /\ UpToDate(c)'
    BY <1>10, <2>1, LoadCatalogFields
       DEF LoadCatalog, file, UpToDate, Page, SameFds, SameView, SameWork
  <2>3. mishaps' = {}
    BY <1>10, <2>1 DEF LoadCatalog
  <2> QED BY <2>1, <2>2, <2>3, AloneKept
<1>11. ASSUME NEW c \in Conns, Close(c) \/ Cleanup(c) PROVE Alone'
  <2>1. /\ mishaps = {} /\ UpToDate(c) /\ \A d \in Conns : d # c => At(d, "new")
    BY <1>11, <1>0 DEF Close, Cleanup, LockClose
  <2>2. OnlyMoves(c) /\ UpToDate(c)'
    BY <1>11, LockCloseFields DEF Close, Cleanup, UpToDate
  <2>3. mishaps' = {}
    BY <1>11, <2>1 DEF Close, Cleanup, LockClose
  <2> QED BY <2>1, <2>2, <2>3, AloneKept
<1>12. ASSUME NEW c \in Conns, LockFileClose(c) PROVE Alone'
  <2>1. /\ mishaps = {} /\ UpToDate(c) /\ \A d \in Conns : d # c => At(d, "new")
    BY <1>12, <1>0 DEF LockFileClose
  <2>2. OnlyMoves(c) /\ UpToDate(c)'
    <3>1. CASE conn[c].storeFd = 0
      BY <1>12, <3>1, StepFacts, ClosedType DEF LockFileClose, UpToDate, Closed
    <3>2. CASE conn[c].storeFd # 0
      BY <1>12, <3>2, MoversFields, MovedFields DEF UpToDate, Places
    <3> QED BY <3>1, <3>2
  <2> QED BY <1>12, <2>1, <2>2, AloneKept DEF LockFileClose
<1>13. ASSUME NEW c \in Conns, FlushRead(c) PROVE Alone'
  <2>1. /\ mishaps = {} /\ UpToDate(c) /\ \A d \in Conns : d # c => At(d, "new")
    BY <1>13, <1>0 DEF FlushRead
  <2>2. OnlyMoves(c) /\ UpToDate(c)'
    BY <1>13, <2>1, FlushReadFields
       DEF FlushRead, file, UpToDate, Page, SameFds, SameView, SameWork
  <2>3. mishaps' = {}
    BY <1>13, <2>1 DEF FlushRead
  <2> QED BY <2>1, <2>2, <2>3, AloneKept
<1>14. ASSUME NEW c \in Conns, FlushWrite(c) PROVE Alone'
  <2>1. /\ mishaps = {} /\ UpToDate(c) /\ \A d \in Conns : d # c => At(d, "new")
    BY <1>14, <1>0 DEF FlushWrite
  <2>2. OnlyMoves(c) /\ UpToDate(c)'
    BY <1>14, <2>1, MoversFields, MovedFields
       DEF FlushWrite, UpToDate, Page, SameFds, SameView, SameWork, Places
  <2>3. mishaps' = {}
    BY <1>14, <2>1 DEF FlushWrite, Note, UpToDate, Page
  <2> QED BY <2>1, <2>2, <2>3, AloneKept
<1>15. ASSUME NEW c \in Conns, StoreClose(c) PROVE Alone'
  <2>1. /\ mishaps = {} /\ UpToDate(c) /\ \A d \in Conns : d # c => At(d, "new")
    BY <1>15, <1>0 DEF StoreClose
  <2>2. OnlyMoves(c) /\ UpToDate(c)'
    BY <1>15, StepFacts, ClosedType DEF StoreClose, UpToDate, Closed
  <2> QED BY <1>15, <2>1, <2>2, AloneKept DEF StoreClose
<1>16. ASSUME NEW c \in Conns, NEW t \in Tables, InsertRead(c, t) PROVE Alone'
  <2>1. /\ mishaps = {} /\ UpToDate(c) /\ \A d \in Conns : d # c => At(d, "new")
    BY <1>16, <1>0 DEF InsertRead, CanStart
  <2>2. OnlyMoves(c) /\ UpToDate(c)'
    <3>1. /\ OnlyMoves(c) /\ conn'[c].at = "insert" /\ conn'[c].table = t
          /\ conn'[c].count = conn[c].count /\ conn'[c].entries = conn[c].entries
          /\ conn'[c].body = rows[conn[c].entries[t]]
      BY <1>16, InsertReadFields DEF SameView
    <3>2. conn[c].at = "idle" /\ fileSize' = fileSize /\ catalog' = catalog /\ rows' = rows
      BY <1>16 DEF InsertRead, CanStart, At, file
    <3>3. conn[c].count = fileSize /\ conn[c].entries = catalog
      BY <2>1, <3>2 DEF UpToDate, At
    <3> QED BY <3>1, <3>2, <3>3 DEF UpToDate, At, Page
  <2>3. mishaps' = {}
    BY <1>16, <2>1 DEF InsertRead, CanStart
  <2> QED BY <2>1, <2>2, <2>3, AloneKept
<1>17. ASSUME NEW c \in Conns, NEW t \in Tables, NEW n \in 1..MaxRows, DeleteScan(c, t, n)
       PROVE  Alone'
  <2>1. /\ mishaps = {} /\ UpToDate(c) /\ \A d \in Conns : d # c => At(d, "new")
    BY <1>17, <1>0 DEF DeleteScan, CanStart
  <2>2. OnlyMoves(c) /\ UpToDate(c)'
    BY <1>17, <2>1, DeleteScanFields
       DEF DeleteScan, CanStart, file, UpToDate, Page, SameFds, SameView, SameWork
  <2>3. mishaps' = {}
    BY <1>17, <2>1 DEF DeleteScan, CanStart
  <2> QED BY <2>1, <2>2, <2>3, AloneKept
<1>18. ASSUME NEW c \in Conns, DeleteRead(c) PROVE Alone'
  <2>1. /\ mishaps = {} /\ UpToDate(c) /\ \A d \in Conns : d # c => At(d, "new")
    BY <1>18, <1>0 DEF DeleteRead
  <2>2. OnlyMoves(c) /\ UpToDate(c)'
    BY <1>18, <2>1, DeleteReadFields
       DEF DeleteRead, file, UpToDate, Page, SameFds, SameView, SameWork
  <2>3. mishaps' = {}
    BY <1>18, <2>1 DEF DeleteRead
  <2> QED BY <2>1, <2>2, <2>3, AloneKept
<1>19. ASSUME NEW c \in Conns, PageWrite(c) PROVE Alone'
  <2>1. /\ mishaps = {} /\ UpToDate(c) /\ \A d \in Conns : d # c => At(d, "new")
    BY <1>19, <1>0 DEF PageWrite
  <2>2. OnlyMoves(c) /\ UpToDate(c)'
    BY <1>19, <2>1, PageWriteFields DEF PageWrite, UpToDate, Page, SameFds, SameView, SameWork
  <2>3. mishaps' = {}
    BY <1>19, <2>1 DEF PageWrite, Note, UpToDate, Page
  <2> QED BY <2>1, <2>2, <2>3, AloneKept
<1>20. ASSUME NEW c \in Conns, NEW t \in Tables, CreateAlloc(c, t) PROVE Alone'
  <2>1. /\ mishaps = {} /\ UpToDate(c) /\ \A d \in Conns : d # c => At(d, "new")
    BY <1>20, <1>0 DEF CreateAlloc, CanStart
  <2>2. OnlyMoves(c) /\ UpToDate(c)'
    <3>1. /\ conn[c].entries = catalog /\ catalog[t] = 0 /\ conn[c].count = fileSize
          /\ catalog' = catalog
      BY <1>20, <2>1 DEF CreateAlloc, CanStart, UpToDate
    <3>2. fileSize' = conn[c].count + 1
      BY <1>20, <3>1 DEF CreateAlloc, TypeOK
    <3>3. /\ conn'[c].at = "create" /\ conn'[c].table = t
          /\ conn'[c].entries = [catalog EXCEPT ![t] = conn[c].count]
          /\ conn'[c].count = conn[c].count + 1
      BY <1>20, <3>1, CreateAllocFields
    <3>4. catalog \in [Tables -> 0..MaxPages]
      BY DEF TypeOK
    <3>5. catalog = [conn'[c].entries EXCEPT ![t] = 0]
      BY <3>1, <3>3, <3>4
    <3> QED BY <1>20, <3>1, <3>2, <3>3, <3>5, CreateAllocFields DEF UpToDate
  <2>3. mishaps' = {}
    BY <1>20, <2>1 DEF CreateAlloc, CanStart, Note, UpToDate
  <2> QED BY <2>1, <2>2, <2>3, AloneKept
<1>21. ASSUME NEW c \in Conns, CreateFlush(c) PROVE Alone'
  <2>1. /\ mishaps = {} /\ UpToDate(c) /\ \A d \in Conns : d # c => At(d, "new")
    BY <1>21, <1>0 DEF CreateFlush
  <2>2. OnlyMoves(c) /\ UpToDate(c)'
    BY <1>21, <2>1, CreateFlushFields DEF CreateFlush, UpToDate, Page, SameFds, SameView, SameWork
  <2>3. mishaps' = {}
    BY <1>21, <2>1 DEF CreateFlush, Note, UpToDate, Page
  <2> QED BY <2>1, <2>2, <2>3, AloneKept
<1>22. CASE ToolLock \/ ToolRelease
  BY <1>22 DEF ToolLock, ToolRelease, file, history, Alone, UpToDate, Page
<1>23. ASSUME NEW c \in Conns, ExecutorFails(c) PROVE Alone'
  <2>1. /\ mishaps = {} /\ UpToDate(c) /\ \A d \in Conns : d # c => At(d, "new")
    BY <1>23, <1>0 DEF ExecutorFails
  <2>2. OnlyMoves(c) /\ UpToDate(c)'
    BY <1>23, MoversFields, MovedFields DEF UpToDate, Places
  <2> QED BY <1>23, <2>1, <2>2, AloneKept DEF ExecutorFails
<1>24. ASSUME NEW c \in Conns, CloseFails(c) PROVE Alone'
  <2>1. /\ mishaps = {} /\ UpToDate(c) /\ \A d \in Conns : d # c => At(d, "new")
    BY <1>24, <1>0 DEF CloseFails
  <2>2. OnlyMoves(c) /\ UpToDate(c)'
    BY <1>24, StepFacts, ClosedType DEF CloseFails, UpToDate, Closed
  <2> QED BY <1>24, <2>1, <2>2, AloneKept DEF CloseFails
<1> QED
  BY <1>1, <1>2, <1>3, <1>4, <1>5, <1>6, <1>7, <1>8, <1>9, <1>10, <1>11, <1>12, <1>13, <1>14,
     <1>15, <1>16, <1>17, <1>18, <1>19, <1>20, <1>21, <1>22, <1>23, <1>24
     DEF Next, Continue

-----------------------------------------------------------------------------
(* The tables in the file                                                  *)

\* A step that writes nothing and caches no entry but those in the file.
LEMMA SoundKept ==
    ASSUME TypeOK, TypeOK', Stages, FileSound, NEW c \in Conns, OnlyMoves(c),
           UNCHANGED <<rows, catalog, acked>>, fileSize <= fileSize', ~At(c, "create")',
           \A t \in Tables : conn'[c].entries[t] \in {0, catalog[t]}
    PROVE  FileSound'
<1>1. RowsAsAcked'
  BY DEF FileSound, RowsAsAcked
<1>2. \A t, u \in Tables : t # u /\ catalog'[t] # 0 => catalog'[t] # catalog'[u]
  BY DEF FileSound
<1>3. fileSize \in Int /\ fileSize' \in Int /\ \A t \in Tables : catalog[t] \in Int
  BY Bounds DEF TypeOK
<1>4. \A t \in Tables : catalog'[t] # 0 => catalog'[t] < fileSize'
  BY <1>3 DEF FileSound
<1>5. ASSUME NEW d \in Conns, NEW t \in Tables
      PROVE  \/ conn'[d].entries[t] \in {0, catalog'[t]}
             \/ At(d, "create")' /\ conn'[d].table = t
  BY DEF FileSound, OnlyMoves, At
<1>6. ASSUME NEW d \in Conns, At(d, "create")'
      PROVE  /\ Page(d)' < fileSize' /\ rows'[Page(d)'] = {}
             /\ \A t \in Tables : catalog'[t] # Page(d)'
             /\ \A e \in Conns \ {d} : At(e, "create")' => Page(e)' # Page(d)'
  <2>1. \A e \in Conns : At(e, "create")' => At(e, "create") /\ Page(e)' = Page(e)
    BY DEF OnlyMoves, At, Page
  <2>2. Page(d) < fileSize /\ rows[Page(d)] = {}
    BY <1>6, <2>1 DEF FileSound
  <2>3. Page(d)' < fileSize'
    <3>1. Page(d) \in 1..MaxPages
      BY <1>6, <2>1, PageType DEF At, Working
    <3> QED BY <1>3, <1>6, <2>1, <2>2, <3>1
  <2> QED BY <1>6, <2>1, <2>2, <2>3 DEF FileSound
<1> QED BY <1>1, <1>2, <1>4, <1>5, <1>6 DEF FileSound

LEMMA PageWriteSound ==
    ASSUME TypeOK, Stages, FileSound, NEW c \in Conns, PageWrite(c), Running'
    PROVE  FileSound'
<1> DEFINE p == Page(c)
           u == conn[c].table
           With(set) == IF At(c, "insert") THEN set \cup {conn[c].row} ELSE set \ {conn[c].row}
<1>1. conn[c].at \in {"insert", "delete"}
  BY DEF PageWrite
<1>2. u \in Tables /\ p \in 1..MaxPages
  BY <1>1, PageType DEF Working
<1>3. catalog[u] = p
  BY <1>1, <1>2 DEF FileSound, At, Page
<1>4. rows[p] = conn[c].body
  <2>1. Note("page", rows[p] # conn[c].body) /\ "page" \notin mishaps'
    BY DEF PageWrite, Page, Running
  <2> QED BY <2>1, NoteFacts DEF Windows
<1>5. /\ rows' = [rows EXCEPT ![p] = With(rows[p])]
      /\ acked' = [acked EXCEPT ![u] = With(acked[u])]
      /\ UNCHANGED <<fileSize, catalog>>
  BY <1>4 DEF PageWrite, Page
<1>6. OnlyMoves(c) /\ SameView(c) /\ conn'[c].at = "idle"
  BY PageWriteFields
<1>7. /\ rows'[p] = With(rows[p]) /\ \A q \in 1..MaxPages : q # p => rows'[q] = rows[q]
      /\ acked'[u] = With(acked[u]) /\ \A t \in Tables : t # u => acked'[t] = acked[t]
  BY <1>2, <1>5 DEF TypeOK
<1> HIDE DEF With, p, u
<1>8. RowsAsAcked'
  <2>1. ASSUME NEW t \in Tables
        PROVE  acked'[t] = IF catalog[t] = 0 THEN {} ELSE rows'[catalog[t]]
    <3>1. catalog[t] # 0 => catalog[t] \in 1..MaxPages
      BY Bounds DEF TypeOK
    <3>2. CASE t = u
      BY <1>2, <1>3, <1>7, <3>2 DEF FileSound, RowsAsAcked
    <3>3. CASE t # u
      <4>1. catalog[t] # 0 => catalog[t] # p
        BY <1>2, <1>3, <3>3 DEF FileSound
      <4> QED BY <1>7, <3>1, <3>3, <4>1 DEF FileSound, RowsAsAcked
    <3> QED BY <3>2, <3>3
  <2> QED BY <1>5, <2>1 DEF RowsAsAcked
<1>9. \A d \in Conns : At(d, "create")' => At(d, "create") /\ Page(d)' = Page(d) /\ d # c
  BY <1>6 DEF OnlyMoves, At, Page
<1>10. ASSUME NEW d \in Conns, At(d, "create")
       PROVE  Page(d) \in 1..MaxPages /\ rows'[Page(d)] = {}
  <2>1. Page(d) \in 1..MaxPages
    BY <1>10, PageType DEF At, Working
  <2>2. rows[Page(d)] = {} /\ Page(d) # p
    BY <1>2, <1>3, <1>10 DEF FileSound
  <2> QED BY <1>7, <2>1, <2>2
<1>11. ASSUME NEW d \in Conns, NEW t \in Tables
       PROVE  \/ conn'[d].entries[t] \in {0, catalog'[t]}
              \/ At(d, "create")' /\ conn'[d].table = t
  <2>1. CASE d = c
    BY <1>1, <1>5, <1>6, <2>1 DEF FileSound, SameView, At
  <2>2. CASE d # c
    BY <1>5, <1>6, <2>2 DEF FileSound, OnlyMoves, At
  <2> QED BY <2>1, <2>2
<1>12. \A d \in Conns : At(d, "create")' =>
          /\ Page(d)' < fileSize' /\ rows'[Page(d)'] = {}
          /\ \A t \in Tables : catalog'[t] # Page(d)'
          /\ \A e \in Conns \ {d} : At(e, "create")' => Page(e)' # Page(d)'
  BY <1>5, <1>9, <1>10 DEF FileSound
<1> QED BY <1>5, <1>8, <1>11, <1>12 DEF FileSound

LEMMA CreateAllocSound ==
    ASSUME TypeOK, Stages, FileSound, NEW c \in Conns, NEW t \in Tables, CreateAlloc(c, t), Running'
    PROVE  FileSound'
<1> DEFINE p == conn[c].count
<1>1. conn[c].at = "idle" /\ UNCHANGED <<catalog, acked>> /\ conn[c].entries[t] = 0
  BY DEF CreateAlloc, CanStart, At
<1>2. p = fileSize
  <2>1. Note("size", p # fileSize) /\ "size" \notin mishaps'
    BY DEF CreateAlloc, Running
  <2> QED BY <2>1, NoteFacts DEF Windows
<1>3. p \in 1..MaxPages
  BY <1>1, FieldTypes, Bounds DEF CreateAlloc, Stages, StageOf, WithHeader, Working
<1>4. fileSize' = p + 1 /\ rows' = [rows EXCEPT ![p] = {}]
  BY <1>2, <1>3 DEF CreateAlloc
<1>5. /\ OnlyMoves(c) /\ conn'[c].at = "create" /\ conn'[c].table = t
      /\ conn'[c].entries = [conn[c].entries EXCEPT ![t] = p]
  BY CreateAllocFields
<1>6. conn'[c].entries[t] = p /\ \A u \in Tables : u # t => conn'[c].entries[u] = conn[c].entries[u]
  BY <1>5, FieldTypes
<1>7. rows'[p] = {} /\ \A q \in 1..MaxPages : q # p => rows'[q] = rows[q]
  BY <1>3, <1>4 DEF TypeOK
<1>8. \A u \in Tables : catalog[u] # 0 => catalog[u] \in 1..MaxPages /\ catalog[u] < p
  BY <1>2, Bounds DEF TypeOK, FileSound
<1> HIDE DEF p
<1>9. \A u \in Tables : catalog[u] # p
  BY <1>3, <1>8
<1>10. RowsAsAcked'
  BY <1>1, <1>7, <1>8, <1>9 DEF FileSound, RowsAsAcked
<1>11. \A u \in Tables : catalog'[u] # 0 => catalog'[u] < fileSize'
  BY <1>1, <1>3, <1>4, <1>8
<1>12. ASSUME NEW d \in Conns, NEW u \in Tables
       PROVE  \/ conn'[d].entries[u] \in {0, catalog'[u]}
              \/ At(d, "create")' /\ conn'[d].table = u
  <2>1. CASE d = c
    BY <1>1, <1>5, <1>6, <2>1 DEF FileSound, At
  <2>2. CASE d # c
    BY <1>1, <1>5, <2>2 DEF FileSound, OnlyMoves, At
  <2> QED BY <2>1, <2>2
<1>13. Page(c)' = p
  BY <1>5, <1>6 DEF Page
<1>14. ASSUME NEW d \in Conns, d # c, At(d, "create")'
       PROVE  /\ At(d, "create") /\ Page(d)' = Page(d) /\ Page(d) \in 1..MaxPages
              /\ Page(d) < p /\ rows'[Page(d)] = {}
  <2>1. At(d, "create") /\ Page(d)' = Page(d)
    BY <1>5, <1>14 DEF OnlyMoves, At, Page
  <2>2. Page(d) \in 1..MaxPages
    BY <2>1, PageType DEF At, Working
  <2>3. Page(d) < p /\ rows[Page(d)] = {}
    BY <1>2, <2>1 DEF FileSound
  <2> QED BY <1>3, <1>7, <2>1, <2>2, <2>3
<1>15. ASSUME NEW d \in Conns, At(d, "create")'
       PROVE  /\ Page(d)' < fileSize' /\ rows'[Page(d)'] = {}
              /\ \A u \in Tables : catalog'[u] # Page(d)'
              /\ \A e \in Conns \ {d} : At(e, "create")' => Page(e)' # Page(d)'
  <2>1. CASE d = c
    <3>1. \A e \in Conns \ {c} : At(e, "create")' => Page(e)' # p
      BY <1>3, <1>14
    <3> QED BY <1>1, <1>3, <1>4, <1>7, <1>9, <1>13, <2>1, <3>1
  <2>2. CASE d # c
    <3>1. Page(d)' < fileSize' /\ rows'[Page(d)'] = {} /\ Page(d)' # p
      BY <1>3, <1>4, <1>14, <1>15, <2>2
    <3>2. \A u \in Tables : catalog'[u] # Page(d)'
      BY <1>1, <1>14, <1>15, <2>2 DEF FileSound
    <3>3. ASSUME NEW e \in Conns \ {d}, At(e, "create")' PROVE Page(e)' # Page(d)'
      <4>1. CASE e = c
        BY <1>13, <3>1, <4>1
      <4>2. CASE e # c
        BY <1>14, <1>15, <2>2, <3>3, <4>2 DEF FileSound
      <4> QED BY <4>1, <4>2
    <3> QED BY <3>1, <3>2, <3>3
  <2> QED BY <2>1, <2>2
<1>16. \A a, b \in Tables : a # b /\ catalog'[a] # 0 => catalog'[a] # catalog'[b]
  BY <1>1 DEF FileSound
<1> QED BY <1>10, <1>11, <1>12, <1>15, <1>16 DEF FileSound

LEMMA CreateFlushSound ==
    ASSUME TypeOK, Stages, FileSound, NEW c \in Conns, CreateFlush(c), Running'
    PROVE  FileSound'
<1> DEFINE p == Page(c)
           u == conn[c].table
<1>1. conn[c].at = "create" /\ catalog' = conn[c].entries /\ UNCHANGED <<rows, fileSize, acked>>
  BY DEF CreateFlush, At
<1>2. u \in Tables /\ p \in 1..MaxPages
  BY <1>1, PageType DEF Working
<1>3. catalog = [conn[c].entries EXCEPT ![u] = 0]
  <2>1. Note("catalog", catalog # [conn[c].entries EXCEPT ![u] = 0]) /\ "catalog" \notin mishaps'
    BY DEF CreateFlush, Running
  <2> QED BY <2>1, NoteFacts DEF Windows
<1>4. catalog[u] = 0 /\ catalog'[u] = p /\ \A t \in Tables : t # u => catalog'[t] = catalog[t]
  <2>1. conn[c].entries \in [Tables -> 0..MaxPages]
    BY FieldTypes
  <2> QED BY <1>1, <1>2, <1>3, <2>1 DEF Page
<1>5. OnlyMoves(c) /\ SameView(c) /\ conn'[c].at = "idle"
  BY CreateFlushFields DEF SameView
<1>6. /\ p < fileSize /\ rows[p] = {} /\ \A t \in Tables : catalog[t] # p
      /\ \A d \in Conns \ {c} : At(d, "create") => Page(d) # p
  BY <1>1 DEF FileSound, At
<1> HIDE DEF p, u
<1>7. RowsAsAcked'
  <2>1. ASSUME NEW t \in Tables
        PROVE  acked[t] = IF catalog'[t] = 0 THEN {} ELSE rows[catalog'[t]]
    <3>1. CASE t = u
      <4>1. acked[t] = {}
        BY <1>4, <3>1 DEF FileSound, RowsAsAcked
      <4> QED BY <1>4, <1>6, <3>1, <4>1
    <3>2. CASE t # u
      BY <1>4, <3>2 DEF FileSound, RowsAsAcked
    <3> QED BY <3>1, <3>2
  <2> QED BY <1>1, <2>1 DEF RowsAsAcked
<1>8. \A a, b \in Tables : a # b /\ catalog'[a] # 0 => catalog'[a] # catalog'[b]
  BY <1>4, <1>6 DEF FileSound
<1>9. \A t \in Tables : catalog'[t] # 0 => catalog'[t] < fileSize'
  BY <1>1, <1>4, <1>6 DEF FileSound
<1>10. ASSUME NEW d \in Conns, NEW t \in Tables
       PROVE  \/ conn'[d].entries[t] \in {0, catalog'[t]}
              \/ At(d, "create")' /\ conn'[d].table = t
  <2>1. CASE d = c
    BY <1>1, <1>5, <2>1 DEF SameView
  <2>2. CASE d # c
    <3>1. conn'[d] = conn[d]
      BY <1>5, <2>2 DEF OnlyMoves
    <3>2. CASE t = u
      BY <1>4, <3>1, <3>2 DEF FileSound, At
    <3>3. CASE t # u
      BY <1>4, <3>1, <3>3 DEF FileSound, At
    <3> QED BY <3>2, <3>3
  <2> QED BY <2>1, <2>2
<1>11. ASSUME NEW d \in Conns, At(d, "create")'
       PROVE  /\ Page(d)' < fileSize' /\ rows'[Page(d)'] = {}
              /\ \A t \in Tables : catalog'[t] # Page(d)'
              /\ \A e \in Conns \ {d} : At(e, "create")' => Page(e)' # Page(d)'
  <2>1. \A e \in Conns : At(e, "create")' => e # c /\ At(e, "create") /\ Page(e)' = Page(e)
    BY <1>5 DEF OnlyMoves, At, Page
  <2>2. Page(d) # p /\ \A t \in Tables : catalog[t] # Page(d)
    BY <1>6, <1>11, <2>1 DEF FileSound
  <2>3. \A t \in Tables : catalog'[t] # Page(d)
    BY <1>4, <2>2
  <2> QED BY <1>1, <1>11, <2>1, <2>3 DEF FileSound
<1> QED BY <1>7, <1>8, <1>9, <1>10, <1>11 DEF FileSound

LEMMA NextSound ==
    ASSUME TypeOK, TypeOK', Counters, Stages, Budget, Running => FileSound, Next
    PROVE  (Running => FileSound)'
<1> SUFFICES ASSUME Running' PROVE FileSound'
  OBVIOUS
<1>0. FileSound
  <2>1. ASSUME NEW c, NEW r, Step(c, r) PROVE Running
    BY <2>1 DEF Step
  <2> QED BY <2>1, NextCases DEF ToolLock, ToolRelease
<1> DEFINE Kept(c) == /\ OnlyMoves(c) /\ UNCHANGED <<rows, catalog, acked>>
                      /\ fileSize' = fileSize \/ fileSize = 0
                      /\ conn'[c].at # "create"
                      /\ \A t \in Tables : conn'[c].entries[t] \in {0, catalog[t]}
<1>a. ASSUME NEW c \in Conns, Kept(c) PROVE FileSound'
  <2>1. fileSize <= fileSize'
    BY <1>a, Bounds DEF TypeOK
  <2> QED BY <1>0, <1>a, <2>1, SoundKept DEF At
<1>b. ASSUME NEW c \in Conns, conn[c].at # "create"
      PROVE  \A t \in Tables : conn[c].entries[t] \in {0, catalog[t]}
  BY <1>0, <1>b DEF FileSound, At
<1>1. ASSUME NEW c \in Conns, LockOpen(c) PROVE Kept(c)
  BY <1>1, LockOpenFields DEF LockOpen, file
<1>2. ASSUME NEW c \in Conns, LockShared(c) PROVE Kept(c)
  BY <1>b, <1>2, MoversFields, MovedFields DEF LockShared, At, Places, SameView, file
<1>3. ASSUME NEW c \in Conns, LockBusy(c) PROVE Kept(c)
  BY <1>b, <1>3, MoversFields, MovedFields DEF LockBusy, At, Places, SameView, file
<1>4. ASSUME NEW c \in Conns, StoreOpen(c) PROVE Kept(c)
  BY <1>b, <1>4, StoreOpenFields DEF StoreOpen, At, SameView, file
<1>5. ASSUME NEW c \in Conns, WriteHeader(c) PROVE Kept(c)
  <2>1. Note("size", fileSize # 0) /\ "size" \notin mishaps'
    BY <1>5 DEF WriteHeader, Running
  <2>2. fileSize = 0
    BY <2>1, NoteFacts DEF Windows
  <2>3. catalog' = catalog
    <3>1. catalog \in [Tables -> 0..MaxPages] /\ \A t \in Tables : catalog[t] = 0
      BY <1>0, <2>2, Bounds DEF FileSound, TypeOK
    <3>2. catalog' = [t \in Tables |-> 0]
      BY <1>5 DEF WriteHeader, Closed
    <3> QED BY <3>1, <3>2
  <2> QED BY <1>b, <1>5, <2>2, <2>3, WriteHeaderFields DEF WriteHeader, At
<1>6. ASSUME NEW c \in Conns, ReadHeader(c) PROVE Kept(c)
  BY <1>b, <1>6, MoversFields, MovedFields DEF ReadHeader, At, Places, SameView, file
<1>7. ASSUME NEW c \in Conns, HeaderFails(c) PROVE Kept(c)
  BY <1>b, <1>7, HeaderFailsFields DEF HeaderFails, At, SameView, file
<1>8. ASSUME NEW c \in Conns, ReplayFails(c) PROVE Kept(c)
  BY <1>b, <1>8, ReplayFailsFields DEF ReplayFails, At, SameView, file
<1>9. ASSUME NEW c \in Conns, WalOpen(c) PROVE Kept(c)
  BY <1>b, <1>9, MoversFields, MovedFields DEF WalOpen, At, Places, SameView, file
<1>10. ASSUME NEW c \in Conns, LoadCatalog(c) PROVE Kept(c)
  BY <1>10, LoadCatalogFields DEF LoadCatalog, file
<1>11. ASSUME NEW c \in Conns, Close(c) \/ Cleanup(c) PROVE Kept(c)
  BY <1>11, LockCloseFields DEF Close, Cleanup, LockClose, Closed, file
<1>12. ASSUME NEW c \in Conns, LockFileClose(c) PROVE Kept(c)
  <2>1. CASE conn[c].storeFd = 0
    BY <1>12, <2>1, StepFacts, ClosedType DEF LockFileClose, Closed, file
  <2>2. CASE conn[c].storeFd # 0
    BY <1>b, <1>12, <2>2, MoversFields, MovedFields DEF LockFileClose, At, Places, SameView, file
  <2> QED BY <2>1, <2>2
<1>13. ASSUME NEW c \in Conns, FlushRead(c) PROVE Kept(c)
  BY <1>b, <1>13, FlushReadFields DEF FlushRead, At, SameView, file
<1>14. ASSUME NEW c \in Conns, FlushWrite(c) PROVE Kept(c)
  <2>1. Note("header", catalog # conn[c].page0) /\ "header" \notin mishaps'
    BY <1>14 DEF FlushWrite, Running
  <2>2. catalog' = catalog
    BY <1>14, <2>1, NoteFacts DEF FlushWrite, Windows
  <2> QED BY <1>b, <1>14, <2>2, MoversFields, MovedFields DEF FlushWrite, At, Places, SameView
<1>15. ASSUME NEW c \in Conns, StoreClose(c) PROVE Kept(c)
  BY <1>15, StepFacts, ClosedType DEF StoreClose, Closed, file
<1>16. ASSUME NEW c \in Conns, NEW t \in Tables, InsertRead(c, t) PROVE Kept(c)
  BY <1>b, <1>16, InsertReadFields DEF InsertRead, CanStart, At, SameView, file
<1>17. ASSUME NEW c \in Conns, NEW t \in Tables, NEW n \in 1..MaxRows, DeleteScan(c, t, n)
       PROVE  Kept(c)
  BY <1>b, <1>17, DeleteScanFields DEF DeleteScan, CanStart, At, SameView, file
<1>18. ASSUME NEW c \in Conns, DeleteRead(c) PROVE Kept(c)
  BY <1>b, <1>18, DeleteReadFields DEF DeleteRead, At, SameView, file
<1>19. ASSUME NEW c \in Conns, PageWrite(c) PROVE FileSound'
  BY <1>0, <1>19, PageWriteSound
<1>20. ASSUME NEW c \in Conns, NEW t \in Tables, CreateAlloc(c, t) PROVE FileSound'
  BY <1>0, <1>20, CreateAllocSound
<1>21. ASSUME NEW c \in Conns, CreateFlush(c) PROVE FileSound'
  BY <1>0, <1>21, CreateFlushSound
<1>22. CASE ToolLock \/ ToolRelease
  BY <1>0, <1>22 DEF ToolLock, ToolRelease, file, history, FileSound, RowsAsAcked, At, Page
<1>23. ASSUME NEW c \in Conns, ExecutorFails(c) PROVE Kept(c)
  BY <1>b, <1>23, MoversFields, MovedFields DEF ExecutorFails, Places, SameView, file
<1>24. ASSUME NEW c \in Conns, CloseFails(c) PROVE Kept(c)
  BY <1>24, StepFacts, ClosedType DEF CloseFails, Closed, file
<1> HIDE DEF Kept
<1> QED
  BY <1>a, <1>1, <1>2, <1>3, <1>4, <1>5, <1>6, <1>7, <1>8, <1>9, <1>10, <1>11, <1>12, <1>13, <1>14,
     <1>15, <1>16, <1>17, <1>18, <1>19, <1>20, <1>21, <1>22, <1>23, <1>24
     DEF Next, Continue

-----------------------------------------------------------------------------
(* Theorems                                                                *)

LEMMA NextInv == Inv /\ [Next]_vars => Inv'
<1> SUFFICES ASSUME Inv, [Next]_vars PROVE Inv'
  OBVIOUS
<1>1. CASE Next
  <2>1. /\ TypeOK /\ Counters /\ Stages /\ Budget /\ (tool => locks = {})
        /\ (Running => FileSound) /\ (~together => Alone) /\ ("overlap" \notin mishaps => Descriptors)
    BY DEF Inv
  <2>2. TypeOK' /\ Counters' /\ Stages' /\ Budget' /\ (tool => locks = {})'
    BY <1>1, <2>1, NextType, NextCounters, NextStages, NextBudget, NextTool
  <2>3. (Running => FileSound)'
    BY <1>1, <2>1, <2>2, NextSound
  <2>4. (~together => Alone)'
    BY <1>1, <2>1, NextAlone
  <2>5. ("overlap" \notin mishaps => Descriptors)'
    BY <1>1, <2>1, MishapsGrow, NextDescriptors
  <2> QED BY <2>2, <2>3, <2>4, <2>5 DEF Inv
<1>2. CASE UNCHANGED vars
  <2> USE <1>2 DEF vars, file, history, At, Page
  <2>1. TypeOK' <=> TypeOK
    BY DEF TypeOK
  <2>2. (Counters' <=> Counters) /\ ((tool => locks = {})' <=> (tool => locks = {}))
    BY DEF Counters
  <2>3. (Stages' <=> Stages) /\ (Budget' <=> Budget)
    BY DEF Stages, StageOf, Budget, Used, StoreDue, WalDue
  <2>4. (FileSound' <=> FileSound) /\ (Running' <=> Running)
    BY DEF FileSound, RowsAsAcked, Running
  <2>5. Alone' <=> Alone
    BY DEF Alone, UpToDate
  <2>6. Descriptors' <=> Descriptors
    BY DEF Descriptors, Leaked, Own, Usable
  <2>7. (~together => Alone)' /\ ("overlap" \notin mishaps => Descriptors)'
    BY <2>5, <2>6 DEF Inv
  <2> QED BY <2>1, <2>2, <2>3, <2>4, <2>7 DEF Inv
<1> QED BY <1>1, <1>2

LEMMA InvAlways == Spec => []Inv
BY InitInv, NextInv, PTL DEF Spec

\* Type correctness of the connections, their descriptors and the file.
THEOREM ConnTypes == Spec => []TypeOK
<1>1. Inv => TypeOK
  BY DEF Inv
<1> QED BY <1>1, InvAlways, PTL

\* However many connections there are and however their steps interleave, every
\* table in the file has exactly the rows of the statements that returned, until
\* one of the four windows is hit.
THEOREM NothingLostOutsideWindows == Spec => []TablesAsAcked
<1>1. Inv => TablesAsAcked
  BY DEF Inv, TablesAsAcked, FileSound
<1> QED BY <1>1, InvAlways, PTL

\* Connections that are open one after the other hit none of the windows.
THEOREM OneAtATimeIsSafe == Spec => []AloneIsSafe
<1>1. Inv => AloneIsSafe
  BY DEF Inv, AloneIsSafe, Alone
<1> QED BY <1>1, InvAlways, PTL

\* A connection that can be used has the shared flock on a descriptor of its own
\* and excludes the tool, unless the second close of a lock file was overtaken.
THEOREM UsableMeansLocked == Spec => []LockHeld
<1>1. Inv => LockHeld
  <2> SUFFICES ASSUME Inv, "overlap" \notin mishaps, NEW c \in Conns, Usable(c)
               PROVE  /\ fds[conn[c].lockFd] = <<c, "lock">> /\ conn[c].lockFd \in locks
                      /\ conn[c].storeFd # 0 => Own(c)
                      /\ ~tool
    BY DEF LockHeld
  <2>1. Descriptors /\ (tool => locks = {})
    BY DEF Inv
  <2>2. conn[c].at \in WithLock
    BY DEF Usable, Places, WithLock, WithSize, WithHeader, Working
  <2> QED BY <2>1, <2>2 DEF Descriptors
<1> QED BY <1>1, InvAlways, PTL

\* When all are closed, with or without an exception of __init__ or a swallowed one of
\* close, no lock is left behind, and at most the stores whose replay or closing failed.
THEOREM ClosedLeavesNoLock == Spec => []LockAndStoreReleased
<1>1. Inv => LockAndStoreReleased
  <2> SUFFICES ASSUME Inv, \A c \in Conns : At(c, "new"), "overlap" \notin mishaps
               PROVE  /\ \A n \in 1..MaxFds : fds[n] # Free => fds[n][2] # "lock"
                      /\ Cardinality({n \in 1..MaxFds : fds[n] # Free /\ fds[n][2] = "store"}) <= failed
                      /\ locks = {}
    BY DEF LockAndStoreReleased
  <2>1. TypeOK /\ Stages /\ Descriptors
    BY DEF Inv
  <2>2. \A c \in Conns : conn[c].storeFd = 0 /\ conn[c].at \notin WithLock
    BY <2>1 DEF Stages, StageOf, At, Closed, WithLock, WithSize, WithHeader, Working
  <2>3. ASSUME NEW n \in 1..MaxFds, fds[n] # Free
        PROVE  \E c \in Conns : \E k \in {"lock", "store", "wal"} : fds[n] = <<c, k>>
    <3>1. fds[n] \in Conns \X {"lock", "store", "wal"}
      BY <2>1, <2>3 DEF TypeOK
    <3> QED BY ONLY <3>1
  <2>4. ASSUME NEW n \in 1..MaxFds, NEW c \in Conns PROVE fds[n] # <<c, "lock">>
    BY <2>1, <2>2 DEF Descriptors
  <2>5. \A n \in 1..MaxFds : fds[n] # Free => fds[n][2] # "lock"
    BY <2>3, <2>4
  <2>6. Leaked = {n \in 1..MaxFds : fds[n] # Free /\ fds[n][2] = "store"}
    <3>1. ASSUME NEW n \in 1..MaxFds
          PROVE  (\E c \in Conns : fds[n] = <<c, "store">> /\ conn[c].storeFd # n)
                 <=> (fds[n] # Free /\ fds[n][2] = "store")
      <4>1. ASSUME NEW c \in Conns, fds[n] = <<c, "store">>
            PROVE  fds[n] # Free /\ fds[n][2] = "store"
        BY <4>1, OpenNotFree
      <4>2. ASSUME fds[n] # Free, fds[n][2] = "store"
            PROVE  \E c \in Conns : fds[n] = <<c, "store">> /\ conn[c].storeFd # n
        <5>1. PICK c \in Conns : \E k \in {"lock", "store", "wal"} : fds[n] = <<c, k>>
          BY <2>3, <4>2
        <5>2. fds[n] = <<c, "store">>
          BY <4>2, <5>1
        <5> QED BY <2>2, <5>2
      <4> QED BY <4>1, <4>2
    <3> QED BY <3>1 DEF Leaked
  <2>7. locks = {}
    BY <2>1, <2>4 DEF Descriptors, TypeOK
  <2>8. Cardinality(Leaked) = failed /\ failed \in Nat
    BY <2>1 DEF Descriptors, Inv, Counters
  <2> QED BY <2>5, <2>6, <2>7, <2>8
<1> QED BY <1>1, InvAlways, PTL
==============================================================================
