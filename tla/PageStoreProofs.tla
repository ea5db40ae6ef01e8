--------------------------- MODULE PageStoreProofs ---------------------------
(***************************************************************************)
(* Type correctness of the page store, NoSharedPages, SoundFreeList,       *)
(* CacheCoherent, TablesReadable and RowsKept for all constants: every     *)
(* workload, file size and number of kills.                                *)
(*                                                                         *)
(* A set F of free pages is closed under the links, no two of its pages    *)
(* link to the same page, none links to the head, and the links run from   *)
(* the head through pages of F to 0.  So taking the head leaves such a     *)
(* set.  A transaction without DROP only shrinks F, and the pages that     *)
(* stay in F have not been written since the snapshot, so a rollback       *)
(* leaves F as it is.  A second set D, inside F, is the list as page 0     *)
(* records it: while no page is taken from F, DROP only adds to it, so D   *)
(* stays free for a process that reopens the file after a kill.            *)
(*                                                                         *)
(* For the tables: a listed table's page is nobody else's, so only its own *)
(* DROP puts a link there; a kill outside torn_drop finds in page 0 tables *)
(* of the cache only; and a rollback to a file without a catalog restores  *)
(* pages of which none was ever linked.                                    *)
(***************************************************************************)
EXTENDS PageStore, FiniteSetTheorems, TLAPS

\* No kill and no rollback has damaged the free list.
Safe == Avoided({"stale_head", "undropped"})

\* From head the links run through pages of F, each once, and end at 0.
Chain(n, c, links, head) ==
    /\ \A i, j \in 1..n : i # j => c[i] # c[j]
    /\ head = IF n = 0 THEN 0 ELSE c[1]
    /\ \A i \in 1..n : links[c[i]] = IF i = n THEN 0 ELSE c[i + 1]

Linked(F, links, head) == \E n \in Nat : \E c \in [1..n -> F] : Chain(n, c, links, head)

\* F holds free pages only, links included, and cat lists other pages, each once.
Separate(F, links, head, cat, count) ==
    /\ \A p \in F : p < count
    /\ head \in F \cup {0}
    /\ \A p \in F : links[p] \in F \cup {0}
    /\ \A p \in F : links[p] # 0 => links[p] # head
    /\ \A p, q \in F : links[p] = links[q] => p = q \/ links[p] = 0
    /\ \A t \in Tables : cat[t] \notin F /\ cat[t] < count
    /\ \A t, u \in Tables : t # u /\ cat[t] # 0 => cat[t] # cat[u]
    /\ Linked(F, links, head)

DiskCat == IF hdrWritten THEN hdrCat ELSE NoTable

\* A rollback to the snapshot keeps F free.
Restorable(F) ==
    /\ \A p \in F : p < snapshot.count /\ snapshot.page[p] = page[p]
    /\ snapshot.written =>
          /\ \A t \in Tables : snapshot.cat[t] \notin F /\ snapshot.cat[t] < pageCount
          /\ \A t, u \in Tables :
                t # u /\ snapshot.cat[t] # 0 => snapshot.cat[t] # snapshot.cat[u]

FreeSet(F, D) ==
    /\ isOpen => Separate(F, page, freeHead, entries, pageCount)
    /\ isOpen /\ ~reused => D \subseteq F /\ Separate(D, page, hdrFree, DiskCat, fileSize)
    /\ ~isOpen => Separate(F, page, hdrFree, DiskCat, fileSize)
    /\ InTx /\ ~txDropped => Restorable(F)

Bookkeeping ==
    /\ isOpen => fileSize = pageCount
    /\ Quiet /\ hdrWritten => entries = hdrCat
    /\ ~isOpen => entries = NoTable /\ ~flushDue /\ ~InTx /\ restored = 0
    /\ InTx => snapshot.free = hdrFree
    /\ restored # 0 => /\ InTx /\ ~flushDue
                       /\ hdrCat = snapshot.cat /\ hdrWritten = snapshot.written
                       /\ \A p \in Pages : p < restored => page[p] = snapshot.page[p]

Free == \E F, D \in SUBSET Pages : FreeSet(F, D)

Listing == Safe => Free

\* The rollback of a DROP is on record from its first write.
Rolling == restored # 0 /\ txDropped => "undropped" \in mishaps

Inv == TypeOK /\ Bookkeeping /\ Rolling /\ Listing

-----------------------------------------------------------------------------
USE DEF InTx, Quiet

LEMMA Numbers == /\ MaxPages \in Nat /\ MaxCrashes \in Nat
                 /\ Pages \subseteq PageRef /\ 0 \in PageRef /\ Junk \in PageRef
                 /\ NoTable \in Catalogs
BY MaxPagesAssumption, MaxCrashesAssumption DEF Pages, PageRef, Junk, NoTable, Catalogs

LEMMA NoSnapshotType ==
    NoSnapshot \in [active : BOOLEAN, page : [Pages -> PageRef], count : 1..Junk,
                    free : PageRef, cat : Catalogs, written : BOOLEAN,
                    filled : SUBSET Tables]
BY Numbers DEF NoSnapshot, Junk

LEMMA InitType == Init => TypeOK
<1> SUFFICES ASSUME Init PROVE TypeOK
  OBVIOUS
<1>1. page \in [Pages -> PageRef] /\ fileSize \in 1..Junk /\ pageCount \in 1..Junk
      /\ restored \in 0..Junk
  BY Numbers DEF Init, Junk
<1>2. /\ hdrWritten \in BOOLEAN /\ isOpen \in BOOLEAN /\ flushDue \in BOOLEAN
      /\ reused \in BOOLEAN /\ txDropped \in BOOLEAN /\ mishaps \in SUBSET Mishaps
  BY DEF Init
<1> QED BY <1>1, <1>2, Numbers, NoSnapshotType DEF Init, TypeOK

\* alloc_page hands out a page of the file and keeps the store well formed.
LEMMA AllocType ==
    ASSUME TypeOK, NEW p \in Pages, AllocPage(p)
    PROVE  /\ reused' \in BOOLEAN
           /\ page' \in [Pages -> PageRef]
           /\ freeHead' \in PageRef
           /\ pageCount' \in 1..Junk
           /\ fileSize' \in 1..Junk
<1>1. CASE ReuseFreePage(p)
  BY <1>1, Numbers DEF ReuseFreePage, TypeOK
<1>2. CASE ExtendFile(p)
  BY <1>2, Numbers DEF ExtendFile, TypeOK, Pages, Junk
<1> QED BY <1>1, <1>2 DEF AllocPage

LEMMA NextType == TypeOK /\ [Next]_vars => TypeOK'
<1> SUFFICES ASSUME TypeOK, [Next]_vars PROVE TypeOK'
  OBVIOUS
<1>1. ASSUME NEW t \in Tables, CreateTable(t) PROVE TypeOK'
  <2>1. PICK p \in Pages : AllocPage(p) /\ entries' = [entries EXCEPT ![t] = p]
    BY <1>1 DEF CreateTable
  <2>2. entries' \in Catalogs
    BY <2>1, Numbers DEF TypeOK, Catalogs, Pages
  <2>3. /\ UNCHANGED <<hdrFree, hdrCat, hdrWritten, isOpen, snapshot, restored, filled,
                       txDropped, mishaps, crashes>>
        /\ flushDue' = TRUE
    BY <1>1 DEF CreateTable
  <2> QED BY <2>1, <2>2, <2>3, AllocType DEF TypeOK
<1>2. ASSUME NEW t \in Tables, DropTable(t) PROVE TypeOK'
  <2>1. page' \in [Pages -> PageRef] /\ freeHead' \in PageRef
    BY <1>2, Numbers DEF DropTable, FreePage, TypeOK
  <2>2. entries' \in Catalogs
    BY <1>2, Numbers DEF DropTable, TypeOK, Catalogs
  <2>3. /\ UNCHANGED <<fileSize, hdrFree, hdrCat, hdrWritten, isOpen, pageCount,
                       snapshot, restored, filled, reused, mishaps, crashes>>
        /\ flushDue' = TRUE /\ txDropped' = InTx
    BY <1>2 DEF DropTable
  <2>4. InTx \in BOOLEAN
    BY DEF TypeOK
  <2> QED BY <2>1, <2>2, <2>3, <2>4 DEF TypeOK
<1>3. ASSUME NEW t \in Tables, InsertRow(t) PROVE TypeOK'
  BY <1>3, Numbers DEF InsertRow, TypeOK, memVars
<1>4. CASE FlushCatalog
  BY <1>4 DEF FlushCatalog, TypeOK
<1>5. CASE BeginTx
  <2>1. snapshot' \in [active : BOOLEAN, page : [Pages -> PageRef], count : 1..Junk,
                       free : PageRef, cat : Catalogs, written : BOOLEAN,
                       filled : SUBSET Tables]
    BY <1>5 DEF BeginTx, TypeOK
  <2> QED BY <1>5, <2>1 DEF BeginTx, TypeOK, diskVars
<1>6. CASE CommitTx
  BY <1>6, NoSnapshotType DEF CommitTx, TypeOK, diskVars, history
<1>7. CASE RollbackTx
  <2>1. /\ hdrFree' \in PageRef /\ hdrCat' \in Catalogs /\ hdrWritten' \in BOOLEAN
    BY <1>7 DEF RollbackTx, TypeOK
  <2>3. mishaps' \in SUBSET Mishaps
    <3>1. mishaps' \subseteq mishaps \cup {"undropped"}
      BY <1>7 DEF RollbackTx
    <3> QED BY <3>1 DEF TypeOK, Mishaps
  <2>4. restored' \in 0..Junk
    BY <1>7, Numbers DEF RollbackTx, Junk
  <2>2. UNCHANGED <<page, fileSize, isOpen, freeHead, pageCount, entries, flushDue, snapshot,
                    filled, reused, txDropped, crashes>>
    BY <1>7 DEF RollbackTx
  <2> QED BY <2>1, <2>2, <2>3, <2>4 DEF TypeOK
<1>13. CASE RestorePage
  <2>1. page' \in [Pages -> PageRef]
    BY <1>13 DEF RestorePage, TypeOK
  <2>2. restored' \in 0..Junk
    BY <1>13, Numbers DEF RestorePage, Pages, Junk
  <2>3. UNCHANGED <<fileSize, hdrFree, hdrCat, hdrWritten, isOpen, freeHead, pageCount,
                    entries, flushDue, snapshot, filled, reused, txDropped, mishaps, crashes>>
    BY <1>13 DEF RestorePage, history
  <2> QED BY <2>1, <2>2, <2>3 DEF TypeOK
<1>14. CASE RolledBack
  <2>1. entries' \in Catalogs /\ filled' \in SUBSET Tables /\ mishaps' \in SUBSET Mishaps
    BY <1>14 DEF RolledBack, TypeOK, LoadCatalog, Mishaps
  <2>2. restored' \in 0..Junk
    BY <1>14, Numbers DEF RolledBack, Junk
  <2>3. /\ snapshot' = NoSnapshot
        /\ UNCHANGED <<page, fileSize, hdrFree, hdrCat, hdrWritten, isOpen, freeHead, pageCount,
                       flushDue, reused, txDropped, crashes>>
    BY <1>14 DEF RolledBack, diskVars
  <2> QED BY <2>1, <2>2, <2>3, NoSnapshotType DEF TypeOK
<1>8. ASSUME Forget
      PROVE  /\ isOpen' \in BOOLEAN /\ flushDue' \in BOOLEAN
             /\ freeHead' \in PageRef /\ pageCount' \in 1..Junk /\ entries' \in Catalogs
             /\ snapshot' = NoSnapshot /\ restored' \in 0..Junk
  <2>1. isOpen' \in BOOLEAN /\ flushDue' \in BOOLEAN /\ snapshot' = NoSnapshot
    BY <1>8 DEF Forget
  <2>2. /\ freeHead' \in PageRef /\ pageCount' \in 1..Junk /\ entries' \in Catalogs
        /\ restored' \in 0..Junk
    BY <1>8, Numbers DEF Forget, Junk
  <2> QED BY <2>1, <2>2
<1>9. CASE Close
  BY <1>8, <1>9, NoSnapshotType DEF Close, TypeOK, history
<1>10. CASE Crash
  <2>1. crashes' \in 0..MaxCrashes
    BY <1>10, Numbers DEF Crash, TypeOK
  <2>2. mishaps' \in SUBSET Mishaps /\ filled' \in SUBSET Tables
    BY <1>10 DEF Crash, TypeOK, Mishaps
  <2>3. Forget /\ UNCHANGED <<page, fileSize, hdrFree, hdrCat, hdrWritten, reused, txDropped>>
    BY <1>10 DEF Crash, diskVars
  <2> QED BY <1>8, <2>1, <2>2, <2>3, NoSnapshotType DEF TypeOK
<1>11. CASE Open
  <2>1. entries' \in Catalogs
    BY <1>11 DEF Open, LoadCatalog, TypeOK
  <2> QED BY <1>11, <2>1 DEF Open, TypeOK, diskVars
<1>12. CASE UNCHANGED vars
  BY <1>12 DEF vars, diskVars, memVars, history, TypeOK
<1> QED BY <1>1, <1>2, <1>3, <1>4, <1>5, <1>6, <1>7, <1>9, <1>10, <1>11, <1>12, <1>13, <1>14
        DEF Next

\* Every variable of the store keeps its type, for every set of tables, file
\* size, number of crashes and workload.
THEOREM TypeCorrect == Spec => []TypeOK
BY InitType, NextType, PTL DEF Spec

-----------------------------------------------------------------------------
(* Chains of free pages                                                    *)

LEMMA LinkedNone == ASSUME NEW F, NEW links PROVE Linked(F, links, 0)
<1> DEFINE c == [i \in 1..0 |-> 0]
<1>1. c \in [1..0 -> F]
  OBVIOUS
<1>2. Chain(0, c, links, 0)
  BY DEF Chain
<1> QED BY <1>1, <1>2 DEF Linked

LEMMA LinkedSame ==
    ASSUME NEW F, NEW links, NEW other, NEW head,
           \A q \in F : other[q] = links[q], Linked(F, links, head)
    PROVE  Linked(F, other, head)
<1>1. PICK n \in Nat : \E c \in [1..n -> F] : Chain(n, c, links, head)
  BY DEF Linked
<1>2. PICK c \in [1..n -> F] : Chain(n, c, links, head)
  BY <1>1
<1>3. \A i \in 1..n : other[c[i]] = links[c[i]]
  OBVIOUS
<1>4. Chain(n, c, other, head)
  BY <1>2, <1>3 DEF Chain
<1> QED BY <1>4 DEF Linked

\* Taking the head leaves the rest of the chain.
LEMMA LinkedTail ==
    ASSUME NEW F, NEW links, NEW other, NEW p, p # 0,
           \A q \in F \ {p} : other[q] = links[q], Linked(F, links, p)
    PROVE  Linked(F \ {p}, other, links[p])
<1>1. PICK n \in Nat : \E c \in [1..n -> F] : Chain(n, c, links, p)
  BY DEF Linked
<1>2. PICK c \in [1..n -> F] : Chain(n, c, links, p)
  BY <1>1
<1>3. n # 0 /\ c[1] = p
  BY <1>2 DEF Chain
<1> DEFINE m == n - 1
           d == [i \in 1..m |-> c[i + 1]]
<1>4. m \in Nat /\ \A i \in 1..m : i + 1 \in 1..n /\ i + 1 # 1 /\ (i = m <=> i + 1 = n)
  BY <1>3
<1>5. 1 \in 1..n
  BY <1>3
<1>6. \A i \in 1..m : d[i] \in F \ {p}
  BY <1>2, <1>3, <1>4, <1>5 DEF Chain
<1>7. d \in [1..m -> F \ {p}]
  BY <1>6
<1>8. \A i, j \in 1..m : i # j => d[i] # d[j]
  <2>1. ASSUME NEW i \in 1..m, NEW j \in 1..m, i # j PROVE c[i + 1] # c[j + 1]
    <3>1. i + 1 # j + 1
      BY <2>1
    <3> QED BY <1>2, <1>4, <3>1 DEF Chain
  <2> QED BY <2>1
<1>9. \A i \in 1..m : other[d[i]] = IF i = m THEN 0 ELSE d[i + 1]
  <2>1. SUFFICES ASSUME NEW i \in 1..m
                 PROVE  other[d[i]] = IF i = m THEN 0 ELSE d[i + 1]
    OBVIOUS
  <2>2. other[d[i]] = links[c[i + 1]]
    BY <1>6
  <2>3. links[c[i + 1]] = IF i + 1 = n THEN 0 ELSE c[(i + 1) + 1]
    BY <1>2, <1>4 DEF Chain
  <2>4. i # m => i + 1 \in 1..m
    BY <1>4
  <2> QED BY <1>4, <2>2, <2>3, <2>4
<1>10. links[p] = IF m = 0 THEN 0 ELSE d[1]
  <2>1. links[p] = IF 1 = n THEN 0 ELSE c[1 + 1]
    BY <1>2, <1>3, <1>5 DEF Chain
  <2>2. (m = 0 <=> 1 = n) /\ (m # 0 => 1 \in 1..m)
    BY <1>3
  <2> QED BY <2>1, <2>2
<1> HIDE DEF m, d
<1>11. Chain(m, d, other, links[p])
  BY <1>8, <1>9, <1>10 DEF Chain
<1> QED BY <1>4, <1>7, <1>11 DEF Linked

\* A page linked in front of the head makes a longer chain.
LEMMA LinkedCons ==
    ASSUME NEW F, NEW links, NEW other, NEW head, NEW p, p \notin F,
           \A q \in F : other[q] = links[q], other[p] = head, Linked(F, links, head)
    PROVE  Linked(F \cup {p}, other, p)
<1>1. PICK n \in Nat : \E c \in [1..n -> F] : Chain(n, c, links, head)
  BY DEF Linked
<1>2. PICK c \in [1..n -> F] : Chain(n, c, links, head)
  BY <1>1
<1> DEFINE m == n + 1
           d == [i \in 1..m |-> IF i = 1 THEN p ELSE c[i - 1]]
<1>3. m \in Nat /\ m # 0 /\ 1 \in 1..m /\ (1 = m <=> n = 0)
  OBVIOUS
<1>4. \A i \in 1..m : i # 1 => i - 1 \in 1..n /\ (i = m <=> i - 1 = n) /\ (i - 1) + 1 = i
  OBVIOUS
<1>5. \A i \in 1..m : i # 1 => d[i] = c[i - 1] /\ d[i] \in F
  BY <1>4
<1>6. d[1] = p /\ d \in [1..m -> F \cup {p}]
  BY <1>3, <1>5
<1>7. \A i, j \in 1..m : i # j => d[i] # d[j]
  <2>1. ASSUME NEW i \in 1..m, NEW j \in 1..m, i # j, i # 1, j # 1 PROVE d[i] # d[j]
    <3>1. i - 1 # j - 1
      BY <2>1
    <3> QED BY <1>2, <1>4, <1>5, <2>1, <3>1 DEF Chain
  <2> HIDE DEF d
  <2> QED BY <1>5, <1>6, <2>1
<1>8. \A i \in 1..m : other[d[i]] = IF i = m THEN 0 ELSE d[i + 1]
  <2>1. SUFFICES ASSUME NEW i \in 1..m
                 PROVE  other[d[i]] = IF i = m THEN 0 ELSE d[i + 1]
    OBVIOUS
  <2>2. i # m => i + 1 \in 1..m /\ i + 1 # 1 /\ (i + 1) - 1 = i
    OBVIOUS
  <2>3. i # m => d[i + 1] = c[i]
    BY <2>2
  <2>4. CASE i = 1
    <3>1. other[d[i]] = IF n = 0 THEN 0 ELSE c[1]
      BY <1>2, <1>6, <2>4 DEF Chain
    <3> QED BY <1>3, <2>3, <2>4, <3>1
  <2>5. CASE i # 1
    <3>1. other[d[i]] = links[c[i - 1]]
      BY <1>5, <2>5
    <3>2. links[c[i - 1]] = IF i - 1 = n THEN 0 ELSE c[(i - 1) + 1]
      BY <1>2, <1>4, <2>5 DEF Chain
    <3> QED BY <1>4, <2>3, <2>5, <3>1, <3>2
  <2> QED BY <2>4, <2>5
<1>9. p = IF m = 0 THEN 0 ELSE d[1]
  BY <1>3, <1>6
<1> HIDE DEF m, d
<1>10. Chain(m, d, other, p)
  BY <1>7, <1>8, <1>9 DEF Chain
<1> QED BY <1>3, <1>6, <1>10 DEF Linked

-----------------------------------------------------------------------------
(* No shared pages                                                         *)

LEMMA InitInv == Init => Inv
<1> SUFFICES ASSUME Init PROVE Inv
  OBVIOUS
<1>1. FreeSet({}, {})
  BY LinkedNone DEF Init, FreeSet, Separate, NoTable, NoSnapshot, Restorable, DiskCat
<1>2. Bookkeeping
  BY DEF Init, Bookkeeping, NoSnapshot
<1>3. Free
  BY <1>1 DEF Free
<1>4. Rolling
  BY DEF Init, Rolling
<1> QED BY <1>2, <1>3, <1>4, InitType DEF Inv, Listing

LEMMA NextBookkeeping ==
    ASSUME TypeOK, Bookkeeping, [Next]_vars
    PROVE  Bookkeeping'
<1>1. ASSUME NEW t \in Tables, CreateTable(t) PROVE Bookkeeping'
  <2>1. PICK p \in Pages : AllocPage(p)
    BY <1>1 DEF CreateTable
  <2>2. /\ isOpen /\ isOpen' /\ flushDue' /\ restored = 0
        /\ UNCHANGED <<snapshot, hdrFree, restored>>
    BY <1>1 DEF CreateTable, Ready
  <2>3. fileSize = pageCount /\ pageCount \in Nat
    BY <2>2, Numbers DEF Bookkeeping, TypeOK, Junk
  <2>4. fileSize' = pageCount'
    BY <2>1, <2>3 DEF AllocPage, ReuseFreePage, ExtendFile
  <2> QED BY <2>2, <2>4 DEF Bookkeeping
<1>2. ASSUME NEW t \in Tables, DropTable(t) PROVE Bookkeeping'
  BY <1>2 DEF DropTable, Ready, Bookkeeping
<1>3. ASSUME NEW t \in Tables, InsertRow(t) PROVE Bookkeeping'
  BY <1>3 DEF InsertRow, Ready, memVars, Bookkeeping
<1>4. CASE FlushCatalog
  BY <1>4 DEF FlushCatalog, Bookkeeping
<1>5. CASE BeginTx
  BY <1>5 DEF BeginTx, diskVars, Bookkeeping
<1>6. CASE CommitTx
  BY <1>6 DEF CommitTx, Leaving, diskVars, NoSnapshot, Bookkeeping
<1>7. CASE RollbackTx
  BY <1>7 DEF RollbackTx, Leaving, Bookkeeping, Pages
<1>12. CASE RestorePage
  <2>1. /\ restored \in Pages /\ restored' = restored + 1
        /\ page' = [page EXCEPT ![restored] = snapshot.page[restored]]
        /\ UNCHANGED <<fileSize, hdrFree, hdrCat, hdrWritten, isOpen, pageCount,
                       entries, flushDue, snapshot>>
    BY <1>12 DEF RestorePage
  <2>2. restored \in Nat /\ restored # 0 /\ restored' # 0
    BY <2>1, Numbers DEF Pages
  <2>3. ASSUME NEW p \in Pages, p < restored' PROVE page'[p] = snapshot.page[p]
    <3>1. p < restored \/ p = restored
      BY <2>1, <2>2, <2>3, Numbers DEF Pages
    <3> QED BY <2>1, <2>2, <3>1 DEF Bookkeeping, TypeOK
  <2> QED BY <2>1, <2>2, <2>3 DEF Bookkeeping
<1>13. CASE RolledBack
  BY <1>13 DEF RolledBack, LoadCatalog, diskVars, NoSnapshot, Bookkeeping
<1>8. CASE Close
  BY <1>8 DEF Close, Forget, NoSnapshot, Bookkeeping
<1>9. CASE Crash
  BY <1>9 DEF Crash, Forget, NoSnapshot, Bookkeeping
<1>10. CASE Open
  BY <1>10 DEF Open, diskVars, LoadCatalog, Bookkeeping
<1>11. CASE UNCHANGED vars
  BY <1>11 DEF vars, diskVars, memVars, Bookkeeping
<1> QED BY <1>1, <1>2, <1>3, <1>4, <1>5, <1>6, <1>7, <1>8, <1>9, <1>10, <1>11, <1>12, <1>13
        DEF Next

LEMMA CreateFree ==
    ASSUME TypeOK, Bookkeeping, Free, NEW t \in Tables, CreateTable(t)
    PROVE  Free'
<1>1. PICK F, D \in SUBSET Pages : FreeSet(F, D)
  BY DEF Free
<1>2. PICK p \in Pages : AllocPage(p) /\ entries' = [entries EXCEPT ![t] = p]
  BY DEF CreateTable
<1>3. /\ isOpen /\ isOpen' /\ flushDue' /\ snapshot' = snapshot
      /\ UNCHANGED <<hdrCat, hdrWritten, hdrFree, txDropped>>
  BY DEF CreateTable, Ready
<1>4. Separate(F, page, freeHead, entries, pageCount) /\ (InTx /\ ~txDropped => Restorable(F))
  BY <1>1, <1>3 DEF FreeSet
<1>5. page \in [Pages -> PageRef] /\ entries \in Catalogs /\ pageCount \in 1..Junk
  BY DEF TypeOK
<1>6. p \in Nat /\ p # 0 /\ \A u \in Tables : entries[u] \in Nat
  BY <1>5, Numbers DEF Pages, Catalogs
<1>7. CASE ReuseFreePage(p)
  <2> DEFINE G == F \ {p}
  <2>1. /\ freeHead = p /\ freeHead' = page[p] /\ page' = [page EXCEPT ![p] = 0]
        /\ reused' /\ UNCHANGED <<pageCount, fileSize>>
    BY <1>7 DEF ReuseFreePage
  <2>2. p \in F
    BY <1>4, <1>6, <2>1 DEF Separate
  <2>3. \A q \in G : page'[q] = page[q]
    BY <1>5, <2>1
  <2>4. page[p] # p /\ \A q \in G : page[q] # p
    BY <1>4, <1>6, <2>1, <2>2 DEF Separate
  <2>5. \A u \in Tables : entries'[u] = IF u = t THEN p ELSE entries[u]
    BY <1>2, <1>5 DEF Catalogs
  <2>6. Separate(G, page', freeHead', entries', pageCount')
    <3>1. /\ \A q \in G : q < pageCount'
          /\ freeHead' \in G \cup {0}
          /\ \A q \in G : page'[q] \in G \cup {0}
      BY <1>4, <2>1, <2>2, <2>3, <2>4 DEF Separate
    <3>2. \A q \in G : page'[q] # 0 => page'[q] # freeHead'
      BY <1>4, <2>1, <2>2, <2>3 DEF Separate
    <3>3. \A q, r \in G : page'[q] = page'[r] => q = r \/ page'[q] = 0
      BY <1>4, <2>3 DEF Separate
    <3>4. \A u \in Tables : entries'[u] \notin G /\ entries'[u] < pageCount'
      BY <1>4, <2>1, <2>2, <2>5 DEF Separate
    <3>5. \A u, v \in Tables : u # v /\ entries'[u] # 0 => entries'[u] # entries'[v]
      BY <1>4, <2>2, <2>5 DEF Separate
    <3>6. Linked(F, page, p)
      BY <1>4, <2>1 DEF Separate
    <3>7. Linked(G, page', freeHead')
      BY <1>6, <2>1, <2>3, <3>6, LinkedTail
    <3> HIDE DEF G
    <3> QED BY <3>1, <3>2, <3>3, <3>4, <3>5, <3>7 DEF Separate
  <2>7. InTx' /\ ~txDropped' => Restorable(G)'
    BY <1>3, <1>4, <2>1, <2>3 DEF Restorable
  <2>8. FreeSet(G, D)'
    BY <1>3, <2>1, <2>6, <2>7 DEF FreeSet
  <2> HIDE DEF G
  <2>9. G \in SUBSET Pages
    BY DEF G
  <2> QED BY <2>8, <2>9 DEF Free
<1>8. CASE ExtendFile(p)
  <2>1. /\ p = pageCount /\ pageCount' = pageCount + 1 /\ page' = [page EXCEPT ![p] = 0]
        /\ freeHead' = freeHead /\ fileSize' = IF p >= fileSize THEN p + 1 ELSE fileSize
        /\ reused' = reused
    BY <1>8 DEF ExtendFile
  <2>2. p \notin F /\ \A q \in F : page'[q] = page[q] /\ q \in Nat
    BY <1>4, <1>5, <1>6, <2>1 DEF Separate, Pages
  <2>3. \A u \in Tables : entries'[u] = IF u = t THEN p ELSE entries[u]
    BY <1>2, <1>5 DEF Catalogs
  <2>4. Separate(F, page', freeHead', entries', pageCount')
    <3>1. /\ \A q \in F : q < pageCount'
          /\ freeHead' \in F \cup {0}
          /\ \A q \in F : page'[q] \in F \cup {0}
      BY <1>4, <1>5, <2>1, <2>2 DEF Separate
    <3>2. \A q \in F : page'[q] # 0 => page'[q] # freeHead'
      BY <1>4, <2>1, <2>2 DEF Separate
    <3>3. \A q, r \in F : page'[q] = page'[r] => q = r \/ page'[q] = 0
      BY <1>4, <2>2 DEF Separate
    <3>4. \A u \in Tables : entries'[u] \notin F /\ entries'[u] < pageCount'
      BY <1>4, <1>5, <1>6, <2>1, <2>2, <2>3 DEF Separate
    <3>5. \A u, v \in Tables : u # v /\ entries'[u] # 0 => entries'[u] # entries'[v]
      BY <1>4, <1>5, <1>6, <2>1, <2>3 DEF Separate
    <3>6. Linked(F, page, freeHead)
      BY <1>4 DEF Separate
    <3>7. Linked(F, page', freeHead')
      BY <2>1, <2>2, <3>6, LinkedSame
    <3> QED BY <3>1, <3>2, <3>3, <3>4, <3>5, <3>7 DEF Separate
  <2>5. InTx' /\ ~txDropped' => Restorable(F)'
    <3>1. \A u \in Tables : InTx => snapshot.cat[u] \in Nat
      BY Numbers DEF TypeOK, Catalogs
    <3> QED BY <1>3, <1>4, <1>5, <2>1, <2>2, <3>1 DEF Restorable
  <2>6. isOpen /\ ~reused' =>
           D \subseteq F /\ Separate(D, page', hdrFree', DiskCat', fileSize')
    <3>1. SUFFICES ASSUME ~reused
                   PROVE  D \subseteq F /\ Separate(D, page', hdrFree', DiskCat', fileSize')
      BY <2>1
    <3>2. D \subseteq F /\ Separate(D, page, hdrFree, DiskCat, fileSize)
      BY <1>1, <1>3, <3>1 DEF FreeSet
    <3>3. DiskCat' = DiskCat /\ hdrFree' = hdrFree /\ \A q \in D : page'[q] = page[q]
      BY <1>3, <2>2, <3>2 DEF DiskCat
    <3>4. fileSize' = fileSize + 1 /\ fileSize \in Nat
      BY <1>3, <1>5, <2>1 DEF Bookkeeping, Junk
    <3>5. \A u \in Tables : DiskCat[u] \in Nat
      BY Numbers DEF DiskCat, NoTable, TypeOK, Catalogs
    <3>6. \A q \in D : q \in Nat
      BY Numbers DEF Pages
    <3>7. Linked(D, page', hdrFree')
      BY <3>2, <3>3, LinkedSame DEF Separate
    <3> QED BY <3>2, <3>3, <3>4, <3>5, <3>6, <3>7 DEF Separate
  <2>7. FreeSet(F, D)'
    BY <1>3, <2>4, <2>5, <2>6 DEF FreeSet
  <2> QED BY <2>7 DEF Free
<1> QED BY <1>2, <1>7, <1>8 DEF AllocPage

LEMMA DropFree ==
    ASSUME TypeOK, Bookkeeping, Free, NEW t \in Tables, DropTable(t)
    PROVE  Free'
<1>1. PICK F, D \in SUBSET Pages : FreeSet(F, D)
  BY DEF Free
<1>0. PICK p \in Pages : p = entries[t]
  BY DEF DropTable
<1> DEFINE G == F \cup {p}
<1>2. /\ isOpen /\ isOpen' /\ (InTx' => txDropped')
      /\ page' = [page EXCEPT ![p] = freeHead] /\ freeHead' = p
      /\ entries' = [entries EXCEPT ![t] = 0]
      /\ UNCHANGED <<pageCount, fileSize, hdrFree, hdrCat, hdrWritten, reused>>
  BY <1>0 DEF DropTable, FreePage, Ready
<1>3. Separate(F, page, freeHead, entries, pageCount)
  BY <1>1, <1>2 DEF FreeSet
<1>4. /\ page \in [Pages -> PageRef] /\ entries \in Catalogs
      /\ p # 0 /\ p \notin F
  BY <1>0, <1>3 DEF TypeOK, Separate, Pages
<1>5. \A u \in Tables : entries'[u] = IF u = t THEN 0 ELSE entries[u]
  BY <1>2, <1>4 DEF Catalogs
<1>6. page'[p] = freeHead /\ \A q \in F : page'[q] = page[q]
  BY <1>2, <1>4
<1>7. pageCount \in Nat /\ 0 < pageCount /\ 0 \notin F
  BY Numbers DEF TypeOK, Junk, Pages
<1>8. Separate(G, page', freeHead', entries', pageCount')
  <2>1. /\ \A q \in G : q < pageCount'
        /\ freeHead' \in G \cup {0}
        /\ \A q \in G : page'[q] \in G \cup {0}
    BY <1>0, <1>2, <1>3, <1>6 DEF Separate
  <2>2. \A q \in G : page'[q] # 0 => page'[q] # freeHead'
    BY <1>2, <1>3, <1>4, <1>6 DEF Separate
  <2>3. \A q, r \in G : page'[q] = page'[r] => q = r \/ page'[q] = 0
    BY <1>3, <1>6 DEF Separate
  <2>4. \A u \in Tables : entries'[u] \notin G /\ entries'[u] < pageCount'
    BY <1>0, <1>2, <1>3, <1>4, <1>5, <1>7 DEF Separate
  <2>5. \A u, v \in Tables : u # v /\ entries'[u] # 0 => entries'[u] # entries'[v]
    BY <1>3, <1>5 DEF Separate
  <2>6. Linked(F, page, freeHead)
    BY <1>3 DEF Separate
  <2>7. Linked(G, page', freeHead')
    BY <1>2, <1>4, <1>6, <2>6, LinkedCons
  <2> HIDE DEF G
  <2> QED BY <2>1, <2>2, <2>3, <2>4, <2>5, <2>7 DEF Separate
<1>9. isOpen /\ ~reused' =>
         D \subseteq G /\ Separate(D, page', hdrFree', DiskCat', fileSize')
  <2>1. SUFFICES ASSUME ~reused
                 PROVE  D \subseteq G /\ Separate(D, page', hdrFree', DiskCat', fileSize')
    BY <1>2
  <2>2. D \subseteq F /\ Separate(D, page, hdrFree, DiskCat, fileSize)
    BY <1>1, <1>2, <2>1 DEF FreeSet
  <2>3. /\ DiskCat' = DiskCat /\ hdrFree' = hdrFree /\ fileSize' = fileSize
        /\ \A q \in D : page'[q] = page[q]
    BY <1>2, <1>6, <2>2 DEF DiskCat
  <2>4. Linked(D, page', hdrFree')
    BY <2>2, <2>3, LinkedSame DEF Separate
  <2> QED BY <2>2, <2>3, <2>4 DEF Separate
<1>10. FreeSet(G, D)'
  BY <1>2, <1>8, <1>9 DEF FreeSet
<1>11. G \in SUBSET Pages
  OBVIOUS
<1> HIDE DEF G
<1> QED BY <1>10, <1>11 DEF Free

LEMMA InsertFree ==
    ASSUME TypeOK, Bookkeeping, Free, NEW t \in Tables, InsertRow(t)
    PROVE  Free'
<1>1. PICK F, D \in SUBSET Pages : FreeSet(F, D)
  BY DEF Free
<1>2. /\ isOpen /\ page' = [page EXCEPT ![entries[t]] = Junk]
      /\ UNCHANGED <<fileSize, hdrFree, hdrCat, hdrWritten, memVars, reused, txDropped>>
  BY DEF InsertRow, Ready
<1>3. UNCHANGED <<isOpen, freeHead, pageCount, entries, flushDue, snapshot>>
  BY <1>2 DEF memVars
<1>4. \A q \in F : page'[q] = page[q]
  BY <1>1, <1>2 DEF TypeOK, FreeSet, Separate
<1>5. Separate(F, page', freeHead', entries', pageCount')
  <2>1. Separate(F, page, freeHead, entries, pageCount)
    BY <1>1, <1>2 DEF FreeSet
  <2>2. Linked(F, page', freeHead')
    BY <1>3, <1>4, <2>1, LinkedSame DEF Separate
  <2> QED BY <1>3, <1>4, <2>1, <2>2 DEF Separate
<1>6. InTx' /\ ~txDropped' => Restorable(F)'
  BY <1>1, <1>2, <1>3, <1>4 DEF FreeSet, Restorable
<1>7. ~reused => D \subseteq F /\ Separate(D, page', hdrFree', DiskCat', fileSize')
  <2>1. SUFFICES ASSUME ~reused
                 PROVE  D \subseteq F /\ Separate(D, page', hdrFree', DiskCat', fileSize')
    OBVIOUS
  <2>2. D \subseteq F /\ Separate(D, page, hdrFree, DiskCat, fileSize)
    BY <1>1, <1>2, <2>1 DEF FreeSet
  <2>3. DiskCat' = DiskCat /\ \A q \in D : page'[q] = page[q]
    BY <1>2, <1>4, <2>2 DEF DiskCat
  <2>4. Linked(D, page', hdrFree')
    BY <1>2, <2>2, <2>3, LinkedSame DEF Separate
  <2> QED BY <1>2, <2>2, <2>3, <2>4 DEF Separate
<1>8. FreeSet(F, D)'
  BY <1>2, <1>3, <1>5, <1>6, <1>7 DEF FreeSet
<1> QED BY <1>8 DEF Free

LEMMA FlushFree ==
    ASSUME TypeOK, Bookkeeping, Free, FlushCatalog
    PROVE  Free'
<1>1. PICK F, D \in SUBSET Pages : FreeSet(F, D)
  BY DEF Free
<1>2. /\ isOpen /\ hdrCat' = entries /\ hdrWritten' = TRUE
      /\ UNCHANGED <<page, fileSize, hdrFree, isOpen, freeHead, pageCount, entries, snapshot,
                     reused, txDropped>>
  BY DEF FlushCatalog
<1>3. Separate(F, page, freeHead, entries, pageCount) /\ fileSize = pageCount
  BY <1>1, <1>2 DEF FreeSet, Bookkeeping
<1>4. ~reused => D \subseteq F /\ Separate(D, page, hdrFree, entries, fileSize)
  <2>1. SUFFICES ASSUME ~reused
                 PROVE  D \subseteq F /\ Separate(D, page, hdrFree, entries, fileSize)
    OBVIOUS
  <2>2. D \subseteq F /\ Separate(D, page, hdrFree, DiskCat, fileSize)
    BY <1>1, <1>2, <2>1 DEF FreeSet
  <2> QED BY <1>3, <2>2 DEF Separate
<1>5. DiskCat' = entries
  BY <1>2 DEF DiskCat
<1>6. InTx' /\ ~txDropped' => Restorable(F)'
  BY <1>1, <1>2 DEF FreeSet, Restorable
<1>7. FreeSet(F, D)'
  BY <1>2, <1>3, <1>4, <1>5, <1>6 DEF FreeSet
<1> QED BY <1>7 DEF Free

LEMMA BeginFree ==
    ASSUME TypeOK, Bookkeeping, Free, BeginTx
    PROVE  Free'
<1>1. PICK F, D \in SUBSET Pages : FreeSet(F, D)
  BY DEF Free
<1>2. /\ isOpen /\ ~flushDue
      /\ snapshot'.page = page /\ snapshot'.count = pageCount
      /\ snapshot'.cat = hdrCat /\ snapshot'.written = hdrWritten
      /\ UNCHANGED <<diskVars, isOpen, freeHead, pageCount, entries, flushDue, reused>>
  BY DEF BeginTx
<1>0. restored = 0 /\ restored' = 0
  BY DEF BeginTx, Bookkeeping
<1>3. UNCHANGED <<page, fileSize, hdrFree, hdrCat, hdrWritten>>
  BY <1>2 DEF diskVars
<1>4. hdrWritten => hdrCat = entries
  BY <1>0, <1>2 DEF Bookkeeping
<1>5. Separate(F, page, freeHead, entries, pageCount)
  BY <1>1, <1>2 DEF FreeSet
<1>6. Restorable(F)'
  BY <1>2, <1>3, <1>4, <1>5 DEF Separate, Restorable
<1>7. DiskCat' = DiskCat
  BY <1>3 DEF DiskCat
<1>8. FreeSet(F, D)'
  BY <1>1, <1>2, <1>3, <1>5, <1>6, <1>7 DEF FreeSet
<1> QED BY <1>8 DEF Free

LEMMA CommitFree ==
    ASSUME TypeOK, Bookkeeping, Free, CommitTx
    PROVE  Free'
<1>1. PICK F, D \in SUBSET Pages : FreeSet(F, D)
  BY DEF Free
<1>2. /\ isOpen /\ ~InTx'
      /\ UNCHANGED <<diskVars, isOpen, freeHead, pageCount, entries, flushDue, reused>>
  BY DEF CommitTx, Leaving, NoSnapshot, history
<1>3. UNCHANGED <<page, fileSize, hdrFree, hdrCat, hdrWritten>>
  BY <1>2 DEF diskVars
<1>4. FreeSet(F, D)'
  BY <1>1, <1>2, <1>3 DEF FreeSet, DiskCat
<1> QED BY <1>4 DEF Free

\* The catalog that a rollback of a transaction without DROP puts into page 0
\* names no page of D.
LEMMA RollbackFree ==
    ASSUME TypeOK, Bookkeeping, Free, RollbackTx, ~txDropped
    PROVE  Free'
<1>1. PICK F, D \in SUBSET Pages : FreeSet(F, D)
  BY DEF Free
<1>2. /\ isOpen /\ InTx
      /\ hdrFree' = snapshot.free
      /\ hdrCat' = snapshot.cat /\ hdrWritten' = snapshot.written
      /\ UNCHANGED <<page, fileSize, isOpen, freeHead, pageCount, entries, snapshot, reused,
                     txDropped>>
  BY DEF RollbackTx, Leaving
<1>3. Separate(F, page, freeHead, entries, pageCount) /\ Restorable(F)
  BY <1>1, <1>2 DEF FreeSet
<1>4. hdrFree' = hdrFree /\ fileSize = pageCount
  BY <1>2 DEF Bookkeeping
<1>5. ~reused => D \subseteq F /\ Separate(D, page', hdrFree', DiskCat', fileSize')
  <2>1. SUFFICES ASSUME ~reused
                 PROVE  D \subseteq F /\ Separate(D, page', hdrFree', DiskCat', fileSize')
    OBVIOUS
  <2>2. D \subseteq F /\ Separate(D, page, hdrFree, DiskCat, fileSize)
    BY <1>1, <1>2, <2>1 DEF FreeSet
  <2>3. 0 \notin D /\ fileSize \in Nat /\ 0 < fileSize
    BY Numbers DEF TypeOK, Junk, Pages
  <2>4. /\ \A u \in Tables : DiskCat'[u] \notin D /\ DiskCat'[u] < fileSize
        /\ \A u, v \in Tables : u # v /\ DiskCat'[u] # 0 => DiskCat'[u] # DiskCat'[v]
    <3>1. CASE snapshot.written
      <4>1. DiskCat' = snapshot.cat
        BY <1>2, <3>1 DEF DiskCat
      <4> QED BY <1>3, <1>4, <2>2, <3>1, <4>1 DEF Restorable
    <3>2. CASE ~snapshot.written
      <4>1. DiskCat' = NoTable
        BY <1>2, <3>2 DEF DiskCat
      <4> QED BY <2>3, <4>1 DEF NoTable
    <3> QED BY <3>1, <3>2
  <2> QED BY <1>2, <1>4, <2>2, <2>4 DEF Separate
<1>6. FreeSet(F, D)'
  BY <1>2, <1>3, <1>5 DEF FreeSet, Restorable
<1> QED BY <1>6 DEF Free

\* Every page of F, and so of D, is written back as it is.
LEMMA RestoreFree ==
    ASSUME TypeOK, Bookkeeping, Free, RestorePage, ~txDropped
    PROVE  Free'
<1>1. PICK F, D \in SUBSET Pages : FreeSet(F, D)
  BY DEF Free
<1>2. /\ restored \in Pages
      /\ page' = [page EXCEPT ![restored] = snapshot.page[restored]]
      /\ UNCHANGED <<fileSize, hdrFree, hdrCat, hdrWritten, isOpen, freeHead, pageCount, entries,
                     snapshot, reused, txDropped>>
  BY DEF RestorePage, history
<1>3. InTx /\ isOpen
  BY <1>2, Numbers DEF Bookkeeping, Pages
<1>4. Separate(F, page, freeHead, entries, pageCount) /\ Restorable(F)
  BY <1>1, <1>3 DEF FreeSet
<1>5. \A q \in F : page'[q] = page[q]
  BY <1>2, <1>4 DEF Restorable, TypeOK
<1>6. Separate(F, page', freeHead', entries', pageCount')
  <2>1. Linked(F, page', freeHead')
    BY <1>2, <1>4, <1>5, LinkedSame DEF Separate
  <2> QED BY <1>2, <1>4, <1>5, <2>1 DEF Separate
<1>7. ~reused => D \subseteq F /\ Separate(D, page', hdrFree', DiskCat', fileSize')
  <2>1. SUFFICES ASSUME ~reused
                 PROVE  D \subseteq F /\ Separate(D, page', hdrFree', DiskCat', fileSize')
    OBVIOUS
  <2>2. D \subseteq F /\ Separate(D, page, hdrFree, DiskCat, fileSize)
    BY <1>1, <1>3, <2>1 DEF FreeSet
  <2>3. DiskCat' = DiskCat /\ \A q \in D : page'[q] = page[q]
    BY <1>2, <1>5, <2>2 DEF DiskCat
  <2>4. Linked(D, page', hdrFree')
    BY <1>2, <2>2, <2>3, LinkedSame DEF Separate
  <2> QED BY <1>2, <2>2, <2>3, <2>4 DEF Separate
<1>8. Restorable(F)'
  BY <1>2, <1>4, <1>5 DEF Restorable
<1>9. FreeSet(F, D)'
  BY <1>2, <1>3, <1>6, <1>7, <1>8 DEF FreeSet
<1> QED BY <1>9 DEF Free

\* The catalog that _load finds is the one of the snapshot.
LEMMA RolledBackFree ==
    ASSUME TypeOK, Bookkeeping, Free, RolledBack, ~txDropped
    PROVE  Free'
<1>1. PICK F, D \in SUBSET Pages : FreeSet(F, D)
  BY DEF Free
<1>2. /\ restored # 0 /\ ~InTx'
      /\ entries' = IF hdrWritten THEN hdrCat ELSE entries
      /\ UNCHANGED <<page, fileSize, hdrFree, hdrCat, hdrWritten, isOpen, freeHead, pageCount,
                     reused>>
  BY DEF RolledBack, LoadCatalog, NoSnapshot, diskVars
<1>3. InTx /\ isOpen /\ hdrCat = snapshot.cat /\ hdrWritten = snapshot.written
  BY <1>2 DEF Bookkeeping
<1>4. Separate(F, page, freeHead, entries, pageCount) /\ Restorable(F)
  BY <1>1, <1>3 DEF FreeSet
<1>5. Separate(F, page', freeHead', entries', pageCount')
  <2>1. CASE snapshot.written
    <3>1. /\ \A u \in Tables : entries'[u] \notin F /\ entries'[u] < pageCount
          /\ \A u, v \in Tables : u # v /\ entries'[u] # 0 => entries'[u] # entries'[v]
      BY <1>2, <1>3, <1>4, <2>1 DEF Restorable
    <3> QED BY <1>2, <1>4, <3>1 DEF Separate
  <2>2. CASE ~snapshot.written
    BY <1>2, <1>3, <1>4, <2>2 DEF Separate
  <2> QED BY <2>1, <2>2
<1>6. DiskCat' = DiskCat
  BY <1>2 DEF DiskCat
<1>7. FreeSet(F, D)'
  BY <1>1, <1>2, <1>3, <1>5, <1>6 DEF FreeSet
<1> QED BY <1>7 DEF Free

LEMMA CloseFree ==
    ASSUME TypeOK, Bookkeeping, Free, Close
    PROVE  Free'
<1>1. PICK F, D \in SUBSET Pages : FreeSet(F, D)
  BY DEF Free
<1>2. /\ isOpen /\ ~isOpen' /\ ~flushDue /\ ~InTx'
      /\ hdrFree' = freeHead
      /\ UNCHANGED <<page, fileSize, hdrCat, hdrWritten>>
  BY DEF Close, Forget, NoSnapshot
<1>0. restored = 0
  BY DEF Close, Bookkeeping
<1>3. Separate(F, page, freeHead, entries, pageCount) /\ fileSize = pageCount
  BY <1>1, <1>2 DEF FreeSet, Bookkeeping
<1>4. 0 \notin F /\ fileSize \in Nat /\ 0 < fileSize
  BY Numbers DEF TypeOK, Junk, Pages
<1>5. Separate(F, page, freeHead, DiskCat, fileSize)
  <2>1. CASE hdrWritten
    BY <1>0, <1>2, <1>3, <2>1 DEF DiskCat, Bookkeeping
  <2>2. CASE ~hdrWritten
    BY <1>3, <1>4, <2>2 DEF DiskCat, Separate, NoTable
  <2> QED BY <2>1, <2>2
<1>6. FreeSet(F, D)'
  BY <1>2, <1>5 DEF FreeSet, DiskCat
<1> QED BY <1>6 DEF Free

\* What a killed process leaves behind is the list that page 0 records.
LEMMA CrashFree ==
    ASSUME TypeOK, Bookkeeping, Free, Crash, ~reused
    PROVE  Free'
<1>1. PICK F, D \in SUBSET Pages : FreeSet(F, D)
  BY DEF Free
<1>2. isOpen /\ ~isOpen' /\ ~InTx' /\ UNCHANGED diskVars
  BY DEF Crash, Forget, NoSnapshot
<1>3. UNCHANGED <<page, fileSize, hdrFree, hdrCat, hdrWritten>>
  BY <1>2 DEF diskVars
<1>4. Separate(D, page, hdrFree, DiskCat, fileSize)
  BY <1>1, <1>2 DEF FreeSet
<1>5. FreeSet(D, D)'
  BY <1>2, <1>3, <1>4 DEF FreeSet, DiskCat
<1> QED BY <1>5 DEF Free

LEMMA OpenFree ==
    ASSUME TypeOK, Bookkeeping, Free, Open
    PROVE  Free'
<1>1. PICK F, D \in SUBSET Pages : FreeSet(F, D)
  BY DEF Free
<1>2. /\ ~isOpen /\ isOpen' /\ freeHead' = hdrFree /\ pageCount' = fileSize
      /\ entries' = IF hdrWritten THEN hdrCat ELSE entries
      /\ UNCHANGED <<page, fileSize, hdrFree, hdrCat, hdrWritten, flushDue, snapshot>>
  BY DEF Open, LoadCatalog, diskVars
<1>3. entries' = DiskCat /\ ~InTx' /\ DiskCat' = DiskCat
  BY <1>2 DEF Bookkeeping, DiskCat
<1>4. Separate(F, page, hdrFree, DiskCat, fileSize)
  BY <1>1, <1>2 DEF FreeSet
<1>5. FreeSet(F, F)'
  BY <1>2, <1>3, <1>4 DEF FreeSet
<1> QED BY <1>5 DEF Free

\* A window that has been hit stays on record.
LEMMA MishapsGrow ==
    ASSUME [Next]_vars
    PROVE  mishaps \subseteq mishaps'
<1>1. ASSUME NEW t \in Tables, CreateTable(t) \/ DropTable(t) \/ InsertRow(t)
      PROVE  mishaps' = mishaps
  BY <1>1 DEF CreateTable, DropTable, InsertRow
<1>2. CASE FlushCatalog \/ BeginTx \/ CommitTx \/ Close \/ Open \/ UNCHANGED vars
  BY <1>2 DEF FlushCatalog, BeginTx, CommitTx, Close, Open, vars, history
<1>3. CASE RollbackTx \/ RestorePage \/ RolledBack \/ Crash
  BY <1>3 DEF RollbackTx, RestorePage, RolledBack, Crash, history
<1> QED BY <1>1, <1>2, <1>3 DEF Next

LEMMA NextRolling ==
    ASSUME Bookkeeping, Rolling, [Next]_vars
    PROVE  Rolling'
<1>1. ASSUME NEW t \in Tables, CreateTable(t) \/ DropTable(t) \/ InsertRow(t)
      PROVE  Rolling'
  BY <1>1 DEF CreateTable, DropTable, InsertRow, Ready, memVars, Rolling
<1>2. CASE FlushCatalog \/ BeginTx \/ CommitTx \/ Close \/ Open \/ Crash \/ RolledBack
  BY <1>2 DEF FlushCatalog, BeginTx, CommitTx, Leaving, Close, Open, Crash, RolledBack, Forget,
              Bookkeeping, Rolling
<1>3. CASE RollbackTx
  BY <1>3 DEF RollbackTx, Rolling
<1>5. CASE RestorePage
  <2>1. restored # 0 /\ UNCHANGED <<txDropped, mishaps>>
    BY <1>5, Numbers DEF RestorePage, history, Pages
  <2> QED BY <2>1 DEF Rolling
<1>4. CASE UNCHANGED vars
  BY <1>4 DEF vars, memVars, history, Rolling
<1> QED BY <1>1, <1>2, <1>3, <1>4, <1>5 DEF Next

LEMMA NextInv ==
    ASSUME Inv, [Next]_vars
    PROVE  Inv'
<1> USE DEF Inv
<1>1. TypeOK' /\ Bookkeeping' /\ Rolling'
  BY NextType, NextBookkeeping, NextRolling
<1> SUFFICES ASSUME Safe' PROVE Free'
  BY <1>1 DEF Listing
<1>2. TypeOK /\ Bookkeeping /\ Free
  BY MishapsGrow DEF Listing, Safe, Avoided
<1>3. ASSUME NEW t \in Tables, CreateTable(t) PROVE Free'
  BY <1>2, <1>3, CreateFree
<1>4. ASSUME NEW t \in Tables, DropTable(t) PROVE Free'
  BY <1>2, <1>4, DropFree
<1>5. ASSUME NEW t \in Tables, InsertRow(t) PROVE Free'
  BY <1>2, <1>5, InsertFree
<1>6. CASE FlushCatalog
  BY <1>2, <1>6, FlushFree
<1>7. CASE BeginTx
  BY <1>2, <1>7, BeginFree
<1>8. CASE CommitTx
  BY <1>2, <1>8, CommitFree
<1>9. CASE RollbackTx
  <2>1. ~txDropped
    BY <1>9 DEF RollbackTx, Safe, Avoided
  <2> QED BY <1>2, <1>9, <2>1, RollbackFree
<1>14. CASE RestorePage \/ RolledBack
  <2>1. restored # 0
    BY <1>14, Numbers DEF RestorePage, RolledBack, Pages
  <2>2. ~txDropped
    BY <2>1, MishapsGrow DEF Rolling, Safe, Avoided
  <2> QED BY <1>2, <1>14, <2>2, RestoreFree, RolledBackFree
<1>10. CASE Close
  BY <1>2, <1>10, CloseFree
<1>11. CASE Crash
  <2>1. ~reused
    BY <1>11 DEF Crash, Safe, Avoided
  <2> QED BY <1>2, <1>11, <2>1, CrashFree
<1>12. CASE Open
  BY <1>2, <1>12, OpenFree
<1>13. CASE UNCHANGED vars
  <2>1. PICK F, D \in SUBSET Pages : FreeSet(F, D)
    BY <1>2 DEF Free
  <2>2. UNCHANGED <<page, fileSize, hdrFree, hdrCat, hdrWritten, isOpen, freeHead, pageCount,
                    entries, snapshot, reused, txDropped>>
    BY <1>13 DEF vars, diskVars, memVars, history
  <2>3. FreeSet(F, D)'
    BY <2>1, <2>2 DEF FreeSet, Restorable, DiskCat
  <2> QED BY <2>3 DEF Free
<1> QED BY <1>3, <1>4, <1>5, <1>6, <1>7, <1>8, <1>9, <1>10, <1>11, <1>12, <1>13, <1>14
        DEF Next

LEMMA InvNoSharedPages == Inv => NoSharedPages
<1> SUFFICES ASSUME Inv, Safe PROVE DistinctPages
  BY DEF NoSharedPages, Safe
<1>1. CASE isOpen
  BY <1>1 DEF Inv, Listing, Free, FreeSet, Separate, DistinctPages, Listed
<1>2. CASE ~isOpen
  BY <1>2 DEF Inv, Bookkeeping, DistinctPages, Listed, NoTable
<1> QED BY <1>1, <1>2

\* No page ever belongs to two tables, for any workload, number of tables,
\* pages and kills, across statements, commits, rollbacks and reopenings, as
\* long as no kill has met a stale free-list head and no DROP was rolled back.
THEOREM PagesNotShared == Spec => []NoSharedPages
<1>1. Init => Inv
  BY InitInv
<1>2. Inv /\ [Next]_vars => Inv'
  BY NextInv
<1>3. Inv => NoSharedPages
  BY InvNoSharedPages
<1> QED BY <1>1, <1>2, <1>3, PTL DEF Spec

LEMMA InvSoundFreeList == Inv => SoundFreeList
<1> SUFFICES ASSUME Inv, isOpen, Safe
             PROVE  \E n \in 0..MaxPages : \E c \in [1..n -> Pages] : FreeChain(n, c)
  BY DEF SoundFreeList, Safe
<1>1. PICK F \in SUBSET Pages : Separate(F, page, freeHead, entries, pageCount)
  BY DEF Inv, Listing, Free, FreeSet
<1>2. Linked(F, page, freeHead)
  BY <1>1 DEF Separate
<1>3. PICK n \in Nat : \E c \in [1..n -> F] : Chain(n, c, page, freeHead)
  BY <1>2 DEF Linked
<1>4. PICK c \in [1..n -> F] : Chain(n, c, page, freeHead)
  BY <1>3
<1>5. c \in [1..n -> Pages]
  BY <1>1
<1>6. FreeChain(n, c)
  <2>1. ASSUME NEW i \in 1..n
        PROVE  c[i] < pageCount /\ \A t \in Tables : entries[t] # c[i]
    BY <1>1 DEF Separate
  <2> QED BY <1>4, <2>1 DEF Chain, FreeChain
<1>7. n <= MaxPages
  <2>1. /\ IsFiniteSet(1..n) /\ Cardinality(1..n) = n
        /\ IsFiniteSet(Pages) /\ Cardinality(Pages) = MaxPages
    BY Numbers, FS_Interval DEF Pages
  <2>2. SUFFICES ASSUME MaxPages < n PROVE FALSE
    BY Numbers
  <2>3. \E i, j \in 1..n : i # j /\ c[i] = c[j]
    BY <1>5, <2>1, <2>2, FS_PigeonHole
  <2> QED BY <1>4, <2>3 DEF Chain
<1>8. n \in 0..MaxPages
  BY <1>7, Numbers
<1> QED BY <1>5, <1>6, <1>8

\* The free list is a chain of unused pages inside the file, without a page
\* twice and without a page of a table, after any interleaving of CREATE, DROP,
\* commits, rollbacks, kills and reopenings outside the same two windows
\* (storage.py, alloc_page and free_page).
THEOREM FreeListSound == Spec => []SoundFreeList
<1>1. Init => Inv
  BY InitInv
<1>2. Inv /\ [Next]_vars => Inv'
  BY NextInv
<1>3. Inv => SoundFreeList
  BY InvSoundFreeList
<1> QED BY <1>1, <1>2, <1>3, PTL DEF Spec

-----------------------------------------------------------------------------
(* The cached catalog                                                      *)

CoherentInv == TypeOK /\ Bookkeeping /\ CacheCoherent

LEMMA InitCoherent == Init => CoherentInv
<1> SUFFICES ASSUME Init PROVE CoherentInv
  OBVIOUS
<1>1. CacheCoherent
  BY DEF Init, CacheCoherent, CacheOnDisk
<1> QED BY <1>1, InitInv DEF Inv, CoherentInv

LEMMA NextCoherent ==
    ASSUME CoherentInv, [Next]_vars
    PROVE  CoherentInv'
<1> USE DEF CoherentInv
<1>1. TypeOK' /\ Bookkeeping'
  BY NextType, NextBookkeeping
<1> SUFFICES ASSUME Avoided({"ghost"})' PROVE CacheOnDisk'
  BY <1>1 DEF CacheCoherent
<1>2. CacheOnDisk
  BY MishapsGrow DEF CacheCoherent, Avoided
<1>3. ASSUME NEW t \in Tables, CreateTable(t) \/ DropTable(t) PROVE CacheOnDisk'
  BY <1>3 DEF CreateTable, DropTable, CacheOnDisk
<1>4. ASSUME NEW t \in Tables, InsertRow(t) PROVE CacheOnDisk'
  BY <1>2, <1>4 DEF InsertRow, memVars, CacheOnDisk
<1>5. CASE FlushCatalog
  BY <1>5 DEF FlushCatalog, CacheOnDisk
<1>6. CASE BeginTx \/ CommitTx
  <2>1. UNCHANGED <<hdrCat, hdrWritten, isOpen, entries, flushDue, restored>>
    BY <1>6 DEF BeginTx, CommitTx, diskVars
  <2> QED BY <1>2, <2>1 DEF CacheOnDisk
<1>7. CASE RollbackTx \/ RestorePage
  <2>1. restored' # 0
    BY <1>7, Numbers DEF RollbackTx, RestorePage, Pages
  <2> QED BY <2>1 DEF CacheOnDisk
<1>11. CASE RolledBack
  <2>1. ~hdrWritten => entries = NoTable
    BY <1>11 DEF RolledBack, Avoided
  <2> QED BY <1>11, <2>1 DEF RolledBack, LoadCatalog, diskVars, CacheOnDisk
<1>8. CASE Close \/ Crash
  BY <1>8 DEF Close, Crash, Forget, CacheOnDisk
<1>9. CASE Open
  BY <1>9 DEF Open, diskVars, LoadCatalog, Bookkeeping, CacheOnDisk
<1>10. CASE UNCHANGED vars
  BY <1>2, <1>10 DEF vars, diskVars, memVars, CacheOnDisk
<1> QED BY <1>3, <1>4, <1>5, <1>6, <1>7, <1>8, <1>9, <1>10, <1>11 DEF Next

\* Between statements the cached catalog is the one in page 0, for any
\* workload and any number of kills, until a rollback goes back to a file
\* without a catalog.
THEOREM CatalogCoherent == Spec => []CacheCoherent
<1>1. Init => CoherentInv
  BY InitCoherent
<1>2. CoherentInv /\ [Next]_vars => CoherentInv'
  BY NextCoherent
<1>3. CoherentInv => CacheCoherent
  BY DEF CoherentInv
<1> QED BY <1>1, <1>2, <1>3, PTL DEF Spec

-----------------------------------------------------------------------------
(* Readable tables and their rows                                          *)

\* The catalog in memory and the one on disk differ by a table that the
\* statement under way creates or drops, never in a page.
Agree == isOpen /\ restored = 0 /\ hdrWritten =>
            \A t \in Tables : entries[t] # 0 /\ hdrCat[t] # 0 => entries[t] = hdrCat[t]

\* A transaction without DROP only adds to the catalog.
Grown == InTx /\ ~txDropped /\ snapshot.written =>
            \A t \in Tables : snapshot.cat[t] # 0 => entries[t] = snapshot.cat[t]

Counts(links) == \A p \in Pages : links[p] \in {0, Junk}

\* A file without a catalog has never freed a page, but for a DROP that follows
\* a rollback and has yet to write the catalog.
Unlinked ==
    /\ ~hdrWritten => Counts(page) /\ hdrFree = 0 /\ (flushDue \/ freeHead = 0)
    /\ InTx /\ ~snapshot.written /\ ~txDropped =>
          Counts(page) /\ Counts(snapshot.page) /\ freeHead = 0 /\ hdrFree = 0

Readable(links, cat) == \A t \in Tables : cat[t] # 0 => links[cat[t]] \in {0, Junk}

SnapshotReadable ==
    InTx /\ snapshot.written =>
       /\ Readable(snapshot.page, snapshot.cat)
       /\ \A t \in Tables : snapshot.cat[t] < snapshot.count

AllReadable ==
    /\ isOpen /\ restored = 0 => Readable(page, entries)
    /\ ~isOpen \/ restored # 0 => Readable(page, DiskCat)
    /\ SnapshotReadable

ReadInv ==
    /\ Inv
    /\ Agree /\ Grown
    /\ Safe => Unlinked
    /\ Safe /\ "torn_drop" \notin mishaps => AllReadable

Holds(links, cat, rows) == \A t \in Tables : cat[t] # 0 => (t \in rows <=> links[cat[t]] = Junk)

RowsHeld ==
    /\ restored = 0 => \A t \in filled : DiskCat[t] # 0
    /\ isOpen /\ restored = 0 => Holds(page, entries, filled)
    /\ ~isOpen => Holds(page, DiskCat, filled)
    /\ InTx => /\ \A t \in snapshot.filled : snapshot.written /\ snapshot.cat[t] # 0
               /\ snapshot.written => Holds(snapshot.page, snapshot.cat, snapshot.filled)

RowsInv ==
    /\ ReadInv /\ CacheCoherent
    /\ Avoided(Mishaps) => RowsHeld

LEMMA InitRows == Init => RowsInv
<1> SUFFICES ASSUME Init PROVE RowsInv
  OBVIOUS
<1>1. Inv /\ CacheCoherent
  BY InitInv, InitCoherent DEF CoherentInv
<1>2. Agree /\ Grown /\ Unlinked
  BY DEF Init, Agree, Grown, Unlinked, Counts, NoSnapshot
<1>3. AllReadable
  BY DEF Init, AllReadable, Readable, SnapshotReadable, NoTable, NoSnapshot
<1>4. RowsHeld
  BY DEF Init, RowsHeld, Holds, NoSnapshot, NoTable
<1> QED BY <1>1, <1>2, <1>3, <1>4 DEF RowsInv, ReadInv

LEMMA NextAgree ==
    ASSUME TypeOK, Bookkeeping, Agree, Grown, [Next]_vars
    PROVE  Agree' /\ Grown'
<1>1. ASSUME NEW t \in Tables, CreateTable(t) PROVE Agree' /\ Grown'
  <2>1. /\ isOpen /\ ~flushDue /\ entries[t] = 0 /\ restored = 0
        /\ UNCHANGED <<hdrCat, hdrWritten, isOpen, snapshot, txDropped>>
    BY <1>1 DEF CreateTable, Ready
  <2>2. PICK p \in Pages : entries' = [entries EXCEPT ![t] = p]
    BY <1>1 DEF CreateTable
  <2>3. hdrWritten => entries = hdrCat
    BY <2>1 DEF Bookkeeping
  <2>4. Agree'
    BY <2>1, <2>2, <2>3 DEF Agree, TypeOK, Catalogs
  <2>5. Grown'
    BY <2>1, <2>2 DEF Grown, TypeOK, Catalogs
  <2> QED BY <2>4, <2>5
<1>2. ASSUME NEW t \in Tables, DropTable(t) PROVE Agree' /\ Grown'
  BY <1>2 DEF DropTable, Ready, Agree, Grown, TypeOK, Catalogs
<1>3. ASSUME NEW t \in Tables, InsertRow(t) PROVE Agree' /\ Grown'
  BY <1>3 DEF InsertRow, memVars, Agree, Grown
<1>4. CASE FlushCatalog
  BY <1>4 DEF FlushCatalog, Agree, Grown
<1>5. CASE BeginTx
  <2>1. Quiet
    BY <1>5 DEF BeginTx, Bookkeeping
  <2>2. hdrWritten => entries = hdrCat
    BY <2>1 DEF Bookkeeping
  <2>3. /\ snapshot'.cat = hdrCat /\ snapshot'.written = hdrWritten
        /\ UNCHANGED <<hdrCat, hdrWritten, isOpen, entries, restored>>
    BY <1>5 DEF BeginTx, diskVars
  <2> QED BY <2>2, <2>3 DEF Agree, Grown
<1>6. CASE CommitTx
  BY <1>6 DEF CommitTx, diskVars, NoSnapshot, Agree, Grown
<1>7. CASE RollbackTx
  BY <1>7 DEF RollbackTx, Agree, Grown
<1>8. CASE RestorePage
  <2>1. restored' # 0 /\ UNCHANGED <<snapshot, txDropped, entries>>
    BY <1>8, Numbers DEF RestorePage, Pages, history
  <2> QED BY <2>1 DEF Agree, Grown
<1>9. CASE RolledBack
  BY <1>9 DEF RolledBack, LoadCatalog, diskVars, NoSnapshot, Agree, Grown
<1>10. CASE Close \/ Crash
  BY <1>10 DEF Close, Crash, Forget, NoSnapshot, Agree, Grown
<1>11. CASE Open
  BY <1>11 DEF Open, diskVars, LoadCatalog, Bookkeeping, Agree, Grown
<1>12. CASE UNCHANGED vars
  BY <1>12 DEF vars, diskVars, memVars, history, Agree, Grown
<1> QED BY <1>1, <1>2, <1>3, <1>4, <1>5, <1>6, <1>7, <1>8, <1>9, <1>10, <1>11, <1>12 DEF Next

LEMMA NextUnlinked ==
    ASSUME TypeOK, Bookkeeping, Rolling, Unlinked, [Next]_vars, Safe'
    PROVE  Unlinked'
<1>0. page \in [Pages -> PageRef] /\ 0 \notin Pages
  BY Numbers DEF TypeOK, Pages
<1>1. ASSUME NEW t \in Tables, CreateTable(t) PROVE Unlinked'
  <2>1. PICK p \in Pages : AllocPage(p)
    BY <1>1 DEF CreateTable
  <2>2. ~flushDue /\ flushDue' /\ UNCHANGED <<hdrFree, hdrWritten, snapshot, txDropped>>
    BY <1>1 DEF CreateTable, Ready
  <2>3. page' = [page EXCEPT ![p] = 0] /\ (freeHead = 0 => freeHead' = 0)
    BY <1>0, <2>1 DEF AllocPage, ReuseFreePage, ExtendFile
  <2>4. Counts(page) => Counts(page)'
    BY <1>0, <2>3 DEF Counts
  <2> QED BY <2>2, <2>3, <2>4 DEF Unlinked, Counts
<1>2. ASSUME NEW t \in Tables, DropTable(t) PROVE Unlinked'
  <2>1. /\ ~flushDue /\ flushDue' /\ (InTx' => txDropped') /\ UNCHANGED <<hdrFree, hdrWritten>>
        /\ page' = [page EXCEPT ![entries[t]] = freeHead]
    BY <1>2 DEF DropTable, Ready, FreePage
  <2>2. ~hdrWritten => Counts(page)'
    BY <1>0, <2>1 DEF Unlinked, Counts
  <2> QED BY <2>1, <2>2 DEF Unlinked
<1>3. ASSUME NEW t \in Tables, InsertRow(t) PROVE Unlinked'
  <2>1. /\ page' = [page EXCEPT ![entries[t]] = Junk]
        /\ UNCHANGED <<hdrFree, hdrWritten, flushDue, freeHead, snapshot, txDropped>>
    BY <1>3 DEF InsertRow, memVars
  <2>2. Counts(page) => Counts(page)'
    BY <1>0, <2>1 DEF Counts
  <2> QED BY <2>1, <2>2 DEF Unlinked, Counts
<1>4. CASE FlushCatalog
  BY <1>4 DEF FlushCatalog, Unlinked, Counts
<1>5. CASE BeginTx
  <2>1. /\ ~flushDue /\ snapshot'.page = page /\ snapshot'.written = hdrWritten
        /\ UNCHANGED <<page, hdrFree, hdrWritten, flushDue, freeHead>>
    BY <1>5 DEF BeginTx, diskVars
  <2> QED BY <2>1 DEF Unlinked, Counts
<1>6. CASE CommitTx
  <2>1. ~InTx' /\ UNCHANGED <<page, hdrFree, hdrWritten, flushDue, freeHead>>
    BY <1>6 DEF CommitTx, NoSnapshot, diskVars
  <2> QED BY <2>1 DEF Unlinked, Counts
<1>7. CASE RollbackTx
  <2>1. ~txDropped
    BY <1>7 DEF RollbackTx, Safe, Avoided
  <2>2. /\ InTx /\ hdrFree' = snapshot.free /\ hdrWritten' = snapshot.written
        /\ UNCHANGED <<page, freeHead, snapshot, txDropped>>
    BY <1>7 DEF RollbackTx, Leaving
  <2>3. snapshot.free = hdrFree
    BY <2>2 DEF Bookkeeping
  <2> QED BY <2>1, <2>2, <2>3 DEF Unlinked, Counts
<1>11. CASE RestorePage
  <2>1. /\ restored \in Pages /\ page' = [page EXCEPT ![restored] = snapshot.page[restored]]
        /\ UNCHANGED <<hdrFree, hdrWritten, flushDue, freeHead, snapshot, txDropped, mishaps>>
    BY <1>11 DEF RestorePage, history
  <2>2. InTx /\ hdrWritten = snapshot.written /\ ~txDropped
    BY <1>0, <2>1 DEF Bookkeeping, Rolling, Safe, Avoided
  <2>3. ~snapshot.written => Counts(page)'
    BY <1>0, <2>1, <2>2 DEF Unlinked, Counts
  <2> QED BY <2>1, <2>2, <2>3 DEF Unlinked, Counts
<1>12. CASE RolledBack
  <2>1. ~InTx' /\ UNCHANGED <<page, hdrFree, hdrWritten, flushDue, freeHead>>
    BY <1>12 DEF RolledBack, NoSnapshot, diskVars
  <2> QED BY <2>1 DEF Unlinked, Counts
<1>8. CASE Close \/ Crash
  <2>1. /\ ~InTx' /\ freeHead' = 0 /\ UNCHANGED <<page, hdrWritten>>
        /\ hdrFree' = hdrFree \/ (hdrFree' = freeHead /\ ~flushDue)
    BY <1>8 DEF Close, Crash, Forget, NoSnapshot, diskVars
  <2> QED BY <2>1 DEF Unlinked, Counts
<1>9. CASE Open
  <2>1. ~InTx' /\ freeHead' = hdrFree /\ UNCHANGED <<page, hdrWritten, hdrFree>>
    BY <1>9 DEF Open, diskVars, Bookkeeping
  <2> QED BY <2>1 DEF Unlinked, Counts
<1>10. CASE UNCHANGED vars
  BY <1>10 DEF vars, diskVars, memVars, history, Unlinked, Counts
<1> QED BY <1>1, <1>2, <1>3, <1>4, <1>5, <1>6, <1>7, <1>8, <1>9, <1>10, <1>11, <1>12 DEF Next

\* alloc_page never hands out the page of a listed table, and every listed
\* table has its page inside the file.
LEMMA FreshPage ==
    ASSUME Inv, Safe, isOpen
    PROVE  /\ \A t \in Tables : entries[t] < pageCount
           /\ \A p \in Pages : AllocPage(p) => \A t \in Tables : entries[t] # p
<1>1. PICK F \in SUBSET Pages : Separate(F, page, freeHead, entries, pageCount)
  BY DEF Inv, Listing, Free, FreeSet
<1>2. \A t \in Tables : entries[t] \in Nat
  BY Numbers DEF Inv, TypeOK, Catalogs
<1>3. pageCount \in Nat /\ 0 \notin Pages
  BY Numbers DEF Inv, TypeOK, Junk, Pages
<1>4. ASSUME NEW p \in Pages, AllocPage(p), NEW t \in Tables PROVE entries[t] # p
  <2>1. CASE ReuseFreePage(p)
    BY <1>1, <1>3, <2>1 DEF ReuseFreePage, Separate
  <2>2. CASE ExtendFile(p)
    BY <1>1, <1>2, <1>3, <2>2 DEF ExtendFile, Separate
  <2> QED BY <1>4, <2>1, <2>2 DEF AllocPage
<1> QED BY <1>1, <1>4 DEF Separate

LEMMA AllocPages ==
    ASSUME TypeOK, NEW p \in Pages, AllocPage(p)
    PROVE  page'[p] = 0 /\ \A q \in Pages : q # p => page'[q] = page[q]
BY DEF TypeOK, AllocPage, ReuseFreePage, ExtendFile

LEMMA EntryPages ==
    ASSUME NEW cat \in Catalogs, NEW t \in Tables
    PROVE  cat[t] # 0 => cat[t] \in Pages
BY Numbers DEF Catalogs, Pages

\* A kill that met no torn DROP finds every table of page 0 in the cache too,
\* with the same page.
LEMMA CrashAgrees ==
    ASSUME Agree, Crash, restored = 0, "torn_drop" \notin mishaps'
    PROVE  \A t \in Tables : DiskCat[t] # 0 => entries[t] = DiskCat[t]
<1>1. isOpen /\ (hdrWritten => \A t \in Listed(hdrCat) : entries[t] # 0)
  BY DEF Crash
<1>2. ~hdrWritten => \A t \in Tables : DiskCat[t] = 0
  BY DEF DiskCat, NoTable
<1> QED BY <1>1, <1>2 DEF DiskCat, Agree, Listed

LEMMA NextReadable ==
    ASSUME Inv, Agree, Grown, Safe, Unlinked, AllReadable, [Next]_vars,
           Safe', "torn_drop" \notin mishaps'
    PROVE  AllReadable'
<1> USE DEF Inv
<1>1. page \in [Pages -> PageRef] /\ entries \in Catalogs /\ hdrCat \in Catalogs
  BY DEF TypeOK
<1>2. ASSUME NEW t \in Tables, CreateTable(t) PROVE AllReadable'
  <2>1. PICK p \in Pages : AllocPage(p) /\ entries' = [entries EXCEPT ![t] = p]
    BY <1>2 DEF CreateTable
  <2>2. isOpen /\ isOpen' /\ restored = 0 /\ restored' = 0 /\ snapshot' = snapshot
    BY <1>2 DEF CreateTable, Ready
  <2>3. ASSUME NEW u \in Tables, entries'[u] # 0 PROVE page'[entries'[u]] \in {0, Junk}
    <3>1. CASE u = t
      BY <1>1, <2>1, <3>1, AllocPages DEF Catalogs
    <3>2. CASE u # t
      <4>1. entries'[u] = entries[u] /\ entries[u] \in Pages
        BY <1>1, <2>1, <2>3, <3>2, EntryPages DEF Catalogs
      <4> QED BY <2>1, <2>2, <2>3, <4>1, AllocPages DEF AllReadable, Readable
    <3> QED BY <3>1, <3>2
  <2> QED BY <2>2, <2>3 DEF AllReadable, Readable, SnapshotReadable
<1>3. ASSUME NEW t \in Tables, DropTable(t) PROVE AllReadable'
  <2>1. /\ isOpen /\ isOpen' /\ restored = 0 /\ restored' = 0
        /\ snapshot' = snapshot /\ entries[t] \in Pages
        /\ page' = [page EXCEPT ![entries[t]] = freeHead]
        /\ entries' = [entries EXCEPT ![t] = 0]
    BY <1>3 DEF DropTable, Ready, FreePage
  <2>2. ASSUME NEW u \in Tables, entries'[u] # 0 PROVE page'[entries'[u]] \in {0, Junk}
    <3>1. u # t /\ entries'[u] = entries[u]
      BY <1>1, <2>1, <2>2 DEF Catalogs
    <3>2. entries[u] \in Pages
      BY <1>1, <2>2, <3>1, EntryPages
    <3>3. t \in Listed(entries) /\ u \in Listed(entries)
      BY <2>1, <2>2, <3>1, Numbers DEF Listed, Pages
    <3>4. entries[u] # entries[t]
      BY <3>1, <3>3, InvNoSharedPages DEF NoSharedPages, DistinctPages, Safe
    <3>5. page'[entries[u]] = page[entries[u]]
      BY <1>1, <2>1, <3>2, <3>4
    <3> QED BY <2>1, <2>2, <3>1, <3>5 DEF AllReadable, Readable
  <2> QED BY <2>1, <2>2 DEF AllReadable, Readable, SnapshotReadable
<1>4. ASSUME NEW t \in Tables, InsertRow(t) PROVE AllReadable'
  <2>1. /\ isOpen /\ restored = 0 /\ page' = [page EXCEPT ![entries[t]] = Junk]
        /\ UNCHANGED <<isOpen, entries, snapshot, restored>>
    BY <1>4 DEF InsertRow, memVars, Ready
  <2>2. ASSUME NEW u \in Tables, entries[u] # 0 PROVE page'[entries[u]] \in {0, Junk}
    <3>1. entries[u] \in Pages
      BY <1>1, <2>2, EntryPages
    <3> QED BY <1>1, <2>1, <2>2, <3>1 DEF AllReadable, Readable
  <2> QED BY <2>1, <2>2 DEF AllReadable, Readable, SnapshotReadable
<1>5. CASE FlushCatalog
  <2>1. /\ isOpen /\ restored = 0 /\ UNCHANGED <<isOpen, page, entries, snapshot, restored>>
    BY <1>5 DEF FlushCatalog, Bookkeeping
  <2> QED BY <2>1 DEF AllReadable, Readable, SnapshotReadable
<1>6. CASE BeginTx
  <2>0. restored = 0 /\ restored' = 0
    BY <1>6 DEF BeginTx, Bookkeeping
  <2>1. /\ isOpen /\ ~flushDue /\ UNCHANGED <<isOpen, page, entries>>
        /\ snapshot'.page = page /\ snapshot'.cat = hdrCat
        /\ snapshot'.written = hdrWritten /\ snapshot'.count = pageCount
    BY <1>6 DEF BeginTx, diskVars
  <2>2. hdrWritten => hdrCat = entries
    BY <2>0, <2>1 DEF Bookkeeping
  <2>3. \A t \in Tables : entries[t] < pageCount
    BY <2>1, FreshPage
  <2> QED BY <2>0, <2>1, <2>2, <2>3 DEF AllReadable, Readable, SnapshotReadable
<1>7. CASE CommitTx
  <2>1. isOpen /\ restored = 0 /\ UNCHANGED <<isOpen, page, entries, restored>> /\ ~InTx'
    BY <1>7 DEF CommitTx, Leaving, diskVars, NoSnapshot
  <2> QED BY <2>1 DEF AllReadable, Readable, SnapshotReadable
<1>8. CASE RollbackTx
  <2>1. ~txDropped
    BY <1>8 DEF RollbackTx, Safe, Avoided
  <2>2. /\ isOpen /\ isOpen' /\ InTx /\ restored = 0 /\ restored' # 0
        /\ hdrCat' = snapshot.cat /\ hdrWritten' = snapshot.written
        /\ UNCHANGED <<page, entries, snapshot>>
    BY <1>8 DEF RollbackTx, Leaving
  <2>3. ASSUME NEW u \in Tables, DiskCat'[u] # 0 PROVE page[DiskCat'[u]] \in {0, Junk}
    <3>1. snapshot.written /\ DiskCat' = snapshot.cat
      BY <2>2, <2>3 DEF DiskCat, NoTable
    <3>2. entries[u] = snapshot.cat[u]
      BY <2>1, <2>2, <2>3, <3>1 DEF Grown
    <3> QED BY <2>2, <2>3, <3>1, <3>2 DEF AllReadable, Readable
  <2> QED BY <2>2, <2>3 DEF AllReadable, Readable, SnapshotReadable
<1>13. CASE RestorePage
  <2>1. /\ restored \in Pages /\ restored' # 0
        /\ page' = [page EXCEPT ![restored] = snapshot.page[restored]]
        /\ UNCHANGED <<hdrCat, hdrWritten, snapshot>>
    BY <1>13, Numbers DEF RestorePage, Pages
  <2>2. /\ restored # 0 /\ InTx /\ DiskCat' = DiskCat
        /\ hdrCat = snapshot.cat /\ hdrWritten = snapshot.written
    BY <2>1, Numbers DEF Bookkeeping, DiskCat, Pages
  <2>3. ASSUME NEW u \in Tables, DiskCat[u] # 0 PROVE page'[DiskCat[u]] \in {0, Junk}
    <3>1. snapshot.written /\ DiskCat = snapshot.cat
      BY <2>2, <2>3 DEF DiskCat, NoTable
    <3>2. page[snapshot.cat[u]] \in {0, Junk} /\ snapshot.page[snapshot.cat[u]] \in {0, Junk}
      BY <2>2, <2>3, <3>1 DEF AllReadable, Readable, SnapshotReadable
    <3> QED BY <1>1, <2>1, <3>1, <3>2
  <2> QED BY <2>1, <2>2, <2>3 DEF AllReadable, Readable, SnapshotReadable
<1>14. CASE RolledBack
  <2>1. /\ restored # 0 /\ restored' = 0 /\ ~InTx'
        /\ entries' = IF hdrWritten THEN hdrCat ELSE entries
        /\ UNCHANGED <<page, hdrCat, hdrWritten, isOpen>>
    BY <1>14 DEF RolledBack, LoadCatalog, NoSnapshot, diskVars
  <2>2. isOpen
    BY <2>1 DEF Bookkeeping
  <2>3. CASE hdrWritten
    <3>1. entries' = DiskCat
      BY <2>1, <2>3 DEF DiskCat
    <3> QED BY <2>1, <2>2, <3>1 DEF AllReadable, Readable, SnapshotReadable
  <2>4. CASE ~hdrWritten
    <3>1. Counts(page) /\ entries' = entries
      BY <2>1, <2>4 DEF Unlinked
    <3>2. ASSUME NEW u \in Tables, entries[u] # 0 PROVE page[entries[u]] \in {0, Junk}
      BY <1>1, <3>1, <3>2, EntryPages DEF Counts
    <3> QED BY <2>1, <2>2, <3>1, <3>2 DEF AllReadable, Readable, SnapshotReadable
  <2> QED BY <2>3, <2>4
<1>9. CASE Close
  <2>1. /\ isOpen /\ ~isOpen' /\ ~flushDue /\ ~InTx' /\ restored = 0
        /\ UNCHANGED <<page, hdrCat, hdrWritten>>
    BY <1>9 DEF Close, Forget, NoSnapshot, Bookkeeping
  <2>2. DiskCat' = DiskCat /\ (DiskCat = entries \/ DiskCat = NoTable)
    BY <2>1 DEF DiskCat, Bookkeeping
  <2>3. Readable(page, DiskCat)
    BY <2>1, <2>2 DEF AllReadable, Readable, NoTable
  <2> QED BY <2>1, <2>2, <2>3 DEF AllReadable, Readable, SnapshotReadable
<1>10. CASE Crash
  <2>1. isOpen /\ ~isOpen' /\ ~InTx' /\ UNCHANGED <<page, hdrCat, hdrWritten>>
    BY <1>10 DEF Crash, Forget, NoSnapshot, diskVars
  <2>2. DiskCat' = DiskCat
    BY <2>1 DEF DiskCat
  <2>3. restored = 0 => \A t \in Tables : DiskCat[t] # 0 => entries[t] = DiskCat[t]
    BY <1>10, CrashAgrees
  <2>4. Readable(page, DiskCat)
    BY <2>1, <2>3 DEF AllReadable, Readable
  <2> QED BY <2>1, <2>2, <2>4 DEF AllReadable, Readable, SnapshotReadable
<1>11. CASE Open
  <2>1. /\ ~isOpen /\ isOpen' /\ restored' = 0 /\ UNCHANGED <<page, snapshot>>
        /\ entries' = DiskCat
    BY <1>11 DEF Open, diskVars, LoadCatalog, DiskCat, Bookkeeping
  <2> QED BY <2>1 DEF AllReadable, Readable, SnapshotReadable
<1>12. CASE UNCHANGED vars
  <2>1. UNCHANGED <<isOpen, page, entries, snapshot, hdrCat, hdrWritten, restored>>
    BY <1>12 DEF vars, diskVars, memVars
  <2> QED BY <2>1 DEF AllReadable, Readable, SnapshotReadable, DiskCat
<1> QED BY <1>2, <1>3, <1>4, <1>5, <1>6, <1>7, <1>8, <1>9, <1>10, <1>11, <1>12, <1>13, <1>14
        DEF Next

LEMMA NextReadInv ==
    ASSUME ReadInv, [Next]_vars
    PROVE  ReadInv'
<1>1. Inv' /\ Agree' /\ Grown'
  BY NextInv, NextAgree DEF ReadInv, Inv
<1>2. Safe' => Safe /\ Unlinked'
  BY MishapsGrow, NextUnlinked DEF ReadInv, Inv, Safe, Avoided
<1>3. Safe' /\ "torn_drop" \notin mishaps' => AllReadable'
  BY <1>2, MishapsGrow, NextReadable DEF ReadInv
<1> QED BY <1>1, <1>2, <1>3 DEF ReadInv

\* Every listed table has a row count, never a link of the free list, where its
\* row count belongs, after any interleaving of statements, transactions and
\* kills that meets none of the three windows (storage.py, free_page; catalog.py,
\* drop_table; database.py, _restore_pages).
THEOREM TablesStayReadable == Spec => []TablesReadable
<1>1. Init => ReadInv
  BY InitRows DEF RowsInv
<1>2. ReadInv /\ [Next]_vars => ReadInv'
  BY NextReadInv
<1>3. ReadInv => TablesReadable
  BY DEF ReadInv, Safe, Avoided, TablesReadable, AllReadable, Readable, CountsOnly, Listed
<1> QED BY <1>1, <1>2, <1>3, PTL DEF Spec

LEMMA NextRows ==
    ASSUME RowsInv, RowsHeld, AllReadable, Safe, CacheOnDisk, [Next]_vars, Avoided(Mishaps)'
    PROVE  RowsHeld'
<1> USE DEF RowsInv, ReadInv, Inv
<1>1. /\ page \in [Pages -> PageRef] /\ entries \in Catalogs /\ hdrCat \in Catalogs
      /\ filled \in SUBSET Tables /\ snapshot.filled \in SUBSET Tables
      /\ snapshot.cat \in Catalogs
  BY DEF TypeOK
<1>2. ASSUME NEW t \in Tables, CreateTable(t) PROVE RowsHeld'
  <2>1. PICK p \in Pages : AllocPage(p) /\ entries' = [entries EXCEPT ![t] = p]
    BY <1>2 DEF CreateTable
  <2>2. /\ isOpen /\ isOpen' /\ ~flushDue /\ entries[t] = 0 /\ restored = 0
        /\ UNCHANGED <<snapshot, restored, filled, hdrCat, hdrWritten>>
    BY <1>2 DEF CreateTable, Ready
  <2>3. DiskCat' = DiskCat /\ DiskCat = entries
    BY <2>2 DEF DiskCat, CacheOnDisk
  <2>4. t \notin filled
    BY <2>2, <2>3 DEF RowsHeld
  <2>5. ASSUME NEW u \in Tables, entries'[u] # 0 PROVE u \in filled <=> page'[entries'[u]] = Junk
    <3>1. CASE u = t
      <4>1. page'[entries'[u]] = 0
        BY <1>1, <2>1, <3>1, AllocPages DEF Catalogs
      <4> QED BY <2>4, <3>1, <4>1, Numbers DEF Junk
    <3>2. CASE u # t
      <4>1. entries'[u] = entries[u] /\ entries[u] \in Pages
        BY <1>1, <2>1, <2>5, <3>2, EntryPages DEF Catalogs
      <4>2. entries[u] # p
        BY <2>1, <2>2, FreshPage
      <4>3. page'[entries[u]] = page[entries[u]]
        BY <2>1, <4>1, <4>2, AllocPages
      <4> QED BY <2>2, <2>5, <4>1, <4>3 DEF RowsHeld, Holds
    <3> QED BY <3>1, <3>2
  <2> QED BY <2>2, <2>3, <2>5 DEF RowsHeld, Holds
<1>3. ASSUME NEW t \in Tables, DropTable(t) PROVE RowsHeld'
  <2>1. /\ isOpen /\ isOpen' /\ restored = 0 /\ entries[t] \in Pages
        /\ page' = [page EXCEPT ![entries[t]] = freeHead]
        /\ entries' = [entries EXCEPT ![t] = 0]
        /\ UNCHANGED <<snapshot, restored, filled, hdrCat, hdrWritten>>
    BY <1>3 DEF DropTable, Ready, FreePage
  <2>2. DiskCat' = DiskCat
    BY <2>1 DEF DiskCat
  <2>3. ASSUME NEW u \in Tables, entries'[u] # 0 PROVE u \in filled <=> page'[entries'[u]] = Junk
    <3>1. u # t /\ entries'[u] = entries[u]
      BY <1>1, <2>1, <2>3 DEF Catalogs
    <3>2. entries[u] \in Pages
      BY <1>1, <2>3, <3>1, EntryPages
    <3>3. t \in Listed(entries) /\ u \in Listed(entries)
      BY <2>1, <2>3, <3>1, Numbers DEF Listed, Pages
    <3>4. entries[u] # entries[t]
      BY <3>1, <3>3, InvNoSharedPages DEF NoSharedPages, DistinctPages, Safe
    <3>5. page'[entries[u]] = page[entries[u]]
      BY <1>1, <2>1, <3>2, <3>4
    <3> QED BY <2>1, <2>3, <3>1, <3>5 DEF RowsHeld, Holds
  <2> QED BY <2>1, <2>2, <2>3 DEF RowsHeld, Holds
<1>4. ASSUME NEW t \in Tables, InsertRow(t) PROVE RowsHeld'
  <2>1. /\ isOpen /\ ~flushDue /\ restored = 0 /\ entries[t] \in Pages
        /\ filled' = filled \cup {t}
        /\ page' = [page EXCEPT ![entries[t]] = Junk]
        /\ UNCHANGED <<isOpen, entries, snapshot, restored, hdrCat, hdrWritten>>
    BY <1>4 DEF InsertRow, memVars, Ready
  <2>2. DiskCat' = DiskCat /\ DiskCat = entries /\ entries[t] # 0
    BY <2>1, Numbers DEF DiskCat, CacheOnDisk, Pages
  <2>3. ASSUME NEW u \in Tables, entries[u] # 0 PROVE u \in filled' <=> page'[entries[u]] = Junk
    <3>1. CASE u = t
      BY <1>1, <2>1, <3>1
    <3>2. CASE u # t
      <4>1. entries[u] \in Pages
        BY <1>1, <2>3, EntryPages
      <4>2. t \in Listed(entries) /\ u \in Listed(entries)
        BY <2>2, <2>3 DEF Listed
      <4>3. entries[u] # entries[t]
        BY <3>2, <4>2, InvNoSharedPages DEF NoSharedPages, DistinctPages, Safe
      <4>4. page'[entries[u]] = page[entries[u]]
        BY <1>1, <2>1, <4>1, <4>3
      <4> QED BY <2>1, <2>3, <3>2, <4>4 DEF RowsHeld, Holds
    <3> QED BY <3>1, <3>2
  <2> QED BY <2>1, <2>2, <2>3 DEF RowsHeld, Holds
<1>5. CASE FlushCatalog
  <2>1. /\ isOpen /\ restored = 0 /\ UNCHANGED <<isOpen, page, entries, snapshot, restored>>
        /\ filled' = filled \cap Listed(entries) /\ hdrCat' = entries /\ hdrWritten'
    BY <1>5 DEF FlushCatalog, Bookkeeping
  <2>2. DiskCat' = entries
    BY <2>1 DEF DiskCat
  <2> QED BY <2>1, <2>2 DEF RowsHeld, Holds, Listed
<1>6. CASE BeginTx
  <2>1. /\ isOpen /\ ~flushDue /\ UNCHANGED <<isOpen, page, entries, filled, hdrCat, hdrWritten>>
        /\ snapshot'.page = page /\ snapshot'.cat = hdrCat
        /\ snapshot'.written = hdrWritten /\ snapshot'.filled = filled
    BY <1>6 DEF BeginTx, diskVars
  <2>2. restored = 0 /\ restored' = 0
    BY <1>6 DEF BeginTx, Bookkeeping
  <2>3. DiskCat' = DiskCat /\ DiskCat = entries
    BY <2>1, <2>2 DEF DiskCat, CacheOnDisk
  <2>4. \A t \in filled : hdrWritten /\ hdrCat[t] # 0
    BY <1>1, <2>2 DEF RowsHeld, DiskCat, NoTable
  <2>5. hdrWritten => Holds(page, hdrCat, filled)
    BY <2>1, <2>2, <2>3 DEF RowsHeld, DiskCat
  <2> QED BY <2>1, <2>2, <2>3, <2>4, <2>5 DEF RowsHeld, Holds
<1>7. CASE CommitTx
  <2>1. /\ isOpen /\ ~InTx' /\ restored = 0
        /\ UNCHANGED <<isOpen, page, entries, restored, filled, hdrCat, hdrWritten>>
    BY <1>7 DEF CommitTx, Leaving, diskVars, history, NoSnapshot
  <2> QED BY <2>1 DEF RowsHeld, Holds, DiskCat
<1>8. CASE RollbackTx
  <2>1. isOpen /\ isOpen' /\ InTx /\ restored' # 0 /\ UNCHANGED snapshot
    BY <1>8 DEF RollbackTx, Leaving
  <2> QED BY <2>1 DEF RowsHeld, Holds
<1>13. CASE RestorePage
  <2>1. restored # 0 /\ restored' # 0 /\ UNCHANGED <<isOpen, snapshot>>
    BY <1>13, Numbers DEF RestorePage, Pages
  <2>2. isOpen /\ InTx
    BY <2>1 DEF Bookkeeping
  <2> QED BY <2>1, <2>2 DEF RowsHeld, Holds
<1>14. CASE RolledBack
  <2>1. /\ restored # 0 /\ restored = snapshot.count /\ restored' = 0 /\ ~InTx'
        /\ entries' = IF hdrWritten THEN hdrCat ELSE entries
        /\ filled' = snapshot.filled
        /\ UNCHANGED <<page, hdrCat, hdrWritten, isOpen>>
    BY <1>14 DEF RolledBack, LoadCatalog, NoSnapshot, diskVars
  <2>2. /\ isOpen /\ InTx /\ hdrCat = snapshot.cat /\ hdrWritten = snapshot.written
        /\ \A p \in Pages : p < snapshot.count => page[p] = snapshot.page[p]
    BY <2>1 DEF Bookkeeping
  <2>3. DiskCat' = DiskCat
    BY <2>1 DEF DiskCat
  <2>4. \A t \in filled' : DiskCat[t] # 0
    BY <2>1, <2>2 DEF RowsHeld, DiskCat
  <2>5. Holds(page, entries', filled')
    <3>1. CASE hdrWritten
      <4>1. ASSUME NEW t \in Tables, snapshot.cat[t] # 0
            PROVE  t \in snapshot.filled <=> page[snapshot.cat[t]] = Junk
        <5>1. snapshot.cat[t] \in Pages
          BY <1>1, <4>1, EntryPages
        <5>2. snapshot.cat[t] < snapshot.count
          BY <2>2, <3>1 DEF AllReadable, SnapshotReadable
        <5> QED BY <2>2, <3>1, <4>1, <5>1, <5>2 DEF RowsHeld, Holds
      <4> QED BY <2>1, <2>2, <3>1, <4>1 DEF Holds
    <3>2. CASE ~hdrWritten
      <4>1. entries = NoTable
        BY <1>14, <3>2 DEF RolledBack, Avoided, Mishaps
      <4> QED BY <2>1, <3>2, <4>1 DEF Holds, NoTable
    <3> QED BY <3>1, <3>2
  <2> QED BY <2>1, <2>2, <2>3, <2>4, <2>5 DEF RowsHeld, Holds
<1>9. CASE Close
  <2>1. /\ isOpen /\ ~isOpen' /\ ~flushDue /\ ~InTx' /\ restored = 0
        /\ UNCHANGED <<page, hdrCat, hdrWritten, filled>>
    BY <1>9 DEF Close, Forget, NoSnapshot, history, Bookkeeping
  <2>2. DiskCat' = DiskCat /\ DiskCat = entries
    BY <2>1 DEF DiskCat, CacheOnDisk
  <2> QED BY <2>1, <2>2 DEF RowsHeld, Holds
<1>10. CASE Crash
  <2>1. isOpen /\ ~isOpen' /\ ~InTx' /\ UNCHANGED <<page, hdrCat, hdrWritten>>
    BY <1>10 DEF Crash, Forget, NoSnapshot, diskVars
  <2>2. DiskCat' = DiskCat
    BY <2>1 DEF DiskCat
  <2>3. "torn_drop" \notin mishaps' /\ "half_done" \notin mishaps'
    BY DEF Avoided, Mishaps
  <2>4. CASE ~InTx
    <3>1. filled' = filled /\ restored = 0
      BY <1>10, <2>4 DEF Crash, Bookkeeping
    <3>2. \A t \in Tables : DiskCat[t] # 0 => entries[t] = DiskCat[t]
      BY <1>10, <2>3, <3>1, CrashAgrees
    <3> QED BY <2>1, <2>2, <3>1, <3>2 DEF RowsHeld, Holds
  <2>5. CASE InTx
    <3>1. filled' = snapshot.filled /\ ~Unfinished
      BY <1>10, <2>3, <2>5 DEF Crash
    <3>2. /\ hdrCat = snapshot.cat /\ hdrWritten = snapshot.written
          /\ \A p \in Pages : p < snapshot.count => page[p] = snapshot.page[p]
      BY <3>1 DEF Unfinished
    <3>3. \A t \in filled' : DiskCat[t] # 0
      BY <2>5, <3>1, <3>2 DEF RowsHeld, DiskCat
    <3>4. ASSUME NEW t \in Tables, DiskCat[t] # 0
          PROVE  t \in filled' <=> page[DiskCat[t]] = Junk
      <4>1. snapshot.written /\ DiskCat = snapshot.cat
        BY <3>2, <3>4 DEF DiskCat, NoTable
      <4>2. snapshot.cat[t] \in Pages
        BY <1>1, <3>4, <4>1, EntryPages
      <4>3. snapshot.cat[t] < snapshot.count
        BY <2>5, <4>1 DEF AllReadable, SnapshotReadable
      <4> QED BY <2>5, <3>1, <3>2, <3>4, <4>1, <4>2, <4>3 DEF RowsHeld, Holds
    <3> QED BY <2>1, <2>2, <3>3, <3>4 DEF RowsHeld, Holds
  <2> QED BY <2>4, <2>5
<1>11. CASE Open
  <2>1. /\ ~isOpen /\ isOpen' /\ UNCHANGED <<page, snapshot, restored, filled, hdrCat, hdrWritten>>
        /\ entries' = DiskCat /\ ~InTx /\ restored = 0
    BY <1>11 DEF Open, diskVars, LoadCatalog, DiskCat, Bookkeeping
  <2> QED BY <2>1 DEF RowsHeld, Holds, DiskCat
<1>12. CASE UNCHANGED vars
  <2>1. UNCHANGED <<isOpen, page, entries, snapshot, restored, hdrCat, hdrWritten, filled>>
    BY <1>12 DEF vars, diskVars, memVars, history
  <2> QED BY <2>1 DEF RowsHeld, Holds, DiskCat
<1> QED BY <1>2, <1>3, <1>4, <1>5, <1>6, <1>7, <1>8, <1>9, <1>10, <1>11, <1>12, <1>13, <1>14
        DEF Next

LEMMA NextRowsInv ==
    ASSUME RowsInv, [Next]_vars
    PROVE  RowsInv'
<1>1. ReadInv'
  BY NextReadInv DEF RowsInv
<1>2. CacheCoherent'
  BY NextCoherent DEF RowsInv, ReadInv, Inv, CoherentInv
<1>3. ASSUME Avoided(Mishaps)' PROVE RowsHeld'
  <2>1. Avoided(Mishaps)
    BY <1>3, MishapsGrow DEF Avoided
  <2>2. Safe /\ "torn_drop" \notin mishaps /\ Avoided({"ghost"})
    BY <2>1 DEF Avoided, Mishaps, Safe
  <2>3. RowsHeld /\ AllReadable /\ CacheOnDisk
    BY <2>1, <2>2 DEF RowsInv, ReadInv, CacheCoherent
  <2> QED BY <1>3, <2>2, <2>3, NextRows
<1> QED BY <1>1, <1>2, <1>3 DEF RowsInv

\* A table holds rows exactly if committed statements left some there: INSERTed
\* rows stay in the page of a listed table until a DROP or a rollback, and a
\* rollback leaves none of its transaction's, for any workload and any number of
\* kills that meet none of the windows, a kill between the writes of an
\* unfinished transaction() among them (catalog.py, _flush and _load;
\* database.py, transaction and _restore_pages).
THEOREM RowsStay == Spec => []RowsKept
<1>1. Init => RowsInv
  BY InitRows
<1>2. RowsInv /\ [Next]_vars => RowsInv'
  BY NextRowsInv
<1>3. RowsInv => RowsKept
  <2>1. SUFFICES ASSUME RowsInv, isOpen, ~flushDue, restored = 0, Avoided(Mishaps)
                 PROVE  filled = {t \in Listed(entries) : page[entries[t]] = Junk}
    BY DEF RowsKept, ExactRows
  <2>2. RowsHeld /\ CacheOnDisk /\ filled \in SUBSET Tables
    BY <2>1 DEF RowsInv, ReadInv, Inv, CacheCoherent, Avoided, Mishaps, TypeOK
  <2>3. DiskCat = entries
    BY <2>1, <2>2 DEF CacheOnDisk, DiskCat
  <2> QED BY <2>1, <2>2, <2>3 DEF RowsHeld, Holds, Listed
<1> QED BY <1>1, <1>2, <1>3, PTL DEF Spec
==============================================================================
