------------------------------ MODULE PageStore ------------------------------
(***************************************************************************)
(* The database file of one connection: FileStore's page allocator with    *)
(* its LIFO free list (tinydb/storage.py), the table catalog kept in page  *)
(* 0 (tinydb/executor/catalog.py), and the lifecycle and the snapshot      *)
(* transaction of Database (tinydb/database.py).                           *)
(*                                                                         *)
(* `disk` variables survive a killed process (writes go to the kernel at   *)
(* once; power loss is not modelled), `mem` variables do not.  A page is   *)
(* abstracted to its first four bytes read as an integer, which is all     *)
(* that alloc_page looks at: 0 for an empty table or the last free page,   *)
(* the next free page for the others, and Junk for a table page that has   *)
(* ever held a row (a nonzero row count, so a page number far outside the  *)
(* file).                                                                  *)
(***************************************************************************)
EXTENDS Integers

CONSTANTS Tables,        \* table names
          MaxPages,      \* bound: table pages the file may grow to
          MaxCrashes,    \* bound: how often the process is killed
          Statements,    \* kinds of statement in use
          TxStatements   \* kinds of statement used inside transaction()

Kinds == {"create", "drop", "insert"}

ASSUME MaxPagesAssumption == MaxPages \in Nat
ASSUME MaxCrashesAssumption == MaxCrashes \in Nat
ASSUME KindsAssumption == Statements \subseteq Kinds /\ TxStatements \subseteq Kinds

Pages == 1..MaxPages
Junk == MaxPages + 1
PageRef == 0..Junk
NoTable == [t \in Tables |-> 0]

VARIABLES
    \* disk
    page,        \* page[p]: the first four bytes of table page p
    fileSize,    \* pages in the file, header included
    hdrFree,     \* free_head as recorded in page 0
    hdrCat,      \* catalog as recorded in page 0; 0: table not listed
    hdrWritten,  \* page 0 has a catalog at all (cat_len # 0)
    \* mem
    isOpen,
    freeHead,    \* FileStore._free_head
    pageCount,   \* FileStore.page_count
    entries,     \* Catalog._entries: name -> root page, 0: not listed
    flushDue,    \* a DDL statement has yet to call Catalog._flush
    snapshot,    \* the snapshot of transaction(), or NoSnapshot
    restored,    \* a rollback has written back the pages below; 0: none under way
    \* history
    filled,      \* tables that hold rows: those of the committed statements and, in
                 \* a transaction, of its statements so far
    reused,      \* a page was taken from the free list since the file was opened
    txDropped,   \* the transaction under way has dropped a table
    mishaps,     \* the windows of Mishaps that have been hit
    crashes

diskVars == <<page, fileSize, hdrFree, hdrCat, hdrWritten>>
memVars == <<isOpen, freeHead, pageCount, entries, flushDue, snapshot, restored>>
history == <<filled, reused, txDropped, mishaps, crashes>>
vars == <<diskVars, memVars, history>>

\* The moments at which a kill or a rollback leaves the file inconsistent.
\*   stale_head: killed after a page was taken from the free list, whose head
\*               is recorded by close only
\*   torn_drop:  killed after DROP TABLE freed the page, before the catalog
\*               stopped naming it
\*   half_done:  killed inside a transaction whose writes are in the file, by
\*               then or still, and which nothing undoes at the next open
\*   undropped:  rollback of a DROP TABLE, whose page stays on the free list
\*   ghost:      rollback to a page 0 without a catalog, which _load ignores
Mishaps == {"stale_head", "torn_drop", "half_done", "undropped", "ghost"}

InTx == snapshot.active

NoSnapshot ==
    [active |-> FALSE, page |-> [p \in Pages |-> 0], count |-> 1,
     free |-> 0, cat |-> NoTable, written |-> FALSE, filled |-> {}]

Listed(cat) == {t \in Tables : cat[t] # 0}

-----------------------------------------------------------------------------
\* A database file just created by FileStore.open: a header page only.
Init ==
    /\ page = [p \in Pages |-> 0]
    /\ fileSize = 1
    /\ hdrFree = 0
    /\ hdrCat = NoTable
    /\ hdrWritten = FALSE
    /\ isOpen = TRUE
    /\ freeHead = 0
    /\ pageCount = 1
    /\ entries = NoTable
    /\ flushDue = FALSE
    /\ snapshot = NoSnapshot
    /\ restored = 0
    /\ filled = {}
    /\ reused = FALSE
    /\ txDropped = FALSE
    /\ mishaps = {}
    /\ crashes = 0

\* The connection can run a statement of this kind: statements run one at a
\* time, to their end or to the crash.
Ready(kind) ==
    /\ isOpen
    /\ ~flushDue
    /\ restored = 0
    /\ kind \in IF InTx THEN TxStatements ELSE Statements

\* Reuse the head of the free list.  With a head outside the file the read
\* returns no bytes, unpacking them raises, and nothing has changed.
ReuseFreePage(p) ==
    /\ freeHead = p
    /\ freeHead \in Pages
    /\ freeHead' = page[p]
    /\ page' = [page EXCEPT ![p] = 0]
    /\ reused' = TRUE
    /\ UNCHANGED <<pageCount, fileSize>>

\* Mutant of ExtendFile: page_count is not advanced.
ExtendFileUncounted(p) ==
    /\ freeHead = 0
    /\ p = pageCount
    /\ fileSize' = IF p >= fileSize THEN p + 1 ELSE fileSize
    /\ page' = [page EXCEPT ![p] = 0]
    /\ UNCHANGED <<freeHead, pageCount, reused>>

ExtendFile(p) ==
    /\ freeHead = 0
    /\ p = pageCount
    /\ pageCount' = pageCount + 1
    /\ fileSize' = IF p >= fileSize THEN p + 1 ELSE fileSize
    /\ page' = [page EXCEPT ![p] = 0]
    /\ UNCHANGED <<freeHead, reused>>

AllocPage(p) == ReuseFreePage(p) \/ ExtendFile(p)

\* Catalog.create_table up to the flush: page, then cache entry.
CreateTable(t) ==
    /\ Ready("create")
    /\ entries[t] = 0
    /\ \E p \in Pages :
          /\ AllocPage(p)
          /\ entries' = [entries EXCEPT ![t] = p]
    /\ flushDue' = TRUE
    /\ UNCHANGED <<hdrFree, hdrCat, hdrWritten, isOpen, snapshot, restored, filled,
                   txDropped, mishaps, crashes>>

\* free_page: link the page in front of the list.
FreePage(p) ==
    /\ page' = [page EXCEPT ![p] = freeHead]
    /\ freeHead' = p

\* Mutant of DropTable: the entry is read, not popped.
DropTableListed(t) ==
    /\ Ready("drop")
    /\ entries[t] \in Pages
    /\ FreePage(entries[t])
    /\ flushDue' = TRUE
    /\ txDropped' = InTx
    /\ UNCHANGED <<fileSize, hdrFree, hdrCat, hdrWritten, isOpen, pageCount, entries,
                   snapshot, restored, filled, reused, mishaps, crashes>>

\* Catalog.drop_table up to the flush: cache entry, then page.  DROP TABLE
\* with several names is several of these, and stops at the first unknown one.
DropTable(t) ==
    /\ Ready("drop")
    /\ entries[t] \in Pages
    /\ FreePage(entries[t])
    /\ entries' = [entries EXCEPT ![t] = 0]
    /\ flushDue' = TRUE
    /\ txDropped' = InTx
    /\ UNCHANGED <<fileSize, hdrFree, hdrCat, hdrWritten, isOpen, pageCount,
                   snapshot, restored, filled, reused, mishaps, crashes>>

\* Catalog._flush: rewrite the catalog in page 0, keeping its free_head bytes.
FlushCatalog ==
    /\ isOpen
    /\ flushDue
    /\ hdrCat' = entries
    /\ hdrWritten' = TRUE
    /\ flushDue' = FALSE
    /\ filled' = filled \cap Listed(entries)
    /\ UNCHANGED <<page, fileSize, hdrFree, isOpen, freeHead, pageCount, entries,
                   snapshot, restored, reused, txDropped, mishaps, crashes>>

\* Heap.append on the table's root page: the row count becomes nonzero.
InsertRow(t) ==
    /\ Ready("insert")
    /\ entries[t] \in Pages
    /\ page' = [page EXCEPT ![entries[t]] = Junk]
    /\ filled' = filled \cup {t}
    /\ UNCHANGED <<fileSize, hdrFree, hdrCat, hdrWritten, memVars, reused, txDropped,
                   mishaps, crashes>>

-----------------------------------------------------------------------------
(* Database.transaction()                                                  *)

BeginTx ==
    /\ isOpen
    /\ ~flushDue
    /\ ~InTx
    /\ TxStatements # {}
    /\ snapshot' = [active |-> TRUE, page |-> page, count |-> pageCount,
                    free |-> hdrFree, cat |-> hdrCat, written |-> hdrWritten,
                    filled |-> filled]
    /\ txDropped' = FALSE
    /\ UNCHANGED <<diskVars, isOpen, freeHead, pageCount, entries, flushDue, restored,
                   filled, reused, mishaps, crashes>>

\* The body of the with statement is over, without an exception or with one.
Leaving ==
    /\ isOpen
    /\ ~flushDue
    /\ InTx
    /\ restored = 0

\* Mutant of CommitTx: the pages are restored in `finally`.
CommitTxRestoring ==
    /\ Leaving
    /\ page' = [p \in Pages |-> IF p < snapshot.count THEN snapshot.page[p] ELSE page[p]]
    /\ snapshot' = NoSnapshot
    /\ UNCHANGED <<fileSize, hdrFree, hdrCat, hdrWritten, isOpen, freeHead, pageCount,
                   entries, flushDue, restored, history>>

CommitTx ==
    /\ Leaving
    /\ snapshot' = NoSnapshot
    /\ UNCHANGED <<diskVars, isOpen, freeHead, pageCount, entries, flushDue, restored,
                   history>>

\* _restore_pages writes the bodies of the snapshot back one by one, page 0,
\* with the catalog, before the others.
RollbackTx ==
    /\ Leaving
    /\ hdrFree' = snapshot.free
    /\ hdrCat' = snapshot.cat
    /\ hdrWritten' = snapshot.written
    /\ restored' = 1
    /\ mishaps' = mishaps \cup {m \in {"undropped"} : txDropped}
    /\ UNCHANGED <<page, fileSize, isOpen, freeHead, pageCount, entries, flushDue, snapshot,
                   filled, reused, txDropped, crashes>>

RestorePage ==
    /\ restored \in Pages
    /\ restored < snapshot.count
    /\ page' = [page EXCEPT ![restored] = snapshot.page[restored]]
    /\ restored' = restored + 1
    /\ UNCHANGED <<fileSize, hdrFree, hdrCat, hdrWritten, isOpen, freeHead, pageCount,
                   entries, flushDue, snapshot, history>>

\* Mutant of LoadCatalog: the catalog in page 0 is never read.
LoadCatalogNever(cat, written) == entries

\* Catalog._load: a page 0 without a catalog leaves the cache as it is.
LoadCatalog(cat, written) == IF written THEN cat ELSE entries

\* The rollback ends with Catalog._load; _free_head and page_count stay.
RolledBack ==
    /\ restored # 0
    /\ restored = snapshot.count
    /\ entries' = LoadCatalog(hdrCat, hdrWritten)
    /\ snapshot' = NoSnapshot
    /\ restored' = 0
    /\ filled' = snapshot.filled
    /\ mishaps' = mishaps \cup {m \in {"ghost"} : ~hdrWritten /\ entries # NoTable}
    /\ UNCHANGED <<diskVars, isOpen, freeHead, pageCount, flushDue, reused, txDropped,
                   crashes>>

-----------------------------------------------------------------------------
(* Lifecycle                                                               *)

\* What a process that is not running remembers.
Forget ==
    /\ isOpen' = FALSE
    /\ freeHead' = 0
    /\ pageCount' = 1
    /\ entries' = NoTable
    /\ flushDue' = FALSE
    /\ snapshot' = NoSnapshot
    /\ restored' = 0

\* Database.close: FileStore.close writes _free_head into page 0.
Close ==
    /\ isOpen
    /\ ~flushDue
    /\ ~InTx
    /\ hdrFree' = freeHead
    /\ Forget
    /\ UNCHANGED <<page, fileSize, hdrCat, hdrWritten, history>>

\* A write of the transaction under way is in the file.
Unfinished ==
    \/ hdrCat # snapshot.cat
    \/ hdrWritten # snapshot.written
    \/ \E p \in Pages : p < snapshot.count /\ page[p] # snapshot.page[p]

\* The process is killed, possibly inside a DDL statement, a transaction or a
\* rollback.  What the transaction wrote was never committed.
Crash ==
    /\ isOpen
    /\ crashes < MaxCrashes
    /\ crashes' = crashes + 1
    /\ filled' = IF InTx THEN snapshot.filled ELSE filled
    /\ mishaps' = mishaps
          \cup {m \in {"stale_head"} : reused}
          \cup {m \in {"torn_drop"} :
                    restored = 0 /\ hdrWritten /\ \E t \in Listed(hdrCat) : entries[t] = 0}
          \cup {m \in {"half_done"} : InTx /\ Unfinished}
    /\ Forget
    /\ UNCHANGED <<diskVars, reused, txDropped>>

\* FileStore.open on an existing file, then Catalog.__init__ on an empty cache.
Open ==
    /\ ~isOpen
    /\ isOpen' = TRUE
    /\ freeHead' = hdrFree
    /\ pageCount' = fileSize
    /\ entries' = LoadCatalog(hdrCat, hdrWritten)
    /\ reused' = FALSE
    /\ UNCHANGED <<diskVars, flushDue, snapshot, restored, filled, txDropped, mishaps,
                   crashes>>

Next ==
    \/ \E t \in Tables : CreateTable(t) \/ DropTable(t) \/ InsertRow(t)
    \/ FlushCatalog
    \/ BeginTx \/ CommitTx \/ RollbackTx \/ RestorePage \/ RolledBack
    \/ Close \/ Crash \/ Open

Spec == Init /\ [][Next]_vars

-----------------------------------------------------------------------------
(* Properties                                                              *)

Catalogs == [Tables -> 0..MaxPages]

TypeOK ==
    /\ page \in [Pages -> PageRef]
    /\ fileSize \in 1..Junk
    /\ hdrFree \in PageRef
    /\ hdrCat \in Catalogs
    /\ hdrWritten \in BOOLEAN
    /\ isOpen \in BOOLEAN
    /\ freeHead \in PageRef
    /\ pageCount \in 1..Junk
    /\ entries \in Catalogs
    /\ flushDue \in BOOLEAN
    /\ snapshot \in [active : BOOLEAN, page : [Pages -> PageRef], count : 1..Junk,
                     free : PageRef, cat : Catalogs, written : BOOLEAN,
                     filled : SUBSET Tables]
    /\ restored \in 0..Junk
    /\ filled \in SUBSET Tables
    /\ reused \in BOOLEAN
    /\ txDropped \in BOOLEAN
    /\ mishaps \in SUBSET Mishaps
    /\ crashes \in 0..MaxCrashes

\* Neither a kill nor a rollback has met one of these windows.
Avoided(windows) == mishaps \cap windows = {}

\* No two tables have the same root page.
DistinctPages ==
    \A t, u \in Listed(entries) : t # u => entries[t] # entries[u]

\* Two tables never have the same root page: a page is handed out once, however
\* CREATE, DROP, rollback, kills, close and reopen are interleaved, unless a
\* kill found a stale free-list head or a DROP was rolled back.
NoSharedPages == Avoided({"stale_head", "undropped"}) => DistinctPages

\* c lists, in order, the pages reached from _free_head: no page twice, all of
\* them inside the file, none of them the page of a listed table.
FreeChain(n, c) ==
    /\ \A i, j \in 1..n : i # j => c[i] # c[j]
    /\ freeHead = IF n = 0 THEN 0 ELSE c[1]
    /\ \A i \in 1..n :
          /\ page[c[i]] = IF i = n THEN 0 ELSE c[i + 1]
          /\ c[i] < pageCount
          /\ \A t \in Tables : entries[t] # c[i]

\* The on-disk links form a proper list of free pages outside the same windows:
\* a kill may leak pages that were freed, never list one that is in use.
SoundFreeList ==
    isOpen /\ Avoided({"stale_head", "undropped"}) =>
       \E n \in 0..MaxPages : \E c \in [1..n -> Pages] : FreeChain(n, c)

\* No statement and no rollback is under way.
Quiet == isOpen /\ ~flushDue /\ restored = 0

\* The tables that hold rows are those the committed statements filled, and in a
\* transaction those its own statements filled.
ExactRows ==
    Quiet => filled = {t \in Listed(entries) : page[entries[t]] = Junk}

\* Rows survive, and only committed ones do: whatever statements, commits,
\* rollbacks, kills and reopenings came before, a table holds rows exactly if a
\* committed INSERT put some there that no committed DROP removed.  A kill inside
\* transaction() is one of the windows: CommittedOnly does not hold.
RowsKept == Avoided(Mishaps) => ExactRows

\* The same for kills inside transaction(), of which the specification says that
\* nothing of an uncommitted transaction is found after the next open.
CommittedOnly == Avoided(Mishaps \ {"half_done"}) => ExactRows

\* No listed table has a free-list link where its row count belongs.
CountsOnly ==
    isOpen /\ restored = 0 => \A t \in Listed(entries) : page[entries[t]] \in {0, Junk}

\* Every listed table can be read: the first bytes of its page are a row count
\* its INSERTs wrote, never a link of the free list, also after a kill between
\* two page writes of a rollback.  Only a kill inside DROP TABLE, or a page
\* shared with the free list, breaks this.
TablesReadable ==
    Avoided({"stale_head", "undropped", "torn_drop"}) => CountsOnly

\* Reading page 0 again would give the catalog in memory.
CacheOnDisk ==
    Quiet => entries = IF hdrWritten THEN hdrCat ELSE NoTable

\* Between statements the cached catalog is the one on disk, kills and all,
\* unless a rollback went back to a file that had no catalog yet.
CacheCoherent == Avoided({"ghost"}) => CacheOnDisk
==============================================================================
