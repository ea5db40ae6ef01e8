----------------------------- MODULE Connections -----------------------------
(***************************************************************************)
(* Several Database objects on one file, in threads of one process: how    *)
(* they are opened and closed (tinydb/database.py, FileLock of lock.py,    *)
(* FileStore.open and close), and what their statements do to each other.  *)
(* Every system call is one step.  A descriptor is the lowest free number  *)
(* of the process.  No statement takes the RWLock or the exclusive flock.  *)
(*                                                                         *)
(* Another process, the tool, uses FileLock.exclusive on the file.         *)
(*                                                                         *)
(* Not here: DROP TABLE, so the free list is empty; what the calls of a    *)
(* connection do once its descriptor is another file's (it then stops).    *)
(***************************************************************************)
EXTENDS Integers, FiniteSets

CONSTANTS Conns,
          Tables,       \* table names 1..n
          MaxRows,      \* bound: INSERT statements
          MaxPages,     \* bound: table pages
          MaxOpens      \* bound: how often a Database is constructed

ASSUME ConnAssumption ==
    MaxRows \in Nat /\ MaxPages \in Nat \ {0} /\ MaxOpens \in Nat /\ 1 \in Tables

VARIABLES
    rows,      \* rows[p]: the rows stored in page p
    fileSize,  \* pages in the file, header included
    catalog,   \* the catalog in page 0
    conn,      \* the Database objects
    fds,       \* fds[n]: what descriptor n is open for
    locks,     \* the descriptors that hold the shared flock
    tool,      \* whether the tool holds the exclusive flock
    opens, issued, \* bounds: constructions and INSERTs so far
    acked,     \* history: per table, the rows of the statements that have returned
    failed,    \* history: how often a replay or the closing of a store failed
    mishaps,   \* history: which of the windows below were hit
    together   \* history: a step was taken while another connection was not closed

file == <<rows, fileSize, catalog>>
history == <<acked, failed, mishaps, together>>
vars == <<file, conn, fds, locks, tool, opens, issued, history>>

Closed ==
    [at |-> "new", count |-> 0, entries |-> [t \in Tables |-> 0], lockFd |-> 0, storeFd |-> 0,
     table |-> 0, row |-> 0, body |-> {}, page0 |-> [t \in Tables |-> 0]]

Free == <<"free">>
MaxFds == 3 * MaxOpens + 3

\* A file that does not exist yet, or one with a table.
Init ==
    /\ \/ fileSize = 0 /\ catalog = [t \in Tables |-> 0]
       \/ fileSize = 2 /\ catalog = [t \in Tables |-> IF t = 1 THEN 1 ELSE 0]
    /\ rows = [p \in 1..MaxPages |-> {}]
    /\ conn = [c \in Conns |-> Closed]
    /\ fds = [n \in 1..MaxFds |-> Free]
    /\ locks = {}
    /\ tool = FALSE
    /\ opens = 0 /\ issued = 0
    /\ acked = [t \in Tables |-> {}]
    /\ failed = 0
    /\ mishaps = {}
    /\ together = FALSE

-----------------------------------------------------------------------------
(* Steps                                                                   *)

At(c, place) == conn[c].at = place

\* The store's descriptor is still what the connection opened.
Own(c) == fds[conn[c].storeFd] = <<c, "store">>

\* Histories end when something newer was written over or a stale size trusted; after
\* an overlap connections are only opened and closed.
Running == mishaps \subseteq {"overlap"}

CanStart(c) == At(c, "idle") /\ Own(c) /\ mishaps = {}

\* Moves c, and notes whether it was alone.
Step(c, record) ==
    /\ Running
    /\ conn' = [conn EXCEPT ![c] = record]
    /\ together' = (together \/ \E d \in Conns \ {c} : ~At(d, "new"))

Moved(c, place) == [conn[c] EXCEPT !.at = place]

Note(window, hit) == mishaps' = IF hit THEN mishaps \cup {window} ELSE mishaps

LowestFree == CHOOSE n \in 1..MaxFds : fds[n] = Free /\ \A k \in 1..(n - 1) : fds[k] # Free

\* A descriptor is opened; the window is that a connection is between the two
\* calls that close its lock file.
OpenFd(c, role) ==
    /\ fds' = [fds EXCEPT ![LowestFree] = <<c, role>>]
    /\ Note("overlap", \E d \in Conns \ {c} : At(d, "lockClosed"))

\* close(n): the flock of the descriptor goes with it; EBADF is ignored.
CloseFd(n) ==
    /\ fds' = [fds EXCEPT ![n] = Free]
    /\ locks' = locks \ {n}

-----------------------------------------------------------------------------
(* Database.__init__                                                       *)

LockOpen(c) ==
    /\ At(c, "new") /\ opens < MaxOpens
    /\ opens' = opens + 1
    /\ OpenFd(c, "lock")
    /\ Step(c, [Closed EXCEPT !.at = "opened", !.lockFd = LowestFree])
    /\ UNCHANGED <<file, locks, tool, issued, acked, failed>>

\* Mutant of LockShared: the answer of flock is ignored.
LockSharedAnyway(c) ==
    /\ At(c, "opened")
    /\ locks' = locks \cup {conn[c].lockFd}
    /\ Step(c, Moved(c, "locked"))
    /\ UNCHANGED <<file, fds, tool, opens, issued, acked, failed, mishaps>>

LockShared(c) ==
    /\ At(c, "opened") /\ ~tool
    /\ locks' = locks \cup {conn[c].lockFd}
    /\ Step(c, Moved(c, "locked"))
    /\ UNCHANGED <<file, fds, tool, opens, issued, acked, failed, mishaps>>

\* Mutant of LockBusy: the deadline is never reached.
LockBusyNever(c) == FALSE /\ UNCHANGED vars

\* The deadline passed: DatabaseBusy, and _cleanup.
LockBusy(c) ==
    /\ At(c, "opened") /\ tool
    /\ Step(c, Moved(c, "closing"))
    /\ UNCHANGED <<file, fds, locks, tool, opens, issued, acked, failed, mishaps>>

\* FileStore.open: the descriptor, and the size of the file.
StoreOpen(c) ==
    /\ At(c, "locked")
    /\ OpenFd(c, "store")
    /\ Step(c, [conn[c] EXCEPT !.at = "sized", !.storeFd = LowestFree, !.count = fileSize])
    /\ UNCHANGED <<file, locks, tool, opens, issued, acked, failed>>

\* A file that was empty gets its header page.
WriteHeader(c) ==
    /\ At(c, "sized") /\ conn[c].count = 0 /\ Own(c)
    /\ fileSize' = IF fileSize = 0 THEN 1 ELSE fileSize
    /\ catalog' = Closed.entries
    /\ Note("size", fileSize # 0)
    /\ Step(c, [conn[c] EXCEPT !.at = "header", !.count = 1])
    /\ UNCHANGED <<rows, fds, locks, tool, opens, issued, acked, failed>>

\* The header of another file is read.
ReadHeader(c) ==
    /\ At(c, "sized") /\ conn[c].count # 0 /\ Own(c)
    /\ Step(c, Moved(c, "header"))
    /\ UNCHANGED <<file, fds, locks, tool, opens, issued, acked, failed, mishaps>>

\* Mutant of HeaderFails: the descriptor stays open.
HeaderFailsOpen(c) ==
    /\ At(c, "sized") /\ conn[c].count # 0 /\ Own(c)
    /\ Step(c, [conn[c] EXCEPT !.at = "closing", !.storeFd = 0])
    /\ UNCHANGED <<file, fds, locks, tool, opens, issued, acked, failed, mishaps>>

\* The header does not fit (page size, magic): the descriptor is closed.
HeaderFails(c) ==
    /\ At(c, "sized") /\ conn[c].count # 0 /\ Own(c)
    /\ CloseFd(conn[c].storeFd)
    /\ Step(c, [conn[c] EXCEPT !.at = "closing", !.storeFd = 0])
    /\ UNCHANGED <<file, tool, opens, issued, acked, failed, mishaps>>

\* The replay of a log raises: nobody closes the descriptor of the store.
ReplayFails(c) ==
    /\ At(c, "header")
    /\ failed' = failed + 1
    /\ Step(c, [conn[c] EXCEPT !.at = "closing", !.storeFd = 0])
    /\ UNCHANGED <<file, fds, locks, tool, opens, issued, acked, mishaps>>

\* Executor.__init__: the log is opened ...
WalOpen(c) ==
    /\ At(c, "header")
    /\ OpenFd(c, "wal")
    /\ Step(c, Moved(c, "logged"))
    /\ UNCHANGED <<file, locks, tool, opens, issued, acked, failed>>

\* ... and Catalog._load reads page 0.
LoadCatalog(c) ==
    /\ At(c, "logged") /\ Own(c)
    /\ Step(c, [conn[c] EXCEPT !.at = "idle", !.entries = catalog])
    /\ UNCHANGED <<file, fds, locks, tool, opens, issued, acked, failed, mishaps>>

\* Executor.__init__ raises: the log cannot be opened, or it or the catalog cannot be
\* decoded.  The store is known to _cleanup, a log that was opened to nobody.
ExecutorFails(c) ==
    /\ conn[c].at \in {"header", "logged"}
    /\ Step(c, Moved(c, "closing"))
    /\ UNCHANGED <<file, fds, locks, tool, opens, issued, acked, failed, mishaps>>

-----------------------------------------------------------------------------
(* Database.close                                                          *)

\* FileLock.close: LOCK_UN and os.close(self._fd), which come to the same ...
\* Of the connection only the two files matter from here on.
LockClose(c) ==
    /\ CloseFd(conn[c].lockFd)
    /\ Step(c, [Closed EXCEPT !.at = "lockClosed", !.lockFd = conn[c].lockFd,
                              !.storeFd = conn[c].storeFd])
    /\ UNCHANGED <<file, tool, opens, issued, acked, failed, mishaps>>

Close(c) == At(c, "idle") /\ LockClose(c)

\* _cleanup after an exception in __init__; the store, if it is open, is closed as
\* by close, page 0 included.
Cleanup(c) == At(c, "closing") /\ LockClose(c)

\* ... then self._file.close(), which closes the same number again.
LockFileClose(c) ==
    /\ At(c, "lockClosed")
    /\ CloseFd(conn[c].lockFd)
    /\ Step(c, IF conn[c].storeFd = 0 THEN Closed ELSE Moved(c, "lockGone"))
    /\ UNCHANGED <<file, tool, opens, issued, acked, failed, mishaps>>

\* FileStore.close: _flush_free_head reads page 0 ...
FlushRead(c) ==
    /\ At(c, "lockGone") /\ Own(c)
    /\ Step(c, [conn[c] EXCEPT !.at = "flush", !.page0 = catalog])
    /\ UNCHANGED <<file, fds, locks, tool, opens, issued, acked, failed, mishaps>>

\* ... and writes it back.
FlushWrite(c) ==
    /\ At(c, "flush") /\ Own(c)
    /\ catalog' = conn[c].page0
    /\ Note("header", catalog # conn[c].page0)
    /\ Step(c, Moved(c, "flushed"))
    /\ UNCHANGED <<rows, fileSize, fds, locks, tool, opens, issued, acked, failed>>

\* The store is closed; the log of the executor is not.
StoreClose(c) ==
    /\ At(c, "flushed") /\ Own(c)
    /\ CloseFd(conn[c].storeFd)
    /\ Step(c, Closed)
    /\ UNCHANGED <<file, tool, opens, issued, acked, failed, mishaps>>

\* A read, a write or the fsync of FileStore.close raises: _cleanup ignores it and
\* forgets the store, whose descriptor stays open.
CloseFails(c) ==
    /\ conn[c].at \in {"lockGone", "flush", "flushed"}
    /\ failed' = failed + 1
    /\ Step(c, Closed)
    /\ UNCHANGED <<file, fds, locks, tool, opens, issued, acked, mishaps>>

-----------------------------------------------------------------------------
(* Statements                                                              *)

\* Heap.append reads the page of the table.
InsertRead(c, t) ==
    /\ CanStart(c) /\ issued < MaxRows
    /\ conn[c].entries[t] # 0
    /\ issued' = issued + 1
    /\ Step(c, [conn[c] EXCEPT !.at = "insert", !.table = t, !.row = issued + 1,
                               !.body = rows[conn[c].entries[t]]])
    /\ UNCHANGED <<file, fds, locks, tool, opens, acked, failed, mishaps>>

\* exec_delete scans the table ...
DeleteScan(c, t, r) ==
    /\ CanStart(c)
    /\ conn[c].entries[t] # 0
    /\ r \in rows[conn[c].entries[t]]
    /\ Step(c, [conn[c] EXCEPT !.at = "scanned", !.table = t, !.row = r])
    /\ UNCHANGED <<file, fds, locks, tool, opens, issued, acked, failed, mishaps>>

\* ... and Heap.delete reads its page again.
DeleteRead(c) ==
    /\ At(c, "scanned") /\ Own(c)
    /\ Step(c, [conn[c] EXCEPT !.at = "delete", !.body = rows[conn[c].entries[conn[c].table]]])
    /\ UNCHANGED <<file, fds, locks, tool, opens, issued, acked, failed, mishaps>>

\* Mutant of PageWrite: the rows that were in the page are not written back.
PageWriteOnly(c) ==
    /\ conn[c].at \in {"insert", "delete"} /\ Own(c)
    /\ LET page == conn[c].entries[conn[c].table]
           With(set) == IF At(c, "insert") THEN set \cup {conn[c].row} ELSE set \ {conn[c].row}
       IN  /\ rows' = [rows EXCEPT ![page] = With({})]
           /\ acked' = [acked EXCEPT ![conn[c].table] = With(@)]
           /\ Note("page", rows[page] # conn[c].body)
    /\ Step(c, [conn[c] EXCEPT !.at = "idle", !.table = 0, !.row = 0, !.body = {}])
    /\ UNCHANGED <<fileSize, catalog, fds, locks, tool, opens, issued, failed>>

\* Both write the whole page back.
PageWrite(c) ==
    /\ conn[c].at \in {"insert", "delete"} /\ Own(c)
    /\ LET page == conn[c].entries[conn[c].table]
           With(set) == IF At(c, "insert") THEN set \cup {conn[c].row} ELSE set \ {conn[c].row}
       IN  /\ rows' = [rows EXCEPT ![page] = With(conn[c].body)]
           /\ acked' = [acked EXCEPT ![conn[c].table] = With(@)]
           /\ Note("page", rows[page] # conn[c].body)
    /\ Step(c, [conn[c] EXCEPT !.at = "idle", !.table = 0, !.row = 0, !.body = {}])
    /\ UNCHANGED <<fileSize, catalog, fds, locks, tool, opens, issued, failed>>

\* Mutant of CreateAlloc: the page count of the connection is not raised.
CreateAllocSame(c, t) ==
    /\ CanStart(c)
    /\ conn[c].entries[t] = 0 /\ conn[c].count <= MaxPages
    /\ LET page == conn[c].count
       IN  /\ rows' = [rows EXCEPT ![page] = {}]
           /\ fileSize' = IF page < fileSize THEN fileSize ELSE page + 1
           /\ Note("size", page # fileSize)
           /\ Step(c, [conn[c] EXCEPT !.at = "create", !.table = t, !.entries[t] = page])
    /\ UNCHANGED <<catalog, fds, locks, tool, opens, issued, acked, failed>>

\* Catalog.create_table: alloc_page takes the page its own page_count names and
\* writes it empty, the entry is cached ...
CreateAlloc(c, t) ==
    /\ CanStart(c)
    /\ conn[c].entries[t] = 0 /\ conn[c].count <= MaxPages
    /\ LET page == conn[c].count
       IN  /\ rows' = [rows EXCEPT ![page] = {}]
           /\ fileSize' = IF page < fileSize THEN fileSize ELSE page + 1
           /\ Note("size", page # fileSize)
           /\ Step(c, [conn[c] EXCEPT !.at = "create", !.table = t, !.entries[t] = page,
                                      !.count = page + 1])
    /\ UNCHANGED <<catalog, fds, locks, tool, opens, issued, acked, failed>>

\* ... and _flush writes the whole cached catalog over the one in the file.
CreateFlush(c) ==
    /\ At(c, "create") /\ Own(c)
    /\ catalog' = conn[c].entries
    /\ Note("catalog", catalog # [conn[c].entries EXCEPT ![conn[c].table] = 0])
    /\ Step(c, [conn[c] EXCEPT !.at = "idle", !.table = 0])
    /\ UNCHANGED <<rows, fileSize, fds, locks, tool, opens, issued, acked, failed>>

-----------------------------------------------------------------------------
\* FileLock.exclusive and release in the other process.
ToolLock ==
    /\ Running /\ ~tool /\ locks = {}
    /\ tool' = TRUE
    /\ UNCHANGED <<file, conn, fds, locks, opens, issued, history>>

ToolRelease ==
    /\ Running /\ tool
    /\ tool' = FALSE
    /\ UNCHANGED <<file, conn, fds, locks, opens, issued, history>>

\* What a call of __init__ or close goes on with.
Continue(c) ==
    \/ LockShared(c) \/ LockBusy(c) \/ StoreOpen(c) \/ WriteHeader(c) \/ ReadHeader(c)
    \/ HeaderFails(c) \/ ReplayFails(c) \/ WalOpen(c) \/ LoadCatalog(c) \/ ExecutorFails(c)
    \/ Cleanup(c) \/ LockFileClose(c)
    \/ FlushRead(c) \/ FlushWrite(c) \/ StoreClose(c) \/ CloseFails(c)

Next ==
    \/ \E c \in Conns :
          \/ LockOpen(c) \/ Continue(c) \/ Close(c)
          \/ DeleteRead(c) \/ PageWrite(c) \/ CreateFlush(c)
          \/ \E t \in Tables :
                \/ InsertRead(c, t) \/ CreateAlloc(c, t)
                \/ \E r \in 1..MaxRows : DeleteScan(c, t, r)
    \/ ToolLock
    \/ ToolRelease

\* A thread inside __init__ or close is scheduled again and again.
Spec == Init /\ [][Next]_vars /\ \A c \in Conns : WF_vars(Continue(c))

-----------------------------------------------------------------------------
(* Properties                                                              *)

Places ==
    {"new", "opened", "locked", "sized", "header", "logged", "idle", "insert", "scanned", "delete",
     "create", "closing", "lockClosed", "lockGone", "flush", "flushed"}

Windows == {"page", "catalog", "size", "header", "overlap"}

Records == [at : Places, count : 0..(MaxPages + 1), entries : [Tables -> 0..MaxPages],
            lockFd : 0..MaxFds, storeFd : 0..MaxFds, table : Tables \cup {0},
            row : 0..MaxRows, body : SUBSET (1..MaxRows), page0 : [Tables -> 0..MaxPages]]

TypeOK ==
    /\ rows \in [1..MaxPages -> SUBSET (1..MaxRows)]
    /\ fileSize \in 0..(MaxPages + 1)
    /\ catalog \in [Tables -> 0..MaxPages]
    /\ conn \in [Conns -> Records]
    /\ fds \in [1..MaxFds -> {Free} \cup (Conns \X {"lock", "store", "wal"})]
    /\ locks \subseteq 1..MaxFds
    /\ acked \in [Tables -> SUBSET (1..MaxRows)]
    /\ mishaps \subseteq Windows

\* What the file should hold.
RowsAsAcked == \A t \in Tables : acked[t] = IF catalog[t] = 0 THEN {} ELSE rows[catalog[t]]

\* However the steps of the connections interleave, every table in the file has
\* exactly the rows of the statements that have returned, until a page or the
\* catalog is written over a newer one, or a connection trusts a file size that
\* is no longer true.
TablesAsAcked == Running => RowsAsAcked

\* Connections that are opened after the one before has closed never run into
\* one of the windows.
AloneIsSafe == ~together => mishaps = {}

Usable(c) == conn[c].at \in Places \ {"new", "opened", "closing", "lockClosed", "lockGone",
                                      "flush", "flushed"}

\* A connection that can be used holds the shared lock on a descriptor of its
\* own, so that nobody has the exclusive one, unless a connection was opened
\* while another was between the two calls that close its lock file.
LockHeld ==
    "overlap" \notin mishaps =>
        \A c \in Conns : Usable(c) =>
            /\ fds[conn[c].lockFd] = <<c, "lock">> /\ conn[c].lockFd \in locks
            /\ conn[c].storeFd # 0 => Own(c)
            /\ ~tool

\* When every connection is closed, by whatever way out of __init__ and close, no lock
\* is left, and of the stores at most those whose replay or closing failed.  (The
\* logs are left out: see NothingLeft.)
LockAndStoreReleased ==
    (\A c \in Conns : At(c, "new")) /\ "overlap" \notin mishaps =>
        /\ \A n \in 1..MaxFds : fds[n] # Free => fds[n][2] # "lock"
        /\ Cardinality({n \in 1..MaxFds : fds[n] # Free /\ fds[n][2] = "store"}) <= failed
        /\ locks = {}

Inside(c) == conn[c].at \in Places \ {"new", "idle", "insert", "scanned", "delete", "create"}

\* A thread that opens or closes a database never stays inside the call: it gets a
\* database or an exception, even if the tool never gives the lock back.
OpensReturn == \A c \in Conns : []<>(~Inside(c) \/ mishaps # {})

\* Not so: each of the four windows can lose rows.
PageHarmless == "page" \in mishaps => RowsAsAcked
CatalogHarmless == "catalog" \in mishaps => RowsAsAcked
SizeHarmless == "size" \in mishaps => RowsAsAcked
HeaderHarmless == "header" \in mishaps => RowsAsAcked

\* Not so: close gives up the lock before its last write.
NoWriteBesideTool == tool => \A c \in Conns : ~At(c, "flush")

\* What database-api/spec.md asks: no descriptor is left.  Not so: the log of every
\* connection stays open, also of one that was closed without any error, and so does
\* a store whose replay failed.
NothingLeft == (\A c \in Conns : At(c, "new")) /\ mishaps = {} => \A n \in 1..MaxFds : fds[n] = Free

\* Not so: the second close takes a descriptor that another thread was given.
DescriptorsOwn == \A c \in Conns : At(c, "idle") => Own(c)
==============================================================================
