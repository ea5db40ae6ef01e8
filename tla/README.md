# TinyDB in TLA+

TLA+ models of TinyDB (`tinydb/`): the locks, the page store and catalog,
transactions and the write-ahead log, the buffer pool, the B+ tree, the table
heap under INSERT/UPDATE/DELETE down to the bytes of its page, several
connections to one file, what SELECT computes from the tables and what EXPLAIN
says about it, the parser, and the shell. TLC checks each on small instances;
TLAPS proves the safety properties of all but the last four (SELECT, EXPLAIN, parser,
shell), for every instance.
`PROJECT.json` lists components, runs, the definition-to-source map, findings,
hazards and theorems.

## 1. Inventory

TinyDB is an embedded, single-file SQL database. `Database.execute` parses a
statement and hands it to `Executor`, which works on `FileStore` pages through
`Catalog` and `Heap`. There is no background thread: concurrency comes from
threads that share a lock, from several connections to one file, and from
processes that die.

| Component | State | Operations | Reached through |
|---|---|---|---|
| `RWLock` (`lock.py`) | three counters, two condition variables | acquire/release read/write with timeout | created by `Database`, acquired by no statement |
| `FileLock` (`lock.py`) | a descriptor with a `flock`, held by number and as a file object | shared, exclusive, release, close | `Database.__init__` takes it shared |
| `FileStore` (`storage.py`) | file, `page_count`, `_free_head`; the free list is threaded through the free pages | open (with WAL replay), close, read/write page, `alloc_page`, `free_page` | everything below the executor |
| `Catalog` (`executor/catalog.py`) | `_entries`, cached from page 0 | create, drop, load, flush | DDL, rollback |
| `Database` (`database.py`) | a page snapshot during `transaction()` | open, execute, transaction, close | applications |
| `TxManager`, `Wal` (`tx.py`, `wal.py`) | active id, next id; log file and descriptor offset | begin, commit, rollback, checkpoint, append, replay | `transaction()`, BEGIN/COMMIT/ROLLBACK/CHECKPOINT, `FileStore.open` |
| `BufferPool` (`storage.py`) | dict of entries with dirty bit and pin count | get, put, flush_all, pin/unpin/mark_dirty | no other module of the package |
| `BPlusTree` (`index.py`) | nodes in pages, root, owned pages | insert, delete, seek, range, full_scan | tests; the executor does not use it |
| `Heap`, DML (`heap.py`, `executor/dml.py`) | one page of slots per table; constraints in `Executor` memory | append, scan, delete, update; INSERT/UPDATE/DELETE loops | the executor |
| SELECT, joins, aggregates (`executor/select.py`, `join.py`, `aggregate.py`) | none; dicts on their way through a query | filter, join, sort, page, project, group | the executor |
| planner (`executor/index_plan.py`, `plan_nodes.py`) | none; plan trees | plan, estimate, describe | EXPLAIN |
| parser (`parser/`) | none between statements | tokenize, parse | `Database.execute`, `Executor.execute` |
| shell (`cli.py`, `cli_dotcommands.py`) | line buffer, settings, `has_error` | lines of a terminal or a script, dot commands | the command line |
| types, errors | none | | |

What is hard to get right here, and therefore what the properties are about:

* **crash points** - `DROP TABLE` frees a page, then flushes the catalog; the
  free-list head is saved only at close; statements write pages in place without
  a log record; a multi-row statement is a loop of page writes;
* **two copies of one fact** - catalog cache and page 0, `_free_head` and the
  links in the pages, constraints in memory and tables on disk, a handle and the
  pool entry it refers to, `page_count` of two connections;
* **rollback** that restores page bodies but not what is in memory;
* **condition variables** with timeouts: lost wakeups, stale claims, priority;
* **rearrangement** of a search tree over pages that are freed and reused;
* **windows between two system calls** of one connection, in which another one
  works: size and header of a new file, page and catalog write, the read and the
  write of page 0 at close, the two closes of one descriptor number;
* **limits**: a page body that outgrows its page, a node at its order, a full pool;
* **names and NULLs** in joins: a column is prefixed only when its name is taken;
* **texts**: one token decides which clause follows, AND means two things, lines
  are joined before they are tokenized.

For each component, what makes it correct: the lock excludes and never strands a
thread; the store never gives a page to two owners; the catalog cache is the
catalog; after open the pages hold the committed writes and nothing else; the
pool loses no write and keeps pinned pages; the index is an ordered map; a scan
returns the rows the statements asked for; acknowledged rows of any connection
are found by the next one; every way out of `__init__` and `close` gives the lock
back; a query returns what three-valued logic and the definition of a join say;
a plan means its query; a statement is parsed as it was written, and the shell
sends it as it was typed.

## 2. Modules

| Module | Models | Refinement / proofs |
|---|---|---|
| `RWLock` | `RWLock`; one action per critical section of the mutex | `RWLockProofs` |
| `PageStore` | `alloc_page`, `free_page`, `Catalog`, open/close/kill, `transaction()` | `PageStoreProofs` |
| `Wal` | log file as a value: frames, scan, replay | used by `TxRecovery` |
| `TxRecovery` | `TxManager`, `Wal`, replay at open, and the two clients of them | `TxRecoveryProofs` |
| `BPlusTree` | `BPlusTree`; every method an operator on tree values | implements `OrderedMap`; `BPlusTreeProofs` |
| `OrderedMap` | abstract specification of an index | |
| `TableHeap` | `Heap` and the statement loops of `dml.py`, on slots | `TableHeapProofs` |
| `HeapBytes` | the page body behind the slots: codecs, walk, `_pad_body`; takes every step of `TableHeap` together with its effect on the bytes | compared with `TableHeap`; `HeapBytesProofs` |
| `BufferPool` | `BufferPool`, `PageHandle` | `BufferPoolProofs` |
| `Connections` | several `Database` objects on one file, `FileLock`, descriptors | `ConnectionsProofs` |
| `Query` | `exec_select`, joins, aggregation, as operators | checked against reference definitions |
| `Planner` | `IndexPlanner`, plan nodes, EXPLAIN | its plans are run and compared with `Query` |
| `SqlParser` | lexer and recursive descent, on tokens | |
| `SqlGrammar` | reference for `SqlParser`: a grammar, and how statements are written | |
| `Shell` | `_run_batch`, `_run_repl`, dot commands; composed with `SqlParser` | |

`MC<module>` gives each its model values and small sets; the `.cfg` files give
constants their values and replace nothing.

### How state and actions correspond to the code

**RWLock.** `readers`, `writers`, `writerWaiters` are the counters. `pc[t]` says
where thread `t` is: about to evaluate the loop condition (`rTest`, `wTest`, and
`wEnter` before the writer has counted itself), in a wait set (`rWait`,
`wWait`), or inside the lock. A critical section is one step because the mutex
is held from `with self._lock` or the return of `wait` to the end of the block or
the next `wait`. `notify` moves an arbitrary waiter to its loop test. Time is the
bit `late[t]`; `Timed` says which calls have a deadline that can pass.

**PageStore.** Disk variables (`page`, `fileSize`, `hdrFree`, `hdrCat`,
`hdrWritten`) survive a kill, memory variables do not. A page is its first four
bytes, the only part `alloc_page` reads: the next free page, 0, or `Junk` for a
page with rows. DDL is two steps, the page and cache change and `FlushCatalog`,
so that a kill may fall between them. A rollback is as many steps as it has page
writes: `RollbackTx` puts back page 0, each `RestorePage` one more page, and
`RolledBack` is the `_load` at the end. `filled` is a history variable: the tables
with rows of committed statements and, inside a transaction, of its own. `mishaps`
records which of five windows a kill or a rollback has hit; each property names the
windows that break it, and `Undamaged` stops exploring a file whose free list is
already damaged.

**Wal, TxRecovery.** A log is a sequence of cells; a MUTATE frame is longer than
a control frame, so that overwriting one with the other damages the log as it
does in the file. `Replay` is `replay_wal`. `client` is who drives the log:
`"api"` logs each page write (as the tests of `TxManager` and `Wal` do), `"db"` is a
`Database`, on which `transaction()`, the transaction statements and single
statements follow each other in any order. `tx` says which transaction the client
believes to be in; a commit may raise (`CommitFails`), with or without its record in
the log, and then the transaction is rolled back like one whose body raised: first
the mark in the log, then page by page. `mishaps` notes a stop inside a transaction
of a `Database` and a ROLLBACK statement, after which uncommitted writes stay.
`Habits` are rules the `"api"` client follows voluntarily: a transaction changes a
page once, an old log is truncated after open, CHECKPOINT only when idle.

**BPlusTree.** One variable holds the tree: nodes by page, root, owned pages,
free list, page count. `Inserted` and `Deleted` are the whole methods, with all
splits, borrowing, merges and the shrinking of the root. `Stored` is what `write_page`
makes of the result: the body of an internal node with more than `Fanout` children
is cut (`Torn`), and from then on every operation raises (`Raise`). With INT keys in a page
of 4096 bytes `Fanout` is 272. Leaves always fit, which a tree of INT keys and the
default order guarantees; TEXT keys so long that a leaf does not fit are left out.
The cases for internal
children are translated although they are not reached: an internal root is never
split (see below), so the tree has at most two levels. This also hides that
`_merge_into_right` does not repair the chain pointer of the preceding leaf: the
leaf with child index 0 is always the first one.

**TableHeap, HeapBytes.** `slots` is the page; a slot keeps its `room` while
updates in place rewrite it. A row is a key and the encoded length of the other
column. Each round of a statement's loop is a step; `stmt` holds what is left of
the statement. A constraint error (`RejectRow`, `InvalidRow`) leaves the loop and
keeps the earlier rows. A WHERE clause is any set of keys. `table` is a history
variable, the rows the steps so far asked for, and `moved` notes that an UPDATE
had to move a row. In `HeapBytes`, `body` is what `read_page` returns, one unit
per field of fixed size and per byte of text; `Store` cuts it at `PageUnits`.
`ScanRaises` says when the walk over such a body cannot be finished: a length is
missing, or a live row cannot be decoded.

**BufferPool.** `pool` is the dict in insertion order. A handle refers to an
entry, so `attached` turns false when the entry leaves the dict. `Settled` is a
rule of the clients: pin a handle before anything else is done with the pool.

**Connections.** The connections are threads of one process. Every system call
of opening, closing and of a statement is a step: `conn[c].at` says which one
comes next. `fds` is the descriptor table, where a new descriptor is the lowest
free number; `locks` are the descriptors that hold the shared `flock`. The tool is
another process that takes the exclusive one. `LockShared` and `LockBusy` are the
two ends of the retry loop: the flock is granted while nobody has it exclusively,
and the deadline passes while somebody does. Every step of `__init__` after the lock
may raise (`HeaderFails`, `ReplayFails`, `ExecutorFails`), and so may the calls of
`FileStore.close`, which `_cleanup` ignores (`CloseFails`). `mishaps` records the windows: a
page, the catalog or page 0 written over a newer one, a file size that was no
longer true, and an open between the two closes of a lock file (`"overlap"`).
A history ends at the first of the first four; after an overlap connections are
only opened and closed, and one whose descriptor was taken stops.

**Query.** A row in a query is a function from keys to values, where `<<"", c>>`
is the dict key `c` and `<<t, c>>` the key `t.c`; NULL is 0 and values are
positive. `ExecSelect` is the whole of `exec_select` and `exec_aggregate`, with
their order: filter, sort, page, and only then aggregate. The errors Python
raises when it sorts `None` are results, and so are `TypeMismatch` of an ON and
`TableNotFound` of a join (`JoinsError`); an alias is taken for the name of a table, as
in `_resolve_table_name`. `tables` only grows, so the reachable
states are all table contents up to the bound. The reference joins choose a row
per table, row 0 standing for the row of NULLs, and never merge dicts.

**Planner.** A plan is a tree of node records. `PlanSelect` is `plan_select`, with
estimates and costs as integers (all are sums and products of whole numbers).
A join node has the condition and not the kind of the join, so `Run`, which says what
executing a plan would return (nothing in the package does), joins inner.
Row counts and indexes are inputs, since the catalog on disk has none.

**SqlParser, SqlGrammar.** A text is a sequence of lexemes; `Tokenize` drops comments
and puts a string together that goes on over several lines (`Quote`). A parse function
is an operator from the remaining tokens to a set of `<<tree, rest>>`, empty for
`ParseError`. Productions are sequences of fixed texts and kinds of tree (`ParseSeq`,
`Clauses`, `Lists`). `SqlGrammar` has the language of predicates by length, as an
ambiguous grammar with `[NOT] BETWEEN` and NOT before a condition as the comments of
`predicate.py` promise them, and writes predicates and statements as token sequences;
its actions only damage phrases (`Mistype`, `LeaveOut`).

**Shell.** One action per kind of line. `tty` says which loop runs. A statement
that parses may be carried out, fail with a `TinyDBError` or raise anything else.
`script` and `sent` are histories: the lines typed and the texts executed.

## 3. Runs

Passing runs:

| Run | Bounds | Shows |
|---|---|---|
| `RWLock_calls` | 4 threads, one writer without deadline, all other calls timed | exclusion, no lost wakeup of a writer, only a writer's timeout can leave a reader asleep beside a free lock; every timed call returns, the patient writer gets in |
| `Store_histories` | 3 tables, 3 pages, 2 kills, every statement in and outside transactions | outside five named windows: no shared pages, sound free list, catalog cache = disk, rows exactly those of committed statements, listed tables readable |
| `Tx_clients` | 2 pages, 2 values, 2 transactions of 2 writes, 2 stops | a careful logging client always opens and finds exactly its committed writes (`LoggedRecovered`); so does a `Database`, outside two named windows (`DatabaseRecovered`) |
| `BTree_map` | order 1, 3 children, 5 keys, 6 pages; order 4, 6 children, 7 keys, 5 pages | implements `OrderedMap`; scans agree with seeks; leaf bounds; page accounting, until the root is cut |
| `Heap_pages` | keys 0 and 1, 2 lengths, 4 slots, 1 restart, page of 29 units | scans match the statements until a row is moved; bytes match slots; after a cut a scan raises or reads the earlier rows right; INSERT makes no key double but 0 |
| `Query_tables` | 3 tables, 3 rows, 2 values and NULL; row counts of 0, 1 and 60 per row, with and without an index | predicates, join chains, hash join, paging, grouping agree with their references; plans of inner joins lose no row of their query; EXPLAIN adds up |
| `Pool_careful` | 2 clients, 3 pages, capacity 2 | no lost write, pinned pages stay |
| `Conn_lifecycles` | 2 connections, 2 tables, 2 INSERTs, 2 table pages, 2 constructions | rows are those of the statements that returned until a window is hit; a connection on its own hits none; the lock is held and given back; every open and close returns |
| `Parser_texts` | predicates of 7 tokens, 2 slips per phrase | but for NOT the parser accepts the grammar and nothing else; it parses what was written, never runs two statements together |
| `Shell_sessions` | 4 lines out of 30 | tidy statements arrive whole, once, in order, in a script up to the first failure; the exit status tells a statement the database refused |

Why the bounds are enough for the interesting cases: four threads allow a notified, a
timed-out and a sleeping writer beside a reader, and the safety properties are proved
for any number; three tables in three pages allow a free list of several pages to be
reused, rolled back, killed and reopened; two stops allow a log written by one process,
extended by a second and replayed by a third; order 1 with room for three children needs
four keys to cut the root, and five allow deletes and inserts on the way there; order 4
has `MinKeys = 2`, and seven keys are the fewest that make three leaves, so that both
kinds of borrowing, both merges (of leaves that hold keys), page reuse and the shrinking
of the root happen; capacity 2 with three pages forces eviction at every miss; four
slots allow an update of a row between others and a row appended after a delete, and 29
units hold three of them and cut the fourth; three rows allow one row in each of three
joined tables, or two matches for one row; two connections with one construction each,
or one constructed twice, meet all five windows; seven tokens hold a BETWEEN with an AND
or an OR behind it; four lines hold a statement in two lines with a command between
them, and one before or after it. With one row id, an INSERT of a present key in the B+
tree changes nothing: rebinding is covered by the proof only.

The `TypeOK` of `RWLock`, `PageStore`, `BPlusTree`, `TableHeap` and `Connections` is
proved; that of the other modules holds in the runs above when it is added to their
configurations.

Counters that the code does not bound are bounded in the guards (`MaxPages`,
`MaxCrashes`, `MaxTx`, `MaxWrites`, `MaxStops`, `MaxSlots`, `MaxReopens`, `MaxRows`,
`MaxOpens`, `MaxLines`, `MaxSlips`). Where such a bound or the end of a session ends
every behaviour (`TxRecovery`, `TableHeap`, `Connections`, `Query`, `SqlGrammar`,
`Shell`) deadlock is not checked; elsewhere it is.

**Fairness.** In `RWLock`: `WF` of each thread's own steps (the OS runs runnable
threads, and `read()`/`write()` release in `finally`) and of `Expire` (time
passes). No call is assumed to be made, and `notify` is not assumed to choose
fairly. `CallsReturn` needs the clock; `WriterGetsIn` holds for writers without a
deadline because `writerWaiters` keeps new readers out. In `Connections`: `WF` of
`Continue(c)`, the next step of a call of `__init__` or `close` that is under way.
That includes `LockBusy`, since `shared` looks at the clock in every round; the tool
is never assumed to release its lock.

### Where code and documents disagree

Two violation runs, each with one property; the counterexample is a behaviour of
the code as it is, and `PROJECT.json` quotes the sentences it contradicts.

| Run | What happens |
|---|---|
| `Store_rollback_drop` | a rolled-back DROP leaves the table's page on the free list; the next CREATE takes it |
| `Heap_grow_delete` | DELETE of a row that an UPDATE made longer reports success and the row stays |

Elsewhere a property of a passing run names the windows in which it may fail, or
the run restricts the workload: such a property says nothing about the window
itself, only that there is no other. The definitions below state what does not hold
without that; TLC finds each violated. Where a configuration is named, run it with
`tlc -config <name>.cfg MC<module>`; it lifts one restriction. Otherwise put the
definition in place of the properties of the run.

| Configuration or run | Property | What happens |
|---|---|---|
| `RWLock_stranded_reader.cfg` | `NoStrandedReader` | a writer times out; readers queued behind it are not woken |
| `Store_crash_stale_head.cfg` | `DistinctPages` | kill after CREATE reused a free page; the old head hands it out again |
| `Store_crash_drop.cfg` | `CountsOnly` | kill between the two writes of DROP TABLE |
| `Store_histories` | `CacheOnDisk` | rolled-back first CREATE stays in the cache |
| `Tx_repeated_write.cfg` | `IdleIsCommitted` | undo in forward order |
| `Tx_reused_id.cfg` | `IdleIsCommitted` | ids restart at 1, the log does not |
| `Tx_overwritten_log.cfg` | `AlwaysOpens` | the reopened log is written from offset 0 |
| `Tx_checkpoint_inside.cfg` | `IdleIsCommitted` | CHECKPOINT drops the before-images of the active transaction |
| `Store_histories` | `CommittedOnly` | kill inside `transaction()` or its rollback: uncommitted rows are there after the next open. `storage-engine/spec.md:78`: the on-disk state equals "all committed transactions applied, none else" |
| `Tx_block_crash.cfg` | `StopsUndone` | the same in the log: `transaction()` does not log page writes, so replay undoes none of them. `transaction-manager/spec.md:45`: "undo uncommitted transactions and redo committed ones"; also `:50` |
| `Tx_sql_commit.cfg` | `EndedIsInactive` | COMMIT leaves the transaction active, and the next BEGIN or `transaction()` raises |
| `Tx_sql_commit.cfg` | `IdleIsCommitted`, in place of its property | ROLLBACK undoes nothing |
| `BTree_overfull_root.cfg` | `NoOverfullNode` | an internal root is never split. `btree-index/spec.md:50`: "When a leaf or internal node exceeds the configured maximum key count, the index MUST split it" |
| `BTree_map` | `AlwaysReadable` | so the root outgrows its page, is cut, and no operation works any more: with INT keys in increasing order and the default order 64 after about 8,700 of them, where `btree-index/spec.md:9` asks for "a tree height of 2–3 for 10,000 rows" |
| `Heap_key_reopen.cfg` | `PrimaryKeyUnique` | PRIMARY KEY is forgotten at close |
| `Heap_pages` | `InsertRejectsDouble` | a stored 0 is read back as NULL, and `_check_unique` compares with rows as read: PRIMARY KEY 0 is accepted twice. `query-executor/spec.md:39-42` asks for `UniqueViolation` |
| `Heap_pages` | `CutStaysReadable` | a body longer than its page is cut without an error; `scan` walks all `count` slots and raises at the cut one, so that SELECT, UPDATE and DELETE of the whole table fail |
| `Heap_pages` | `ZeroKept` | INT 0 is read back as NULL (the repository's README lists it as a limitation) |
| `Pool_put_pinned.cfg` | `PinnedNotEvicted` | `put` over a pinned entry drops its pins |
| `Pool_careful` | `EvictsLeastRecent` | eviction is first in, first out |
| `Conn_lifecycles` | `PageHarmless` | two INSERTs read the same page, the second write wins |
| `Conn_lifecycles` | `CatalogHarmless` | a connection writes its cached catalog over that of another |
| `Conn_lifecycles` | `SizeHarmless` | two first opens see an empty file; the slower one writes an empty header over the other's catalog |
| `Conn_lifecycles` | `HeaderHarmless` | close reads page 0, another connection creates a table, close writes page 0 back |
| `Conn_lifecycles` | `NoWriteBesideTool` | close gives up the file lock before it writes page 0 |
| `Conn_lifecycles` | `NothingLeft` | the descriptor of the log is never closed, and that of a store whose replay failed neither. `database-api/spec.md:14`: "no file descriptor is leaked"; `:111`: "any partially-allocated resources (file handles, WAL handles) MUST be released" |
| `Conn_lifecycles` | `DescriptorsOwn` | `FileLock.close` closes a number twice; the second close takes a descriptor another thread was given |
| `Query_tables` | `SumsOverJoins` | the join path projects rows before they are aggregated, and SUM is 0 |
| `Query_tables` | `AliasesWork` | an alias of a joined table is looked up in the catalog and raises `TableNotFound`. `join-query/spec.md:46`: "A `SELECT` statement MUST support table aliases" |
| `Query_tables` | `AliasesRename` | an alias that is the name of another table joins that table |
| `Query_tables` | `GroupsReturned` | GROUP BY raises TypeError when NULL is one of several keys. `query-executor/spec.md:105`: "each distinct group MUST produce exactly one output row" |
| `Query_tables` | `LeftJoinsPlanned` | the plan of a LEFT JOIN is that of the inner join |
| `Query_tables` | `PlansAreQueries` | an equality on a column without an index is in no node of the plan; a WHERE about a joined table is applied before the join |
| `Query_tables` | `CheapestScan` | an index is used however small the table, although `index_plan.py` describes a cost model |
| `Parser_texts` | `PhrasesAccepted` | NOT BETWEEN and NOT before a condition are refused, although `predicate.py:62` says "[NOT] BETWEEN a AND b" and `:35` names NOT |
| `Shell_sessions` | `SentAsWritten` | a comment swallows the lines joined after it; a string over several lines has blanks for line ends |
| `Shell_sessions` | `FailsFast` | a script goes on after an error. `cli-repl/spec.md:98`: "no further statements are executed" |
| `Shell_sessions` | `ZeroMeansDone` | a script with a statement the parser refuses ends with status 0. `cli-repl/spec.md:88`: "non-zero on the first error" |

Seen while reading and not modelled: LIMIT applies to the rows an aggregate counts;
`SELECT a.id, b.id` returns one column.

## 4. Proofs

Assumptions on the constants are the named `ASSUME`s of each module (threads are
a finite set, bounds are natural numbers, kinds of statement are known ones, page
0 is not a page of a transaction). Two modules have theorems with a hypothesis of
their own, named below. Every inductive invariant was checked with TLC on the
instance of its run before it was proved.

**RWLockProofs** - `TypeCorrect`, `CountersCorrect`, `Exclusion`,
`NoLostWriterWakeup`, and the action properties `WriterPriority` and
`StrandedByTimeout`, for any finite set of threads and any `Timed`. The invariant
is the conjunction of all four state properties. Exclusion alone is not inductive:
the loop conditions read counters, so the counters must be tied to the threads
(`CountersExact`), and that needs the cardinality facts of `ThreadSetsFinite`.
`NoStrandedWriter` is preserved because every step that makes the lock free
notifies a writer, and a woken writer goes back to sleep only when it finds the
lock taken.

**PageStoreProofs** - `TypeCorrect`, `PagesNotShared`, `FreeListSound`,
`CatalogCoherent`, `TablesStayReadable` and `RowsStay`, for every workload, kills and
rolled-back DROPs included. `NoSharedPages` excludes histories in which a kill met a
stale head or a DROP was rolled back, and TLC shows that each exclusion is needed. It
says nothing about free pages, so it is not inductive. The strengthening says there is a
set `F` of free pages that holds the head, is closed under the links, in which no two
pages have the same successor and none links to the head, and that is disjoint from the
listed pages (`Separate`); taking the head of the list leaves such a set. During a
transaction, the pages still in `F` have not been written since the snapshot
(`Restorable`), so rolling back keeps `F`, each page write of it included. A second set
`D` inside `F` is the list as page 0 records it: it is what a process finds that opens
the file after a kill, and it stays free as long as no page was taken from the list
since the open. `SoundFreeList` also says that the list ends: `F` carries the chain of
links (`Linked`), and a chain through distinct pages is no longer than the file.
`CatalogCoherent` needs only the bookkeeping part: page 0 and the cache agree whenever
no flush is due. `TablesReadable` and `RowsKept` need that the page of a listed table is
nobody else's, so that only its own DROP writes a link there, that a kill outside
`torn_drop` finds in page 0 only tables the cache had, and that the pages a rollback
restores agree with the catalog it restores.

**TableHeapProofs** - `HeapTypes`: the statement loops stay within their types, for
which the walk must end at a slot (`FirstSlotFound`, by the well-foundedness of the
numbers). `ScansMatch`: until an UPDATE moves a row, `ScanMatchesTable` holds for
any keys (0 included), lengths, slots and restarts. The strengthening: slot `i`
holds row id `i` (`Aligned`: no update has appended), live slots and `table` agree up
to reading 0 as NULL, and the rows a statement has left are live and as it
scanned them, so that updating in place revives nothing. `InsertsKeepKeys`: an
appended row adds exactly itself to a scan, and it was compared with that scan; the
comparison sees every key but 0, so only 0 can become double.

**HeapBytesProofs** - `BytesHoldSlots` and `OthersReadRight`, for any rows, page size and
history up to the first cut. The invariant says where the slots lie in the body
(`Layout`): the first behind the row count, each other where the one before it ends,
the last ending the body, each with its length, flag and encoded row in its own
units. A page holds such a body (`Whole`), or the first units of one whose last slot
begins within the page (`Torn`). The walk over the lengths is recursive; that it
finds the slots of a layout (`Walk`) is shown by the least slot it would miss.
`Decodes` shows that decoding inverts encoding, a 0 read as NULL, whatever an older
row has left behind in the slot. Each operation rewrites one slot within its units
(`SlotRewritten`) or adds one at the end and counts it (`SlotAdded`); that both
descriptions of a step change the same row needs that a statement has at most one row
left per slot (`LeftDistinct`). TLC checked the layout with the places the walk finds.

**TxRecoveryProofs** - `RecoveryIsExact`, with the hypothesis `HabitsKept`: the
`"api"` client keeps all three habits (section 3 shows a counterexample without each).
The scan of the log and the fold of `replay_wal` are recursive, so the proof first
builds the functions that satisfy the recursion (`ScanEnds`, `ReplayPass`), by the
least place where that would fail. From them: an append at the end of a log of whole
frames adds one record to what the scan finds (`RecordAppended`), and replay gives
each page the outcome of the last change recorded for it (`ReplayReaches`). The
invariant `Recoverable` says that this outcome is the committed body (`Settled`), that
a page without a record has it already (`Unchanged`), and, for the running
transaction, that the last record of a page it touched goes from the committed body
to the body the page has or is about to get (`Working`). Committing then turns undo
into redo for exactly those pages. It holds while stopped and across a second replay
of the same log, and it needs that ids in the log are below the next one, that a
session which writes is at the end of the log, and that a transaction changes a page
once. `DatabaseIsExact` needs no hypothesis: a `Database` writes control frames only,
all of one length, so that writing over an old log from offset 0 leaves a log of
control frames, which replays to nothing, whatever a failed commit left in it. So
the pages change by statements and rollbacks alone; a rollback goes back to the
snapshot, which is the committed state, and until its last page is written the pages
not yet put back are those it still has to write.

**BufferPoolProofs** - `NoWriteLost` and `PinsHold`, with the hypothesis
`~PutResident` that `Pool_careful` makes too: `put` is not called for a page in the
pool (`Pool_put_pinned.cfg` shows what happens otherwise). The pin count of an entry is
the number of clients that have it pinned (`PinsExact`), so the victim of an eviction
is nobody's handle (`HandlesAttached`), and a clean entry is what the file holds
(`Contents`), so dropping it loses nothing.

**ConnectionsProofs** - `ConnTypes`, `NothingLostOutsideWindows`, `OneAtATimeIsSafe`,
`UsableMeansLocked` and `ClosedLeavesNoLock`, for any number of connections, tables,
pages, rows and constructions. `Budget` counts the descriptors that constructions may
still open, so that the lowest free number exists. `FileSound` relates what each
connection has cached to the file: a cached entry is the one in the catalog or that of
a table being created, whose page is empty and nobody else's; as long as no window was
hit, each write then does to the file what the statement is acknowledged for. `Alone`
says that the only connection has read what is in the file. `Descriptors` says whose
each descriptor is and which of them hold the lock, until one is opened between the
two closes of a lock file.

**BPlusTreeProofs** - `TreeInvariant`, `MapRefinement`, `ScansCorrect`, `LeavesBounded`,
`PagesKept` and `TypeCorrect`, for any order of at least 1, any keys `1..n`, row ids and
number of pages and of children that fit a page, the last more than the order + 1.
The run has one row id, so that an insert which changes the row id of
a key is covered by the proof alone. None of the properties of the run is
inductive. The invariant sees the tree as the sequence of its leaves and that of the
separators between them (`Leaves`, `Seps`), which exists because a tree has at most two
levels: nothing splits an internal root, which the invariant has to say (`Rooted`). The
keys of leaf `j` lie between separators `j - 1` and `j` and the chain links the leaves in
this order (`Arranged`), every page is the tree's or free or untouched (`Accounted`), and
the leaves have the right sizes (`Sized`). What is in the pages is such a tree with its
root cut if it does not fit (`Inv`): proofs reason about the whole tree and look at the
page last. An insert that cuts the root had more than `Fanout` leaves to put in it, and
counting their keys (`ManyKeys`) gives the bound `Limit` of the refinement; a delete adds
no leaf (`Rebalanced`) and so never cuts. In the middle of a method one leaf is too
large or too small (`Overfull`, `Underfull`). What the tree binds is read off the pages
without a search (`Binds`). A rewrite of one leaf changes it for one key (`RewriteIs`);
splitting, borrowing and merging keep it and restore the sizes (`Settled`); and `seek`
finds it, because the place `_child_index` gives is the only leaf that can hold the
key (`SeekIs`). That is the refinement: an insert or delete is the abstract one and
touches no other key. Merging into the right leaf leaves the chain intact only
because it happens to the first leaf: `MergeArranged` has this as a hypothesis, and
`_rebalance` meets it. For the scans, `Selects(r, B, K)` says that `r` holds what `B` has at
the keys `K`, in order. One sequence does (`SelectsOne`); each leaf contributes its own
keys, leaf by leaf to the right they increase, and a walk that stops after a key
above `hi` misses none (`WalkSelects`). The recursive definitions of `Path`, `Reachable` and
the walks are first shown to define a function, by exhibiting one, since the page
above the leaves is the only one with children and the chain ends.

Only model-checked: liveness (`CallsReturn`, `WriterGetsIn`, `OpensReturn`), outside
the prover's reach; everything about `Query`, `Planner` and `SqlParser`, whose operators
are recursive over expressions, plans and tokens of any shape, so that a proof would be
an induction over data; and `Shell`, which uses the operators of `SqlParser`.

## 5. Not modelled

* How characters make up a token; ill-formed numbers; positions in messages.
* In the shell: rendering of results, readline and its history, completion,
  highlighting, argument parsing.
* `_normalize_result` and the texts of errors: presentation.
* Plan nodes that `IndexPlanner` never builds, and the placeholder EXPLAIN returns for
  statements that are not SELECT.
* In queries: literal projections, NOT IN, GROUP BY of several or qualified columns.
* Failures inside a rollback itself (its append or its page writes raise), a record
  that `os.write` writes in part, and a commit that fails under a logging client.
* TEXT keys so long that a leaf of an index does not fit its page.
* Byte formats of the catalog, of index nodes and of log records: a conversion
  appears only where it matters (0 and NULL, rows in a page, first four bytes of a
  page, lengths of log frames). FLOAT and BOOL are not told apart from INT.
* DROP TABLE beside other connections, and what a connection does once its
  descriptor is another file's.
* Power loss and torn writes: a kill loses memory, never a completed write.
* `lsn` numbers, which nothing reads after they are written; a log tail shorter
  than a frame header.

## 6. Plan

Done: the modules above, in the order lock, page store, log, index, heap, pool,
connections, queries, then the file lock and descriptors, the bytes of a heap
page, the planner, the parser and the shell.

1. Prove: what replay does to a log whose last frame is cut short, and the
   refinements of item 2, step by step.
2. Abstract specifications: a table as a set of rows that `TableHeap` implements
   until a row is moved; an atomic page store that `TxRecovery` with all habits
   implements.
3. Extend: DROP TABLE in `Connections`; `TableHeap` under the
   snapshot transaction of `PageStore`.
