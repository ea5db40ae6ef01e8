----------------------------- MODULE TxRecovery -----------------------------
(***************************************************************************)
(* Transactions over the write-ahead log: TxManager (tinydb/tx.py), Wal    *)
(* and replay (tinydb/wal.py, FileStore.open), and the two ways the        *)
(* repository drives them:                                                 *)
(*   "api"  log a MUTATE with both images, then write the page, as the     *)
(*          tests of TxManager and Wal do;                                 *)
(*   "db"   a Database: transaction() with its snapshot of the pages, the  *)
(*          BEGIN, COMMIT and ROLLBACK statements, in any mixture, and     *)
(*          statements whose page writes the executor does not log.        *)
(* A process may stop at any moment; what it wrote stays in the file.      *)
(***************************************************************************)
EXTENDS Wal

CONSTANTS Pages, Values,
          Clients,     \* those of the two that may drive the database
          Habits,      \* rules the "api" client keeps, see below
          MaxTx,       \* bound: transactions per session
          MaxWrites,   \* bound: page writes per transaction
          MaxStops     \* bound: how often the process stops

(***************************************************************************)
(* "once":             a transaction changes a page at most once           *)
(* "checkpointOnOpen": a log found at open is truncated before it is used  *)
(* "checkpointIdle":   CHECKPOINT is never run inside a transaction        *)
(***************************************************************************)
ASSUME ClientsAssumption == Clients \subseteq {"api", "db"}
ASSUME HabitsAssumption == Habits \subseteq {"once", "checkpointOnOpen", "checkpointIdle"}
\* Page 0 is the header page of the file; FileStore.free_page refuses it.
ASSUME PagesAssumption == Pages \subseteq Nat \ {0}
ASSUME BoundsAssumption == MaxTx \in Nat /\ MaxWrites \in Nat /\ MaxStops \in Nat

VARIABLES client,      \* who drives the database, for good
          page,        \* page bodies in the database file
          log,         \* the WAL file
          phase,       \* "open", "stopped", or "broken": open raised
          pos,         \* offset of the Wal descriptor
          nextTx,      \* TxManager._next_tx_id
          active,      \* the id in TxManager._txs, 0 if none
          due,         \* a logged page write not yet done, or NoWrite
          snapshot,    \* page bodies when the transaction began
          touched,     \* pages this transaction changed, in order
          inherited,   \* the log was not empty at open and is not truncated
          tx,          \* the transaction the client is in, see Situations
          undo,        \* pages a rollback has yet to put back
          committed,   \* history: what the committed transactions wrote
          mishaps,     \* history: the windows of Mishaps that have been hit
          stops

mem == <<pos, nextTx, active, due, snapshot, touched, inherited, tx, undo>>
history == <<committed, mishaps, stops>>
vars == <<client, page, log, phase, mem, history>>

\* "none": none, as far as the client knows; "block": one begun by transaction()
\* or TxManager.begin; "failed": its commit raised; "rollback": it is being rolled
\* back; "sql": one begun by the BEGIN statement.
Situations == {"none", "block", "failed", "rollback", "sql"}

\* Where the writes of a transaction that did not commit stay in the file.
\*   cut_short:     the process stopped inside the transaction; its writes are in
\*                  no log record, so nothing undoes them
\*   sql_rollback:  the ROLLBACK statement, which undoes nothing
Mishaps == {"cut_short", "sql_rollback"}

NoWrite == [pg |-> 0, after |-> 0]
Blank == [p \in Pages |-> 0]

Init ==
    /\ client \in Clients
    /\ page = Blank
    /\ log = <<>>
    /\ phase = "open"
    /\ pos = 0
    /\ nextTx = 1
    /\ active = 0
    /\ due = NoWrite
    /\ snapshot = Blank
    /\ touched = <<>>
    /\ inherited = FALSE
    /\ tx = "none"
    /\ undo = {}
    /\ committed = Blank
    /\ mishaps = {}
    /\ stops = 0

\* Between two calls of the client.
Ready == phase = "open" /\ due = NoWrite /\ tx \notin {"failed", "rollback"}

Keeps(habit) == client = "api" /\ habit \in Habits

\* Wal.append: os.write at the descriptor's offset.
AppendRec(rec) ==
    /\ log' = WriteFrame(log, pos, rec)
    /\ pos' = pos + Width(rec)

-----------------------------------------------------------------------------
(* TxManager                                                               *)

\* begin raises TransactionAlreadyActive while an id is active.
NewTx ==
    /\ Ready
    /\ active = 0
    /\ nextTx <= MaxTx
    /\ active' = nextTx
    /\ nextTx' = nextTx + 1
    /\ touched' = <<>>

\* transaction() has read all pages before.
Begin ==
    /\ NewTx
    /\ ~(Keeps("checkpointOnOpen") /\ inherited)
    /\ snapshot' = page
    /\ tx' = "block"
    /\ UNCHANGED <<client, page, log, phase, pos, due, inherited, undo, history>>

Commit ==
    /\ Ready
    /\ tx = "block"
    /\ AppendRec(Control("TX_COMMIT", active))
    /\ active' = 0
    /\ tx' = "none"
    /\ committed' = page
    /\ UNCHANGED <<client, page, phase, nextTx, due, snapshot, touched, inherited, undo,
                   mishaps, stops>>

\* The append of TX_COMMIT or the fsync after it raises: transaction() goes on to
\* roll back, with or without the record in the log.
CommitFails ==
    /\ Ready
    /\ client = "db"
    /\ tx = "block"
    /\ AppendRec(Control("TX_COMMIT", active)) \/ UNCHANGED <<log, pos>>
    /\ tx' = "failed"
    /\ UNCHANGED <<client, page, phase, nextTx, active, due, snapshot, touched, inherited,
                   undo, history>>

\* The body of the transaction raises, or its commit has.
RollingBack == phase = "open" /\ due = NoWrite /\ tx \in {"block", "failed"}

\* Mutant of Rollback: nobody puts the pages back.
RollbackMarkOnly ==
    /\ RollingBack
    /\ AppendRec(Control("TX_ROLLBACK", active))
    /\ active' = 0
    /\ tx' = "none"
    /\ UNCHANGED <<client, page, phase, nextTx, due, snapshot, touched, inherited, undo,
                   history>>

\* TxManager.rollback only marks the log; the caller puts the pages back, as
\* transaction() does with _restore_pages.
Rollback ==
    /\ RollingBack
    /\ AppendRec(Control("TX_ROLLBACK", active))
    /\ active' = 0
    /\ tx' = "rollback"
    /\ undo' = Pages
    /\ UNCHANGED <<client, page, phase, nextTx, due, snapshot, touched, inherited, history>>

\* One round of the loop of _restore_pages.
RestorePage(p) ==
    /\ tx = "rollback"
    /\ p \in undo
    /\ \A q \in undo : p <= q
    /\ page' = [page EXCEPT ![p] = snapshot[p]]
    /\ undo' = undo \ {p}
    /\ UNCHANGED <<client, log, phase, pos, nextTx, active, due, snapshot, touched, inherited,
                   tx, history>>

RolledBack ==
    /\ tx = "rollback"
    /\ undo = {}
    /\ tx' = "none"
    /\ UNCHANGED <<client, page, log, phase, pos, nextTx, active, due, snapshot, touched,
                   inherited, undo, history>>

Checkpoint ==
    /\ Ready
    /\ log # <<>>
    /\ Keeps("checkpointIdle") => active = 0
    /\ log' = <<>>
    /\ pos' = 0
    /\ inherited' = FALSE
    /\ UNCHANGED <<client, page, phase, nextTx, active, due, snapshot, touched, tx, undo,
                   history>>

\* BEGIN as a statement calls TxManager.begin and takes no snapshot.
SqlBegin ==
    /\ client = "db"
    /\ NewTx
    /\ tx' = "sql"
    /\ UNCHANGED <<client, page, log, phase, pos, due, snapshot, inherited, undo, history>>

\* COMMIT and ROLLBACK as statements: _exec_tx_control returns None and calls
\* nothing, inside transaction() as elsewhere.
SqlCommit ==
    /\ Ready
    /\ tx = "sql"
    /\ tx' = "none"
    /\ committed' = page
    /\ UNCHANGED <<client, page, log, phase, pos, nextTx, active, due, snapshot, touched,
                   inherited, undo, mishaps, stops>>

SqlRollback ==
    /\ Ready
    /\ tx = "sql"
    /\ tx' = "none"
    /\ mishaps' = mishaps \cup {m \in {"sql_rollback"} : page # committed}
    /\ UNCHANGED <<client, page, log, phase, pos, nextTx, active, due, snapshot, touched,
                   inherited, undo, committed, stops>>

-----------------------------------------------------------------------------
(* Page writes                                                             *)

MayTouch(p) ==
    /\ Len(touched) < MaxWrites
    /\ Keeps("once") => \A i \in DOMAIN touched : touched[i] # p

LogMutation(p, v) ==
    /\ Ready
    /\ client = "api"
    /\ tx = "block"
    /\ MayTouch(p)
    /\ AppendRec(Mutation(active, p, page[p], v))
    /\ due' = [pg |-> p, after |-> v]
    /\ touched' = Append(touched, p)
    /\ UNCHANGED <<client, page, phase, nextTx, active, snapshot, inherited, tx, undo,
                   history>>

WriteLogged ==
    /\ phase = "open"
    /\ due # NoWrite
    /\ page' = [page EXCEPT ![due.pg] = due.after]
    /\ due' = NoWrite
    /\ UNCHANGED <<client, log, phase, pos, nextTx, active, snapshot, touched, inherited,
                   tx, undo, history>>

\* A DML statement of the executor: the heap page is rewritten in place and no
\* record is logged.  Outside a transaction the statement commits itself.
ExecuteDml(p, v) ==
    /\ Ready
    /\ client = "db"
    /\ MayTouch(p)
    /\ page' = [page EXCEPT ![p] = v]
    /\ committed' = IF tx = "none" THEN page' ELSE committed
    /\ touched' = Append(touched, p)
    /\ UNCHANGED <<client, log, phase, pos, nextTx, active, due, snapshot, inherited, tx, undo,
                   mishaps, stops>>

-----------------------------------------------------------------------------
(* Stop and open                                                           *)

Stop ==
    /\ phase = "open"
    /\ stops < MaxStops
    /\ stops' = stops + 1
    /\ phase' = "stopped"
    /\ pos' = 0
    /\ nextTx' = 1
    /\ active' = 0
    /\ due' = NoWrite
    /\ snapshot' = Blank
    /\ touched' = <<>>
    /\ inherited' = FALSE
    /\ tx' = "none"
    /\ undo' = {}
    /\ mishaps' = mishaps \cup {m \in {"cut_short"} :
                                  client = "db" /\ tx # "none" /\ page # committed}
    /\ UNCHANGED <<client, page, log, committed>>

\* FileStore.open replays the log (or raises), then Wal.open scans it for the
\* next lsn, which leaves the descriptor at offset 0, and TxManager starts
\* numbering at 1.
Open ==
    /\ phase = "stopped"
    /\ IF Readable(log)
         THEN phase' = "open" /\ page' = Replay(log, page)
         ELSE phase' = "broken" /\ UNCHANGED page
    /\ pos' = 0
    /\ inherited' = (log # <<>>)
    /\ UNCHANGED <<client, log, nextTx, active, due, snapshot, touched, tx, undo, history>>

Next ==
    \/ Begin \/ Commit \/ CommitFails \/ Checkpoint
    \/ Rollback \/ (\E p \in Pages : RestorePage(p)) \/ RolledBack
    \/ SqlBegin \/ SqlCommit \/ SqlRollback
    \/ \E p \in Pages, v \in Values : LogMutation(p, v) \/ ExecuteDml(p, v)
    \/ WriteLogged
    \/ Stop \/ Open

Spec == Init /\ [][Next]_vars

-----------------------------------------------------------------------------
(* Properties                                                              *)

Bodies == [Pages -> Values \cup {0}]

TypeOK ==
    /\ client \in Clients
    /\ page \in Bodies
    /\ \A i \in DOMAIN log : log[i].part \in 1..MutateCells
    /\ phase \in {"open", "stopped", "broken"}
    /\ pos \in 0..Len(log)
    /\ nextTx \in 1..(MaxTx + 1)
    /\ active \in 0..MaxTx
    /\ due.pg \in Pages \cup {0}
    /\ snapshot \in Bodies
    /\ Len(touched) <= MaxWrites
    /\ tx \in Situations
    /\ undo \in SUBSET Pages
    /\ committed \in Bodies
    /\ mishaps \in SUBSET Mishaps
    /\ stops \in 0..MaxStops

\* Whenever the database is open and the client has no open transaction, the
\* pages hold exactly what the committed transactions wrote: after COMMIT,
\* after ROLLBACK, and after a stop at any point followed by replay.
IdleIsCommitted == phase = "open" /\ tx = "none" => page = committed

\* Replay never rejects a log that the database itself wrote.
AlwaysOpens == phase # "broken"

\* A transaction the client has ended is no longer active, so that the next
\* BEGIN can succeed.
EndedIsInactive == phase = "open" /\ tx = "none" => active = 0

\* A client that logs every change before it makes it, and keeps the Habits, can
\* always open the database again, and finds then, and whenever it is idle, exactly
\* its committed writes: replay redoes and undoes the right transactions wherever
\* the process stopped.
LoggedRecovered == client = "api" => AlwaysOpens /\ IdleIsCommitted

\* A Database can always be opened again, whatever it left in the log, and when it
\* is in no transaction its pages hold exactly what was committed: commit keeps a
\* transaction() whole, an exception, a failing commit included, takes all of it
\* back, and stops between transactions and CHECKPOINTs anywhere lose nothing and
\* bring nothing back.  The two windows of Mishaps are left out: there StopsUndone
\* and IdleIsCommitted do not hold.
DatabaseRecovered == client = "db" => AlwaysOpens /\ (mishaps = {} => IdleIsCommitted)

\* The same with stops inside a transaction, of which the specification says that
\* the next open leaves nothing of what was not committed.
StopsUndone == "sql_rollback" \notin mishaps => IdleIsCommitted
=============================================================================
