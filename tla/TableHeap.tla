------------------------------ MODULE TableHeap ------------------------------
(***************************************************************************)
(* One table: the single-page heap of tinydb/heap.py under the INSERT,     *)
(* UPDATE and DELETE statements of tinydb/executor/dml.py.  A row has a    *)
(* PRIMARY KEY column (key, an INT) and a second column of which only the  *)
(* encoded length matters (text).  A statement is a loop that changes the  *)
(* page once per row, so each row is a step and a process may die between  *)
(* two of them.                                                            *)
(***************************************************************************)
EXTENDS Integers, Sequences, FiniteSets

CONSTANTS Keys,         \* key values of the statements
          TextLengths,  \* encoded lengths of the other column
          Statements,   \* the kinds of statement clients issue
          MaxSlots,     \* bound: slots of the page (the code stops at page_size)
          MaxReopens    \* bound: restarts of the process

Null == -1

ASSUME HeapAssumption ==
    /\ Keys \subseteq Nat
    /\ TextLengths \subseteq Nat
    /\ Statements \subseteq {"insert", "update", "delete"}
    /\ MaxSlots \in Nat
    /\ MaxReopens \in Nat

VARIABLES slots,      \* the page body: rows with their deleted flag
          checked,    \* Executor._constraints knows the table's PRIMARY KEY
          stmt,       \* the running statement and what is left of it
          reopens,
          table,      \* history: the rows the statements have asked for
          moved       \* history: an UPDATE moved a row that no longer fitted its slot

vars == <<slots, checked, stmt, reopens, table, moved>>

-----------------------------------------------------------------------------
(* Rows and slots                                                          *)

Row == [key : Keys \cup {Null}, text : TextLengths]

\* encode_row: a NULL takes no bytes, an INT a fixed number (here one unit).
EncodedLength(row) == row.text + (IF row.key = Null THEN 0 ELSE 1)

\* decode: eight zero bytes, the encoding of INT 0, are read back as NULL.
Decoded(row) == [row EXCEPT !.key = IF @ = 0 THEN Null ELSE @]

Slot(id, row) ==
    [id |-> id, room |-> EncodedLength(row), deleted |-> FALSE, row |-> row]

\* scan: the live slots, decoded.
Scan == {[at |-> i, id |-> slots[i].id, row |-> Decoded(slots[i].row)] :
             i \in {j \in DOMAIN slots : ~slots[j].deleted}}

\* delete and update walk the page to the first slot with the row id, whether
\* or not its deleted flag is set.
FirstSlot(id) ==
    CHOOSE i \in DOMAIN slots :
        /\ slots[i].id = id
        /\ \A j \in 1..(i - 1) : slots[j].id # id

\* Mutant of HeapAppend: the row id counts the live slots only.
HeapAppendByLiveRows(row) == slots' = Append(slots, Slot(Cardinality(Scan) + 1, row))

\* Heap.append
HeapAppend(row) == slots' = Append(slots, Slot(Len(slots) + 1, row))

\* Heap.delete
HeapDelete(id) == slots' = [slots EXCEPT ![FirstSlot(id)].deleted = TRUE]

\* Heap.update: in place, which clears the deleted flag, when the new row is not
\* longer than the slot; otherwise the slot is marked and the row appended.
HeapUpdate(id, row) ==
    LET i == FirstSlot(id) IN
      IF EncodedLength(row) <= slots[i].room
        THEN slots' = [slots EXCEPT ![i].deleted = FALSE, ![i].row = row]
        ELSE slots' = Append([slots EXCEPT ![i].deleted = TRUE], Slot(id, row))

-----------------------------------------------------------------------------
(* Statements                                                              *)

NoSet == [column |-> "none", value |-> 0]

\* A statement with the rows an INSERT has yet to append, the scanned rows an
\* UPDATE or DELETE has yet to change, and the SET clause of an UPDATE.
Statement(kind, rows, left, set) ==
    [kind |-> kind, rows |-> rows, left |-> left, set |-> set]

Idle == Statement("none", <<>>, {}, NoSet)

Assign(row, set) ==
    IF set.column = "key" THEN [row EXCEPT !.key = set.value]
    ELSE [row EXCEPT !.text = set.value]

Assignments ==
    [column : {"key"}, value : Keys] \cup [column : {"text"}, value : TextLengths]

\* CREATE TABLE registered the PRIMARY KEY in this session.
Init ==
    /\ slots = <<>>
    /\ checked = TRUE
    /\ stmt = Idle
    /\ reopens = 0
    /\ table = {}
    /\ moved = FALSE

Start(s) ==
    /\ stmt = Idle
    /\ s.kind \in Statements
    /\ stmt' = s
    /\ UNCHANGED <<slots, checked, reopens, table, moved>>

\* INSERT of one or two rows.
StartInsert(rows) == Start(Statement("insert", rows, {}, NoSet))

\* UPDATE and DELETE collect the matching rows of one scan before they change
\* anything.
Matching(where) == {s \in Scan : s.row.key \in where}

StartUpdate(where, set) == Start(Statement("update", <<>>, Matching(where), set))

StartDelete(where) == Start(Statement("delete", <<>>, Matching(where), NoSet))

\* Mutant of KeyTaken: only the first row of the scan is compared.
KeyTakenByFirst(row) == \E s \in Scan : s.at = 1 /\ s.row.key = row.key

\* _check_unique compares with what a scan returns.
KeyTaken(row) == \E s \in Scan : s.row.key = row.key

\* One pass of exec_insert's loop.
InsertRow ==
    /\ stmt.kind = "insert" /\ stmt.rows # <<>>
    /\ ~(checked /\ KeyTaken(Head(stmt.rows)))
    /\ Len(slots) < MaxSlots
    /\ HeapAppend(Head(stmt.rows))
    /\ stmt' = [stmt EXCEPT !.rows = Tail(@)]
    /\ table' = table \cup {[id |-> Len(slots) + 1, row |-> Head(stmt.rows)]}
    /\ UNCHANGED <<checked, reopens, moved>>

\* UniqueViolation leaves the loop; the rows before it stay.
RejectRow ==
    /\ stmt.kind = "insert" /\ stmt.rows # <<>>
    /\ checked /\ KeyTaken(Head(stmt.rows))
    /\ stmt' = Idle
    /\ UNCHANGED <<slots, checked, reopens, table, moved>>

\* A row that _validate_row rejects (a wrong type, a missing NOT NULL value)
\* leaves the loop in the same way; values are abstract, so any row may be one.
InvalidRow ==
    /\ stmt.kind = "insert" /\ stmt.rows # <<>>
    /\ stmt' = Idle
    /\ UNCHANGED <<slots, checked, reopens, table, moved>>

\* The next row of the scan that exec_update or exec_delete loops over.
IsNext(s) == \A o \in stmt.left : s.at <= o.at

UpdateRow ==
    /\ stmt.kind = "update"
    /\ Len(slots) < MaxSlots
    /\ \E s \in stmt.left :
         /\ IsNext(s)
         /\ HeapUpdate(s.id, Assign(s.row, stmt.set))
         /\ stmt' = [stmt EXCEPT !.left = @ \ {s}]
         /\ table' = {IF r.id = s.id THEN [r EXCEPT !.row = Assign(@, stmt.set)] ELSE r :
                        r \in table}
    /\ moved' = (moved \/ Len(slots') > Len(slots))
    /\ UNCHANGED <<checked, reopens>>

DeleteRow ==
    /\ stmt.kind = "delete"
    /\ \E s \in stmt.left :
         /\ IsNext(s)
         /\ HeapDelete(s.id)
         /\ stmt' = [stmt EXCEPT !.left = @ \ {s}]
         /\ table' = {r \in table : r.id # s.id}
    /\ UNCHANGED <<checked, reopens, moved>>

\* heap.close and the return to the caller.
Finish ==
    /\ stmt.kind # "none"
    /\ stmt.rows = <<>> /\ stmt.left = {}
    /\ stmt' = Idle
    /\ UNCHANGED <<slots, checked, reopens, table, moved>>

\* A restart, clean or not: page writes are already in the file, the executor's
\* constraints and the rest of the statement are gone.
Reopen ==
    /\ reopens < MaxReopens
    /\ reopens' = reopens + 1
    /\ checked' = FALSE
    /\ stmt' = Idle
    /\ UNCHANGED <<slots, table, moved>>

Wheres == SUBSET (Keys \cup {Null})

Inputs == {r \in Row : r.key # Null}

Next ==
    \/ \E r \in Inputs : StartInsert(<<r>>) \/ \E q \in Inputs : StartInsert(<<r, q>>)
    \/ \E w \in Wheres : StartDelete(w) \/ \E a \in Assignments : StartUpdate(w, a)
    \/ InsertRow \/ RejectRow \/ InvalidRow \/ UpdateRow \/ DeleteRow \/ Finish
    \/ Reopen

Spec == Init /\ [][Next]_vars

-----------------------------------------------------------------------------
(* Properties                                                              *)

Steps == [at : 1..MaxSlots, id : 1..MaxSlots, row : Row]

TypeOK ==
    /\ slots \in Seq([id : 1..MaxSlots, room : Nat, deleted : BOOLEAN, row : Row])
    /\ Len(slots) <= MaxSlots
    /\ checked \in BOOLEAN
    /\ reopens \in 0..MaxReopens
    /\ moved \in BOOLEAN
    /\ table \subseteq [id : 1..MaxSlots, row : Row]
    /\ stmt \in [kind : {"none"} \cup Statements, rows : Seq(Row), left : SUBSET Steps,
                set : {NoSet} \cup Assignments]
    /\ stmt.kind = "update" => stmt.set \in Assignments

\* The rows the statements have asked for, as they are read back: a 0 as NULL.
Asked == {[r EXCEPT !.row = Decoded(@)] : r \in table}

\* A scan returns exactly the rows asked for, each once.
RowsAsAsked ==
    /\ {[id |-> s.id, row |-> s.row] : s \in Scan} = Asked
    /\ \A s, o \in Scan : s.id = o.id => s = o

\* As long as no UPDATE had to move a row, a scan returns exactly the rows that
\* the INSERT, UPDATE and DELETE steps so far asked for, each once: nothing
\* deleted comes back, no row is duplicated and no update is lost, at every step
\* of a statement and across restarts.
ScanMatchesTable == ~moved => RowsAsAsked

\* Not so: a 0 is read back as NULL.
ZeroKept == Asked = table

\* The keys that two live rows were stored with, 0 among them although it is read
\* back as NULL.
DoubleKeys ==
    {k \in Keys : \E i, j \in DOMAIN slots :
        i # j /\ ~slots[i].deleted /\ ~slots[j].deleted
        /\ slots[i].row.key = k /\ slots[j].row.key = k}

\* What query-executor/spec.md asks of a PRIMARY KEY.  Not so once the process was
\* restarted, and not for the key 0.
PrimaryKeyUnique == DoubleKeys = {}

\* An INSERT of a session that knows the PRIMARY KEY makes no key double but 0: not
\* against the table, nor within its own rows, nor after some of them were
\* rejected.  _check_unique compares with rows as they are read back, where a stored
\* 0 is NULL, so the key 0 is accepted again and again.
InsertKeepsKeys ==
    [][checked /\ stmt.kind = "insert" => DoubleKeys' \ {0} \subseteq DoubleKeys]_vars

\* Not so, because of the key 0.
InsertRejectsDouble ==
    [][checked /\ stmt.kind = "insert" => DoubleKeys' \subseteq DoubleKeys]_vars
==============================================================================
