--------------------------- MODULE TableHeapProofs ---------------------------
(***************************************************************************)
(* TypeOK, and that until an UPDATE has to move a row a scan returns       *)
(* exactly the rows the statements asked for: ScanMatchesTable, for any    *)
(* keys, row lengths, statements and restarts; and InsertKeepsKeys.        *)
(*                                                                         *)
(* ScanMatchesTable is not inductive by itself.  While no row has been     *)
(* moved, two facts carry it: slot i holds row id i, and the rows an UPDATE*)
(* has left are live and unchanged since its scan, so that updating in     *)
(* place cannot revive a deleted row or write back a stale one.  After a   *)
(* move only the types remain, and that the walk for a row id finds a slot.*)
(***************************************************************************)
EXTENDS TableHeap, WellFoundedInduction, TLAPS

Slots == [id : 1..MaxSlots, room : Nat, deleted : BOOLEAN, row : Row]

StmtType ==
    [kind : {"none"} \cup Statements, rows : Seq(Row), left : SUBSET Steps,
     set : {NoSet} \cup Assignments]

\* The rows the running statement has left have slots.
Findable == \A s \in stmt.left : \E i \in DOMAIN slots : slots[i].id = s.id

\* Slot i holds row id i.
Aligned == \A i \in DOMAIN slots : slots[i].id = i

\* The live slots and the history hold the same rows, as they are read back.
SameRows ==
    /\ \A i \in DOMAIN slots : ~slots[i].deleted => \E r \in table : r.id = i
    /\ \A r \in table :
          /\ r.id \in DOMAIN slots
          /\ ~slots[r.id].deleted
          /\ Decoded(r.row) = Decoded(slots[r.id].row)

\* What the running statement still has to do refers to the page as it is.
StatementFits ==
    /\ \A s \in stmt.left : s.at = s.id /\ s.id \in DOMAIN slots
    /\ stmt.kind = "update" =>
          \A s \in stmt.left : ~slots[s.id].deleted /\ s.row = Decoded(slots[s.id].row)

Unmoved == Aligned /\ SameRows /\ StatementFits

Inv == TypeOK /\ Findable /\ (~moved => Unmoved)

-----------------------------------------------------------------------------
\* The page is a sequence of at most MaxSlots slots.
LEMMA SlotFacts ==
    ASSUME TypeOK
    PROVE  /\ slots \in Seq(Slots)
           /\ DOMAIN slots \subseteq 1..MaxSlots
           /\ \A i \in DOMAIN slots : slots[i] \in Slots
<1>1. slots \in Seq(Slots) /\ Len(slots) <= MaxSlots
  BY DEF TypeOK, Slots
<1>2. DOMAIN slots \subseteq 1..MaxSlots
  BY <1>1, HeapAssumption
<1>3. \A i \in DOMAIN slots : slots[i] \in Slots
  BY <1>1
<1> QED BY <1>1, <1>2, <1>3

\* encode_row and decode_row on rows.
LEMMA RowFacts ==
    ASSUME NEW a \in Row
    PROVE  /\ EncodedLength(a) \in Nat
           /\ Decoded(a) \in Row
           /\ Decoded(Decoded(a)) = Decoded(a)
<1>0. a.text \in Nat
  BY HeapAssumption DEF Row
<1>1. EncodedLength(a) \in Nat
  BY <1>0 DEF EncodedLength
<1> DEFINE k == IF a.key = 0 THEN Null ELSE a.key
<1>2. Decoded(a) = [a EXCEPT !.key = k]
  BY DEF Decoded
<1>3. k \in Keys \cup {Null} /\ k # 0
  BY DEF Row, Null
<1> HIDE DEF k
<1>4. [a EXCEPT !.key = k] \in Row /\ [a EXCEPT !.key = k].key = k
  BY <1>3 DEF Row
<1>5. \A b \in Row : b.key # 0 => Decoded(b) = b
  BY DEF Row, Decoded
<1> QED BY <1>1, <1>2, <1>3, <1>4, <1>5

\* A SET clause turns a row into a row, and rows that are read back alike into
\* rows that are read back alike.
LEMMA AssignFacts ==
    ASSUME NEW a \in Row, NEW b \in Row, NEW set \in Assignments
    PROVE  /\ Assign(a, set) \in Row
           /\ Decoded(a) = Decoded(b) => Decoded(Assign(a, set)) = Decoded(Assign(b, set))
<1>1. CASE set.column = "key"
  BY <1>1, HeapAssumption DEF Assign, Row, Assignments, Decoded, Null
<1>2. CASE set.column # "key"
  <2>1. set.value \in TextLengths
    BY <1>2 DEF Assignments
  <2> QED BY <1>2, <2>1, HeapAssumption DEF Assign, Row, Decoded, Null
<1> QED BY <1>1, <1>2

\* The walk of delete and update ends in a slot with the row id.
LEMMA FirstSlotFound ==
    ASSUME TypeOK, NEW id, \E i \in DOMAIN slots : slots[i].id = id
    PROVE  FirstSlot(id) \in DOMAIN slots /\ slots[FirstSlot(id)].id = id
<1> DEFINE S == {i \in DOMAIN slots : slots[i].id = id}
<1>1. S \subseteq Nat /\ S # {}
  BY SlotFacts
<1>2. PICK n \in S : \A m \in S : n <= m
  <2> DEFINE R == OpToRel(<, Nat)
  <2>1. PICK n \in S : \A m \in S : ~(<<m, n>> \in R)
    BY <1>1, NatLessThanWellFounded, WFMin
  <2>2. \A m \in S : m < n => <<m, n>> \in R
    BY <1>1 DEF OpToRel
  <2> HIDE DEF R, S
  <2>3. \A m \in S : n <= m
    <3>1. \A m \in S : ~(m < n)
      BY <2>1, <2>2
    <3>2. \A m \in S : m \in Nat /\ n \in Nat
      BY <1>1
    <3> QED BY <3>1, <3>2
  <2> QED BY <2>3
<1>3. \A j \in 1..(n - 1) : slots[j].id # id
  <2> SUFFICES ASSUME NEW j \in 1..(n - 1), slots[j].id = id PROVE FALSE
    OBVIOUS
  <2>1. j \in DOMAIN slots
    BY <1>2, SlotFacts DEF TypeOK
  <2> QED BY <1>2, <2>1, SlotFacts
<1>4. \E i \in DOMAIN slots : slots[i].id = id /\ \A j \in 1..(i - 1) : slots[j].id # id
  BY <1>2, <1>3
<1> QED BY <1>4 DEF FirstSlot

\* On an aligned page it is the slot of that number.
LEMMA FirstSlotIsId ==
    ASSUME TypeOK, Aligned, NEW id \in DOMAIN slots
    PROVE  FirstSlot(id) = id
BY FirstSlotFound DEF Aligned

\* What a scan returns of an aligned page.
LEMMA ScanOfAligned ==
    ASSUME Aligned
    PROVE  Scan = {[at |-> i, id |-> i, row |-> Decoded(slots[i].row)] :
                      i \in {j \in DOMAIN slots : ~slots[j].deleted}}
BY DEF Scan, Aligned

-----------------------------------------------------------------------------
LEMMA InitInv == Init => Inv
<1> SUFFICES ASSUME Init PROVE Inv
  OBVIOUS
<1>0. checked \in BOOLEAN /\ moved \in BOOLEAN
  BY DEF Init
<1>1. TypeOK
  <2>1. /\ slots = <<>> /\ table = {} /\ reopens = 0
        /\ stmt = [kind |-> "none", rows |-> <<>>, left |-> {}, set |-> NoSet]
    BY DEF Init, Idle, Statement
  <2> QED BY <1>0, <2>1, HeapAssumption DEF TypeOK
<1>2. Findable /\ Unmoved
  BY DEF Init, Findable, Unmoved, Aligned, SameRows, StatementFits, Idle, Statement
<1> QED BY <1>1, <1>2 DEF Inv

LEMMA StartInsertInv ==
    ASSUME Inv, NEW rows \in Seq(Inputs), StartInsert(rows)
    PROVE  Inv'
BY DEF Inv, TypeOK, Findable, Unmoved, Aligned, SameRows, StatementFits, StartInsert, Start,
       Statement, NoSet, Inputs

LEMMA StartScanInv ==
    ASSUME Inv, NEW where \in Wheres,
           StartDelete(where) \/ \E set \in Assignments : StartUpdate(where, set)
    PROVE  Inv'
<1>1. UNCHANGED <<slots, checked, reopens, table, moved>>
  BY DEF StartDelete, StartUpdate, Start
<1>2. stmt'.left = Matching(where) /\ stmt'.rows = <<>> /\ stmt'.kind \in {"update", "delete"}
  BY DEF StartDelete, StartUpdate, Start, Statement
<1>3. \A s \in Matching(where) : s \in Steps /\ \E i \in DOMAIN slots : slots[i].id = s.id
  <2> SUFFICES ASSUME NEW i \in DOMAIN slots
               PROVE  [at |-> i, id |-> slots[i].id, row |-> Decoded(slots[i].row)] \in Steps
    BY DEF Matching, Scan
  <2>1. i \in 1..MaxSlots /\ slots[i].id \in 1..MaxSlots /\ slots[i].row \in Row
    BY SlotFacts DEF Inv, Slots
  <2> QED BY <2>1, RowFacts DEF Steps
<1>4. Findable'
  BY <1>1, <1>2, <1>3 DEF Findable
<1>5. TypeOK'
  <2>1. Matching(where) \in SUBSET Steps
    BY <1>3
  <2>2. stmt' \in StmtType
    <3>1. CASE StartDelete(where)
      BY <2>1, <3>1 DEF StartDelete, Start, Statement, StmtType
    <3>2. ASSUME NEW set \in Assignments, StartUpdate(where, set)
          PROVE  stmt' \in StmtType
      BY <2>1, <3>2 DEF StartUpdate, Start, Statement, StmtType
    <3> QED BY <3>1, <3>2
  <2>3. stmt'.kind = "update" => stmt'.set \in Assignments
    BY DEF StartDelete, StartUpdate, Start, Statement
  <2> QED BY <1>1, <2>2, <2>3 DEF Inv, TypeOK, StmtType
<1>6. ASSUME ~moved' PROVE Unmoved'
  <2>1. Aligned /\ SameRows
    BY <1>1, <1>6 DEF Inv, Unmoved
  <2>2. \A s \in Matching(where) :
           /\ s.at = s.id /\ s.id \in DOMAIN slots
           /\ ~slots[s.id].deleted /\ s.row = Decoded(slots[s.id].row)
    BY <2>1, ScanOfAligned DEF Matching
  <2>3. Aligned' /\ SameRows'
    BY <1>1, <2>1 DEF Aligned, SameRows
  <2>4. StatementFits'
    BY <1>1, <1>2, <2>2 DEF StatementFits
  <2> QED BY <2>3, <2>4 DEF Unmoved
<1> QED BY <1>4, <1>5, <1>6 DEF Inv

LEMMA InsertRowInv ==
    ASSUME Inv, InsertRow
    PROVE  Inv'
<1> DEFINE row == Head(stmt.rows)
           n == Len(slots) + 1
<1>1. row \in Row /\ Tail(stmt.rows) \in Seq(Row) /\ stmt \in StmtType
  BY DEF Inv, TypeOK, InsertRow, StmtType
<1>2. /\ n \in 1..MaxSlots
      /\ slots \in Seq(Slots)
      /\ Slot(n, row) \in Slots
  BY <1>1, RowFacts, HeapAssumption DEF Inv, TypeOK, InsertRow, Slot, Slots
<1>3. /\ slots' = Append(slots, Slot(n, row))
      /\ stmt' = [stmt EXCEPT !.rows = Tail(@)]
      /\ table' = table \cup {[id |-> n, row |-> row]}
      /\ UNCHANGED <<checked, reopens, moved>>
  BY DEF InsertRow, HeapAppend
<1> HIDE DEF row, n
<1>4. /\ slots' \in Seq(Slots) /\ Len(slots') = n
      /\ \A i \in DOMAIN slots : slots'[i] = slots[i]
      /\ slots'[n] = Slot(n, row)
      /\ DOMAIN slots' = DOMAIN slots \cup {n}
      /\ n \notin DOMAIN slots
  BY <1>2, <1>3 DEF n
<1>5. /\ stmt'.kind = stmt.kind /\ stmt'.left = stmt.left /\ stmt'.set = stmt.set
      /\ stmt' \in StmtType
  BY <1>1, <1>3 DEF StmtType
<1>6. TypeOK'
  <2>1. [id |-> n, row |-> row] \in [id : 1..MaxSlots, row : Row]
    BY <1>1, <1>2
  <2>2. table' \subseteq [id : 1..MaxSlots, row : Row]
    BY <1>3, <2>1 DEF Inv, TypeOK
  <2>3. slots' \in Seq(Slots) /\ Len(slots') <= MaxSlots
    BY <1>2, <1>4, HeapAssumption
  <2>4. checked' \in BOOLEAN /\ reopens' \in 0..MaxReopens /\ moved' \in BOOLEAN
    BY <1>3 DEF Inv, TypeOK
  <2>5. stmt'.kind = "update" => stmt'.set \in Assignments
    BY <1>5 DEF Inv, TypeOK
  <2> QED BY <1>5, <2>2, <2>3, <2>4, <2>5 DEF TypeOK, Slots, StmtType
<1>7. Findable'
  BY <1>4, <1>5 DEF Inv, Findable
<1>8. ASSUME ~moved' PROVE Unmoved'
  <2>1. Aligned /\ SameRows /\ StatementFits
    BY <1>3, <1>8 DEF Inv, Unmoved
  <2>2. slots'[n].row = row /\ slots'[n].id = n /\ ~slots'[n].deleted
    BY <1>4 DEF Slot
  <2>3. Aligned'
    BY <1>4, <2>1, <2>2 DEF Aligned
  <2>4. SameRows'
    <3>1. [id |-> n, row |-> row] \in table' /\ table \subseteq table'
      BY <1>3
    <3>2. \A i \in DOMAIN slots' : ~slots'[i].deleted => \E r \in table' : r.id = i
      BY <1>4, <2>1, <3>1 DEF SameRows
    <3>3. \A r \in table' : /\ r.id \in DOMAIN slots'
                            /\ ~slots'[r.id].deleted
                            /\ Decoded(r.row) = Decoded(slots'[r.id].row)
      BY <1>3, <1>4, <2>1, <2>2 DEF SameRows
    <3> QED BY <3>2, <3>3 DEF SameRows
  <2>5. StatementFits'
    BY <1>4, <1>5, <2>1 DEF StatementFits
  <2> QED BY <2>3, <2>4, <2>5 DEF Unmoved
<1> QED BY <1>6, <1>7, <1>8 DEF Inv

\* What an UPDATE step does to the page: in place, or a new slot at the end.
LEMMA UpdateSlots ==
    ASSUME Inv, NEW s \in stmt.left, NEW new \in Row, HeapUpdate(s.id, new)
    PROVE  LET i == FirstSlot(s.id) IN
           /\ i \in DOMAIN slots /\ slots[i].id = s.id
           /\ \/ /\ slots' \in Seq(Slots) /\ Len(slots') = Len(slots)
                 /\ DOMAIN slots' = DOMAIN slots
                 /\ \A j \in DOMAIN slots : j # i => slots'[j] = slots[j]
                 /\ slots'[i].id = slots[i].id /\ slots'[i].row = new /\ ~slots'[i].deleted
              \/ /\ Len(slots) < MaxSlots => slots' \in Seq(Slots)
                 /\ Len(slots') = Len(slots) + 1
                 /\ DOMAIN slots \subseteq DOMAIN slots'
                 /\ \A j \in DOMAIN slots : slots'[j].id = slots[j].id
<1> DEFINE i == FirstSlot(s.id)
<1>1. i \in DOMAIN slots /\ slots[i].id = s.id
  BY FirstSlotFound DEF Inv, Findable
<1>2. slots \in Seq(Slots) /\ slots[i] \in Slots
  BY <1>1, SlotFacts DEF Inv
<1>3. CASE EncodedLength(new) <= slots[i].room
  <2>1. slots' = [slots EXCEPT ![i].deleted = FALSE, ![i].row = new]
    BY <1>3 DEF HeapUpdate
  <2> DEFINE after == [slots[i] EXCEPT !.deleted = FALSE, !.row = new]
  <2>2. after \in Slots /\ after.id = slots[i].id /\ after.row = new /\ ~after.deleted
    BY <1>2 DEF Slots
  <2>3. slots' = [slots EXCEPT ![i] = after]
    BY <1>1, <1>2, <2>1
  <2> HIDE DEF after, i
  <2>4. /\ slots' \in Seq(Slots) /\ Len(slots') = Len(slots) /\ DOMAIN slots' = DOMAIN slots
        /\ \A j \in DOMAIN slots : j # i => slots'[j] = slots[j]
        /\ slots'[i] = after
    BY <1>1, <1>2, <2>2, <2>3
  <2> QED BY <1>1, <2>2, <2>4 DEF i
<1>4. CASE ~(EncodedLength(new) <= slots[i].room)
  <2> DEFINE marked == [slots EXCEPT ![i].deleted = TRUE]
             dead == [slots[i] EXCEPT !.deleted = TRUE]
  <2>1. slots' = Append(marked, Slot(s.id, new))
    BY <1>4 DEF HeapUpdate
  <2>2. dead \in Slots /\ dead.id = slots[i].id
    BY <1>2 DEF Slots
  <2>3. marked = [slots EXCEPT ![i] = dead]
    BY <1>1, <1>2
  <2>4. s.id \in 1..MaxSlots
    BY <1>1, <1>2 DEF Slots
  <2>5. Slot(s.id, new) \in Slots
    BY <2>4, RowFacts DEF Slot, Slots
  <2> HIDE DEF dead, i, marked
  <2>6. /\ marked \in Seq(Slots) /\ Len(marked) = Len(slots) /\ DOMAIN marked = DOMAIN slots
        /\ \A j \in DOMAIN slots : marked[j].id = slots[j].id
    BY <1>1, <1>2, <2>2, <2>3
  <2>7. /\ slots' \in Seq(Slots) /\ Len(slots') = Len(slots) + 1
        /\ DOMAIN slots \subseteq DOMAIN slots'
        /\ \A j \in DOMAIN slots : slots'[j] = marked[j]
    BY <1>2, <2>1, <2>5, <2>6
  <2> QED BY <1>1, <2>6, <2>7 DEF i
<1> QED BY <1>3, <1>4

LEMMA UpdateRowInv ==
    ASSUME Inv, UpdateRow
    PROVE  Inv'
<1>1. PICK s \in stmt.left :
         /\ HeapUpdate(s.id, Assign(s.row, stmt.set))
         /\ stmt' = [stmt EXCEPT !.left = @ \ {s}]
         /\ table' = {IF r.id = s.id THEN [r EXCEPT !.row = Assign(@, stmt.set)] ELSE r :
                        r \in table}
  BY DEF UpdateRow
<1> DEFINE new == Assign(s.row, stmt.set)
           i == FirstSlot(s.id)
<1>2. /\ stmt.kind = "update" /\ stmt.set \in Assignments
      /\ Len(slots) < MaxSlots
      /\ moved' = (moved \/ Len(slots') > Len(slots))
      /\ UNCHANGED <<checked, reopens>>
  BY DEF UpdateRow, Inv, TypeOK
<1>3. s.row \in Row /\ new \in Row
  <2>1. s.row \in Row
    BY DEF Inv, TypeOK, Steps
  <2> QED BY <1>2, <2>1, AssignFacts
<1>4. /\ i \in DOMAIN slots /\ slots[i].id = s.id
      /\ \/ /\ slots' \in Seq(Slots) /\ Len(slots') = Len(slots)
            /\ DOMAIN slots' = DOMAIN slots
            /\ \A j \in DOMAIN slots : j # i => slots'[j] = slots[j]
            /\ slots'[i].id = slots[i].id /\ slots'[i].row = new /\ ~slots'[i].deleted
         \/ /\ Len(slots) < MaxSlots => slots' \in Seq(Slots)
            /\ Len(slots') = Len(slots) + 1
            /\ DOMAIN slots \subseteq DOMAIN slots'
            /\ \A j \in DOMAIN slots : slots'[j].id = slots[j].id
  BY <1>1, <1>3, UpdateSlots
<1>5. /\ stmt'.kind = stmt.kind /\ stmt'.left = stmt.left \ {s} /\ stmt'.set = stmt.set
      /\ stmt' \in StmtType
  BY <1>1 DEF Inv, TypeOK, StmtType
<1> HIDE DEF i, new
<1>6. Findable'
  <2>1. \A j \in DOMAIN slots : j \in DOMAIN slots' /\ slots'[j].id = slots[j].id
    BY <1>4
  <2> QED BY <1>5, <2>1 DEF Inv, Findable
<1>7. TypeOK'
  <2>1. ASSUME NEW r \in table, r.id = s.id
        PROVE  [r EXCEPT !.row = Assign(@, stmt.set)] \in [id : 1..MaxSlots, row : Row]
    <3>1. r \in [id : 1..MaxSlots, row : Row]
      BY DEF Inv, TypeOK
    <3>2. Assign(r.row, stmt.set) \in Row
      BY <1>2, <3>1, AssignFacts
    <3> QED BY <3>1, <3>2
  <2>2. table' \subseteq [id : 1..MaxSlots, row : Row]
    BY <1>1, <2>1 DEF Inv, TypeOK
  <2>3. slots' \in Seq(Slots) /\ Len(slots') <= MaxSlots
    <3>1. Len(slots) \in Nat /\ Len(slots) <= MaxSlots /\ MaxSlots \in Nat
      BY HeapAssumption DEF Inv, TypeOK
    <3> QED BY <1>2, <1>4, <3>1
  <2>4. moved' \in BOOLEAN
    BY <1>2 DEF Inv, TypeOK
  <2>5. stmt'.kind = "update" => stmt'.set \in Assignments
    BY <1>2, <1>5
  <2> QED BY <1>2, <1>5, <2>2, <2>3, <2>4, <2>5 DEF Inv, TypeOK, Slots, StmtType
<1>8. ASSUME ~moved' PROVE Unmoved'
  <2>1. Aligned /\ SameRows /\ StatementFits
    BY <1>2, <1>8 DEF Inv, Unmoved
  <2>2. Len(slots) \in Nat
    BY DEF Inv, TypeOK
  <2>3. /\ DOMAIN slots' = DOMAIN slots
        /\ \A j \in DOMAIN slots : j # i => slots'[j] = slots[j]
        /\ slots'[i].id = slots[i].id /\ slots'[i].row = new /\ ~slots'[i].deleted
    <3>1. ~(Len(slots') > Len(slots))
      BY <1>2, <1>8
    <3> QED BY <1>4, <2>2, <3>1
  <2>4. /\ i = s.id /\ i \in DOMAIN slots
        /\ ~slots[i].deleted /\ s.row = Decoded(slots[i].row)
    BY <1>2, <1>4, <2>1 DEF Aligned, StatementFits
  <2>5. Aligned'
    BY <2>1, <2>3 DEF Aligned
  <2>6. ASSUME NEW j \in DOMAIN slots', ~slots'[j].deleted
        PROVE  \E r \in table' : r.id = j
    <3>1. ~slots[j].deleted
      BY <2>3, <2>4, <2>6
    <3>2. PICK q \in table : q.id = j
      BY <2>1, <2>3, <3>1 DEF SameRows
    <3>3. q \in [id : 1..MaxSlots, row : Row]
      BY DEF Inv, TypeOK
    <3>4. [q EXCEPT !.row = Assign(@, stmt.set)].id = j
      BY <3>2, <3>3
    <3> QED BY <1>1, <3>2, <3>4
  <2>7. ASSUME NEW r \in table'
        PROVE  /\ r.id \in DOMAIN slots'
               /\ ~slots'[r.id].deleted
               /\ Decoded(r.row) = Decoded(slots'[r.id].row)
    <3>1. PICK q \in table : r = IF q.id = s.id THEN [q EXCEPT !.row = Assign(@, stmt.set)] ELSE q
      BY <1>1
    <3>2. q \in [id : 1..MaxSlots, row : Row]
      BY DEF Inv, TypeOK
    <3>3. CASE q.id # s.id
      BY <2>1, <2>3, <2>4, <3>1, <3>3 DEF SameRows
    <3>4. CASE q.id = s.id
      <4>1. r.id = i /\ r.row = Assign(q.row, stmt.set)
        BY <2>4, <3>1, <3>2, <3>4
      <4>2. Decoded(q.row) = Decoded(s.row)
        <5>1. Decoded(q.row) = Decoded(slots[i].row)
          BY <2>1, <2>4, <3>4 DEF SameRows
        <5>2. slots[i].row \in Row
          BY <2>4, SlotFacts DEF Inv, Slots
        <5> QED BY <2>4, <5>1, <5>2, RowFacts
      <4>3. Decoded(r.row) = Decoded(new)
        BY <1>2, <1>3, <3>2, <4>1, <4>2, AssignFacts DEF new
      <4> QED BY <2>3, <2>4, <4>1, <4>3
    <3> QED BY <3>3, <3>4
  <2>8. StatementFits'
    <3>1. \A o \in stmt.left : o.id = i => o = s
      <4>1. \A o \in stmt.left : /\ o \in Steps /\ o.at = o.id
                                 /\ o.row = Decoded(slots[o.id].row)
        BY <1>2, <2>1 DEF Inv, TypeOK, StatementFits
      <4> QED BY <2>4, <4>1 DEF Steps
    <3> QED BY <1>2, <1>5, <2>1, <2>3, <3>1 DEF StatementFits
  <2> QED BY <2>5, <2>6, <2>7, <2>8 DEF Unmoved, SameRows
<1> QED BY <1>6, <1>7, <1>8 DEF Inv

LEMMA DeleteRowInv ==
    ASSUME Inv, DeleteRow
    PROVE  Inv'
<1>1. PICK s \in stmt.left :
         /\ HeapDelete(s.id)
         /\ stmt' = [stmt EXCEPT !.left = @ \ {s}]
         /\ table' = {r \in table : r.id # s.id}
  BY DEF DeleteRow
<1> DEFINE i == FirstSlot(s.id)
           dead == [slots[i] EXCEPT !.deleted = TRUE]
<1>2. stmt.kind = "delete" /\ UNCHANGED <<checked, reopens, moved>>
  BY DEF DeleteRow
<1>3. i \in DOMAIN slots /\ slots[i].id = s.id
  BY FirstSlotFound DEF Inv, Findable
<1>4. slots \in Seq(Slots) /\ slots[i] \in Slots
  BY <1>3, SlotFacts DEF Inv
<1>5. dead \in Slots /\ dead.id = slots[i].id /\ dead.row = slots[i].row /\ dead.deleted
  BY <1>4 DEF Slots
<1>6. slots' = [slots EXCEPT ![i] = dead]
  BY <1>1, <1>3, <1>4 DEF HeapDelete
<1> HIDE DEF i, dead
<1>7. /\ slots' \in Seq(Slots) /\ DOMAIN slots' = DOMAIN slots /\ Len(slots') = Len(slots)
      /\ slots'[i] = dead
      /\ \A j \in DOMAIN slots : j # i => slots'[j] = slots[j]
  BY <1>3, <1>4, <1>5, <1>6
<1>8. /\ stmt'.kind = stmt.kind /\ stmt'.left = stmt.left \ {s} /\ stmt'.set = stmt.set
      /\ stmt' \in StmtType
  BY <1>1 DEF Inv, TypeOK, StmtType
<1>9. Findable'
  <2>1. \A j \in DOMAIN slots : slots'[j].id = slots[j].id
    BY <1>5, <1>7
  <2> QED BY <1>7, <1>8, <2>1 DEF Inv, Findable
<1>10. TypeOK'
  BY <1>1, <1>2, <1>7, <1>8 DEF Inv, TypeOK, Slots, StmtType
<1>11. ASSUME ~moved' PROVE Unmoved'
  <2>1. Aligned /\ SameRows /\ StatementFits
    BY <1>2, <1>11 DEF Inv, Unmoved
  <2>2. i = s.id
    BY <1>3, <2>1 DEF Aligned
  <2>3. Aligned'
    BY <1>5, <1>7, <2>1 DEF Aligned
  <2>4. SameRows'
    <3>1. \A j \in DOMAIN slots' : ~slots'[j].deleted => \E r \in table' : r.id = j
      BY <1>1, <1>5, <1>7, <2>1, <2>2 DEF SameRows
    <3>2. \A r \in table' : /\ r.id \in DOMAIN slots'
                            /\ ~slots'[r.id].deleted
                            /\ Decoded(r.row) = Decoded(slots'[r.id].row)
      BY <1>1, <1>7, <2>1, <2>2 DEF SameRows
    <3> QED BY <3>1, <3>2 DEF SameRows
  <2>5. StatementFits'
    BY <1>2, <1>7, <1>8, <2>1 DEF StatementFits
  <2> QED BY <2>3, <2>4, <2>5 DEF Unmoved
<1> QED BY <1>9, <1>10, <1>11 DEF Inv

\* The steps that leave the page alone and end the statement.
LEMMA EndInv ==
    ASSUME Inv, RejectRow \/ InvalidRow \/ Finish \/ Reopen
    PROVE  Inv'
<1>1. slots' = slots /\ table' = table /\ stmt' = Idle /\ moved' = moved
  BY DEF RejectRow, InvalidRow, Finish, Reopen
<1>2. checked' \in BOOLEAN
  BY DEF RejectRow, InvalidRow, Finish, Reopen, Inv, TypeOK
<1>3. reopens' \in 0..MaxReopens
  BY HeapAssumption DEF RejectRow, InvalidRow, Finish, Reopen, Inv, TypeOK
<1> QED BY <1>3, <1>1, <1>2 DEF Inv, TypeOK, Findable, Unmoved, Aligned, SameRows, StatementFits,
                                Idle, Statement, NoSet

LEMMA NextInv ==
    ASSUME Inv, [Next]_vars
    PROVE  Inv'
<1>1. ASSUME NEW r \in Inputs, StartInsert(<<r>>) PROVE Inv'
  <2>1. <<r>> \in Seq(Inputs)
    OBVIOUS
  <2> QED BY <1>1, <2>1, StartInsertInv
<1>2. ASSUME NEW r \in Inputs, NEW q \in Inputs, StartInsert(<<r, q>>) PROVE Inv'
  <2>1. <<r, q>> \in Seq(Inputs)
    OBVIOUS
  <2> QED BY <1>2, <2>1, StartInsertInv
<1>3. ASSUME NEW w \in Wheres,
             StartDelete(w) \/ \E a \in Assignments : StartUpdate(w, a)
      PROVE  Inv'
  BY <1>3, StartScanInv
<1>4. CASE InsertRow
  BY <1>4, InsertRowInv
<1>5. CASE UpdateRow
  BY <1>5, UpdateRowInv
<1>6. CASE DeleteRow
  BY <1>6, DeleteRowInv
<1>7. CASE RejectRow \/ InvalidRow \/ Finish \/ Reopen
  BY <1>7, EndInv
<1>8. CASE UNCHANGED vars
  BY <1>8 DEF vars, Inv, TypeOK, Findable, Unmoved, Aligned, SameRows, StatementFits
<1> QED BY <1>1, <1>2, <1>3, <1>4, <1>5, <1>6, <1>7, <1>8 DEF Next

LEMMA InvScan ==
    ASSUME Inv
    PROVE  ScanMatchesTable
<1> SUFFICES ASSUME ~moved PROVE RowsAsAsked
  BY DEF ScanMatchesTable
<1>0. Aligned /\ SameRows
  BY DEF Inv, Unmoved
<1>1. Scan = {[at |-> i, id |-> i, row |-> Decoded(slots[i].row)] :
                 i \in {j \in DOMAIN slots : ~slots[j].deleted}}
  BY <1>0, ScanOfAligned
<1>2. \A r \in table : [r EXCEPT !.row = Decoded(@)] = [id |-> r.id, row |-> Decoded(slots[r.id].row)]
  BY <1>0 DEF SameRows, Inv, TypeOK
<1>3. ASSUME NEW s \in Scan
      PROVE  [id |-> s.id, row |-> s.row] \in Asked
  <2>1. PICK i \in DOMAIN slots :
           ~slots[i].deleted /\ s = [at |-> i, id |-> i, row |-> Decoded(slots[i].row)]
    BY <1>1
  <2>2. PICK r \in table : r.id = i
    BY <1>0, <2>1 DEF SameRows
  <2> QED BY <1>2, <2>1, <2>2 DEF Asked
<1>4. ASSUME NEW r \in table
      PROVE  [r EXCEPT !.row = Decoded(@)] \in {[id |-> s.id, row |-> s.row] : s \in Scan}
  <2>1. [at |-> r.id, id |-> r.id, row |-> Decoded(slots[r.id].row)] \in Scan
    BY <1>0, <1>1 DEF SameRows
  <2> QED BY <1>2, <2>1
<1>5. \A s, o \in Scan : s.id = o.id => s = o
  BY <1>1
<1> QED BY <1>3, <1>4, <1>5 DEF RowsAsAsked, Asked

-----------------------------------------------------------------------------
\* The heap and the statement loops stay within their types: in particular the
\* walk of delete and update always ends at a slot of the page, and every row
\* written is a row of the table.
THEOREM HeapTypes == Spec => []TypeOK
<1>1. Init => Inv
  BY InitInv
<1>2. Inv /\ [Next]_vars => Inv'
  BY NextInv
<1>3. Inv => TypeOK
  BY DEF Inv
<1> QED BY <1>1, <1>2, <1>3, PTL DEF Spec

\* Until an UPDATE moves a row, every scan returns exactly the rows that the
\* statements asked for, whatever the keys, the lengths of the rows, the
\* statements and the restarts between and inside them.
THEOREM ScansMatch == Spec => []ScanMatchesTable
<1>1. Init => Inv
  BY InitInv
<1>2. Inv /\ [Next]_vars => Inv'
  BY NextInv
<1>3. Inv => ScanMatchesTable
  BY InvScan
<1> QED BY <1>1, <1>2, <1>3, PTL DEF Spec

\* A session that knows the PRIMARY KEY makes no key double by an INSERT but 0, for
\* any keys, rows and page: one row at a time is compared with a scan that includes
\* the statement's own earlier rows (dml.py, exec_insert and _check_unique), and of
\* the keys only 0 is read back as something else.
THEOREM InsertsKeepKeys == Spec => InsertKeepsKeys
<1> DEFINE A == checked /\ stmt.kind = "insert" => DoubleKeys' \ {0} \subseteq DoubleKeys
<1>1. Init => Inv
  BY InitInv
<1>2. Inv /\ [Next]_vars => Inv'
  BY NextInv
<1>3. ASSUME Inv, [Next]_vars, checked, stmt.kind = "insert"
      PROVE  DoubleKeys' \ {0} \subseteq DoubleKeys
  <2>1. CASE InsertRow
    <3> DEFINE row == Head(stmt.rows)
               n == Len(slots)
    <3>1. row \in Row /\ HeapAppend(row) /\ \A s \in Scan : s.row.key # row.key
      BY <1>3, <2>1 DEF Inv, TypeOK, InsertRow, KeyTaken
    <3>2. slots \in Seq(Slots) /\ n \in Nat /\ DOMAIN slots = 1..n
      BY <1>3, SlotFacts DEF Inv
    <3>3. /\ DOMAIN slots' = 1..(n + 1) /\ slots'[n + 1].row = row
          /\ \A i \in 1..n : slots'[i] = slots[i]
      BY <3>1, <3>2 DEF HeapAppend, Slot
    <3> HIDE DEF row, n
    <3>4. ASSUME NEW i \in 1..n, ~slots[i].deleted, slots[i].row.key = row.key
          PROVE  row.key = 0
      <4> DEFINE read == [at |-> i, id |-> slots[i].id, row |-> Decoded(slots[i].row)]
      <4>1. read \in Scan
        BY <3>2, <3>4 DEF Scan
      <4>2. Decoded(slots[i].row).key # row.key
        BY <3>1, <4>1
      <4>3. slots[i].row \in Row
        BY <1>3, <3>2, SlotFacts DEF Inv, Slots
      <4> QED BY <3>4, <4>2, <4>3 DEF Decoded, Row
    <3>5. SUFFICES ASSUME NEW k \in Keys, k # 0, NEW i \in 1..(n + 1), NEW j \in 1..(n + 1), i # j,
                          ~slots'[i].deleted, ~slots'[j].deleted,
                          slots'[i].row.key = k, slots'[j].row.key = k
                   PROVE  k \in DoubleKeys
      BY <3>3 DEF DoubleKeys
    <3>6. CASE i \in 1..n /\ j \in 1..n
      BY <3>2, <3>3, <3>5, <3>6 DEF DoubleKeys
    <3>7. CASE i = n + 1 \/ j = n + 1
      <4>1. row.key = k /\ ((i \in 1..n) \/ (j \in 1..n))
        BY <3>2, <3>3, <3>5, <3>7
      <4> QED BY <3>3, <3>4, <3>5, <4>1
    <3> QED BY <3>2, <3>6, <3>7
  <2>2. CASE ~InsertRow
    <3>1. stmt # Idle
      BY <1>3 DEF Idle, Statement
    <3>2. slots' = slots
      BY <1>3, <2>2, <3>1
         DEF Next, StartInsert, StartUpdate, StartDelete, Start, RejectRow, InvalidRow,
             UpdateRow, DeleteRow, Finish, Reopen, vars
    <3> QED BY <3>2 DEF DoubleKeys
  <2> QED BY <2>1, <2>2
<1>4. Inv /\ [Next]_vars => [A]_vars
  BY <1>3
<1> QED BY <1>1, <1>2, <1>4, PTL DEF Spec, InsertKeepsKeys
==============================================================================
