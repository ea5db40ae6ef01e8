------------------------------ MODULE HeapBytes ------------------------------
(***************************************************************************)
(* The page body behind TableHeap's slots: tinydb/heap.py, row_layout.py   *)
(* and the codecs of types.py work on bytes, which storage.py cuts at the  *)
(* page size.  A field of fixed size (count, lengths, flag, row id, INT)   *)
(* is one unit, so is each byte of a TEXT.                                 *)
(*                                                                         *)
(*   body:  row count, then per slot: length, deleted flag, row data       *)
(*   row:   row id, column count, then per column: length, value           *)
(*                                                                         *)
(* Every step of TableHeap is taken together with what the code does to    *)
(* the body.  Histories end at the first body that does not fit the page.  *)
(***************************************************************************)
EXTENDS TableHeap, SequencesExt

CONSTANT PageUnits \* the room for the body in a page

ASSUME PageAssumption == PageUnits \in Nat \ {0}

VARIABLES body, \* what read_page returns
          cut   \* history: a body was longer than the page

byteVars == <<vars, body, cut>>

-----------------------------------------------------------------------------
(* Values and rows                                                         *)

\* encode: an INT is its value, a TEXT its length and then its bytes; here all
\* units of a TEXT are alike, and the empty one has the length unit only.
EncodeText(length) == [i \in 1..length |-> length]

\* Units m to n of s, or as many of them as there are.
Slice(s, m, n) == SubSeq(s, m, IF n > Len(s) THEN Len(s) ELSE n)

\* decode: all zeros are NULL, whatever the type.
DecodeInt(raw) == IF raw = <<0>> THEN Null ELSE raw[1]

\* A TEXT is as long as it says, or as what is left of it; nothing is the empty one.
DecodeText(raw) ==
    IF raw = <<>> THEN 1 ELSE IF raw[1] < Len(raw) THEN raw[1] ELSE Len(raw)

\* encode_row: NULL is a column of length 0.
EncodeRow(id, row) ==
    <<id, 2>> \o (IF row.key = Null THEN <<0>> ELSE <<1, row.key>>)
              \o <<row.text>> \o EncodeText(row.text)

\* decode_row: walks the columns by their lengths.
DecodeRow(raw) ==
    LET keyLength == raw[3]
        textAt == 4 + keyLength
    IN  [key |-> IF keyLength = 0 THEN Null ELSE DecodeInt(SubSeq(raw, 4, 3 + keyLength)),
         text |-> IF raw[textAt] = 0 THEN 0
                  ELSE DecodeText(Slice(raw, textAt + 1, textAt + raw[textAt]))]

\* The row id and both lengths are there to be unpacked; else struct.error.
Decodable(raw) == Len(raw) >= 3 /\ Len(raw) >= 4 + raw[3]

-----------------------------------------------------------------------------
(* The walk of scan, delete and update                                     *)

Count(b) == IF b = <<>> THEN 0 ELSE b[1]

\* Where the i-th slot begins.
SlotAt(b) ==
    LET at[i \in 1..Count(b)] == IF i = 1 THEN 2 ELSE at[i - 1] + 1 + b[at[i - 1]]
    IN  at

RowData(b, at) == Slice(b, at + 2, at + b[at])

\* The flag is there and says so.
Alive(b, at) == at < Len(b) /\ b[at + 1] = 0

\* scan walks all `count` slots; where one of them has no length, or is alive
\* and cannot be decoded, it raises and returns no row at all.
ScanRaises(b) ==
    LET at == SlotAt(b)
    IN  \E i \in DOMAIN at :
           at[i] > Len(b) \/ (Alive(b, at[i]) /\ ~Decodable(RowData(b, at[i])))

ScanBytes(b) ==
    LET at == SlotAt(b)
    IN  {[at |-> i, id |-> RowData(b, at[i])[1], row |-> DecodeRow(RowData(b, at[i]))] :
            i \in {j \in DOMAIN at : Alive(b, at[j])}}

\* The place of the first slot with the row id.
Found(b, id) ==
    LET at == SlotAt(b)
    IN  at[CHOOSE i \in DOMAIN at :
              /\ RowData(b, at[i])[1] = id
              /\ \A j \in 1..(i - 1) : RowData(b, at[j])[1] # id]

-----------------------------------------------------------------------------
(* The operations on the body                                              *)

NewSlot(data) == <<Len(data) + 1, 0>> \o data

\* Mutant of AppendBytes: the new row is put before the others.
AppendBytesFront(b, row) ==
    <<Count(b) + 1>> \o NewSlot(EncodeRow(Count(b) + 1, row)) \o SubSeq(b, 2, Len(b))

AppendBytes(b, row) ==
    <<Count(b) + 1>> \o SubSeq(b, 2, Len(b)) \o NewSlot(EncodeRow(Count(b) + 1, row))

DeleteBytes(b, id) == [b EXCEPT ![Found(b, id) + 1] = 1]

\* Overwrites part of a body.
Written(b, at, units) ==
    [i \in DOMAIN b |-> IF i \in at..(at + Len(units) - 1) THEN units[i - at + 1] ELSE b[i]]

\* Mutant of InPlace: the slot takes the length of the new row.
InPlaceShrunk(b, at, data) == Written(b, at, <<Len(data) + 1, 0>> \o data)

\* The new row in the old slot, which keeps its length: the rest is zeros.
InPlace(b, at, data) ==
    Written(b, at, <<b[at], 0>> \o data \o [i \in 1..(b[at] - 1 - Len(data)) |-> 0])

UpdateBytes(b, id, row) ==
    LET at == Found(b, id)
        data == EncodeRow(id, row)
    IN  IF Len(data) <= b[at] - 1
        THEN InPlace(b, at, data)
        ELSE [b EXCEPT ![1] = @ + 1, ![at + 1] = 1] \o NewSlot(data)

\* write_page and the next read_page: what does not fit the page is gone.
Store(b) ==
    /\ body' = SubSeq(b, 1, IF Len(b) > PageUnits THEN PageUnits ELSE Len(b))
    /\ cut' = (cut \/ Len(b) > PageUnits)

-----------------------------------------------------------------------------
BytesInit == Init /\ body = <<>> /\ cut = FALSE

InsertBytes == InsertRow /\ Store(AppendBytes(body, Head(stmt.rows)))

UpdateInBytes ==
    /\ UpdateRow
    /\ \E s \in stmt.left : IsNext(s) /\ Store(UpdateBytes(body, s.id, Assign(s.row, stmt.set)))

DeleteInBytes ==
    /\ DeleteRow
    /\ \E s \in stmt.left : IsNext(s) /\ Store(DeleteBytes(body, s.id))

\* The steps that write no page.
NoWrite ==
    /\ \/ \E r \in Inputs : StartInsert(<<r>>) \/ \E q \in Inputs : StartInsert(<<r, q>>)
       \/ \E w \in Wheres : StartDelete(w) \/ \E a \in Assignments : StartUpdate(w, a)
       \/ RejectRow \/ InvalidRow \/ Finish \/ Reopen
    /\ UNCHANGED <<body, cut>>

BytesNext == ~cut /\ (InsertBytes \/ UpdateInBytes \/ DeleteInBytes \/ NoWrite)

BytesSpec == BytesInit /\ [][BytesNext]_byteVars

-----------------------------------------------------------------------------
(* Properties                                                              *)

\* As long as the body fits the page, scan returns, and what it decodes from the
\* bytes is what the slots hold, after any mix of appends, marks, updates in place
\* that leave the slot longer than its row, and rows moved to a second slot.
BytesMatchSlots == ~cut => ~ScanRaises(body) /\ ScanBytes(body) = Scan

\* Rows in other slots than the last.
Earlier(scan) == {s \in scan : s.at < Len(slots)}

\* When a body is cut, every scan of the table raises, or it returns all rows but
\* the one being written as they were: no other row is ever read wrong.  That row
\* the scan misses, or returns with a shortened TEXT.
CutReadsNoneWrong == cut => ScanRaises(body) \/ Earlier(ScanBytes(body)) = Earlier(Scan)

\* What a client of the table expects of a page that is full: it can still read
\* the rows stored before.
CutStaysReadable == cut => ~ScanRaises(body)
==============================================================================
