--------------------------- MODULE HeapBytesProofs ---------------------------
(***************************************************************************)
(* The bytes of a page hold its slots: BytesMatchSlots, and                *)
(* CutReadsNoneWrong when a body outgrew the page, for any keys, row       *)
(* lengths, statements, restarts and page size.                            *)
(*                                                                         *)
(* The invariant says where the slots lie.  A layout of a sequence of      *)
(* slots gives each its first unit: the first begins behind the row count, *)
(* each other where the one before it ends, the last ends the body, and    *)
(* each has its length, its flag and its encoded row in its own units.     *)
(* Then the walk over the lengths finds the slots (the least slot it would *)
(* miss cannot exist), decoding inverts encoding whatever follows the row, *)
(* and each operation rewrites the units of one slot or adds one at the    *)
(* end.  A page holds a layout, or the first units of one that is too long *)
(* and whose last slot begins within the page.                             *)
(***************************************************************************)
EXTENDS HeapBytes, TableHeapProofs, NaturalsInduction, SequenceTheorems

\* A non-empty set of numbers has a least one.
LEMMA LeastNumber ==
    ASSUME NEW S \in SUBSET Nat, S # {}
    PROVE  \E m \in S : \A k \in S : m <= k
<1> DEFINE R == OpToRel(<, Nat)
<1>1. PICK m \in S : \A k \in S : ~(<<k, m>> \in R)
  BY NatLessThanWellFounded, WFMin
<1>2. \A k \in S : k < m => <<k, m>> \in R
  BY DEF OpToRel
<1> HIDE DEF R
<1>3. \A k \in S : ~(k < m) /\ k \in Nat /\ m \in Nat
  BY <1>1, <1>2
<1>4. \A k \in S : m <= k
  BY <1>3
<1> QED BY <1>4

-----------------------------------------------------------------------------
(* Rows                                                                    *)

\* A row is its two columns.
LEMMA RowShape ==
    ASSUME NEW row \in Row
    PROVE  row.text \in Nat /\ row.key \in Int /\ row = [key |-> row.key, text |-> row.text]
<1>1. row.text \in TextLengths /\ row.key \in Keys \cup {Null}
      /\ row = [key |-> row.key, text |-> row.text]
  BY DEF Row
<1>2. TextLengths \subseteq Nat /\ Keys \subseteq Nat /\ Null \in Int
  BY HeapAssumption DEF Null
<1> QED BY <1>1, <1>2

\* The units of an encoded row.
LEMMA Encoded ==
    ASSUME NEW id \in Nat, NEW row \in Row, NEW e, e = EncodeRow(id, row)
    PROVE  /\ e \in Seq(Int)
           /\ Len(e) = EncodedLength(row) + 4
           /\ e[1] = id /\ e[2] = 2
           /\ row.key = Null => e[3] = 0 /\ e[4] = row.text /\ (row.text # 0 => e[5] = row.text)
           /\ row.key # Null => /\ e[3] = 1 /\ e[4] = row.key /\ e[5] = row.text
                                /\ row.text # 0 => e[6] = row.text
<1> DEFINE t == EncodeText(row.text)
<1>1. row.text \in Nat /\ row.key \in Int
  BY RowShape
<1>2. t \in Seq(Int) /\ Len(t) = row.text /\ (row.text # 0 => t[1] = row.text)
  BY <1>1 DEF EncodeText
<1> HIDE DEF t
<1>3. CASE row.key = Null
  <2>1. e = <<id, 2>> \o <<0>> \o <<row.text>> \o t
    BY <1>3 DEF EncodeRow, t
  <2>2. EncodedLength(row) = row.text
    BY <1>1, <1>3 DEF EncodedLength
  <2> QED BY <1>1, <1>2, <1>3, <2>1, <2>2
<1>4. CASE row.key # Null
  <2>1. e = <<id, 2>> \o <<1, row.key>> \o <<row.text>> \o t
    BY <1>4 DEF EncodeRow, t
  <2>2. EncodedLength(row) = row.text + 1
    BY <1>1, <1>4 DEF EncodedLength
  <2> QED BY <1>1, <1>2, <1>4, <2>1, <2>2
<1> QED BY <1>3, <1>4

\* Its length.
LEMMA EncodedUnits ==
    ASSUME NEW id \in Nat, NEW row \in Row
    PROVE  Len(EncodeRow(id, row)) = EncodedLength(row) + 4
BY Encoded

\* The TEXT column of a row that is whole, from unit a on.
LEMMA TextRead ==
    ASSUME NEW raw \in Seq(Int), NEW a \in Nat, a >= 1, NEW t \in Nat, a + t <= Len(raw),
           raw[a] = t, t # 0 => raw[a + 1] = t
    PROVE  (IF raw[a] = 0 THEN 0 ELSE DecodeText(Slice(raw, a + 1, a + raw[a]))) = t
<1>1. CASE t = 0
  BY <1>1
<1>2. CASE t # 0
  <2> DEFINE u == SubSeq(raw, a + 1, a + t)
  <2>1. Slice(raw, a + 1, a + raw[a]) = u
    BY DEF Slice
  <2>2. Len(u) = t /\ u[1] = raw[a + 1] /\ u # <<>>
    <3> DEFINE lo == a + 1
               hi == a + t
    <3>1. lo \in Nat /\ hi \in Nat /\ lo >= 1 /\ hi <= Len(raw) /\ lo <= hi
      BY <1>2
    <3>2. hi - lo + 1 = t /\ lo + 1 - 1 = a + 1 /\ 1 \in 1..(hi - lo + 1)
      BY <1>2
    <3> HIDE DEF lo, hi
    <3>3. \A i \in lo..hi : raw[i] \in Int
      BY <3>1
    <3>4. /\ SubSeq(raw, lo, hi) \in Seq(Int)
          /\ Len(SubSeq(raw, lo, hi)) = IF lo <= hi THEN hi - lo + 1 ELSE 0
          /\ \A i \in 1..(hi - lo + 1) : SubSeq(raw, lo, hi)[i] = raw[lo + i - 1]
      BY <3>1, <3>3, SubSeqProperties
    <3>5. Len(SubSeq(raw, lo, hi)) = t /\ SubSeq(raw, lo, hi)[1] = raw[a + 1]
      BY <3>1, <3>2, <3>4
    <3>6. SubSeq(raw, lo, hi) # <<>>
      BY <1>2, <3>5
    <3> QED BY <3>5, <3>6 DEF lo, hi
  <2> HIDE DEF u
  <2>3. DecodeText(u) = t
    BY <1>2, <2>2 DEF DecodeText
  <2> QED BY <1>2, <2>1, <2>3
<1> QED BY <1>1, <1>2

\* decode_row gives back what encode_row was given, a 0 as NULL, whatever follows
\* the encoded row in the slot.
LEMMA Decodes ==
    ASSUME NEW id \in Nat, NEW row \in Row, NEW raw \in Seq(Int),
           Len(raw) >= Len(EncodeRow(id, row)),
           \A k \in 1..Len(EncodeRow(id, row)) : raw[k] = EncodeRow(id, row)[k]
    PROVE  raw[1] = id /\ DecodeRow(raw) = Decoded(row) /\ Decodable(raw)
<1> DEFINE e == EncodeRow(id, row)
<1>1. /\ e \in Seq(Int)
      /\ Len(e) = EncodedLength(row) + 4
      /\ e[1] = id /\ e[2] = 2
      /\ row.key = Null => e[3] = 0 /\ e[4] = row.text /\ (row.text # 0 => e[5] = row.text)
      /\ row.key # Null => /\ e[3] = 1 /\ e[4] = row.key /\ e[5] = row.text
                           /\ row.text # 0 => e[6] = row.text
  BY Encoded
<1>2. row.text \in Nat /\ row.key \in Int /\ row = [key |-> row.key, text |-> row.text]
  BY RowShape
<1>3. Len(raw) >= Len(e) /\ \A k \in 1..Len(e) : raw[k] = e[k]
  OBVIOUS
<1> HIDE DEF e
<1>4. CASE row.key = Null
  <2>1. Len(e) = row.text + 4
    BY <1>1, <1>2, <1>4 DEF EncodedLength
  <2>2. raw[1] = id /\ raw[3] = 0 /\ raw[4] = row.text
    <3>1. 1 \in 1..Len(e) /\ 3 \in 1..Len(e) /\ 4 \in 1..Len(e)
      BY <1>2, <2>1
    <3> QED BY <1>1, <1>3, <1>4, <3>1
  <2>3. row.text # 0 => raw[5] = row.text
    <3>1. row.text # 0 => 5 \in 1..Len(e)
      BY <1>2, <2>1
    <3> QED BY <1>1, <1>3, <1>4, <3>1
  <2>4. DecodeRow(raw) = [key |-> Null, text |-> row.text]
    <3>1. 4 + raw[3] = 4 /\ 4 + row.text <= Len(raw) /\ 4 + 1 = 5
      BY <1>2, <1>3, <2>1, <2>2
    <3>2. (IF raw[4] = 0 THEN 0 ELSE DecodeText(Slice(raw, 4 + 1, 4 + raw[4]))) = row.text
      <4>1. PICK t \in Nat : t = row.text
        BY <1>2
      <4>2. PICK a \in Nat : a = 4
        OBVIOUS
      <4>3. a >= 1 /\ a + t <= Len(raw) /\ raw[a] = t /\ (t # 0 => raw[a + 1] = t)
        BY <2>2, <2>3, <3>1, <4>1, <4>2
      <4>4. (IF raw[a] = 0 THEN 0 ELSE DecodeText(Slice(raw, a + 1, a + raw[a]))) = t
        BY ONLY <4>3, raw \in Seq(Int), a \in Nat, t \in Nat, TextRead
      <4> QED BY ONLY <4>1, <4>2, <4>4
    <3>3. DecodeRow(raw) =
            [key |-> IF raw[3] = 0 THEN Null ELSE DecodeInt(SubSeq(raw, 4, 3 + raw[3])),
             text |-> IF raw[4 + raw[3]] = 0 THEN 0
                      ELSE DecodeText(Slice(raw, 4 + raw[3] + 1, 4 + raw[3] + raw[4 + raw[3]]))]
      BY DEF DecodeRow
    <3> QED BY ONLY <2>2, <3>1, <3>2, <3>3
  <2>5. Decoded(row) = [key |-> Null, text |-> row.text]
    BY <1>2, <1>4 DEF Decoded, Null
  <2>6. Decodable(raw)
    BY <1>2, <1>3, <2>1, <2>2 DEF Decodable
  <2> QED BY <2>2, <2>4, <2>5, <2>6
<1>5. CASE row.key # Null
  <2>1. Len(e) = row.text + 5
    BY <1>1, <1>2, <1>5 DEF EncodedLength
  <2>2. raw[1] = id /\ raw[3] = 1 /\ raw[4] = row.key /\ raw[5] = row.text
    <3>1. 1 \in 1..Len(e) /\ 3 \in 1..Len(e) /\ 4 \in 1..Len(e) /\ 5 \in 1..Len(e)
      BY <1>2, <2>1
    <3> QED BY <1>1, <1>3, <1>5, <3>1
  <2>3. row.text # 0 => raw[6] = row.text
    <3>1. row.text # 0 => 6 \in 1..Len(e)
      BY <1>2, <2>1
    <3> QED BY <1>1, <1>3, <1>5, <3>1
  <2>4. SubSeq(raw, 4, 4) = <<row.key>>
    <3>1. Len(raw) \in Nat /\ Len(raw) >= 5
      BY <1>2, <1>3, <2>1
    <3> DEFINE s == SubSeq(raw, 4, 4)
    <3>2. s \in Seq(Int) /\ Len(s) = 1 /\ s[1] = raw[4]
      BY <3>1
    <3> HIDE DEF s
    <3>3. s = [i \in 1..1 |-> row.key]
      BY <2>2, <3>2
    <3>4. <<row.key>> = [i \in 1..1 |-> row.key]
      OBVIOUS
    <3> QED BY <3>3, <3>4 DEF s
  <2>5. DecodeInt(<<row.key>>) = IF row.key = 0 THEN Null ELSE row.key
    BY <1>2 DEF DecodeInt
  <2>6. DecodeRow(raw) = [key |-> IF row.key = 0 THEN Null ELSE row.key, text |-> row.text]
    <3>1. raw[3] # 0 /\ 3 + raw[3] = 4 /\ 4 + raw[3] = 5 /\ 5 + row.text <= Len(raw) /\ 5 + 1 = 6
      BY <1>2, <1>3, <2>1, <2>2
    <3>2. (IF raw[5] = 0 THEN 0 ELSE DecodeText(Slice(raw, 5 + 1, 5 + raw[5]))) = row.text
      <4>1. PICK t \in Nat : t = row.text
        BY <1>2
      <4>2. PICK a \in Nat : a = 5
        OBVIOUS
      <4>3. a >= 1 /\ a + t <= Len(raw) /\ raw[a] = t /\ (t # 0 => raw[a + 1] = t)
        BY <2>2, <2>3, <3>1, <4>1, <4>2
      <4>4. (IF raw[a] = 0 THEN 0 ELSE DecodeText(Slice(raw, a + 1, a + raw[a]))) = t
        BY ONLY <4>3, raw \in Seq(Int), a \in Nat, t \in Nat, TextRead
      <4> QED BY ONLY <4>1, <4>2, <4>4
    <3>3. DecodeRow(raw) =
            [key |-> IF raw[3] = 0 THEN Null ELSE DecodeInt(SubSeq(raw, 4, 3 + raw[3])),
             text |-> IF raw[4 + raw[3]] = 0 THEN 0
                      ELSE DecodeText(Slice(raw, 4 + raw[3] + 1, 4 + raw[3] + raw[4 + raw[3]]))]
      BY DEF DecodeRow
    <3>4. DecodeInt(SubSeq(raw, 4, 3 + raw[3])) = IF row.key = 0 THEN Null ELSE row.key
      BY ONLY <2>4, <2>5, <3>1
    <3>5. (IF raw[4 + raw[3]] = 0 THEN 0
           ELSE DecodeText(Slice(raw, 4 + raw[3] + 1, 4 + raw[3] + raw[4 + raw[3]]))) = row.text
      BY ONLY <3>1, <3>2
    <3> QED BY ONLY <3>1, <3>3, <3>4, <3>5
  <2>7. Decoded(row) = [key |-> IF row.key = 0 THEN Null ELSE row.key, text |-> row.text]
    BY <1>2 DEF Decoded
  <2>8. Decodable(raw)
    BY <1>2, <1>3, <2>1, <2>2 DEF Decodable
  <2> QED BY <2>2, <2>6, <2>7, <2>8
<1> QED BY <1>4, <1>5

\* A slot as it is laid out from unit a on: length, flag, encoded row.  What is
\* left of the length holds the rest of an older row or zeros.
SlotCells(b, a, slot) ==
    /\ b[a] = slot.room + 5
    /\ b[a + 1] = IF slot.deleted THEN 1 ELSE 0
    /\ EncodedLength(slot.row) <= slot.room
    /\ \A k \in 1..Len(EncodeRow(slot.id, slot.row)) :
          b[a + 1 + k] = EncodeRow(slot.id, slot.row)[k]

\* Where the next slot begins.
End(a, slot) == a + slot.room + 6

\* A body that holds the slots one after the other, slot i from at[i] on.
Layout(b, sl, at) ==
    /\ b \in Seq(Int)
    /\ sl = <<>> => b = <<>>
    /\ sl # <<>> => /\ b[1] = Len(sl) /\ at[1] = 2
                    /\ End(at[Len(sl)], sl[Len(sl)]) = Len(b) + 1
    /\ \A i \in 1..Len(sl) : /\ at[i] \in Nat /\ at[i] >= 2
                             /\ End(at[i], sl[i]) <= Len(b) + 1
                             /\ SlotCells(b, at[i], sl[i])
    /\ \A i \in 1..(Len(sl) - 1) : at[i + 1] = End(at[i], sl[i])
    /\ \A i, j \in 1..Len(sl) : i < j => End(at[i], sl[i]) <= at[j]

\* Facts about a slot of the right type.
LEMMA SlotShape ==
    ASSUME NEW s \in Slots
    PROVE  s.id \in Nat /\ s.room \in Nat /\ s.deleted \in BOOLEAN /\ s.row \in Row
<1>1. s.id \in 1..MaxSlots /\ s.room \in Nat /\ s.deleted \in BOOLEAN /\ s.row \in Row
  BY DEF Slots
<1>2. \A i \in 1..MaxSlots : i \in Nat
  BY HeapAssumption
<1> QED BY <1>1, <1>2

\* What scan reads from a slot that is whole.
LEMMA SlotRead ==
    ASSUME NEW b \in Seq(Int), NEW a \in Nat, a >= 2, NEW s \in Slots,
           End(a, s) <= Len(b) + 1, SlotCells(b, a, s)
    PROVE  /\ RowData(b, a)[1] = s.id /\ DecodeRow(RowData(b, a)) = Decoded(s.row)
           /\ Decodable(RowData(b, a)) /\ a < Len(b)
<1> DEFINE e == EncodeRow(s.id, s.row)
           raw == SubSeq(b, a + 2, a + (s.room + 5))
<1>1. s.id \in Nat /\ s.room \in Nat /\ s.row \in Row
  BY SlotShape
<1>2. Len(e) = EncodedLength(s.row) + 4 /\ EncodedLength(s.row) \in Nat
  <2>1. Len(e) = EncodedLength(s.row) + 4
    BY <1>1, Encoded
  <2>2. EncodedLength(s.row) \in Nat
    BY <1>1, RowFacts
  <2> QED BY <2>1, <2>2
<1>3. b[a] = s.room + 5 /\ EncodedLength(s.row) <= s.room
      /\ \A k \in 1..Len(e) : b[a + 1 + k] = e[k]
  BY DEF SlotCells
<1>5. Len(b) \in Nat /\ a + s.room + 5 <= Len(b)
  BY <1>1 DEF End
<1>4. RowData(b, a) = raw
  <2>1. a + (s.room + 5) <= Len(b) /\ ~(a + (s.room + 5) > Len(b))
    BY <1>1, <1>5
  <2> QED BY <1>3, <2>1 DEF RowData, Slice
<1>8. a < Len(b)
  BY <1>1, <1>5
<1> HIDE DEF e
<1>6. raw \in Seq(Int) /\ Len(raw) = s.room + 4
      /\ \A k \in 1..(s.room + 4) : raw[k] = b[a + 1 + k]
  <2>1. /\ raw \in Seq(Int)
        /\ Len(raw) = (a + (s.room + 5)) - (a + 2) + 1
        /\ \A k \in 1..((a + (s.room + 5)) - (a + 2) + 1) : raw[k] = b[(a + 2) + k - 1]
    <3> DEFINE lo == a + 2
               hi == a + (s.room + 5)
    <3>1. lo \in Nat /\ hi \in Nat /\ lo >= 1 /\ hi <= Len(b) /\ lo <= hi
      BY ONLY <1>1, <1>5, a \in Nat
    <3> HIDE DEF lo, hi
    <3>2. \A i \in lo..hi : b[i] \in Int
      BY <1>5, <3>1
    <3>3. /\ SubSeq(b, lo, hi) \in Seq(Int)
          /\ Len(SubSeq(b, lo, hi)) = IF lo <= hi THEN hi - lo + 1 ELSE 0
          /\ \A i \in 1..(hi - lo + 1) : SubSeq(b, lo, hi)[i] = b[lo + i - 1]
      BY <3>1, <3>2, SubSeqProperties
    <3> QED BY <3>1, <3>3 DEF lo, hi
  <2>2. (a + (s.room + 5)) - (a + 2) + 1 = s.room + 4
    BY <1>1
  <2>3. \A k \in 1..(s.room + 4) : (a + 2) + k - 1 = a + 1 + k
    BY <1>1
  <2> HIDE DEF raw
  <2> QED BY <2>1, <2>2, <2>3
<1> HIDE DEF raw
<1>7. Len(raw) >= Len(e) /\ \A k \in 1..Len(e) : raw[k] = e[k]
  <2>1. \A k \in 1..Len(e) : k \in 1..(s.room + 4)
    BY <1>1, <1>2, <1>3
  <2>2. \A k \in 1..Len(e) : raw[k] = e[k]
    BY <1>3, <1>6, <2>1
  <2>3. Len(raw) >= Len(e)
    BY <1>1, <1>2, <1>3, <1>6
  <2> QED BY <2>2, <2>3
<1> QED BY <1>1, <1>4, <1>6, <1>7, <1>8, Decodes DEF e

\* The walk over the lengths finds the slots.
LEMMA Walk ==
    ASSUME NEW b, NEW n \in Nat, Count(b) = n, NEW at,
           n # 0 => at[1] = 2,
           \A i \in 1..(n - 1) : at[i + 1] = at[i] + 1 + b[at[i]]
    PROVE  SlotAt(b) = [i \in 1..n |-> at[i]]
<1> DEFINE Step(f, i) == IF i = 1 THEN 2 ELSE f[i - 1] + 1 + b[f[i - 1]]
           IsWalk(f) == f = [i \in 1..n |-> Step(f, i)]
           w == [i \in 1..n |-> at[i]]
           walk == CHOOSE f : IsWalk(f)
<1>1. SlotAt(b) = walk
  BY DEF SlotAt
<1>2. \A i \in 1..n : i = 1 \/ (i - 1 \in 1..(n - 1) /\ i - 1 \in 1..n /\ (i - 1) + 1 = i)
  OBVIOUS
<1>3. IsWalk(w)
  <2>1. ASSUME NEW i \in 1..n PROVE w[i] = Step(w, i)
    <3>1. CASE i = 1
      BY <3>1
    <3>2. CASE i # 1
      <4>1. i - 1 \in 1..(n - 1) /\ i - 1 \in 1..n /\ (i - 1) + 1 = i
        BY <1>2, <3>2
      <4>2. at[i] = at[i - 1] + 1 + b[at[i - 1]]
        BY <4>1
      <4>3. w[i] = at[i] /\ w[i - 1] = at[i - 1]
        BY <4>1
      <4> QED BY <3>2, <4>2, <4>3
    <3> QED BY <3>1, <3>2
  <2> HIDE DEF Step
  <2> QED BY <2>1
<1>4. IsWalk(walk)
  <2> HIDE DEF IsWalk
  <2> QED BY <1>3
<1> HIDE DEF walk
<1>5. \A i \in 1..n : walk[i] = Step(walk, i)
  <2> HIDE DEF Step
  <2> QED BY <1>4
<1> DEFINE B == {i \in 1..n : walk[i] # at[i]}
<1>6. B = {}
  <2>1. SUFFICES ASSUME B # {} PROVE FALSE
    OBVIOUS
  <2>2. B \in SUBSET Nat
    OBVIOUS
  <2>3. PICK i \in B : \A k \in B : i <= k
    <3> HIDE DEF B
    <3> QED BY <2>1, <2>2, LeastNumber
  <2>4. i \in 1..n /\ walk[i] # at[i]
    OBVIOUS
  <2>5. i # 1
    BY <1>5, <2>4
  <2>6. i - 1 \in 1..(n - 1) /\ i - 1 \in 1..n /\ (i - 1) + 1 = i /\ ~(i <= i - 1)
    BY <1>2, <2>4, <2>5
  <2>7. walk[i - 1] = at[i - 1]
    BY <2>3, <2>6
  <2>8. at[i] = at[i - 1] + 1 + b[at[i - 1]]
    BY <2>6
  <2> QED BY <1>5, <2>4, <2>5, <2>7, <2>8
<1> HIDE DEF B
<1>7. \A i \in 1..n : walk[i] = at[i]
  BY <1>6 DEF B
<1>8. walk = [i \in 1..n |-> walk[i]]
  <2> HIDE DEF Step
  <2>1. DOMAIN walk = 1..n
    BY <1>4
  <2> QED BY <1>4, <1>5
<1> QED BY <1>1, <1>7, <1>8

\* In particular those of a layout.
LEMMA WalkOfLayout ==
    ASSUME NEW sl \in Seq(Slots), NEW b, NEW at, Layout(b, sl, at)
    PROVE  Count(b) = Len(sl) /\ SlotAt(b) = [i \in 1..Len(sl) |-> at[i]]
<1> DEFINE n == Len(sl)
<1>1. n \in Nat /\ \A i \in 1..n : sl[i] \in Slots
  OBVIOUS
<1>2. Count(b) = n
  <2>1. CASE sl = <<>>
    BY <2>1 DEF Layout, Count
  <2>2. CASE sl # <<>>
    <3>1. n # 0 /\ n \in 1..n
      BY <1>1, <2>2
    <3>2. /\ b \in Seq(Int) /\ b[1] = n /\ at[n] \in Nat /\ at[n] >= 2
          /\ End(at[n], sl[n]) = Len(b) + 1
      BY <2>2, <3>1 DEF Layout
    <3>3. sl[n].room \in Nat
      BY <1>1, <3>1, SlotShape
    <3>4. Len(b) # 0
      BY <3>2, <3>3 DEF End
    <3>5. b # <<>>
      BY <3>4
    <3> QED BY <3>2, <3>5 DEF Count
  <2> QED BY <2>1, <2>2
<1>3. n # 0 => at[1] = 2
  BY DEF Layout
<1>4. ASSUME NEW i \in 1..(n - 1) PROVE at[i + 1] = at[i] + 1 + b[at[i]]
  <2>1. i \in 1..n
    BY <1>1
  <2>2. at[i + 1] = End(at[i], sl[i]) /\ at[i] \in Nat /\ b[at[i]] = sl[i].room + 5
    BY <2>1 DEF Layout, SlotCells
  <2>3. sl[i].room \in Nat
    BY <1>1, <2>1, SlotShape
  <2>4. \A x, r \in Nat : x + r + 6 = x + 1 + (r + 5)
    OBVIOUS
  <2> QED BY <2>2, <2>3, <2>4 DEF End
<1> QED BY <1>1, <1>2, <1>3, <1>4, Walk

\* The scan of the bytes is the scan of the slots.
LEMMA ScanOfLayout ==
    ASSUME slots \in Seq(Slots), NEW at, Layout(body, slots, at)
    PROVE  ~ScanRaises(body) /\ ScanBytes(body) = Scan
<1> DEFINE n == Len(slots)
           w == [i \in 1..n |-> at[i]]
<1>1. n \in Nat /\ DOMAIN slots = 1..n /\ \A i \in 1..n : slots[i] \in Slots
  OBVIOUS
<1>2. SlotAt(body) = w /\ DOMAIN w = 1..n /\ \A i \in 1..n : w[i] = at[i]
  BY WalkOfLayout
<1> HIDE DEF w
<1>3. ASSUME NEW i \in 1..n
      PROVE  /\ Alive(body, w[i]) <=> ~slots[i].deleted
             /\ RowData(body, w[i])[1] = slots[i].id
             /\ DecodeRow(RowData(body, w[i])) = Decoded(slots[i].row)
             /\ Decodable(RowData(body, w[i])) /\ ~(w[i] > Len(body))
  <2>1. slots[i] \in Slots /\ slots[i].deleted \in BOOLEAN
    BY <1>1, SlotShape
  <2>2. /\ body \in Seq(Int) /\ at[i] \in Nat /\ at[i] >= 2
        /\ End(at[i], slots[i]) <= Len(body) + 1 /\ SlotCells(body, at[i], slots[i])
    BY DEF Layout
  <2>3. body[at[i] + 1] = IF slots[i].deleted THEN 1 ELSE 0
    BY <2>2 DEF SlotCells
  <2>4. /\ RowData(body, at[i])[1] = slots[i].id
        /\ DecodeRow(RowData(body, at[i])) = Decoded(slots[i].row)
        /\ Decodable(RowData(body, at[i])) /\ at[i] < Len(body)
    BY <2>1, <2>2, SlotRead
  <2>5. ~(at[i] > Len(body))
    <3>1. Len(body) \in Nat
      BY <2>2
    <3> QED BY ONLY <2>2, <2>4, <3>1
  <2>6. Alive(body, at[i]) <=> ~slots[i].deleted
    BY <2>1, <2>3, <2>4 DEF Alive
  <2> QED BY <1>2, <2>4, <2>5, <2>6
<1>7. ~ScanRaises(body)
  BY <1>2, <1>3 DEF ScanRaises
<1>4. ScanBytes(body) =
        {[at |-> i, id |-> RowData(body, w[i])[1], row |-> DecodeRow(RowData(body, w[i]))] :
            i \in {j \in 1..n : Alive(body, w[j])}}
  BY <1>2 DEF ScanBytes
<1>5. {j \in 1..n : Alive(body, w[j])} = {j \in 1..n : ~slots[j].deleted}
  BY <1>3
<1>6. \A i \in 1..n :
         [at |-> i, id |-> RowData(body, w[i])[1], row |-> DecodeRow(RowData(body, w[i]))]
         = [at |-> i, id |-> slots[i].id, row |-> Decoded(slots[i].row)]
  BY <1>3
<1> QED BY <1>1, <1>4, <1>5, <1>6, <1>7 DEF Scan

\* The walk for a row id finds its first slot.
LEMMA FoundOfLayout ==
    ASSUME slots \in Seq(Slots), NEW at, Layout(body, slots, at), NEW id,
           \E i \in DOMAIN slots : slots[i].id = id
    PROVE  /\ FirstSlot(id) \in 1..Len(slots)
           /\ slots[FirstSlot(id)].id = id
           /\ Found(body, id) = at[FirstSlot(id)]
<1> DEFINE n == Len(slots)
           w == [i \in 1..n |-> at[i]]
           First(i) == slots[i].id = id /\ \A j \in 1..(i - 1) : slots[j].id # id
<1>1. n \in Nat /\ DOMAIN slots = 1..n /\ \A i \in 1..n : slots[i] \in Slots
  OBVIOUS
<1>2. SlotAt(body) = w /\ DOMAIN w = 1..n /\ \A i \in 1..n : w[i] = at[i]
  BY WalkOfLayout
<1>3. \A i \in 1..n : RowData(body, at[i])[1] = slots[i].id
  BY <1>1, SlotRead DEF Layout
<1>4. PICK m \in 1..n : First(m)
  <2> DEFINE S == {i \in 1..n : slots[i].id = id}
  <2>1. S \in SUBSET Nat /\ S # {}
    BY <1>1
  <2> HIDE DEF S
  <2>2. PICK m \in S : \A k \in S : m <= k
    BY <2>1, LeastNumber
  <2>3. m \in 1..n /\ slots[m].id = id
    BY DEF S
  <2>4. ASSUME NEW j \in 1..(m - 1), slots[j].id = id PROVE FALSE
    <3>1. j \in 1..n /\ ~(m <= j)
      BY <1>1, <2>3
    <3>2. j \in S
      BY <2>4, <3>1 DEF S
    <3> QED BY <2>2, <3>1, <3>2
  <2> QED BY <2>3, <2>4
<1>5. \A i, k \in 1..n : First(i) /\ First(k) => i = k
  <2>1. ASSUME NEW i \in 1..n, NEW k \in 1..n, First(i), First(k), i # k PROVE FALSE
    <3>1. i \in 1..(k - 1) \/ k \in 1..(i - 1)
      BY <1>1, <2>1
    <3> QED BY <2>1, <3>1
  <2> QED BY <2>1
<1>6. FirstSlot(id) \in 1..n /\ First(FirstSlot(id))
  BY <1>1, <1>4 DEF FirstSlot
<1> DEFINE Hit(i) == /\ RowData(body, w[i])[1] = id
                     /\ \A j \in 1..(i - 1) : RowData(body, w[j])[1] # id
           hit == CHOOSE i \in 1..n : Hit(i)
<1>7. \A i \in 1..n : Hit(i) <=> First(i)
  <2>1. \A i \in 1..n : \A j \in 1..(i - 1) : j \in 1..n
    BY <1>1
  <2> HIDE DEF w
  <2> QED BY <1>2, <1>3, <2>1
<1>8. Found(body, id) = w[hit]
  BY <1>2 DEF Found
<1> HIDE DEF First, Hit, w
<1>9. hit \in 1..n /\ Hit(hit)
  BY <1>4, <1>7
<1> HIDE DEF hit
<1>10. hit = FirstSlot(id)
  BY <1>5, <1>6, <1>7, <1>9
<1> QED BY <1>2, <1>6, <1>8, <1>9, <1>10 DEF First

\* Slots of the page as intervals of units.
LEMMA Apart ==
    ASSUME NEW x \in Nat, NEW r \in Nat, NEW y \in Nat, NEW q \in Nat,
           x + r + 6 <= y \/ y + q + 6 <= x, NEW k \in x..(x + r + 5)
    PROVE  k < y \/ k >= y + q + 6
OBVIOUS

\* A slot that ends within l units lies in them, behind the row count.
LEMMA Within ==
    ASSUME NEW x \in Nat, x >= 2, NEW r \in Nat, NEW l \in Nat, x + r + 6 <= l + 1
    PROVE  /\ l >= 7 /\ 1 \in 1..l /\ x \in 1..l /\ x + 1 \in 1..l /\ x + 1 \in 2..l
           /\ \A k \in x..(x + r + 5) : k \in 1..l /\ k \in 2..l
OBVIOUS

\* The length, the flag and the row are among the units of a slot.
LEMMA SlotUnits ==
    ASSUME NEW x \in Nat, NEW r \in Nat, NEW d \in Nat, d <= r + 4
    PROVE  /\ x \in x..(x + r + 5) /\ x + 1 \in x..(x + r + 5)
           /\ \A k \in 1..d : x + 1 + k \in x..(x + r + 5)
OBVIOUS

\* The units of a slot's row.
LEMMA RowUnits ==
    ASSUME NEW s \in Slots
    PROVE  /\ Len(EncodeRow(s.id, s.row)) = EncodedLength(s.row) + 4
           /\ EncodedLength(s.row) \in Nat
           /\ EncodedLength(s.row) <= s.room =>
                 Len(EncodeRow(s.id, s.row)) \in Nat /\ Len(EncodeRow(s.id, s.row)) <= s.room + 4
<1>1. s.id \in Nat /\ s.room \in Nat /\ s.row \in Row
  BY SlotShape
<1>2. Len(EncodeRow(s.id, s.row)) = EncodedLength(s.row) + 4
  BY <1>1, Encoded
<1>3. EncodedLength(s.row) \in Nat
  BY <1>1, RowFacts
<1> QED BY <1>1, <1>2, <1>3

\* A slot is read from its own units only.
LEMMA CellsKept ==
    ASSUME NEW s \in Slots, NEW x \in Nat, NEW b, NEW b2, SlotCells(b, x, s),
           \A k \in x..(x + s.room + 5) : b2[k] = b[k]
    PROVE  SlotCells(b2, x, s)
<1> DEFINE d == Len(EncodeRow(s.id, s.row))
<1>1. s.room \in Nat
  BY SlotShape
<1>2. d \in Nat /\ d <= s.room + 4
  BY RowUnits DEF SlotCells
<1> HIDE DEF d
<1>3. /\ x \in x..(x + s.room + 5) /\ x + 1 \in x..(x + s.room + 5)
      /\ \A k \in 1..d : x + 1 + k \in x..(x + s.room + 5)
  BY <1>1, <1>2, SlotUnits
<1>4. /\ b2[x] = b[x] /\ b2[x + 1] = b[x + 1]
      /\ \A k \in 1..d : b2[x + 1 + k] = b[x + 1 + k]
  BY <1>3
<1> QED BY <1>4 DEF SlotCells, d

\* b2 differs from b in the units from lo to below hi at most.
Outside(b, b2, lo, hi) ==
    /\ b2 \in Seq(Int) /\ Len(b2) = Len(b)
    /\ \A k \in 1..Len(b) : k < lo \/ k >= hi => b2[k] = b[k]

\* A layout stays one when a slot is rewritten within its bounds.
LEMMA SlotRewritten ==
    ASSUME NEW sl \in Seq(Slots), NEW b, NEW at, Layout(b, sl, at),
           NEW f \in 1..Len(sl), NEW s \in Slots, s.room = sl[f].room,
           NEW b2, Outside(b, b2, at[f], End(at[f], sl[f])), SlotCells(b2, at[f], s)
    PROVE  Layout(b2, [sl EXCEPT ![f] = s], at) /\ [sl EXCEPT ![f] = s] \in Seq(Slots)
<1> DEFINE n == Len(sl)
           new == [sl EXCEPT ![f] = s]
<1>1. n \in Nat /\ \A i \in 1..n : sl[i] \in Slots
  OBVIOUS
<1>2. new \in Seq(Slots) /\ Len(new) = n /\ new[f] = s /\ new # <<>> /\ sl # <<>>
      /\ \A i \in 1..n : i # f => new[i] = sl[i]
  OBVIOUS
<1> HIDE DEF new
<1>3. \A i \in 1..n : new[i].room = sl[i].room /\ sl[i].room \in Nat
  BY <1>1, <1>2, SlotShape
<1>4. \A i \in 1..n : End(at[i], new[i]) = End(at[i], sl[i])
  BY <1>3 DEF End
<1>5. /\ b \in Seq(Int) /\ b2 \in Seq(Int) /\ Len(b) \in Nat /\ Len(b2) = Len(b)
      /\ b[1] = n /\ at[1] = 2 /\ End(at[n], sl[n]) = Len(b) + 1
      /\ \A i \in 1..n : /\ at[i] \in Nat /\ at[i] >= 2 /\ End(at[i], sl[i]) <= Len(b) + 1
                         /\ SlotCells(b, at[i], sl[i])
      /\ \A i \in 1..(n - 1) : at[i + 1] = End(at[i], sl[i])
      /\ \A i, j \in 1..n : i < j => End(at[i], sl[i]) <= at[j]
  BY <1>2 DEF Layout, Outside
<1>6. \A k \in 1..Len(b) : k < at[f] \/ k >= End(at[f], sl[f]) => b2[k] = b[k]
  BY DEF Outside
<1>7. b2[1] = b[1]
  <2>1. 1 \in 1..Len(b)
    BY <1>3, <1>5, Within DEF End
  <2>2. 1 < at[f]
    BY <1>5
  <2> QED BY <1>6, <2>1, <2>2
<1>8. ASSUME NEW i \in 1..n PROVE SlotCells(b2, at[i], new[i])
  <2>1. CASE i = f
    BY <1>2, <2>1
  <2>2. CASE i # f
    <3>1. i < f \/ f < i
      BY <1>1, <2>2
    <3>2. End(at[i], sl[i]) <= at[f] \/ End(at[f], sl[f]) <= at[i]
      BY <1>5, <3>1
    <3>3. ASSUME NEW k \in at[i]..(at[i] + sl[i].room + 5) PROVE b2[k] = b[k]
      <4>1. k \in 1..Len(b)
        BY <1>3, <1>5, Within DEF End
      <4>2. k < at[f] \/ k >= End(at[f], sl[f])
        BY <1>3, <1>5, <3>2, Apart DEF End
      <4> QED BY <1>6, <4>1, <4>2
    <3> QED BY <1>1, <1>2, <1>5, <2>2, <3>3, CellsKept
  <2> QED BY <2>1, <2>2
<1>9. /\ new = <<>> => b2 = <<>>
      /\ b2[1] = Len(new) /\ at[1] = 2
      /\ End(at[Len(new)], new[Len(new)]) = Len(b2) + 1
  <2>1. n \in 1..n
    BY <1>1, <1>2
  <2> QED BY <1>2, <1>4, <1>5, <1>7, <2>1
<1>10. \A i \in 1..n : at[i] \in Nat /\ at[i] >= 2 /\ End(at[i], new[i]) <= Len(b2) + 1
  BY <1>4, <1>5
<1>11. \A i \in 1..(n - 1) : at[i + 1] = End(at[i], new[i])
  <2>1. \A i \in 1..(n - 1) : i \in 1..n
    BY <1>1
  <2> QED BY <1>4, <1>5, <2>1
<1>12. \A i, j \in 1..n : i < j => End(at[i], new[i]) <= at[j]
  BY <1>4, <1>5
<1>13. Layout(b2, new, at)
  BY <1>2, <1>5, <1>8, <1>9, <1>10, <1>11, <1>12 DEF Layout
<1> QED BY <1>2, <1>13 DEF new

\* A sequence behind a length and a flag.
LEMMA Prefixed ==
    ASSUME NEW v \in Seq(Int), NEW i \in Int, NEW w, w = <<i, 0>> \o v
    PROVE  /\ w \in Seq(Int) /\ Len(w) = Len(v) + 2
           /\ w[1] = i /\ w[2] = 0 /\ \A k \in 1..Len(v) : w[2 + k] = v[k]
OBVIOUS

\* Two sequences, one behind the other.
LEMMA Joined ==
    ASSUME NEW v \in Seq(Int), NEW w \in Seq(Int), NEW u, u = v \o w
    PROVE  /\ u \in Seq(Int) /\ Len(u) = Len(v) + Len(w)
           /\ \A k \in 1..Len(v) : u[k] = v[k]
           /\ \A k \in 1..Len(w) : u[Len(v) + k] = w[k]
OBVIOUS

\* Append to a sequence of slots.
LEMMA Appended ==
    ASSUME NEW sl \in Seq(Slots), NEW s \in Slots
    PROVE  /\ Append(sl, s) \in Seq(Slots) /\ Len(Append(sl, s)) = Len(sl) + 1
           /\ Append(sl, s)[Len(sl) + 1] = s /\ Append(sl, s) # <<>>
           /\ \A i \in 1..Len(sl) : Append(sl, s)[i] = sl[i]
OBVIOUS

\* Only the empty page has no slots.
LEMMA NoSlots == \A sl \in Seq(Slots) : Len(sl) = 0 <=> sl = <<>>
OBVIOUS

\* b2 is b1 with the slot behind it.
Behind(b1, b2, s) ==
    /\ s \in Slots
    /\ b2 \in Seq(Int) /\ Len(b2) = Len(b1) + s.room + 6
    /\ \A k \in 1..Len(b1) : b2[k] = b1[k]
    /\ SlotCells(b2, Len(b1) + 1, s)

\* A new slot behind the units of b1.
LEMMA NewSlotCells ==
    ASSUME NEW id \in 1..MaxSlots, NEW row \in Row, NEW b1 \in Seq(Int)
    PROVE  Behind(b1, b1 \o NewSlot(EncodeRow(id, row)), Slot(id, row))
<1> DEFINE s == Slot(id, row)
           b2 == b1 \o NewSlot(EncodeRow(id, row))
<1>1. id \in Nat /\ EncodedLength(row) \in Nat
  BY HeapAssumption, RowFacts
<1>2. s \in Slots /\ s.id = id /\ s.row = row /\ s.room = EncodedLength(row) /\ s.deleted = FALSE
  BY <1>1 DEF Slot, Slots
<1> HIDE DEF s
<1>3. PICK e \in Seq(Int) : e = EncodeRow(id, row) /\ Len(e) = s.room + 4
  BY <1>1, <1>2, Encoded
<1>4. PICK r \in Nat : r = s.room
  BY <1>1, <1>2
<1> DEFINE u == <<Len(e) + 1, 0>> \o e
<1>5. /\ u \in Seq(Int) /\ Len(u) = r + 6
      /\ u[1] = r + 5 /\ u[2] = 0 /\ \A k \in 1..Len(e) : u[2 + k] = e[k]
  <2>1. Len(e) = r + 4 /\ Len(e) + 1 = r + 5 /\ Len(e) + 2 = r + 6 /\ Len(e) + 1 \in Int
    BY <1>3, <1>4
  <2>2. /\ u \in Seq(Int) /\ Len(u) = Len(e) + 2
        /\ u[1] = Len(e) + 1 /\ u[2] = 0 /\ \A k \in 1..Len(e) : u[2 + k] = e[k]
    BY <2>1, Prefixed
  <2> HIDE DEF u
  <2> QED BY <2>1, <2>2
<1>6. b2 = b1 \o u
  BY <1>3 DEF NewSlot
<1> HIDE DEF u, b2
<1>7. PICK m \in Nat : m = Len(b1)
  OBVIOUS
<1>8. /\ b2 \in Seq(Int) /\ Len(b2) = m + (r + 6)
      /\ \A k \in 1..m : b2[k] = b1[k]
      /\ \A k \in 1..(r + 6) : b2[m + k] = u[k]
  <2>1. /\ b2 \in Seq(Int) /\ Len(b2) = Len(b1) + Len(u)
        /\ \A k \in 1..Len(b1) : b2[k] = b1[k]
        /\ \A k \in 1..Len(u) : b2[Len(b1) + k] = u[k]
    <3>1. b1 \in Seq(Int) /\ u \in Seq(Int)
      BY <1>5
    <3> QED BY ONLY <1>6, <3>1, Joined
  <2> QED BY <1>5, <1>7, <2>1
<1>9. /\ 1 \in 1..(r + 6) /\ 2 \in 1..(r + 6) /\ m + (r + 6) = m + r + 6
      /\ m + 2 = m + 1 + 1 /\ \A k \in 1..(r + 4) : /\ 2 + k \in 1..(r + 6)
                                                    /\ m + (2 + k) = m + 1 + 1 + k
  OBVIOUS
<1>10. Len(e) = r + 4
  BY <1>3, <1>4
<1>11. /\ b2[m + 1] = r + 5 /\ b2[m + 1 + 1] = 0
       /\ \A k \in 1..Len(e) : b2[m + 1 + 1 + k] = e[k]
  <2>1. b2[m + 1] = u[1] /\ b2[m + 1 + 1] = u[2]
    BY ONLY <1>8, <1>9
  <2>2. \A k \in 1..(r + 4) : b2[m + 1 + 1 + k] = u[2 + k]
    BY ONLY <1>8, <1>9
  <2> QED BY ONLY <1>5, <1>10, <2>1, <2>2
<1>12. EncodedLength(s.row) <= s.room
  BY <1>1, <1>2
<1>13. SlotCells(b2, m + 1, s)
  BY <1>2, <1>3, <1>4, <1>11, <1>12 DEF SlotCells
<1>14. Behind(b1, b2, s)
  BY <1>2, <1>4, <1>7, <1>8, <1>9, <1>13 DEF Behind
<1> QED BY <1>14 DEF s, b2

\* b2 is b, or an empty page with its row count, with a slot behind it, counted.
Added(b, b2, m, n, s) ==
    /\ b2 \in Seq(Int) /\ Len(b2) = m + s.room + 6
    /\ b2[1] = n + 1
    /\ \A k \in 2..m : b2[k] = b[k]
    /\ SlotCells(b2, m + 1, s)

\* The units of a slot added behind m units.
LEMMA AddedUnits ==
    ASSUME NEW m \in Nat, m >= 1, NEW r \in Nat
    PROVE  /\ m + 1 \in Nat /\ m + 1 >= 2 /\ (m + 1) + r + 6 = (m + r + 6) + 1
           /\ m + r + 6 > m /\ m + r + 6 \in Nat
           /\ \A z \in Nat, q \in Nat : z + q + 6 <= m + 1 => z + q + 6 <= (m + r + 6) + 1
OBVIOUS

\* The places at of n slots, and one more behind m units.
Extended(at, at2, n, m) == at2[n + 1] = m + 1 /\ \A i \in 1..n : at2[i] = at[i]

\* A layout stays one when a slot is added at its end and counted.
LEMMA SlotAdded ==
    ASSUME NEW sl \in Seq(Slots), NEW b, NEW at, Layout(b, sl, at), NEW s \in Slots,
           NEW m \in Nat, m = IF sl = <<>> THEN 1 ELSE Len(b),
           NEW b2, Added(b, b2, m, Len(sl), s),
           NEW at2, Extended(at, at2, Len(sl), m)
    PROVE  Layout(b2, Append(sl, s), at2) /\ Append(sl, s) \in Seq(Slots) /\ Len(b2) > m
<1>1. PICK n \in Nat : n = Len(sl)
  OBVIOUS
<1>2. \A i \in 1..n : sl[i] \in Slots /\ sl[i].room \in Nat
  BY <1>1, SlotShape
<1>3. PICK new \in Seq(Slots) : /\ new = Append(sl, s) /\ Len(new) = n + 1 /\ new[n + 1] = s
                                /\ new # <<>> /\ \A i \in 1..n : new[i] = sl[i]
  BY <1>1, Appended
<1>4. s.room \in Nat
  BY SlotShape
<1>5. /\ b2 \in Seq(Int) /\ Len(b2) = m + s.room + 6 /\ b2[1] = n + 1
      /\ \A k \in 2..m : b2[k] = b[k]
      /\ SlotCells(b2, m + 1, s)
  BY <1>1 DEF Added
<1>6. n # 0 => /\ b \in Seq(Int) /\ m = Len(b) /\ at[1] = 2 /\ End(at[n], sl[n]) = m + 1
               /\ \A i \in 1..n : /\ at[i] \in Nat /\ at[i] >= 2 /\ End(at[i], sl[i]) <= m + 1
                                  /\ SlotCells(b, at[i], sl[i])
               /\ \A i \in 1..(n - 1) : at[i + 1] = End(at[i], sl[i])
               /\ \A i, j \in 1..n : i < j => End(at[i], sl[i]) <= at[j]
  <2>1. n # 0 => sl # <<>>
    BY <1>1
  <2> QED BY <1>1, <2>1 DEF Layout
<1>0. n = 0 => m = 1
  <2>1. n = 0 => sl = <<>>
    <3>1. sl \in Seq(Slots)
      OBVIOUS
    <3> QED BY ONLY <1>1, <3>1, NoSlots
  <2> QED BY <2>1
<1>7. m >= 1
  <2>1. CASE n = 0
    BY ONLY <1>0, <2>1
  <2>2. CASE n # 0
    <3>1. n \in 1..n
      BY <2>2
    <3>2. m >= 7
      BY <1>2, <1>6, <2>2, <3>1, Within DEF End
    <3> QED BY <3>2
  <2> QED BY <2>1, <2>2
<1>8. /\ at2[n + 1] = m + 1
      /\ \A i \in 1..n : at2[i] = at[i] /\ i # n + 1 /\ i \in 1..(n + 1)
      /\ n + 1 \in 1..(n + 1)
      /\ \A i \in 1..(n + 1) : i = n + 1 \/ i \in 1..n
      /\ n # 0 => 1 \in 1..n
      /\ (n + 1) - 1 = n
  BY <1>1 DEF Extended
<1>9. /\ m + 1 \in Nat /\ m + 1 >= 2 /\ End(m + 1, s) = Len(b2) + 1 /\ Len(b2) > m
      /\ Len(b2) \in Nat
  <2>1. /\ m + 1 \in Nat /\ m + 1 >= 2 /\ (m + 1) + s.room + 6 = (m + s.room + 6) + 1
        /\ m + s.room + 6 > m /\ m + s.room + 6 \in Nat
    BY ONLY <1>4, <1>7, m \in Nat, AddedUnits
  <2> QED BY ONLY <1>5, <2>1 DEF End
<1>10. ASSUME NEW i \in 1..n
       PROVE  /\ at[i] \in Nat /\ at[i] >= 2
              /\ End(at[i], sl[i]) <= m + 1 /\ End(at[i], sl[i]) <= Len(b2) + 1
              /\ SlotCells(b2, at[i], sl[i])
  <2>1. n # 0
    OBVIOUS
  <2>2. /\ at[i] \in Nat /\ at[i] >= 2 /\ End(at[i], sl[i]) <= m + 1
        /\ SlotCells(b, at[i], sl[i])
    BY <1>6, <2>1
  <2>3. End(at[i], sl[i]) <= Len(b2) + 1
    BY <1>2, <1>4, <1>5, <1>7, <2>2, AddedUnits DEF End
  <2>4. \A k \in at[i]..(at[i] + sl[i].room + 5) : b2[k] = b[k]
    <3>1. \A k \in at[i]..(at[i] + sl[i].room + 5) : k \in 2..m
      BY <1>2, <2>2, Within DEF End
    <3> QED BY <1>5, <3>1
  <2>5. SlotCells(b2, at[i], sl[i])
    BY <1>2, <2>2, <2>4, CellsKept
  <2> QED BY <2>2, <2>3, <2>5
<1>11. at2[1] = 2
  <2>1. CASE n = 0
    <3>1. m = 1 /\ n + 1 = 1 /\ m + 1 = 2
      BY ONLY <1>0, <2>1
    <3> QED BY <1>8, <3>1
  <2>2. CASE n # 0
    BY <1>6, <1>8, <2>2
  <2> QED BY <2>1, <2>2
<1>12. ASSUME NEW i \in 1..n PROVE at2[i + 1] = End(at[i], sl[i])
  <2>1. CASE i = n
    BY <1>6, <1>8, <2>1
  <2>2. CASE i # n
    <3>1. i \in 1..(n - 1) /\ i + 1 \in 1..n /\ n # 0
      BY <2>2
    <3> QED BY <1>6, <1>8, <3>1
  <2> QED BY <2>1, <2>2
<1>13. ASSUME NEW i \in 1..(n + 1), NEW j \in 1..(n + 1), i < j
       PROVE  End(at2[i], new[i]) <= at2[j]
  <2>1. i \in 1..n /\ n # 0
    BY <1>13
  <2>2. at2[i] = at[i] /\ new[i] = sl[i]
    BY <1>3, <1>8, <2>1
  <2>3. CASE j = n + 1
    BY <1>8, <1>10, <2>1, <2>2, <2>3
  <2>4. CASE j \in 1..n
    BY <1>6, <1>8, <1>13, <2>1, <2>2, <2>4
  <2> QED BY <1>8, <2>3, <2>4
<1>14. ASSUME NEW i \in 1..(n + 1)
       PROVE  /\ at2[i] \in Nat /\ at2[i] >= 2
              /\ End(at2[i], new[i]) <= Len(b2) + 1
              /\ SlotCells(b2, at2[i], new[i])
  <2>1. CASE i = n + 1
    BY <1>3, <1>5, <1>8, <1>9, <2>1
  <2>2. CASE i \in 1..n
    BY <1>3, <1>8, <1>10, <2>2
  <2> QED BY <1>8, <2>1, <2>2
<1>15. \A i \in 1..((n + 1) - 1) : at2[i + 1] = End(at2[i], new[i])
  BY <1>3, <1>8, <1>12
<1>16. Layout(b2, new, at2)
  BY <1>3, <1>5, <1>8, <1>9, <1>11, <1>13, <1>14, <1>15 DEF Layout
<1> QED BY <1>3, <1>9, <1>16

-----------------------------------------------------------------------------
(* The operations on a body that holds the slots                           *)

\* A layout with slots has units for them.
LEMMA LayoutFacts ==
    ASSUME NEW sl \in Seq(Slots), NEW b, NEW at, Layout(b, sl, at)
    PROVE  /\ b \in Seq(Int) /\ Len(b) \in Nat
           /\ \A i \in 1..Len(sl) :
                 /\ sl[i] \in Slots /\ sl[i].room \in Nat
                 /\ at[i] \in Nat /\ at[i] >= 2 /\ at[i] + sl[i].room + 6 <= Len(b) + 1
                 /\ b[at[i]] = sl[i].room + 5
                 /\ SlotCells(b, at[i], sl[i])
           /\ sl # <<>> => Len(b) >= 7 /\ b[1] = Len(sl)
           /\ sl = <<>> => b = <<>>
<1>1. Len(sl) \in Nat /\ \A i \in 1..Len(sl) : sl[i] \in Slots
  OBVIOUS
<1>2. b \in Seq(Int) /\ Len(b) \in Nat
  BY DEF Layout
<1>3. ASSUME NEW i \in 1..Len(sl)
      PROVE  /\ sl[i] \in Slots /\ sl[i].room \in Nat
             /\ at[i] \in Nat /\ at[i] >= 2 /\ at[i] + sl[i].room + 6 <= Len(b) + 1
             /\ b[at[i]] = sl[i].room + 5
             /\ SlotCells(b, at[i], sl[i])
  BY <1>1, SlotShape DEF Layout, SlotCells, End
<1>4. ASSUME sl # <<>> PROVE Len(b) >= 7 /\ b[1] = Len(sl)
  <2>1. 1 \in 1..Len(sl)
    BY <1>1, <1>4, NoSlots
  <2>2. /\ sl[1].room \in Nat
        /\ at[1] \in Nat /\ at[1] >= 2 /\ at[1] + sl[1].room + 6 <= Len(b) + 1
    BY <1>3, <2>1
  <2>3. Len(b) >= 7
    BY ONLY <1>2, <2>2, Within
  <2> QED BY <1>4, <2>3 DEF Layout
<1>5. sl = <<>> => b = <<>>
  BY DEF Layout
<1> QED BY <1>2, <1>3, <1>4, <1>5

\* b2 is b with the unit u set.
Flagged(b, b2, u) ==
    /\ b2 \in Seq(Int) /\ Len(b2) = Len(b) /\ b2[u] = 1
    /\ \A k \in 1..Len(b) : k # u => b2[k] = b[k]

\* A slot marked as deleted.
Dead(s, dead) ==
    /\ dead \in Slots /\ dead.room = s.room /\ dead.id = s.id /\ dead.row = s.row
    /\ dead.deleted = TRUE

\* Writing the flag keeps the slot.
LEMMA FlagWritten ==
    ASSUME NEW b \in Seq(Int), NEW x \in Nat, x >= 2, NEW s \in Slots,
           x + s.room + 6 <= Len(b) + 1, SlotCells(b, x, s),
           NEW b2, Flagged(b, b2, x + 1), NEW dead, Dead(s, dead)
    PROVE  Outside(b, b2, x, End(x, s)) /\ SlotCells(b2, x, dead)
<1>1. s.room \in Nat /\ Len(b) \in Nat
  BY SlotShape
<1>2. /\ dead \in Slots /\ dead.room = s.room /\ dead.id = s.id /\ dead.row = s.row
      /\ dead.deleted = TRUE
  BY DEF Dead
<1>3. x \in 1..Len(b) /\ x # x + 1
  BY <1>1, Within
<1>4. /\ b2 \in Seq(Int) /\ Len(b2) = Len(b) /\ b2[x + 1] = 1
      /\ \A k \in 1..Len(b) : k # x + 1 => b2[k] = b[k]
  BY DEF Flagged
<1>5. \A k \in 1..Len(b) : k < x \/ k >= x + s.room + 6 => k # x + 1
  BY <1>1
<1>6. Outside(b, b2, x, End(x, s))
  BY <1>4, <1>5 DEF Outside, End
<1>7. PICK d \in Nat : d = Len(EncodeRow(s.id, s.row)) /\ d <= s.room + 4
  BY RowUnits DEF SlotCells
<1>8. \A k \in 1..d : x + 1 + k \in 1..Len(b) /\ x + 1 + k # x + 1
  <2>1. \A k \in 1..d : x + 1 + k \in x..(x + s.room + 5)
    BY ONLY <1>1, <1>7, SlotUnits, x \in Nat
  <2>2. \A k \in x..(x + s.room + 5) : k \in 1..Len(b)
    BY <1>1, Within
  <2>3. \A k \in 1..d : x + 1 + k # x + 1
    BY ONLY <1>7, x \in Nat
  <2> QED BY <2>1, <2>2, <2>3
<1>9. b2[x] = b[x] /\ \A k \in 1..d : b2[x + 1 + k] = b[x + 1 + k]
  BY <1>3, <1>4, <1>8
<1>10. SlotCells(b2, x, dead)
  BY <1>2, <1>4, <1>7, <1>9 DEF SlotCells
<1> QED BY <1>6, <1>10

\* What Heap.delete does to the bytes.
LEMMA FlagSet ==
    ASSUME NEW b \in Seq(Int), NEW u \in 1..Len(b)
    PROVE  Flagged(b, [b EXCEPT ![u] = 1], u)
BY DEF Flagged

\* What Heap.delete does to a slot.
LEMMA SlotMarked ==
    ASSUME NEW sl \in Seq(Slots), NEW f \in 1..Len(sl)
    PROVE  \E dead : /\ Dead(sl[f], dead)
                     /\ [sl EXCEPT ![f].deleted = TRUE] = [sl EXCEPT ![f] = dead]
<1> DEFINE dead == [sl[f] EXCEPT !.deleted = TRUE]
<1>1. [sl EXCEPT ![f].deleted = TRUE] = [sl EXCEPT ![f] = dead]
  OBVIOUS
<1>2. sl[f] \in Slots
  OBVIOUS
<1>3. Dead(sl[f], dead)
  BY <1>2 DEF Dead, Slots
<1> HIDE DEF dead
<1> QED BY <1>1, <1>3

\* Heap.delete on the bytes and on the slots.
LEMMA MarkOfLayout ==
    ASSUME NEW sl \in Seq(Slots), NEW b, NEW at, Layout(b, sl, at), NEW f \in 1..Len(sl),
           NEW b2, Flagged(b, b2, at[f] + 1)
    PROVE  /\ Layout(b2, [sl EXCEPT ![f].deleted = TRUE], at)
           /\ [sl EXCEPT ![f].deleted = TRUE] \in Seq(Slots)
           /\ Len(b2) = Len(b)
<1>1. PICK dead : Dead(sl[f], dead) /\ [sl EXCEPT ![f].deleted = TRUE] = [sl EXCEPT ![f] = dead]
  BY SlotMarked
<1>2. /\ b \in Seq(Int) /\ sl[f] \in Slots /\ at[f] \in Nat /\ at[f] >= 2
      /\ at[f] + sl[f].room + 6 <= Len(b) + 1 /\ SlotCells(b, at[f], sl[f])
  BY LayoutFacts
<1>3. Flagged(b, b2, at[f] + 1)
  OBVIOUS
<1>4. Outside(b, b2, at[f], End(at[f], sl[f])) /\ SlotCells(b2, at[f], dead)
  BY ONLY <1>1, <1>2, <1>3, FlagWritten
<1>5. dead \in Slots /\ dead.room = sl[f].room
  BY <1>1 DEF Dead
<1>6. Layout(b2, [sl EXCEPT ![f] = dead], at) /\ [sl EXCEPT ![f] = dead] \in Seq(Slots)
  BY <1>4, <1>5, SlotRewritten
<1>7. Len(b2) = Len(b)
  BY <1>4 DEF Outside
<1> QED BY <1>1, <1>6, <1>7

\* A body whose first unit is the new count.
LEMMA Recounted ==
    ASSUME NEW b \in Seq(Int), NEW c \in Int, NEW b1, b1 = <<c>> \o SubSeq(b, 2, Len(b)),
           NEW m, m = IF b = <<>> THEN 1 ELSE Len(b)
    PROVE  b1 \in Seq(Int) /\ Len(b1) = m /\ b1[1] = c /\ \A k \in 2..m : b1[k] = b[k]
<1>1. CASE b = <<>>
  <2>1. SubSeq(b, 2, Len(b)) = <<>>
    BY <1>1
  <2>2. b1 \in Seq(Int) /\ Len(b1) = 1 /\ b1[1] = c
    <3>1. <<>> \in Seq(Int) /\ <<c>> \in Seq(Int) /\ Len(<<>>) = 0 /\ Len(<<c>>) = 1
          /\ <<c>>[1] = c
      OBVIOUS
    <3>2. b1 = <<c>> \o <<>>
      BY <2>1
    <3>3. b1 \in Seq(Int) /\ Len(b1) = 1 + 0 /\ \A k \in 1..1 : b1[k] = <<c>>[k]
      BY ONLY <3>1, <3>2, Joined
    <3> QED BY <3>1, <3>3
  <2>3. m = 1
    BY <1>1
  <2> QED BY <2>2, <2>3
<1>2. CASE b # <<>>
  <2>1. PICK l \in Nat : l = Len(b) /\ l >= 1 /\ m = l
    BY <1>2
  <2> DEFINE w == SubSeq(b, 2, Len(b))
  <2>2. w \in Seq(Int) /\ Len(w) = l - 1 /\ \A k \in 1..(l - 1) : w[k] = b[k + 1]
    BY <2>1
  <2> HIDE DEF w
  <2>3. b1 = <<c>> \o w
    BY DEF w
  <2>4. b1 \in Seq(Int) /\ Len(b1) = l /\ b1[1] = c /\ \A k \in 2..l : b1[k] = w[k - 1]
    BY <2>1, <2>2, <2>3
  <2>5. \A k \in 2..l : k - 1 \in 1..(l - 1) /\ (k - 1) + 1 = k
    OBVIOUS
  <2> QED BY <2>1, <2>2, <2>4, <2>5
<1> QED BY <1>1, <1>2

\* Where the next slot goes: behind the units there are, or behind the count.
Room(b) == IF b = <<>> THEN 1 ELSE Len(b)

\* A layout grown by one slot, which begins behind the units of b.
Grown(b, b2, sl2) ==
    \E at2 : Layout(b2, sl2, at2) /\ at2[Len(sl2)] = Room(b) + 1

\* A counted body with a new slot behind it.
LEMMA AddedGrown ==
    ASSUME NEW sl \in Seq(Slots), NEW b, NEW at, Layout(b, sl, at),
           NEW id \in 1..MaxSlots, NEW row \in Row, NEW b1 \in Seq(Int),
           Len(b1) = Room(b), b1[1] = Len(sl) + 1, \A k \in 2..Len(b1) : b1[k] = b[k],
           NEW b2, b2 = b1 \o NewSlot(EncodeRow(id, row))
    PROVE  Grown(b, b2, Append(sl, Slot(id, row))) /\ Append(sl, Slot(id, row)) \in Seq(Slots)
<1>1. PICK m \in Nat : m = Len(b1)
  OBVIOUS
<1>2. PICK s : s = Slot(id, row) /\ Behind(b1, b2, s)
  <2>1. Behind(b1, b1 \o NewSlot(EncodeRow(id, row)), Slot(id, row))
    BY NewSlotCells
  <2> QED BY <2>1
<1>3. /\ s \in Slots /\ b2 \in Seq(Int) /\ Len(b2) = m + s.room + 6
      /\ \A k \in 1..m : b2[k] = b1[k]
      /\ SlotCells(b2, m + 1, s)
  BY ONLY <1>1, <1>2 DEF Behind
<1>4. b \in Seq(Int) /\ Len(b) \in Nat /\ (sl # <<>> => Len(b) >= 7) /\ (sl = <<>> => b = <<>>)
  BY LayoutFacts
<1>5. m = IF sl = <<>> THEN 1 ELSE Len(b)
  BY <1>1, <1>4 DEF Room
<1>6. m >= 1
  BY <1>4, <1>5
<1>7. Added(b, b2, m, Len(sl), s)
  <2>1. 1 \in 1..m /\ \A k \in 2..m : k \in 1..m
    BY ONLY <1>6, m \in Nat
  <2>2. b2[1] = Len(sl) + 1 /\ \A k \in 2..m : b2[k] = b[k]
    BY <1>1, <1>3, <2>1
  <2> QED BY <1>3, <2>2 DEF Added
<1> DEFINE n == Len(sl)
           at2 == [i \in 1..(n + 1) |-> IF i = n + 1 THEN m + 1 ELSE at[i]]
<1>8. at2[n + 1] = m + 1 /\ Len(Append(sl, s)) = n + 1 /\ Extended(at, at2, n, m)
  <2>1. n \in Nat /\ n + 1 \in 1..(n + 1)
    OBVIOUS
  <2>2. at2[n + 1] = m + 1 /\ \A i \in 1..n : at2[i] = at[i]
    BY <2>1
  <2> QED BY <1>3, <2>1, <2>2, Appended DEF Extended
<1> HIDE DEF at2
<1>9. Layout(b2, Append(sl, s), at2) /\ Append(sl, s) \in Seq(Slots)
  BY <1>3, <1>5, <1>7, <1>8, SlotAdded
<1>10. Grown(b, b2, Append(sl, s))
  BY <1>1, <1>8, <1>9 DEF Grown
<1> QED BY <1>2, <1>9, <1>10

\* Heap.append on the bytes and on the slots.
LEMMA AppendOfLayout ==
    ASSUME NEW sl \in Seq(Slots), Len(sl) < MaxSlots, NEW b, NEW at, Layout(b, sl, at),
           NEW row \in Row
    PROVE  Grown(b, AppendBytes(b, row), Append(sl, Slot(Len(sl) + 1, row)))
<1>1. PICK n \in Nat : n = Len(sl)
  OBVIOUS
<1>2. Count(b) = n /\ b \in Seq(Int)
  BY <1>1, WalkOfLayout, LayoutFacts
<1>3. n + 1 \in 1..MaxSlots /\ n + 1 \in Int
  BY <1>1, HeapAssumption
<1> DEFINE b1 == <<n + 1>> \o SubSeq(b, 2, Len(b))
<1>4. /\ b1 \in Seq(Int) /\ Len(b1) = Room(b) /\ b1[1] = n + 1
      /\ \A k \in 2..Len(b1) : b1[k] = b[k]
  BY <1>2, <1>3, Recounted DEF Room
<1>5. AppendBytes(b, row) = b1 \o NewSlot(EncodeRow(n + 1, row))
  BY <1>2 DEF AppendBytes
<1> HIDE DEF b1
<1> QED BY <1>1, <1>3, <1>4, <1>5, AddedGrown

\* Heap.update of a row that no longer fits: the slot is marked, the row appended.
LEMMA MoveOfLayout ==
    ASSUME NEW sl \in Seq(Slots), NEW b, NEW at, Layout(b, sl, at), NEW f \in 1..Len(sl),
           NEW id \in 1..MaxSlots, NEW row \in Row
    PROVE  Grown(b, [b EXCEPT ![1] = @ + 1, ![at[f] + 1] = 1] \o NewSlot(EncodeRow(id, row)),
                 Append([sl EXCEPT ![f].deleted = TRUE], Slot(id, row)))
<1> DEFINE bm == [b EXCEPT ![at[f] + 1] = 1]
           b1 == [b EXCEPT ![1] = @ + 1, ![at[f] + 1] = 1]
           marked == [sl EXCEPT ![f].deleted = TRUE]
<1>1. Len(marked) = Len(sl) /\ sl # <<>> /\ Len(sl) \in Nat
  OBVIOUS
<1>2. /\ b \in Seq(Int) /\ Len(b) \in Nat /\ b[1] = Len(sl) /\ Len(b) >= 7
      /\ at[f] \in Nat /\ at[f] >= 2 /\ sl[f].room \in Nat
      /\ at[f] + sl[f].room + 6 <= Len(b) + 1
  BY <1>1, LayoutFacts
<1>3. at[f] + 1 \in 1..Len(b) /\ at[f] + 1 \in 2..Len(b)
  BY <1>2, Within
<1>4. Flagged(b, bm, at[f] + 1)
  BY ONLY <1>2, <1>3, FlagSet
<1>5. /\ b1 \in Seq(Int) /\ Len(b1) = Len(b) /\ b1[1] = Len(sl) + 1
      /\ bm \in Seq(Int) /\ Len(bm) = Len(b) /\ b # <<>> /\ bm # <<>>
      /\ \A k \in 2..Len(b1) : b1[k] = bm[k]
  <2>1. PICK u \in 2..Len(b) : u = at[f] + 1
    BY <1>3
  <2>2. PICK old \in Seq(Int) : old = b
    BY <1>2
  <2> DEFINE c1 == [old EXCEPT ![1] = @ + 1, ![u] = 1]
             cm == [old EXCEPT ![u] = 1]
  <2>3. b1 = c1 /\ bm = cm
    BY <2>1, <2>2
  <2>4. 1 \in 1..Len(old) /\ u \in 1..Len(old) /\ u # 1
        /\ \A k \in 2..Len(old) : k \in 1..Len(old)
    <3>1. u \in 2..Len(old) /\ Len(old) \in Nat
      BY <2>2
    <3> QED BY ONLY <3>1
  <2>5. /\ c1 \in Seq(Int) /\ Len(c1) = Len(old) /\ c1[1] = old[1] + 1
        /\ cm \in Seq(Int) /\ Len(cm) = Len(old) /\ old # <<>> /\ cm # <<>>
        /\ \A k \in 2..Len(old) : c1[k] = cm[k]
    BY ONLY <2>4
  <2> HIDE DEF c1, cm, b1, bm
  <2> QED BY <1>2, <2>2, <2>3, <2>5
<1> HIDE DEF bm, b1
<1>6. Layout(bm, marked, at) /\ marked \in Seq(Slots)
  BY <1>4, MarkOfLayout
<1> HIDE DEF marked
<1>7. Room(b) = Len(b) /\ Room(bm) = Len(b)
  BY <1>5 DEF Room
<1>8. Grown(bm, b1 \o NewSlot(EncodeRow(id, row)), Append(marked, Slot(id, row)))
  BY <1>1, <1>5, <1>6, <1>7, AddedGrown
<1>9. Grown(b, b1 \o NewSlot(EncodeRow(id, row)), Append(marked, Slot(id, row)))
  BY <1>7, <1>8 DEF Grown
<1> QED BY <1>9 DEF b1, marked

\* The units u lie within b from x on, and b2 is b with them there.
Fits(b, x, u) ==
    b \in Seq(Int) /\ u \in Seq(Int) /\ x \in Nat /\ x >= 2 /\ x + Len(u) <= Len(b) + 1

Overwritten(b, b2, x, u) ==
    /\ b2 \in Seq(Int) /\ Len(b2) = Len(b)
    /\ \A k \in 1..Len(b) : k < x \/ k >= x + Len(u) => b2[k] = b[k]
    /\ \A j \in 1..Len(u) : b2[x + j - 1] = u[j]

\* What Written does.
LEMMA WrittenUnits ==
    ASSUME NEW b, NEW x, NEW u, Fits(b, x, u)
    PROVE  Overwritten(b, Written(b, x, u), x, u)
<1> DEFINE b2 == Written(b, x, u)
<1>0. b \in Seq(Int) /\ u \in Seq(Int) /\ x \in Nat /\ x >= 2 /\ x + Len(u) <= Len(b) + 1
  BY DEF Fits
<1>1. PICK l \in Nat : l = Len(b)
  BY <1>0
<1>2. PICK h \in Nat : h = Len(u)
  BY <1>0
<1>3. b2 = [i \in 1..l |-> IF i \in x..(x + h - 1) THEN u[i - x + 1] ELSE b[i]]
  <2>1. DOMAIN b = 1..l
    BY <1>0, <1>1
  <2> QED BY <1>2, <2>1 DEF Written
<1> HIDE DEF b2
<1>4. \A i \in 1..l : b2[i] = IF i \in x..(x + h - 1) THEN u[i - x + 1] ELSE b[i]
  BY <1>3
<1>5. \A i \in x..(x + h - 1) : i - x + 1 \in 1..h
  BY ONLY <1>0, h \in Nat
<1>6. \A i \in 1..l : b2[i] \in Int
  BY <1>0, <1>1, <1>2, <1>4, <1>5
<1>7. b2 \in Seq(Int) /\ Len(b2) = l
  <2>1. b2 = [i \in 1..l |-> b2[i]]
    BY <1>3
  <2>2. b2 \in [1..l -> Int]
    BY <1>6, <2>1
  <2> QED BY ONLY <2>2, l \in Nat
<1>8. \A k \in 1..l : k < x \/ k >= x + h => ~(k \in x..(x + h - 1))
  BY ONLY <1>0, h \in Nat
<1>9. \A j \in 1..h : /\ x + j - 1 \in 1..l /\ x + j - 1 \in x..(x + h - 1)
                       /\ (x + j - 1) - x + 1 = j
  <2>1. x + h <= l + 1 /\ x >= 2
    BY <1>0, <1>1, <1>2
  <2> QED BY ONLY <1>0, <2>1, h \in Nat, l \in Nat
<1>10. \A j \in 1..h : b2[x + j - 1] = u[j]
  BY <1>4, <1>9
<1>11. Overwritten(b, b2, x, u)
  BY <1>1, <1>2, <1>4, <1>7, <1>8, <1>10 DEF Overwritten
<1> QED BY <1>11 DEF b2

\* The units of a row in a slot that keeps its length.
LEMMA PaddedUnits ==
    ASSUME NEW r \in Nat, NEW data \in Seq(Int), NEW zeros \in Seq(Int),
           Len(data) + Len(zeros) = r + 4,
           NEW u, u = <<r + 5, 0>> \o data \o zeros
    PROVE  /\ u \in Seq(Int) /\ Len(u) = r + 6 /\ u[1] = r + 5 /\ u[2] = 0
           /\ \A k \in 1..Len(data) : u[2 + k] = data[k]
<1>1. PICK d \in Nat : d = Len(data)
  OBVIOUS
<1>2. PICK z \in Nat : z = Len(zeros)
  OBVIOUS
<1> DEFINE v == <<r + 5, 0>> \o data
<1>3. /\ v \in Seq(Int) /\ Len(v) = d + 2
      /\ v[1] = r + 5 /\ v[2] = 0 /\ \A k \in 1..d : v[2 + k] = data[k]
  BY <1>1, Prefixed
<1>4. u = v \o zeros
  OBVIOUS
<1> HIDE DEF v
<1>5. u \in Seq(Int) /\ Len(u) = Len(v) + Len(zeros) /\ \A k \in 1..Len(v) : u[k] = v[k]
  <2>1. v \in Seq(Int) /\ zeros \in Seq(Int)
    BY <1>3
  <2> QED BY ONLY <1>4, <2>1, Joined
<1>6. d + z = r + 4
  BY <1>1, <1>2
<1>7. /\ 1 \in 1..(d + 2) /\ 2 \in 1..(d + 2) /\ d + 2 + z = r + 6
      /\ \A k \in 1..d : 2 + k \in 1..(d + 2)
  BY ONLY <1>6, d \in Nat, z \in Nat, r \in Nat
<1> QED BY <1>1, <1>2, <1>3, <1>5, <1>7

\* The slot s with another row.
Updated(s, row, new) ==
    new \in Slots /\ new.id = s.id /\ new.room = s.room /\ new.deleted = FALSE /\ new.row = row

\* Writing a row in place.
LEMMA RowWritten ==
    ASSUME NEW b \in Seq(Int), NEW x \in Nat, x >= 2, NEW s \in Slots,
           x + s.room + 6 <= Len(b) + 1, b[x] = s.room + 5,
           NEW row \in Row, EncodedLength(row) <= s.room, NEW new, Updated(s, row, new),
           NEW b2, b2 = InPlace(b, x, EncodeRow(s.id, row))
    PROVE  Outside(b, b2, x, End(x, s)) /\ SlotCells(b2, x, new)
<1>1. s.room \in Nat /\ s.id \in Nat
  BY SlotShape
<1>2. PICK r \in Nat : r = s.room
  BY <1>1
<1>3. PICK data \in Seq(Int) : /\ data = EncodeRow(s.id, row)
                               /\ Len(data) = EncodedLength(row) + 4
  BY <1>1, Encoded
<1>4. EncodedLength(row) \in Nat /\ Len(data) <= r + 4
  <2>1. EncodedLength(row) \in Nat
    BY RowFacts
  <2>2. EncodedLength(row) <= r
    BY <1>2
  <2> QED BY ONLY <1>3, <2>1, <2>2, r \in Nat
<1>5. b[x] = r + 5
  BY <1>2
<1> DEFINE zeros == [i \in 1..(b[x] - 1 - Len(data)) |-> 0]
           u == <<r + 5, 0>> \o data \o zeros
<1>6. b2 = Written(b, x, u)
  BY <1>3, <1>5 DEF InPlace
<1>7. /\ u \in Seq(Int) /\ Len(u) = r + 6 /\ u[1] = r + 5 /\ u[2] = 0
      /\ \A k \in 1..Len(data) : u[2 + k] = data[k]
  <2>1. PICK z \in Nat : z = b[x] - 1 - Len(data) /\ Len(data) + z = r + 4
    <3>1. Len(data) \in Nat
      OBVIOUS
    <3>2. r + 4 - Len(data) \in Nat /\ (r + 5) - 1 - Len(data) = r + 4 - Len(data)
          /\ Len(data) + (r + 4 - Len(data)) = r + 4
      BY ONLY <1>4, <3>1, r \in Nat
    <3> QED BY <1>5, <3>2
  <2>2. zeros \in Seq(Int) /\ Len(zeros) = z
    BY <2>1
  <2>3. data \in Seq(Int) /\ Len(data) + Len(zeros) = r + 4
    BY <2>1, <2>2
  <2> HIDE DEF zeros
  <2> QED BY <2>2, <2>3, PaddedUnits
<1> HIDE DEF u, zeros
<1>8. /\ b2 \in Seq(Int) /\ Len(b2) = Len(b)
      /\ \A k \in 1..Len(b) : k < x \/ k >= x + r + 6 => b2[k] = b[k]
      /\ \A j \in 1..(r + 6) : b2[x + j - 1] = u[j]
  <2>1. u \in Seq(Int) /\ Len(u) = r + 6
    BY <1>7
  <2>2. x + r + 6 <= Len(b) + 1 /\ b \in Seq(Int) /\ x \in Nat /\ x >= 2
    BY <1>2
  <2>3. x + Len(u) = x + r + 6 /\ x + Len(u) <= Len(b) + 1
    BY ONLY <2>1, <2>2, r \in Nat
  <2>4. Fits(b, x, u)
    BY ONLY <2>1, <2>2, <2>3 DEF Fits
  <2>5. Overwritten(b, b2, x, u)
    BY ONLY <1>6, <2>4, WrittenUnits
  <2> QED BY ONLY <2>1, <2>3, <2>5 DEF Overwritten
<1>9. Outside(b, b2, x, End(x, s))
  BY <1>2, <1>8 DEF Outside, End
<1>10. b2[x] = r + 5 /\ b2[x + 1] = 0
  <2>1. 1 \in 1..(r + 6) /\ 2 \in 1..(r + 6) /\ x + 1 - 1 = x /\ x + 2 - 1 = x + 1
    BY ONLY x \in Nat, r \in Nat
  <2> QED BY <1>7, <1>8, <2>1
<1>11. \A k \in 1..Len(data) : b2[x + 1 + k] = data[k]
  <2>1. \A k \in 1..Len(data) : 2 + k \in 1..(r + 6) /\ x + (2 + k) - 1 = x + 1 + k
    BY ONLY <1>4, x \in Nat, r \in Nat, Len(data) \in Nat
  <2> QED BY <1>7, <1>8, <2>1
<1>12. SlotCells(b2, x, new)
  BY <1>2, <1>3, <1>10, <1>11 DEF SlotCells, Updated
<1> QED BY <1>9, <1>12

\* Heap.update of a row that fits its slot, on the bytes and on the slots.
LEMMA InPlaceOfLayout ==
    ASSUME NEW sl \in Seq(Slots), NEW b, NEW at, Layout(b, sl, at), NEW f \in 1..Len(sl),
           NEW row \in Row, EncodedLength(row) <= sl[f].room,
           NEW new, Updated(sl[f], row, new),
           NEW b2, b2 = InPlace(b, at[f], EncodeRow(sl[f].id, row))
    PROVE  Layout(b2, [sl EXCEPT ![f] = new], at) /\ Len(b2) = Len(b)
<1>1. Updated(sl[f], row, new)
  OBVIOUS
<1>2. /\ b \in Seq(Int) /\ sl[f] \in Slots /\ at[f] \in Nat /\ at[f] >= 2
      /\ at[f] + sl[f].room + 6 <= Len(b) + 1 /\ b[at[f]] = sl[f].room + 5
  BY LayoutFacts
<1>3. Outside(b, b2, at[f], End(at[f], sl[f])) /\ SlotCells(b2, at[f], new)
  BY <1>1, <1>2, RowWritten
<1>4. new \in Slots /\ new.room = sl[f].room
  BY <1>1 DEF Updated
<1>5. Layout(b2, [sl EXCEPT ![f] = new], at)
  BY <1>3, <1>4, SlotRewritten
<1>6. Len(b2) = Len(b)
  BY <1>3 DEF Outside
<1> QED BY <1>5, <1>6

-----------------------------------------------------------------------------
(* The page the body is stored in                                          *)

\* The page holds all of the slots.
Whole(page, sl) == Len(page) <= PageUnits /\ \E at : Layout(page, sl, at)

\* The page holds a body cut within its last slot.
CutFrom(b, at, page, sl) ==
    /\ Layout(b, sl, at) /\ Len(b) > PageUnits /\ page = SubSeq(b, 1, PageUnits)
    /\ sl # <<>> /\ at[Len(sl)] <= PageUnits + 1

Torn(page, sl) == \E b, at : CutFrom(b, at, page, sl)

\* The first units of a body.
LEMMA Prefix ==
    ASSUME NEW b \in Seq(Int), NEW p \in Nat, p <= Len(b), NEW page, page = SubSeq(b, 1, p)
    PROVE  page \in Seq(Int) /\ Len(page) = p /\ \A k \in 1..p : page[k] = b[k]
OBVIOUS

\* A body that is no longer than the page is stored as it is.
LEMMA PrefixWhole ==
    ASSUME NEW b \in Seq(Int)
    PROVE  SubSeq(b, 1, Len(b)) = b
OBVIOUS

\* Where the walk over the lengths of a cut page arrives: at each slot, and all but
\* the last are whole.
LEMMA TornWalk ==
    ASSUME NEW sl \in Seq(Slots), NEW b, NEW at, NEW page, CutFrom(b, at, page, sl)
    PROVE  /\ SlotAt(page) = [j \in 1..Len(sl) |-> at[j]]
           /\ page \in Seq(Int)
           /\ \A j \in 1..(Len(sl) - 1) :
                 /\ sl[j] \in Slots /\ at[j] \in Nat /\ at[j] >= 2
                 /\ SlotCells(page, at[j], sl[j]) /\ End(at[j], sl[j]) <= Len(page) + 1
<1>0. /\ Layout(b, sl, at) /\ Len(b) > PageUnits /\ page = SubSeq(b, 1, PageUnits)
      /\ sl # <<>> /\ at[Len(sl)] <= PageUnits + 1
  BY DEF CutFrom
<1>1. PICK n \in Nat : n = Len(sl) /\ n >= 1
  BY <1>0, NoSlots
<1>2. PICK p \in Nat : p = PageUnits /\ p >= 1
  BY PageAssumption
<1>3. /\ b \in Seq(Int) /\ Len(b) \in Nat /\ b[1] = n
      /\ \A j \in 1..n : /\ sl[j] \in Slots /\ sl[j].room \in Nat /\ at[j] \in Nat /\ at[j] >= 2
                         /\ SlotCells(b, at[j], sl[j])
  BY <1>0, <1>1, LayoutFacts
<1>4. page \in Seq(Int) /\ Len(page) = p /\ \A k \in 1..p : page[k] = b[k]
  <2>1. p <= Len(b) /\ page = SubSeq(b, 1, p)
    BY <1>0, <1>2, <1>3
  <2> QED BY ONLY <1>3, <2>1, p \in Nat, Prefix
<1>5. Count(page) = n
  <2>1. page # <<>> /\ 1 \in 1..p
    BY <1>2, <1>4
  <2> QED BY <1>3, <1>4, <2>1 DEF Count
<1>6. at[1] = 2 /\ \A j \in 1..(n - 1) : at[j + 1] = End(at[j], sl[j])
  BY <1>0, <1>1 DEF Layout
<1>7. ASSUME NEW j \in 1..(n - 1)
      PROVE  /\ j \in 1..n /\ at[j] + sl[j].room + 6 <= p + 1
             /\ SlotCells(page, at[j], sl[j])
  <2>1. j \in 1..n /\ n \in 1..n /\ j < n
    BY <1>1
  <2>2. End(at[j], sl[j]) <= at[n] /\ at[n] <= p + 1
    BY <1>0, <1>1, <1>2, <2>1 DEF Layout
  <2>3. at[j] + sl[j].room + 6 <= p + 1
    <3>1. at[j] \in Nat /\ sl[j].room \in Nat /\ at[n] \in Nat
      BY <1>3, <2>1
    <3> QED BY ONLY <2>2, <3>1, p \in Nat DEF End
  <2>4. \A k \in at[j]..(at[j] + sl[j].room + 5) : k \in 1..p
    BY <1>3, <2>1, <2>3, Within
  <2>5. \A k \in at[j]..(at[j] + sl[j].room + 5) : page[k] = b[k]
    BY <1>4, <2>4
  <2>6. SlotCells(page, at[j], sl[j])
    BY <1>3, <2>1, <2>5, CellsKept
  <2> QED BY <2>1, <2>3, <2>6
<1>8. ASSUME NEW j \in 1..(n - 1) PROVE at[j + 1] = at[j] + 1 + page[at[j]]
  <2>1. at[j + 1] = End(at[j], sl[j]) /\ page[at[j]] = sl[j].room + 5
    BY <1>6, <1>7 DEF SlotCells
  <2>2. at[j] \in Nat /\ sl[j].room \in Nat
    BY <1>3, <1>7
  <2>3. \A x, r \in Nat : x + r + 6 = x + 1 + (r + 5)
    OBVIOUS
  <2> QED BY <2>1, <2>2, <2>3 DEF End
<1>9. SlotAt(page) = [j \in 1..n |-> at[j]]
  <2>1. n # 0 => at[1] = 2
    BY <1>6
  <2> QED BY ONLY <1>5, <1>8, <2>1, n \in Nat, Walk
<1>10. ASSUME NEW j \in 1..(n - 1)
       PROVE  /\ sl[j] \in Slots /\ at[j] \in Nat /\ at[j] >= 2
              /\ SlotCells(page, at[j], sl[j]) /\ End(at[j], sl[j]) <= Len(page) + 1
  BY <1>3, <1>4, <1>7 DEF End
<1> QED BY <1>1, <1>4, <1>9, <1>10

\* A body cut within its last slot: the other slots are read as they were.
LEMMA TornRead ==
    ASSUME NEW sl \in Seq(Slots), NEW b, NEW at, NEW page, CutFrom(b, at, page, sl),
           NEW i \in 1..Len(sl), i < Len(sl)
    PROVE  /\ DOMAIN SlotAt(page) = 1..Len(sl) /\ SlotAt(page)[i] = at[i]
           /\ Alive(page, at[i]) <=> ~sl[i].deleted
           /\ RowData(page, at[i])[1] = sl[i].id
           /\ DecodeRow(RowData(page, at[i])) = Decoded(sl[i].row)
<1>1. PICK n \in Nat : n = Len(sl)
  OBVIOUS
<1>2. i \in 1..(n - 1) /\ i \in 1..n
  BY <1>1
<1>3. SlotAt(page) = [j \in 1..n |-> at[j]]
  BY <1>1, TornWalk
<1>4. SlotAt(page)[i] = at[i] /\ DOMAIN SlotAt(page) = 1..Len(sl)
  BY <1>1, <1>2, <1>3
<1>5. /\ page \in Seq(Int) /\ sl[i] \in Slots /\ at[i] \in Nat /\ at[i] >= 2
      /\ SlotCells(page, at[i], sl[i]) /\ End(at[i], sl[i]) <= Len(page) + 1
  BY <1>1, <1>2, TornWalk
<1>6. /\ RowData(page, at[i])[1] = sl[i].id
      /\ DecodeRow(RowData(page, at[i])) = Decoded(sl[i].row) /\ at[i] < Len(page)
  BY ONLY <1>5, SlotRead
<1>7. Alive(page, at[i]) <=> ~sl[i].deleted
  <2>1. page[at[i] + 1] = IF sl[i].deleted THEN 1 ELSE 0
    BY <1>5 DEF SlotCells
  <2>2. sl[i].deleted \in BOOLEAN
    BY <1>5, SlotShape
  <2> QED BY ONLY <1>6, <2>1, <2>2 DEF Alive
<1> QED BY <1>4, <1>6, <1>7

\* Storing a body that is a layout of the slots, grown by at most one of them.
Stored(b, page) == page = SubSeq(b, 1, IF Len(b) > PageUnits THEN PageUnits ELSE Len(b))

\* A layout that fits the page is stored whole.
LEMMA StoredFits ==
    ASSUME NEW sl, NEW b, NEW at, Layout(b, sl, at), Len(b) <= PageUnits,
           NEW page, Stored(b, page)
    PROVE  Whole(page, sl)
<1>1. b \in Seq(Int) /\ Len(b) \in Nat /\ PageUnits \in Nat
  BY PageAssumption DEF Layout
<1>2. page = b
  BY <1>1, PrefixWhole DEF Stored
<1> QED BY <1>2 DEF Whole

\* A layout that grew by one slot is stored whole, or cut within that slot.
LEMMA StoredGrown ==
    ASSUME NEW sl \in Seq(Slots), NEW old \in Seq(Int), Len(old) <= PageUnits,
           NEW b, Grown(old, b, sl), sl # <<>>, NEW page, Stored(b, page)
    PROVE  /\ Len(b) > PageUnits => Torn(page, sl)
           /\ ~(Len(b) > PageUnits) => Whole(page, sl)
<1>1. PICK at : Layout(b, sl, at) /\ at[Len(sl)] = Room(old) + 1
  BY DEF Grown
<1>2. b \in Seq(Int) /\ Len(b) \in Nat /\ PageUnits \in Nat /\ PageUnits >= 1
  BY <1>1, PageAssumption DEF Layout
<1>3. CASE ~(Len(b) > PageUnits)
  <2>1. Len(b) <= PageUnits
    BY <1>2, <1>3
  <2> QED BY <1>1, <1>3, <2>1, StoredFits
<1>4. CASE Len(b) > PageUnits
  <2>1. Room(old) + 1 <= PageUnits + 1
    BY <1>2 DEF Room
  <2>2. page = SubSeq(b, 1, PageUnits)
    BY <1>4 DEF Stored
  <2> QED BY <1>1, <1>4, <2>1, <2>2 DEF Torn, CutFrom
<1> QED BY <1>3, <1>4

-----------------------------------------------------------------------------
(* The invariant                                                           *)

\* The running statement has at most one row left per slot.
LeftDistinct == \A s, o \in stmt.left : s.at = o.at => s = o

BytesInv ==
    /\ Inv /\ LeftDistinct
    /\ ~cut => Whole(body, slots)
    /\ cut => Torn(body, slots)

\* What TableHeap's invariant says of the slots and the statement.
LEMMA InvFacts ==
    ASSUME Inv
    PROVE  /\ slots \in Seq(Slots) /\ DOMAIN slots = 1..Len(slots)
           /\ stmt \in StmtType /\ stmt.left \subseteq Steps
           /\ stmt.rows # <<>> => Head(stmt.rows) \in Row
<1>1. slots \in Seq(Slots) /\ stmt \in StmtType
  BY DEF Inv, TypeOK, Slots, StmtType
<1>2. stmt.left \subseteq Steps /\ stmt.rows \in Seq(Row)
  BY <1>1 DEF StmtType
<1>3. stmt.rows # <<>> => Head(stmt.rows) \in Row
  BY <1>2
<1> QED BY <1>1, <1>2, <1>3

\* Each step on the bytes is a step of TableHeap.
LEMMA BytesNextNext ==
    ASSUME BytesNext
    PROVE  Next
BY DEF BytesNext, InsertBytes, UpdateInBytes, DeleteInBytes, NoWrite, Next

\* What a scan returns has one row per slot.
LEMMA ScanDistinct == \A s, o \in Scan : s.at = o.at => s = o
BY DEF Scan

\* Each step keeps LeftDistinct.
LEMMA LeftDistinctKept ==
    ASSUME Inv, LeftDistinct, Next
    PROVE  LeftDistinct'
<1>1. stmt \in StmtType
  BY InvFacts
<1>2. ASSUME stmt' = Idle PROVE LeftDistinct'
  BY <1>2 DEF LeftDistinct, Idle, Statement
<1>3. ASSUME NEW kind, NEW rows, NEW set, stmt' = Statement(kind, rows, {}, set)
      PROVE  LeftDistinct'
  BY <1>3 DEF LeftDistinct, Statement
<1>4. ASSUME NEW kind, NEW rows, NEW set, NEW w, stmt' = Statement(kind, rows, Matching(w), set)
      PROVE  LeftDistinct'
  BY <1>4, ScanDistinct DEF LeftDistinct, Statement, Matching
<1>5. ASSUME InsertRow PROVE LeftDistinct'
  BY <1>1, <1>5 DEF InsertRow, LeftDistinct, StmtType
<1>6. ASSUME UpdateRow \/ DeleteRow PROVE LeftDistinct'
  <2>1. PICK s \in stmt.left : stmt' = [stmt EXCEPT !.left = @ \ {s}]
    BY <1>6 DEF UpdateRow, DeleteRow
  <2>2. stmt'.left = stmt.left \ {s}
    BY <1>1, <2>1 DEF StmtType
  <2> QED BY <2>2 DEF LeftDistinct
<1>7. ASSUME RejectRow \/ InvalidRow \/ Finish \/ Reopen PROVE LeftDistinct'
  BY <1>2, <1>7 DEF RejectRow, InvalidRow, Finish, Reopen
<1>8. ASSUME NEW rows, StartInsert(rows) PROVE LeftDistinct'
  BY <1>3, <1>8 DEF StartInsert, Start
<1>9. ASSUME NEW w, StartDelete(w) PROVE LeftDistinct'
  BY <1>4, <1>9 DEF StartDelete, Start
<1>10. ASSUME NEW w, NEW a, StartUpdate(w, a) PROVE LeftDistinct'
  BY <1>4, <1>10 DEF StartUpdate, Start
<1> QED BY <1>5, <1>6, <1>7, <1>8, <1>9, <1>10 DEF Next

-----------------------------------------------------------------------------
(* The steps                                                               *)

\* What Store makes of a grown body.
LEMMA StoreGrown ==
    ASSUME ~cut, Whole(body, slots), slots' \in Seq(Slots), slots' # <<>>,
           NEW b, Grown(body, b, slots'), Store(b)
    PROVE  (~cut' => Whole(body', slots')) /\ (cut' => Torn(body', slots'))
<1>1. body \in Seq(Int) /\ Len(body) <= PageUnits
  BY DEF Whole, Layout
<1>2. Stored(b, body')
  BY DEF Store, Stored
<1>3. cut' <=> Len(b) > PageUnits
  BY DEF Store
<1>4. PICK sl \in Seq(Slots) : sl = slots'
  OBVIOUS
<1>5. PICK page : page = body'
  OBVIOUS
<1>6. /\ Len(b) > PageUnits => Torn(page, sl)
      /\ ~(Len(b) > PageUnits) => Whole(page, sl)
  BY <1>1, <1>2, <1>4, <1>5, StoredGrown
<1> QED BY <1>3, <1>4, <1>5, <1>6

\* What Store makes of a body of the same length.
LEMMA StoreSame ==
    ASSUME ~cut, Whole(body, slots), NEW b, NEW at, Layout(b, slots', at), Len(b) = Len(body),
           Store(b)
    PROVE  (~cut' => Whole(body', slots')) /\ (cut' => Torn(body', slots'))
<1>1. body \in Seq(Int) /\ Len(body) <= PageUnits /\ Len(body) \in Nat /\ PageUnits \in Nat
  BY PageAssumption DEF Whole, Layout
<1>2. Stored(b, body')
  BY DEF Store, Stored
<1>3. Len(b) <= PageUnits /\ ~(Len(b) > PageUnits)
  BY <1>1
<1>4. ~cut'
  BY <1>3 DEF Store
<1>5. Whole(body', slots')
  BY <1>2, <1>3, StoredFits
<1> QED BY <1>4, <1>5

\* One pass of exec_insert's loop keeps the slots in the page, or cuts the new one.
LEMMA InsertBytesKept ==
    ASSUME Inv, Inv', ~cut, Whole(body, slots), InsertBytes
    PROVE  (~cut' => Whole(body', slots')) /\ (cut' => Torn(body', slots'))
<1> DEFINE row == Head(stmt.rows)
<1>1. row \in Row /\ Len(slots) < MaxSlots /\ slots \in Seq(Slots)
  BY InvFacts DEF InsertBytes, InsertRow
<1>2. slots' = Append(slots, Slot(Len(slots) + 1, row)) /\ Store(AppendBytes(body, row))
  BY DEF InsertBytes, InsertRow, HeapAppend
<1>3. slots' \in Seq(Slots)
  BY DEF Inv, TypeOK, Slots
<1>4. PICK at : Layout(body, slots, at)
  BY DEF Whole
<1> HIDE DEF row
<1>5. Grown(body, AppendBytes(body, row), slots')
  BY <1>1, <1>2, <1>4, AppendOfLayout
<1>6. slots' # <<>>
  BY <1>1, <1>2
<1> QED BY <1>2, <1>3, <1>5, <1>6, StoreGrown

\* So does one pass of exec_delete's loop, which never cuts.
LEMMA DeleteInBytesKept ==
    ASSUME Inv, Inv', LeftDistinct, ~cut, Whole(body, slots), DeleteInBytes
    PROVE  (~cut' => Whole(body', slots')) /\ (cut' => Torn(body', slots'))
<1>1. PICK s \in stmt.left : IsNext(s) /\ HeapDelete(s.id)
  BY DEF DeleteInBytes, DeleteRow
<1>2. PICK o \in stmt.left : IsNext(o) /\ Store(DeleteBytes(body, o.id))
  BY DEF DeleteInBytes
<1>3. s = o
  BY <1>1, <1>2, InvFacts, HeapAssumption DEF IsNext, LeftDistinct, Steps
<1>4. PICK at : Layout(body, slots, at)
  BY DEF Whole
<1>5. slots \in Seq(Slots) /\ \E i \in DOMAIN slots : slots[i].id = s.id
  BY InvFacts DEF Inv, Findable
<1>6. PICK f \in 1..Len(slots) : f = FirstSlot(s.id) /\ Found(body, s.id) = at[f]
  BY <1>4, <1>5, FoundOfLayout
<1>7. slots' = [slots EXCEPT ![f].deleted = TRUE]
  BY <1>1, <1>6 DEF HeapDelete
<1> DEFINE b2 == [body EXCEPT ![at[f] + 1] = 1]
<1>8. Store(b2)
  BY <1>2, <1>3, <1>6 DEF DeleteBytes
<1>9. Flagged(body, b2, at[f] + 1)
  <2>1. /\ body \in Seq(Int) /\ Len(body) \in Nat /\ slots[f].room \in Nat
        /\ at[f] \in Nat /\ at[f] >= 2 /\ at[f] + slots[f].room + 6 <= Len(body) + 1
    BY <1>4, <1>5, LayoutFacts
  <2>2. at[f] + 1 \in 1..Len(body)
    BY <2>1, Within
  <2> QED BY ONLY <2>1, <2>2, FlagSet
<1> HIDE DEF b2
<1>10. Layout(b2, slots', at) /\ Len(b2) = Len(body)
  <2>1. Layout(b2, [slots EXCEPT ![f].deleted = TRUE], at) /\ Len(b2) = Len(body)
    BY <1>4, <1>5, <1>9, MarkOfLayout
  <2> QED BY <1>7, <2>1
<1> QED BY <1>8, <1>10, StoreSame

\* So does one pass of exec_update's loop, in place or with a moved row.
LEMMA UpdateInBytesKept ==
    ASSUME Inv, Inv', LeftDistinct, ~cut, Whole(body, slots), UpdateInBytes
    PROVE  (~cut' => Whole(body', slots')) /\ (cut' => Torn(body', slots'))
<1>1. /\ stmt.kind = "update"
      /\ \E s \in stmt.left : IsNext(s) /\ HeapUpdate(s.id, Assign(s.row, stmt.set))
  BY DEF UpdateInBytes, UpdateRow
<1>2. PICK s \in stmt.left : IsNext(s) /\ HeapUpdate(s.id, Assign(s.row, stmt.set))
  BY <1>1
<1>3. PICK o \in stmt.left : IsNext(o) /\ Store(UpdateBytes(body, o.id, Assign(o.row, stmt.set)))
  BY DEF UpdateInBytes
<1>4. s = o
  BY <1>2, <1>3, InvFacts, HeapAssumption DEF IsNext, LeftDistinct, Steps
<1>5. s.row \in Row /\ s.id \in 1..MaxSlots /\ stmt.set \in Assignments
  BY <1>1, InvFacts DEF Steps, Inv, TypeOK
<1>6. PICK row \in Row : row = Assign(s.row, stmt.set)
  BY <1>5, AssignFacts
<1>7. PICK at : Layout(body, slots, at)
  BY DEF Whole
<1>8. slots \in Seq(Slots) /\ \E i \in DOMAIN slots : slots[i].id = s.id
  BY InvFacts DEF Inv, Findable
<1>9. PICK f \in 1..Len(slots) : /\ f = FirstSlot(s.id) /\ slots[f].id = s.id
                                 /\ Found(body, s.id) = at[f]
  BY <1>7, <1>8, FoundOfLayout
<1>10. slots[f].room \in Nat /\ body[at[f]] = slots[f].room + 5
  BY <1>7, <1>8, LayoutFacts
<1>11. PICK data : data = EncodeRow(s.id, row)
  OBVIOUS
<1>12. Len(data) <= body[at[f]] - 1 <=> EncodedLength(row) <= slots[f].room
  <2>1. s.id \in Nat /\ EncodedLength(row) \in Nat
    BY <1>5, HeapAssumption, RowFacts
  <2>2. Len(data) = EncodedLength(row) + 4
    BY ONLY <1>11, <2>1, row \in Row, EncodedUnits
  <2>3. \A r, d \in Nat : d + 4 <= (r + 5) - 1 <=> d <= r
    OBVIOUS
  <2> QED BY <1>10, <2>1, <2>2, <2>3
<1>13. slots' \in Seq(Slots)
  BY DEF Inv, TypeOK, Slots
<1>14. HeapUpdate(s.id, row) /\ Store(UpdateBytes(body, s.id, row))
  BY <1>2, <1>3, <1>4, <1>6
<1>15. CASE EncodedLength(row) <= slots[f].room
  <2>1. slots' = [slots EXCEPT ![f].deleted = FALSE, ![f].row = row]
    BY <1>9, <1>14, <1>15 DEF HeapUpdate
  <2>2. Store(InPlace(body, at[f], data))
    BY <1>9, <1>11, <1>12, <1>14, <1>15 DEF UpdateBytes
  <2>3. PICK b2 : b2 = InPlace(body, at[f], EncodeRow(slots[f].id, row)) /\ Store(b2)
    BY <1>9, <1>11, <2>2
  <2> DEFINE new == [slots[f] EXCEPT !.deleted = FALSE, !.row = row]
  <2>4. slots' = [slots EXCEPT ![f] = new]
    BY <1>8, <2>1
  <2>5. Updated(slots[f], row, new)
    <3>1. slots[f] \in Slots
      BY <1>8
    <3> QED BY <3>1 DEF Updated, Slots
  <2> HIDE DEF new
  <2>6. Layout(b2, [slots EXCEPT ![f] = new], at) /\ Len(b2) = Len(body)
    <3>1. row \in Row /\ f \in 1..Len(slots)
      OBVIOUS
    <3> QED BY ONLY <1>7, <1>8, <1>15, <2>3, <2>5, <3>1, InPlaceOfLayout
  <2>7. Layout(b2, slots', at)
    BY <2>4, <2>6
  <2> QED BY <2>3, <2>6, <2>7, StoreSame
<1>16. CASE ~(EncodedLength(row) <= slots[f].room)
  <2>1. slots' = Append([slots EXCEPT ![f].deleted = TRUE], Slot(s.id, row))
    BY <1>9, <1>14, <1>16 DEF HeapUpdate
  <2> DEFINE b2 == [body EXCEPT ![1] = @ + 1, ![at[f] + 1] = 1] \o NewSlot(EncodeRow(s.id, row))
  <2>2. Store(b2)
    BY <1>9, <1>11, <1>12, <1>14, <1>16 DEF UpdateBytes
  <2>3. Grown(body, b2, Append([slots EXCEPT ![f].deleted = TRUE], Slot(s.id, row)))
    BY <1>5, <1>7, <1>8, MoveOfLayout
  <2> HIDE DEF b2
  <2>4. slots' # <<>>
    <3>1. [slots EXCEPT ![f].deleted = TRUE] \in Seq(Slots) /\ Slot(s.id, row) \in Slots
      <4>1. PICK dead : /\ Dead(slots[f], dead)
                        /\ [slots EXCEPT ![f].deleted = TRUE] = [slots EXCEPT ![f] = dead]
        BY <1>8, SlotMarked
      <4>2. dead \in Slots
        BY <4>1 DEF Dead
      <4>3. [slots EXCEPT ![f] = dead] \in Seq(Slots)
        BY <1>8, <4>2
      <4>4. Slot(s.id, row) \in Slots
        BY <1>5, RowFacts DEF Slot, Slots
      <4> QED BY <4>1, <4>3, <4>4
    <3> QED BY <2>1, <3>1, Appended
  <2>5. Grown(body, b2, slots')
    BY <2>1, <2>3
  <2> QED BY <1>13, <2>2, <2>4, <2>5, StoreGrown
<1> QED BY <1>15, <1>16

\* The empty page holds no slots.
LEMMA BytesInitInv == BytesInit => BytesInv
<1> SUFFICES ASSUME BytesInit PROVE BytesInv
  OBVIOUS
<1>1. Inv
  BY InitInv DEF BytesInit
<1>2. LeftDistinct
  BY DEF BytesInit, Init, Idle, Statement, LeftDistinct
<1>3. slots = <<>> /\ body = <<>> /\ cut = FALSE
  BY DEF BytesInit, Init
<1>4. Layout(<<>>, <<>>, <<>>)
  BY DEF Layout
<1>5. Len(<<>>) <= PageUnits
  BY PageAssumption
<1>6. Whole(body, slots)
  BY <1>3, <1>4, <1>5 DEF Whole
<1> QED BY <1>1, <1>2, <1>3, <1>6 DEF BytesInv

\* The invariant is inductive.
LEMMA BytesNextInv ==
    ASSUME BytesInv, [BytesNext]_byteVars
    PROVE  BytesInv'
<1>1. CASE UNCHANGED byteVars
  <2>1. UNCHANGED vars /\ UNCHANGED <<body, cut>>
    BY <1>1 DEF byteVars
  <2>2. Inv'
    BY <2>1, NextInv DEF BytesInv
  <2>3. slots' = slots /\ stmt' = stmt /\ body' = body /\ cut' = cut
    BY <2>1 DEF vars
  <2>4. LeftDistinct'
    BY <2>3 DEF BytesInv, LeftDistinct
  <2>5. (~cut' => Whole(body', slots')) /\ (cut' => Torn(body', slots'))
    BY <2>3 DEF BytesInv
  <2> QED BY <2>2, <2>4, <2>5 DEF BytesInv, Whole, Torn
<1>2. CASE BytesNext
  <2>1. Inv /\ LeftDistinct /\ ~cut /\ Whole(body, slots)
    BY <1>2 DEF BytesInv, BytesNext
  <2>2. Inv' /\ LeftDistinct'
    BY <1>2, <2>1, BytesNextNext, NextInv, LeftDistinctKept
  <2>3. ASSUME NoWrite PROVE body' = body /\ cut' = cut /\ slots' = slots
    BY <2>3 DEF NoWrite, StartInsert, StartDelete, StartUpdate, Start, RejectRow, InvalidRow,
                Finish, Reopen
  <2>4. ASSUME NoWrite
        PROVE  (~cut' => Whole(body', slots')) /\ (cut' => Torn(body', slots'))
    BY <2>1, <2>3, <2>4
  <2>5. (~cut' => Whole(body', slots')) /\ (cut' => Torn(body', slots'))
    BY <1>2, <2>1, <2>2, <2>4, InsertBytesKept, UpdateInBytesKept, DeleteInBytesKept
       DEF BytesNext
  <2> QED BY <2>2, <2>5 DEF BytesInv, Whole, Torn
<1> QED BY <1>1, <1>2

\* BytesMatchSlots: as long as no body was cut, scan returns, and what it decodes
\* from the bytes is what the slots hold.
THEOREM BytesHoldSlots == BytesSpec => []BytesMatchSlots
<1>1. BytesInit => BytesInv
  BY BytesInitInv
<1>2. BytesInv /\ [BytesNext]_byteVars => BytesInv'
  BY BytesNextInv
<1>3. BytesInv => BytesMatchSlots
  <2> SUFFICES ASSUME BytesInv, ~cut PROVE ~ScanRaises(body) /\ ScanBytes(body) = Scan
    BY DEF BytesMatchSlots
  <2>1. slots \in Seq(Slots) /\ \E at : Layout(body, slots, at)
    BY InvFacts DEF BytesInv, Whole
  <2> QED BY <2>1, ScanOfLayout
<1> QED BY <1>1, <1>2, <1>3, PTL DEF BytesSpec

\* CutReadsNoneWrong: a scan of a body that was cut raises for the whole table, or
\* it returns all rows but the one being written as they were.
THEOREM OthersReadRight == BytesSpec => []CutReadsNoneWrong
<1>1. BytesInit => BytesInv
  BY BytesInitInv
<1>2. BytesInv /\ [BytesNext]_byteVars => BytesInv'
  BY BytesNextInv
<1>3. BytesInv => CutReadsNoneWrong
  <2> SUFFICES ASSUME BytesInv, cut PROVE Earlier(ScanBytes(body)) = Earlier(Scan)
    BY DEF CutReadsNoneWrong
  <2> DEFINE n == Len(slots)
             w == SlotAt(body)
             Read(i) == [at |-> i, id |-> RowData(body, w[i])[1],
                         row |-> DecodeRow(RowData(body, w[i]))]
             Held(i) == [at |-> i, id |-> slots[i].id, row |-> Decoded(slots[i].row)]
  <2>1. slots \in Seq(Slots) /\ DOMAIN slots = 1..n /\ n \in Nat
    BY InvFacts DEF BytesInv
  <2>2. PICK b, at : CutFrom(b, at, body, slots)
    BY DEF BytesInv, Torn
  <2>3. ASSUME NEW i \in 1..n, i < n
        PROVE  /\ DOMAIN w = 1..n
               /\ Alive(body, w[i]) <=> ~slots[i].deleted
               /\ Read(i) = Held(i)
    BY <2>1, <2>2, <2>3, TornRead
  <2>4. ScanBytes(body) = {Read(i) : i \in {j \in DOMAIN w : Alive(body, w[j])}}
    BY DEF ScanBytes
  <2>5. Scan = {Held(i) : i \in {j \in 1..n : ~slots[j].deleted}}
    BY <2>1 DEF Scan
  <2>6. \A i : Read(i).at = i /\ Held(i).at = i
    OBVIOUS
  <2>7. Earlier(ScanBytes(body)) = {Read(i) : i \in {j \in DOMAIN w : Alive(body, w[j]) /\ j < n}}
    <3> HIDE DEF Read, w
    <3> QED BY <2>4, <2>6 DEF Earlier
  <2>8. Earlier(Scan) = {Held(i) : i \in {j \in 1..n : ~slots[j].deleted /\ j < n}}
    <3> HIDE DEF Held
    <3> QED BY <2>5, <2>6 DEF Earlier
  <2>9. DOMAIN w = 1..n
    BY <2>1, <2>2, TornWalk
  <2> HIDE DEF Read, Held, w
  <2> QED BY <2>3, <2>7, <2>8, <2>9
<1> QED BY <1>1, <1>2, <1>3, PTL DEF BytesSpec
==============================================================================
