--------------------------- MODULE TxRecoveryProofs ---------------------------
(***************************************************************************)
(* Proofs about TxRecovery, for any pages, values, clients and bounds.     *)
(*                                                                         *)
(*   ScanEnds, ReplayPass   what the scan of a log and replay_wal compute, *)
(*                          though both are recursive: the function that   *)
(*                          satisfies the recursion is built up to the     *)
(*                          least place where it would fail                *)
(*   ControlRecords,        a log of TX_COMMIT and TX_ROLLBACK frames only *)
(*   ControlReplay          is readable and its replay changes nothing     *)
(*   RecordAppended         an append at the end of a log of whole frames  *)
(*                          adds one record to what the scan finds         *)
(*   ReplayReaches          replay gives every page the outcome of the     *)
(*                          last change the log has for it                 *)
(*   Inv, Recoverable       the inductive invariants: of a Database, and   *)
(*                          of the client that logs                        *)
(***************************************************************************)
EXTENDS TxRecovery, FiniteSetTheorems, NaturalsInduction, WellFoundedInduction, TLAPS

(* The scan of a log                                                       *)

\* A non-empty set of numbers has a least one.
LEMMA LeastNumber ==
    ASSUME NEW S \in SUBSET Nat, S # {}
    PROVE  \E m \in S : \A k \in S : m <= k
<1> DEFINE R == OpToRel(<, Nat)
<1>1. PICK m \in S : \A k \in S : ~(<<k, m>> \in R)
  BY NatLessThanWellFounded, WFMin
<1>2. \A k \in S : k < m => <<k, m>> \in R
  BY DEF OpToRel
<1> HIDE DEF R
<1>3. \A k \in S : ~(k < m) /\ k \in Nat /\ m \in Nat
  BY <1>1, <1>2
<1>4. \A k \in S : m <= k
  BY <1>3
<1> QED BY <1>4

\* One step of the scan loop at cell i, f[j] being what the loop reads from j on.
ScanBody(log0, f, i) ==
    IF i > Len(log0) THEN <<>>
    ELSE IF ~FrameAt(log0, i) THEN <<Corrupt>>
    ELSE <<log0[i].rec>> \o f[i + Width(log0[i].rec)]

Scans(log0, f) == f = [i \in 1..(Len(log0) + MutateCells) |-> ScanBody(log0, f, i)]

\* A frame fills one cell or two.
LEMMA Widths == \A rec : Width(rec) \in {1, 2} /\ MutateCells = 2
  BY DEF Width, MutateCells

\* The scan loop ends, whatever the log holds: a frame is never empty.
LEMMA ScanEnds ==
    ASSUME NEW log0, Len(log0) \in Nat
    PROVE  \E f : Scans(log0, f) /\ Records(log0) = f[1]
<1> DEFINE N == Len(log0) + 2
           From(f, i) == \A j \in i..N : f[j] = ScanBody(log0, f, j)
           B == {d \in 0..N : ~\E f : From(f, N + 1 - d)}
<1>1. N \in Nat /\ MutateCells = 2
  BY DEF MutateCells
<1>2. ASSUME NEW f, NEW g, NEW i \in 1..N, \A j \in 1..N : j > i => f[j] = g[j]
      PROVE  ScanBody(log0, f, i) = ScanBody(log0, g, i)
  <2>1. CASE i > Len(log0)
    BY <2>1 DEF ScanBody
  <2>2. CASE ~(i > Len(log0))
    <3>1. i + Width(log0[i].rec) \in 1..N /\ i + Width(log0[i].rec) > i
      BY <2>2, Widths
    <3> QED BY <1>2, <3>1 DEF ScanBody
  <2> QED BY <2>1, <2>2
<1>3. B = {}
  <2>1. SUFFICES ASSUME B # {} PROVE FALSE
    OBVIOUS
  <2>2. B \in SUBSET Nat
    BY <1>1
  <2>3. PICK d \in B : \A k \in B : d <= k
    <3> HIDE DEF B
    <3> QED BY <2>1, <2>2, LeastNumber
  <2>4. d \in 0..N /\ ~\E f : From(f, N + 1 - d)
    OBVIOUS
  <2> DEFINE i == N + 1 - d
  <2>5. d # 0
    <3>1. ASSUME d = 0 PROVE From(<<>>, N + 1 - d)
      BY <1>1, <3>1
    <3> QED BY <2>4, <3>1
  <2>6. d - 1 \in 0..N /\ ~(d <= d - 1) /\ N + 1 - (d - 1) = i + 1 /\ i \in 1..N
    BY <1>1, <2>4, <2>5
  <2>7. d - 1 \notin B
    <3> HIDE DEF B
    <3> QED BY <2>3, <2>6
  <2>8. PICK f : From(f, i + 1)
    BY <2>6, <2>7
  <2> HIDE DEF B
  <2> DEFINE g == [j \in 1..N |-> IF j = i THEN ScanBody(log0, f, i) ELSE f[j]]
  <2>9. ASSUME NEW j \in i..N PROVE g[j] = ScanBody(log0, g, j)
    <3>1. j \in 1..N
      BY <1>1, <2>6
    <3>2. \A k \in 1..N : k > j => f[k] = g[k]
      BY <1>1, <2>6
    <3> HIDE DEF g
    <3>3. ScanBody(log0, f, j) = ScanBody(log0, g, j)
      BY <1>2, <3>1, <3>2
    <3>4. CASE j = i
      BY <3>1, <3>3, <3>4 DEF g
    <3>5. CASE j # i
      <4>1. j \in (i + 1)..N
        BY <1>1, <2>6, <3>5
      <4>2. g[j] = f[j]
        BY <3>1, <3>5 DEF g
      <4> QED BY <2>8, <3>3, <4>1, <4>2
    <3> QED BY <3>4, <3>5
  <2>10. From(g, i)
    BY <2>9
  <2> QED BY <2>4, <2>10
<1>4. PICK f : From(f, 1)
  <2>1. N \in 0..N /\ N + 1 - N = 1
    BY <1>1
  <2> QED BY <1>3, <2>1
<1> DEFINE h == [i \in 1..N |-> f[i]]
<1>5. Scans(log0, h)
  <2>1. ASSUME NEW i \in 1..N PROVE h[i] = ScanBody(log0, h, i)
    <3>1. \A j \in 1..N : j > i => f[j] = h[j]
      OBVIOUS
    <3>2. ScanBody(log0, f, i) = ScanBody(log0, h, i)
      BY <1>2, <3>1
    <3> QED BY <1>4, <3>2
  <2> QED BY <1>1, <2>1 DEF Scans
<1> DEFINE scan == CHOOSE f1 : Scans(log0, f1)
<1>6. Scans(log0, scan)
  BY <1>5
<1>7. Records(log0) = scan[1]
  BY DEF Records, Scans, ScanBody
<1> QED BY <1>6, <1>7

-----------------------------------------------------------------------------
(* Replay                                                                  *)

Done(recs) == {recs[i].tx : i \in {j \in DOMAIN recs : recs[j].kind = "TX_COMMIT"}}

\* What replay_wal makes of the pages at one record.
Redo(recs, pg, rec) ==
    IF rec.kind # "MUTATE" THEN pg
    ELSE [pg EXCEPT ![rec.pg] = IF rec.tx \in Done(recs) THEN rec.after ELSE rec.before]

\* The largest number of a non-empty set of numbers up to n.
LEMMA MaxIn ==
    ASSUME NEW n \in Nat, NEW s \in SUBSET (1..n), s # {}
    PROVE  Max(s) \in s /\ \A y \in s : y <= Max(s)
<1>0. \A y \in s : y \in Nat /\ n - y \in Nat
  <2>1. \A y \in 1..n : y \in Nat /\ n - y \in Nat
    OBVIOUS
  <2> QED BY <2>1
<1> DEFINE T == {n - i : i \in s}
<1>1. T \in SUBSET Nat /\ T # {}
  <2>1. \A i \in s : n - i \in Nat
    BY <1>0
  <2>2. PICK i \in s : TRUE
    OBVIOUS
  <2>3. n - i \in T
    OBVIOUS
  <2>4. T \in SUBSET Nat
    BY <2>1
  <2> HIDE DEF T
  <2> QED BY <2>3, <2>4
<1>2. PICK m \in T : \A k \in T : m <= k
  <2> HIDE DEF T
  <2> QED BY <1>1, LeastNumber
<1>3. PICK x \in s : m = n - x
  OBVIOUS
<1>4. ASSUME NEW y \in s PROVE x >= y
  <2>1. m <= n - y
    BY <1>2
  <2>2. x \in Nat /\ y \in Nat
    BY <1>0
  <2> QED BY <1>3, <2>1, <2>2
<1>5. Max(s) \in s /\ \A y \in s : Max(s) >= y
  BY <1>4 DEF Max
<1> QED BY <1>0, <1>5

\* replay_wal is one forward pass: page images f[m] after the first m records.
LEMMA ReplayPass ==
    ASSUME NEW log0, NEW RecSet, Records(log0) \in Seq(RecSet), NEW body
    PROVE  \E f : /\ f[0] = body
                  /\ \A m \in 1..Len(Records(log0)) :
                        f[m] = Redo(Records(log0), f[m - 1], Records(log0)[m])
                  /\ Replay(log0, body) = f[Len(Records(log0))]
<1> DEFINE recs == Records(log0)
           n == Len(recs)
           Body(g, s) == IF s = {} THEN body
                         ELSE Redo(recs, g[s \ {Max(s)}], recs[Max(s)])
           IsFold(g) == g = [s \in SUBSET DOMAIN recs |-> Body(g, s)]
           fold == CHOOSE g : IsFold(g)
<1>1. Replay(log0, body) = fold[DOMAIN recs]
  BY DEF Replay, FoldLeft, MapThenFoldSet, Redo, Done
<1>2. n \in Nat /\ DOMAIN recs = 1..n
  <2> HIDE DEF recs
  <2>1. recs \in Seq(RecSet)
    BY DEF recs
  <2> QED BY <2>1
<1> HIDE DEF recs, n
<1> DEFINE Upto(g, m) == \A s \in SUBSET (1..m) : g[s] = Body(g, s)
           B == {m \in 0..n : ~\E g : Upto(g, m)}
<1>3. B = {}
  <2>1. SUFFICES ASSUME B # {} PROVE FALSE
    OBVIOUS
  <2>2. B \in SUBSET Nat
    BY <1>2
  <2>3. PICK m \in B : \A k \in B : m <= k
    <3> HIDE DEF B
    <3> QED BY <2>1, <2>2, LeastNumber
  <2>4. m \in 0..n /\ ~\E g : Upto(g, m)
    OBVIOUS
  <2>5. m # 0
    <3> DEFINE c == [s \in {{}} |-> body]
    <3>1. \A s \in SUBSET (1..0) : s = {}
      OBVIOUS
    <3>2. c[{}] = body
      OBVIOUS
    <3> HIDE DEF c
    <3>3. Upto(c, 0)
      BY <3>1, <3>2
    <3> QED BY <2>4, <3>3
  <2>6. m - 1 \in 0..n /\ ~(m <= m - 1) /\ m \in 1..n
    BY <1>2, <2>4, <2>5
  <2>7. m - 1 \notin B
    <3> HIDE DEF B
    <3> QED BY <2>3, <2>6
  <2>8. PICK g : Upto(g, m - 1)
    BY <2>6, <2>7
  <2> HIDE DEF B
  <2> DEFINE h == [s \in SUBSET (1..m) |->
                     IF m \in s THEN Redo(recs, g[s \ {m}], recs[m]) ELSE g[s]]
  <2>9. ASSUME NEW s \in SUBSET (1..m) PROVE h[s] = Body(h, s)
    <3>1. CASE m \in s
      <4>1. Max(s) = m
        <5>1. Max(s) \in s /\ m <= Max(s)
          <6>1. m \in Nat /\ s # {}
            BY <2>6, <3>1
          <6> QED BY <3>1, <6>1, MaxIn
        <5>2. Max(s) \in 1..m
          BY <5>1
        <5> QED BY <2>6, <5>1, <5>2
      <4>2. h[s \ {m}] = g[s \ {m}]
        OBVIOUS
      <4>3. h[s] = Redo(recs, g[s \ {m}], recs[m])
        BY <3>1
      <4> HIDE DEF h
      <4> QED BY <3>1, <4>1, <4>2, <4>3
    <3>2. CASE m \notin s
      <4>1. s \in SUBSET (1..(m - 1)) /\ s \ {Max(s)} \in SUBSET (1..m)
        <5>1. \A i \in 1..m : i # m => i \in 1..(m - 1)
          BY <2>6
        <5> QED BY <3>2, <5>1
      <4>2. h[s] = g[s] /\ h[s \ {Max(s)}] = g[s \ {Max(s)}]
        BY <3>2, <4>1
      <4> HIDE DEF h
      <4> QED BY <2>8, <4>1, <4>2
    <3> QED BY <3>1, <3>2
  <2>10. Upto(h, m)
    BY <2>9
  <2> HIDE DEF h
  <2> QED BY <2>4, <2>10
<1>4. PICK g : Upto(g, n)
  <2>1. n \in 0..n
    BY <1>2
  <2> QED BY <1>3, <2>1
<1> DEFINE h == [s \in SUBSET (1..n) |-> g[s]]
<1>5. IsFold(h)
  <2>1. ASSUME NEW s \in SUBSET (1..n) PROVE h[s] = Body(h, s)
    <3>1. s \ {Max(s)} \in SUBSET (1..n)
      OBVIOUS
    <3>2. h[s] = g[s] /\ h[s \ {Max(s)}] = g[s \ {Max(s)}]
      BY <3>1
    <3> HIDE DEF h
    <3> QED BY <1>4, <3>2
  <2> HIDE DEF Body
  <2> QED BY <1>2, <2>1
<1>6. IsFold(fold)
  <2> HIDE DEF IsFold
  <2> QED BY <1>5
<1> HIDE DEF fold
<1>7. \A s \in SUBSET (1..n) : fold[s] = Body(fold, s)
  <2> HIDE DEF Body
  <2> QED BY <1>2, <1>6
<1> DEFINE f == [m \in 0..n |-> fold[1..m]]
<1>8. f[0] = body
  <2>1. 1..0 = {} /\ 0 \in 0..n /\ {} \in SUBSET (1..n)
    BY <1>2
  <2> QED BY <1>7, <2>1
<1>9. ASSUME NEW m \in 1..n PROVE f[m] = Redo(recs, f[m - 1], recs[m])
  <2>1. /\ 1..m \in SUBSET (1..n) /\ 1..m # {} /\ (1..m) \ {m} = 1..(m - 1)
        /\ m \in 0..n /\ m - 1 \in 0..n
    <3>1. m \in Nat /\ m \in 0..n /\ m - 1 \in 0..n /\ m \in 1..m
      BY <1>2
    <3>2. \A i \in 1..m : i \in 1..n
      BY <1>2
    <3>3. (1..m) \ {m} = 1..(m - 1)
      BY <3>1
    <3> QED BY <3>1, <3>2, <3>3
  <2>2. Max(1..m) = m
    <3>1. m \in Nat /\ m \in 1..m
      BY <1>2
    <3>2. Max(1..m) \in 1..m /\ m <= Max(1..m)
      BY <3>1, MaxIn
    <3> QED BY <3>1, <3>2
  <2>3. fold[1..m] = Redo(recs, fold[1..(m - 1)], recs[m])
    BY <1>7, <2>1, <2>2
  <2> QED BY <2>1, <2>3
<1>10. Replay(log0, body) = f[n]
  BY <1>1, <1>2
<1> HIDE DEF f
<1> QED BY <1>8, <1>9, <1>10 DEF recs, n

-----------------------------------------------------------------------------
(* Logs of control frames                                                  *)
ControlRecs ==
    [kind : {"TX_COMMIT", "TX_ROLLBACK"}, tx : Nat, pg : {0}, before : {0}, after : {0}]

ControlCells == [rec : ControlRecs, part : {1}]

\* Every cell of a log of control frames is a frame.
LEMMA CellFacts ==
    ASSUME NEW log0 \in Seq(ControlCells), NEW i \in 1..Len(log0)
    PROVE  log0[i].rec \in ControlRecs /\ Width(log0[i].rec) = 1 /\ FrameAt(log0, i)
<1>1. log0[i] \in ControlCells
  OBVIOUS
<1>2. log0[i].rec \in ControlRecs /\ log0[i] = [rec |-> log0[i].rec, part |-> 1]
  BY <1>1 DEF ControlCells
<1>3. Width(log0[i].rec) = 1
  BY <1>2 DEF Width, ControlRecs
<1>4. FrameAt(log0, i)
  BY <1>2, <1>3 DEF FrameAt
<1> QED BY <1>2, <1>3, <1>4

\* The scan of a log of control frames finds control records only.
LEMMA ControlRecords ==
    ASSUME NEW log0 \in Seq(ControlCells)
    PROVE  Records(log0) \in Seq(ControlRecs)
<1> DEFINE n == Len(log0)
<1>1. n \in Nat
  OBVIOUS
<1>2. PICK scan : Scans(log0, scan) /\ Records(log0) = scan[1]
  BY <1>1, ScanEnds
<1>3. \A i \in 1..(n + 2) : scan[i] = ScanBody(log0, scan, i)
  BY <1>1, <1>2, Widths DEF Scans
<1> DEFINE D == {d \in 0..n : scan[n + 1 - d] \notin Seq(ControlRecs)}
<1>4. D = {}
  <2>1. SUFFICES ASSUME D # {} PROVE FALSE
    OBVIOUS
  <2>2. D \in SUBSET Nat
    BY <1>1
  <2>3. PICK d \in D : \A k \in D : d <= k
    <3> HIDE DEF D
    <3> QED BY <2>1, <2>2, LeastNumber
  <2>4. d \in 0..n /\ scan[n + 1 - d] \notin Seq(ControlRecs)
    OBVIOUS
  <2>5. CASE d = 0
    <3>1. n + 1 - d \in 1..(n + 2) /\ n + 1 - d > n
      BY <1>1, <2>5
    <3>2. scan[n + 1 - d] = <<>>
      BY <1>3, <3>1 DEF ScanBody
    <3> QED BY <2>4, <3>2
  <2>6. CASE d # 0
    <3> DEFINE i == n + 1 - d
    <3>1. i \in 1..n /\ i \in 1..(n + 2) /\ ~(i > n)
      BY <1>1, <2>4, <2>6
    <3>2. d - 1 \in 0..n /\ n + 1 - (d - 1) = i + 1 /\ ~(d <= d - 1)
      BY <1>1, <2>4, <2>6
    <3>3. scan[i + 1] \in Seq(ControlRecs)
      BY <2>3, <3>2
    <3>4. log0[i].rec \in ControlRecs /\ Width(log0[i].rec) = 1 /\ FrameAt(log0, i)
      BY <3>1, CellFacts
    <3>5. scan[i] = <<log0[i].rec>> \o scan[i + 1]
      BY <1>3, <3>1, <3>4 DEF ScanBody
    <3>6. scan[i] \in Seq(ControlRecs)
      BY <3>3, <3>4, <3>5
    <3> QED BY <2>4, <3>6
  <2> QED BY <2>5, <2>6
<1>5. n \in 0..n /\ n + 1 - n = 1
  BY <1>1
<1> QED BY <1>2, <1>4, <1>5

\* replay_wal changes no page when the log holds no mutation.
LEMMA ControlReplay ==
    ASSUME NEW log0, Records(log0) \in Seq(ControlRecs), NEW body
    PROVE  Replay(log0, body) = body
<1> DEFINE recs == Records(log0)
           n == Len(recs)
<1>1. PICK f : /\ f[0] = body
               /\ \A m \in 1..n : f[m] = Redo(recs, f[m - 1], recs[m])
               /\ Replay(log0, body) = f[n]
  BY ReplayPass
<1>2. n \in Nat /\ \A i \in 1..n : recs[i] \in ControlRecs
  <2> HIDE DEF recs
  <2>1. recs \in Seq(ControlRecs)
    BY DEF recs
  <2> QED BY <2>1
<1>3. \A r \in ControlRecs : \A pg : Redo(recs, pg, r) = pg
  BY DEF ControlRecs, Redo
<1> HIDE DEF recs, n
<1> DEFINE B == {m \in 0..n : f[m] # body}
<1>4. B = {}
  <2>1. SUFFICES ASSUME B # {} PROVE FALSE
    OBVIOUS
  <2>2. B \in SUBSET Nat
    BY <1>2
  <2>3. PICK m \in B : \A k \in B : m <= k
    <3> HIDE DEF B
    <3> QED BY <2>1, <2>2, LeastNumber
  <2>4. m \in 0..n /\ f[m] # body
    OBVIOUS
  <2>5. m # 0
    BY <1>1, <2>4
  <2>6. m - 1 \in 0..n /\ ~(m <= m - 1) /\ m \in 1..n
    BY <1>2, <2>4, <2>5
  <2>7. f[m - 1] = body
    BY <2>3, <2>6
  <2>8. f[m] = f[m - 1]
    BY <1>1, <1>2, <1>3, <2>6
  <2> QED BY <2>4, <2>7, <2>8
<1>5. n \in 0..n
  BY <1>2
<1> QED BY <1>1, <1>4, <1>5

-----------------------------------------------------------------------------
(* Logs of any frames                                                      *)
Changes(recs, i, p) == recs[i].kind = "MUTATE" /\ recs[i].pg = p

LastChange(recs, i, p) ==
    /\ Changes(recs, i, p)
    /\ \A j \in DOMAIN recs : j > i => ~Changes(recs, j, p)

Outcome(recs, i) == IF recs[i].tx \in Done(recs) THEN recs[i].after ELSE recs[i].before

\* A record the "api" client appends.
IsRec(r) ==
    /\ r.kind \in {"TX_COMMIT", "TX_ROLLBACK", "MUTATE"}
    /\ r.tx \in Nat
    /\ r.kind = "MUTATE" => r.pg \in Pages

\* Replay makes the pages equal to goal when the last change the log records for
\* a page leads to what goal has there, and the pages without one have it already.
LEMMA ReplayReaches ==
    ASSUME NEW log0, NEW RecSet, Records(log0) \in Seq(RecSet),
           \A i \in DOMAIN Records(log0) : IsRec(Records(log0)[i]),
           NEW V, NEW body \in [Pages -> V], NEW goal \in [Pages -> V],
           \A p \in Pages : \A i \in DOMAIN Records(log0) :
              LastChange(Records(log0), i, p) => Outcome(Records(log0), i) = goal[p],
           \A p \in Pages :
              (\A i \in DOMAIN Records(log0) : ~Changes(Records(log0), i, p)) => body[p] = goal[p]
    PROVE  Replay(log0, body) = goal
<1> DEFINE recs == Records(log0)
           n == Len(recs)
<1>1. PICK f : /\ f[0] = body
               /\ \A m \in 1..n : f[m] = Redo(recs, f[m - 1], recs[m])
               /\ Replay(log0, body) = f[n]
  BY ReplayPass
<1>2. n \in Nat /\ DOMAIN recs = 1..n
  <2> HIDE DEF recs
  <2>1. recs \in Seq(RecSet)
    BY DEF recs
  <2> QED BY <2>1
<1> HIDE DEF recs, n
<1>3. \A i \in 1..n : IsRec(recs[i])
  BY <1>2 DEF recs
<1> DEFINE Right(m) ==
             /\ f[m] = [p \in Pages |-> f[m][p]]
             /\ \A p \in Pages :
                  /\ (\A i \in 1..m : ~Changes(recs, i, p)) => f[m][p] = body[p]
                  /\ \A i \in 1..m :
                       Changes(recs, i, p) /\ (\A j \in 1..m : j > i => ~Changes(recs, j, p))
                         => f[m][p] = Outcome(recs, i)
           B == {m \in 0..n : ~Right(m)}
<1>4. B = {}
  <2>1. SUFFICES ASSUME B # {} PROVE FALSE
    OBVIOUS
  <2>2. B \in SUBSET Nat
    BY <1>2
  <2>3. PICK m \in B : \A k \in B : m <= k
    <3> HIDE DEF B
    <3> QED BY <2>1, <2>2, LeastNumber
  <2>4. m \in 0..n /\ ~Right(m)
    OBVIOUS
  <2>5. m # 0
    <3>1. Right(0)
      BY <1>1
    <3> HIDE DEF Right
    <3> QED BY <2>4, <3>1
  <2>6. m - 1 \in 0..n /\ ~(m <= m - 1) /\ m \in 1..n
    BY <1>2, <2>4, <2>5
  <2>7. Right(m - 1)
    <3>1. m - 1 \notin B
      <4> HIDE DEF B
      <4> QED BY <2>3, <2>6
    <3> HIDE DEF Right
    <3> QED BY <2>6, <3>1
  <2> HIDE DEF B
  <2>8. f[m] = Redo(recs, f[m - 1], recs[m])
    BY <1>1, <2>6
  <2>9. \A i \in 1..m : i = m \/ i \in 1..(m - 1)
    BY <2>6
  <2>10. \A i \in 1..(m - 1) : i \in 1..m /\ m > i /\ i # m
    BY <2>6
  <2>11. m \in 1..m
    BY <2>6
  <2>12. CASE recs[m].kind # "MUTATE"
    <3>1. f[m] = f[m - 1]
      BY <2>8, <2>12 DEF Redo
    <3>2. \A p \in Pages : ~Changes(recs, m, p)
      BY <2>12 DEF Changes
    <3>3. Right(m)
      BY <2>7, <2>9, <2>10, <3>1, <3>2
    <3> QED BY <2>4, <3>3
  <2>13. CASE recs[m].kind = "MUTATE"
    <3> DEFINE q == recs[m].pg
    <3>1. q \in Pages
      BY <1>3, <2>6, <2>13 DEF IsRec
    <3>2. f[m] = [f[m - 1] EXCEPT ![q] = Outcome(recs, m)]
      BY <2>8, <2>13 DEF Redo, Outcome
    <3> HIDE DEF q
    <3>3. f[m] = [p \in Pages |-> IF p = q THEN Outcome(recs, m) ELSE f[m - 1][p]]
      BY <2>7, <3>1, <3>2
    <3>4. \A p \in Pages : Changes(recs, m, p) <=> p = q
      BY <2>13 DEF Changes, q
    <3>5. f[m][q] = Outcome(recs, m) /\ \A p \in Pages : p # q => f[m][p] = f[m - 1][p]
      BY <3>1, <3>3
    <3>6. f[m] = [p \in Pages |-> f[m][p]]
      BY <3>3
    <3>7. ASSUME NEW p \in Pages, \A i \in 1..m : ~Changes(recs, i, p) PROVE f[m][p] = body[p]
      BY <2>7, <2>10, <2>11, <3>4, <3>5, <3>7
    <3>8. ASSUME NEW p \in Pages, NEW i \in 1..m, Changes(recs, i, p),
                 \A j \in 1..m : j > i => ~Changes(recs, j, p)
          PROVE  f[m][p] = Outcome(recs, i)
      <4>1. CASE p = q
        <5>1. i = m
          BY <2>9, <2>10, <2>11, <3>4, <3>8, <4>1
        <5> QED BY <3>5, <4>1, <5>1
      <4>2. CASE p # q
        <5>1. i \in 1..(m - 1)
          BY <2>9, <3>4, <3>8, <4>2
        <5>2. \A j \in 1..(m - 1) : j > i => ~Changes(recs, j, p)
          BY <2>10, <3>8
        <5>3. f[m - 1][p] = Outcome(recs, i)
          BY <2>7, <3>8, <5>1, <5>2
        <5> QED BY <3>5, <4>2, <5>3
      <4> QED BY <4>1, <4>2
    <3>9. Right(m)
      BY <3>6, <3>7, <3>8
    <3> QED BY <2>4, <3>9
  <2> QED BY <2>12, <2>13
<1>5. Right(n)
  <2>1. n \in 0..n
    BY <1>2
  <2> HIDE DEF Right
  <2> QED BY <1>4, <2>1
<1> HIDE DEF B
<1>6. ASSUME NEW p \in Pages PROVE f[n][p] = goal[p]
  <2> DEFINE S == {i \in 1..n : Changes(recs, i, p)}
  <2>1. CASE S = {}
    <3>1. \A i \in 1..n : ~Changes(recs, i, p)
      BY <2>1
    <3>2. body[p] = goal[p]
      BY <1>2, <3>1 DEF recs
    <3> QED BY <1>5, <3>1, <3>2
  <2>2. CASE S # {}
    <3>1. S \in SUBSET (1..n)
      OBVIOUS
    <3> HIDE DEF S
    <3>2. PICK i \in S : \A y \in S : y <= i
      BY <1>2, <2>2, <3>1, MaxIn
    <3>3. i \in 1..n /\ Changes(recs, i, p)
      BY DEF S
    <3>4. \A j \in 1..n : j > i => ~Changes(recs, j, p)
      <4>1. ASSUME NEW j \in 1..n, j > i, Changes(recs, j, p) PROVE FALSE
        <5>1. j \in S
          BY <4>1 DEF S
        <5>2. j <= i
          BY <3>2, <5>1
        <5> QED BY <1>2, <3>3, <4>1, <5>2
      <4> QED BY <4>1
    <3>5. Outcome(recs, i) = goal[p]
      BY <1>2, <3>3, <3>4 DEF recs, LastChange
    <3>6. f[n][p] = Outcome(recs, i)
      BY <1>5, <3>3, <3>4
    <3> QED BY <3>5, <3>6
  <2> QED BY <2>1, <2>2
<1>7. f[n] = [p \in Pages |-> f[n][p]]
  BY <1>5
<1> HIDE DEF Right
<1> QED BY <1>1, <1>6, <1>7

-----------------------------------------------------------------------------
(* Logs of whole frames                                                    *)

ApiRecs ==
    [kind : {"TX_COMMIT", "TX_ROLLBACK", "MUTATE"}, tx : Nat, pg : Pages \cup {0},
     before : Values \cup {0}, after : Values \cup {0}]

ApiCells == [rec : ApiRecs, part : {1, 2}]

\* Every cell is part of a whole frame.
Framed(log0) ==
    \A i \in 1..Len(log0) :
       /\ log0[i].part <= Width(log0[i].rec)
       /\ log0[i].part < Width(log0[i].rec) =>
             i < Len(log0) /\ log0[i + 1] = [rec |-> log0[i].rec, part |-> 2]
       /\ log0[i].part = 2 =>
             i > 1 /\ log0[i - 1] = [rec |-> log0[i].rec, part |-> 1]

Starts(log0, i) == i = Len(log0) + 1 \/ (i \in 1..Len(log0) /\ log0[i].part = 1)

\* Where a frame starts, the scan finds it whole, and the next one starts at its end.
LEMMA FrameSteps ==
    ASSUME NEW log0 \in Seq(ApiCells), Framed(log0), NEW i \in 1..Len(log0), Starts(log0, i)
    PROVE  /\ FrameAt(log0, i)
           /\ log0[i].rec \in ApiRecs
           /\ Starts(log0, i + Width(log0[i].rec))
           /\ i + Width(log0[i].rec) <= Len(log0) + 1
<1> DEFINE n == Len(log0)
           rec == log0[i].rec
<1>1. n \in Nat /\ \A j \in 1..n : log0[j] \in ApiCells
  OBVIOUS
<1>2. \A c \in ApiCells : /\ c.rec \in ApiRecs /\ c.part \in {1, 2}
                          /\ c = [rec |-> c.rec, part |-> c.part]
  BY DEF ApiCells
<1>3. log0[i].part = 1 /\ log0[i] = [rec |-> rec, part |-> 1] /\ rec \in ApiRecs
  BY <1>1, <1>2 DEF Starts
<1>4. \A c1, r : c1 = [rec |-> r, part |-> 1] => c1.part = 1 /\ c1.rec = r
  OBVIOUS
<1>5. \A c1, r : c1 = [rec |-> r, part |-> 2] => c1.part = 2 /\ c1.rec = r
  OBVIOUS
<1>6. CASE Width(rec) = 1
  <2>1. FrameAt(log0, i)
    BY <1>1, <1>3, <1>6 DEF FrameAt
  <2>2. ASSUME i + 1 \in 1..n PROVE log0[i + 1].part = 1
    <3>1. SUFFICES ASSUME log0[i + 1].part = 2 PROVE FALSE
      BY <1>1, <1>2, <2>2
    <3>2. log0[(i + 1) - 1] = [rec |-> log0[i + 1].rec, part |-> 1]
          /\ 2 <= Width(log0[i + 1].rec)
      BY <2>2, <3>1 DEF Framed
    <3>3. (i + 1) - 1 = i
      BY <1>1
    <3>4. log0[i + 1].rec = rec
      BY <1>4, <3>2, <3>3
    <3> QED BY <1>6, <3>2, <3>4
  <2>3. i + 1 = n + 1 \/ i + 1 \in 1..n
    BY <1>1
  <2> QED BY <1>1, <1>3, <1>6, <2>1, <2>2, <2>3 DEF Starts
<1>7. CASE Width(rec) = 2
  <2>1. i < n /\ log0[i + 1] = [rec |-> rec, part |-> 2]
    BY <1>3, <1>7 DEF Framed
  <2>2. FrameAt(log0, i)
    <3>1. i + Width(rec) - 1 <= n
      BY <1>1, <1>7, <2>1
    <3>2. ASSUME NEW k \in 1..Width(rec) PROVE log0[i + k - 1] = [rec |-> rec, part |-> k]
      <4>1. k = 1 \/ k = 2
        BY <1>7
      <4>2. i + 1 - 1 = i /\ i + 2 - 1 = i + 1
        BY <1>1
      <4> QED BY <1>3, <2>1, <4>1, <4>2
    <3> QED BY <3>1, <3>2 DEF FrameAt
  <2>3. ASSUME i + 2 \in 1..n PROVE log0[i + 2].part = 1
    <3>1. SUFFICES ASSUME log0[i + 2].part = 2 PROVE FALSE
      BY <1>1, <1>2, <2>3
    <3>2. log0[(i + 2) - 1] = [rec |-> log0[i + 2].rec, part |-> 1]
      BY <2>3, <3>1 DEF Framed
    <3>3. (i + 2) - 1 = i + 1
      BY <1>1
    <3> QED BY <1>4, <1>5, <2>1, <3>2, <3>3
  <2>4. i + 2 = n + 1 \/ i + 2 \in 1..n
    BY <1>1, <2>1
  <2> QED BY <1>1, <1>3, <1>7, <2>2, <2>3, <2>4 DEF Starts
<1> QED BY <1>6, <1>7, Widths

\* What an append at the end of a log of whole frames leaves.
LEMMA FrameWritten ==
    ASSUME NEW log0 \in Seq(ApiCells), NEW rec \in ApiRecs,
           NEW log1, log1 = WriteFrame(log0, Len(log0), rec)
    PROVE  /\ log1 \in Seq(ApiCells)
           /\ Len(log1) = Len(log0) + Width(rec)
           /\ \A i \in 1..Len(log0) : log1[i] = log0[i]
           /\ \A i \in (Len(log0) + 1)..Len(log1) :
                 log1[i] = [rec |-> rec, part |-> i - Len(log0)]
<1> DEFINE n == Len(log0)
           w == Width(rec)
           cell(i) == IF i \in (n + 1)..(n + w) THEN [rec |-> rec, part |-> i - n] ELSE log0[i]
<1>1. n \in Nat /\ w \in {1, 2} /\ \A j \in 1..n : log0[j] \in ApiCells
  BY Widths
<1> HIDE DEF w
<1>2. log1 = [i \in 1..(n + w) |-> cell(i)]
  BY <1>1 DEF WriteFrame, w
<1>3. \A i \in 1..n : cell(i) = log0[i]
  BY <1>1
<1>4. \A i \in (n + 1)..(n + w) : cell(i) = [rec |-> rec, part |-> i - n] /\ i - n \in {1, 2}
  BY <1>1
<1>5. ASSUME NEW i \in 1..(n + w) PROVE cell(i) \in ApiCells
  <2>1. CASE i \in 1..n
    BY <1>1, <1>3, <2>1
  <2>2. CASE i \in (n + 1)..(n + w)
    BY <1>4, <2>2 DEF ApiCells
  <2> QED BY <1>1, <2>1, <2>2
<1> HIDE DEF cell
<1>6. log1 \in Seq(ApiCells) /\ Len(log1) = n + w
  BY <1>1, <1>2, <1>5
<1>7. (\A i \in 1..n : i \in 1..(n + w)) /\ (\A i \in (n + 1)..(n + w) : i \in 1..(n + w))
  BY <1>1
<1> QED BY <1>2, <1>3, <1>4, <1>6, <1>7 DEF w

\* An append at the end leaves whole frames.
LEMMA StaysFramed ==
    ASSUME NEW log0 \in Seq(ApiCells), Framed(log0), NEW rec \in ApiRecs,
           NEW log1, log1 = WriteFrame(log0, Len(log0), rec)
    PROVE  Framed(log1)
<1> DEFINE n == Len(log0)
           w == Width(rec)
<1>1. /\ log1 \in Seq(ApiCells) /\ Len(log1) = n + w
      /\ \A i \in 1..n : log1[i] = log0[i]
      /\ \A i \in (n + 1)..(n + w) : log1[i] = [rec |-> rec, part |-> i - n]
  BY FrameWritten
<1>2. n \in Nat /\ w \in {1, 2}
  BY Widths
<1> HIDE DEF w
<1>3. SUFFICES ASSUME NEW i \in 1..(n + w)
               PROVE  /\ log1[i].part <= Width(log1[i].rec)
                      /\ log1[i].part < Width(log1[i].rec) =>
                            i < n + w /\ log1[i + 1] = [rec |-> log1[i].rec, part |-> 2]
                      /\ log1[i].part = 2 =>
                            i > 1 /\ log1[i - 1] = [rec |-> log1[i].rec, part |-> 1]
  BY <1>1 DEF Framed
<1>4. CASE i \in 1..n
  <2>1. log1[i] = log0[i]
    BY <1>1, <1>4
  <2>2. i < n => i + 1 \in 1..n /\ i < n + w
    BY <1>2
  <2>3. i > 1 => i - 1 \in 1..n
    BY <1>2, <1>4
  <2> QED BY <1>1, <1>4, <2>1, <2>2, <2>3 DEF Framed
<1>5. CASE i \in (n + 1)..(n + w)
  <2>1. log1[i].rec = rec /\ log1[i].part = i - n
    <3>1. log1[i] = [rec |-> rec, part |-> i - n]
      BY <1>1, <1>5
    <3> QED BY <3>1
  <2>2. i - n <= w
    BY <1>2, <1>5
  <2>3. ASSUME i - n < w PROVE i < n + w /\ log1[i + 1] = [rec |-> rec, part |-> 2]
    <3>1. i + 1 \in (n + 1)..(n + w) /\ (i + 1) - n = 2 /\ i < n + w
      BY <1>2, <1>5, <2>3
    <3> QED BY <1>1, <3>1
  <2>4. ASSUME i - n = 2 PROVE i > 1 /\ log1[i - 1] = [rec |-> rec, part |-> 1]
    <3>1. i - 1 \in (n + 1)..(n + w) /\ (i - 1) - n = 1 /\ i > 1
      BY <1>2, <1>5, <2>4
    <3> QED BY <1>1, <3>1
  <2> QED BY <2>1, <2>2, <2>3, <2>4 DEF w
<1> QED BY <1>2, <1>4, <1>5

\* An append at the end adds its record to what the scan finds.
LEMMA RecordAppended ==
    ASSUME NEW log0 \in Seq(ApiCells), Framed(log0), NEW rec \in ApiRecs,
           NEW log1, log1 = WriteFrame(log0, Len(log0), rec)
    PROVE  /\ Records(log0) \in Seq(ApiRecs)
           /\ Records(log1) = Append(Records(log0), rec)
<1> DEFINE n == Len(log0)
           w == Width(rec)
<1>1. /\ log1 \in Seq(ApiCells) /\ Len(log1) = n + w
      /\ \A i \in 1..n : log1[i] = log0[i]
      /\ \A i \in (n + 1)..(n + w) : log1[i] = [rec |-> rec, part |-> i - n]
  BY FrameWritten
<1>2. n \in Nat /\ w \in {1, 2} /\ n + w \in Nat
  BY Widths
<1> HIDE DEF w
<1>3. PICK s0 : Scans(log0, s0) /\ Records(log0) = s0[1]
  BY <1>2, ScanEnds
<1>4. PICK s1 : Scans(log1, s1) /\ Records(log1) = s1[1]
  BY <1>1, <1>2, ScanEnds
<1>5. \A i \in 1..(n + 2) : s0[i] = ScanBody(log0, s0, i)
  BY <1>2, <1>3, Widths DEF Scans
<1>6. \A i \in 1..(n + w + 2) : s1[i] = ScanBody(log1, s1, i)
  BY <1>1, <1>2, <1>4, Widths DEF Scans
<1> DEFINE Good(i) == s0[i] \in Seq(ApiRecs) /\ s1[i] = Append(s0[i], rec)
           D == {d \in 0..n : Starts(log0, n + 1 - d) /\ ~Good(n + 1 - d)}
<1>7. Good(n + 1)
  <2>1. n + 1 \in 1..(n + 2) /\ n + 1 > n
    BY <1>2
  <2>2. s0[n + 1] = <<>>
    BY <1>5, <2>1 DEF ScanBody
  <2>3. n + 1 \in (n + 1)..(n + w) /\ n + 1 \in 1..(n + w + 2) /\ ~(n + 1 > n + w)
    BY <1>2
  <2>4. log1[n + 1].rec = rec
    <3>1. log1[n + 1] = [rec |-> rec, part |-> n + 1 - n]
      BY <1>1, <2>3
    <3> QED BY <3>1
  <2>5. FrameAt(log1, n + 1)
    <3>1. (n + 1) + w - 1 <= n + w
      BY <1>2
    <3>2. ASSUME NEW k \in 1..w PROVE log1[(n + 1) + k - 1] = [rec |-> rec, part |-> k]
      <4>1. (n + 1) + k - 1 \in (n + 1)..(n + w) /\ ((n + 1) + k - 1) - n = k
        BY <1>2
      <4> QED BY <1>1, <4>1
    <3> QED BY <1>1, <2>4, <3>1, <3>2 DEF FrameAt, w
  <2>6. s1[n + 1] = <<rec>> \o s1[n + 1 + w]
    BY <1>1, <1>6, <2>3, <2>4, <2>5 DEF ScanBody, w
  <2>7. n + 1 + w \in 1..(n + w + 2) /\ n + 1 + w > n + w
    BY <1>2
  <2>8. s1[n + 1 + w] = <<>>
    BY <1>1, <1>6, <2>7 DEF ScanBody
  <2>9. <<rec>> \o <<>> = Append(<<>>, rec)
    OBVIOUS
  <2> QED BY <2>2, <2>6, <2>8, <2>9
<1>8. ASSUME NEW i \in 1..n, Starts(log0, i), Good(i + Width(log0[i].rec)) PROVE Good(i)
  <2> DEFINE r == log0[i].rec
             k == i + Width(r)
  <2>1. FrameAt(log0, i) /\ r \in ApiRecs /\ k <= n + 1
    BY <1>8, FrameSteps
  <2>2. i \in 1..(n + 2) /\ ~(i > n) /\ i \in 1..(n + w + 2) /\ ~(i > n + w)
    BY <1>2
  <2>3. s0[i] = <<r>> \o s0[k]
    BY <1>5, <2>1, <2>2 DEF ScanBody
  <2>4. log1[i] = log0[i]
    BY <1>1
  <2>5. FrameAt(log1, i)
    <3>1. Width(r) \in {1, 2}
      BY Widths
    <3>2. i + Width(r) - 1 <= n + w
      BY <1>2, <2>1, <3>1
    <3>3. ASSUME NEW j \in 1..Width(r) PROVE log1[i + j - 1] = [rec |-> r, part |-> j]
      <4>1. i + j - 1 \in 1..n
        BY <1>2, <2>1, <3>1
      <4>2. log0[i + j - 1] = [rec |-> r, part |-> j]
        BY <2>1 DEF FrameAt
      <4> QED BY <1>1, <4>1, <4>2
    <3> QED BY <1>1, <2>4, <3>2, <3>3 DEF FrameAt
  <2>6. s1[i] = <<r>> \o s1[k]
    BY <1>1, <1>6, <2>2, <2>4, <2>5 DEF ScanBody
  <2> HIDE DEF r, k
  <2>7. s0[k] \in Seq(ApiRecs) /\ s1[k] = Append(s0[k], rec)
    BY <1>8 DEF r, k
  <2>8. \A q \in Seq(ApiRecs) : /\ <<r>> \o q \in Seq(ApiRecs)
                                /\ <<r>> \o Append(q, rec) = Append(<<r>> \o q, rec)
    BY <2>1
  <2> QED BY <2>3, <2>6, <2>7, <2>8
<1>9. D = {}
  <2>1. SUFFICES ASSUME D # {} PROVE FALSE
    OBVIOUS
  <2>2. D \in SUBSET Nat
    BY <1>2
  <2>3. PICK d \in D : \A e \in D : d <= e
    <3> HIDE DEF D
    <3> QED BY <2>1, <2>2, LeastNumber
  <2>4. d \in 0..n /\ Starts(log0, n + 1 - d) /\ ~Good(n + 1 - d)
    OBVIOUS
  <2> DEFINE i == n + 1 - d
             k == i + Width(log0[i].rec)
  <2>5. d # 0
    BY <1>2, <1>7, <2>4
  <2>6. i \in 1..n
    BY <1>2, <2>4, <2>5
  <2>7. Starts(log0, k) /\ k <= n + 1
    BY <2>4, <2>6, FrameSteps
  <2>8. k \in Nat /\ k > i
    BY <1>2, <2>6, Widths
  <2> DEFINE e == n + 1 - k
  <2>9. e \in 0..n /\ n + 1 - e = k /\ ~(d <= e)
    BY <1>2, <2>4, <2>6, <2>7, <2>8
  <2>10. e \notin D
    <3> HIDE DEF D, e
    <3> QED BY <2>3, <2>9
  <2> HIDE DEF Good
  <2>11. Good(k)
    BY <2>7, <2>9, <2>10
  <2> QED BY <1>8, <2>4, <2>6, <2>11
<1>10. Starts(log0, 1)
  <2>1. CASE n = 0
    BY <1>2, <2>1 DEF Starts
  <2>2. CASE n # 0
    <3>1. 1 \in 1..n /\ log0[1] \in ApiCells
      BY <1>2, <2>2
    <3>2. log0[1].part \in {1, 2}
      BY <3>1 DEF ApiCells
    <3>3. log0[1].part # 2
      <4>1. log0[1].part = 2 => 1 > 1
        BY <3>1 DEF Framed
      <4> QED BY <4>1
    <3> QED BY <3>1, <3>2, <3>3 DEF Starts
  <2> QED BY <2>1, <2>2
<1>11. Good(1)
  <2>1. n \in 0..n /\ n + 1 - n = 1
    BY <1>2
  <2> HIDE DEF Good
  <2> QED BY <1>9, <1>10, <2>1
<1> QED BY <1>3, <1>4, <1>11

\* The scan of an empty log finds nothing.
LEMMA EmptyLog == Records(<<>>) = <<>> /\ Framed(<<>>)
<1>1. PICK f : Scans(<<>>, f) /\ Records(<<>>) = f[1]
  <2>1. Len(<<>>) \in Nat
    OBVIOUS
  <2> QED BY <2>1, ScanEnds
<1>2. f[1] = <<>>
  BY <1>1, Widths DEF Scans, ScanBody
<1> QED BY <1>1, <1>2 DEF Framed

-----------------------------------------------------------------------------
(* The invariant of a Database                                             *)

Numbering == nextTx \in Nat /\ nextTx > 0 /\ active \in Nat /\ stops \in Nat

\* What a rollback under way has put back is what is committed.
PutBack == tx = "rollback" => \A p \in Pages \ undo : page[p] = committed[p]

\* What a rollback would restore is what is committed, and so are the pages when
\* there is nothing to roll back.
Restorable ==
    /\ tx = "none" => page = committed
    /\ tx \in {"block", "failed", "rollback"} => snapshot = committed
    /\ PutBack

DbSafe ==
    client = "db" =>
       /\ page \in Bodies /\ snapshot \in Bodies /\ committed \in Bodies
       /\ phase \in {"open", "stopped"} /\ (phase = "stopped" => tx = "none")
       /\ due = NoWrite
       /\ tx \in Situations /\ (tx \in {"block", "failed", "sql"} => active # 0)
       /\ mishaps = {} => Restorable

\* A Database writes whole control frames one after another, or over older ones
\* of the same length.
OnlyControl ==
    client # "api" => log \in Seq(ControlCells) /\ pos \in Nat /\ pos <= Len(log)

Inv == Numbering /\ client \in {"api", "db"} /\ DbSafe /\ OnlyControl

USE DEF Situations

\* Writing one whole control frame at an offset within a log of control frames
\* leaves such a log.
LEMMA ControlAppended ==
    ASSUME NEW log0 \in Seq(ControlCells), NEW p \in Nat, p <= Len(log0),
           NEW kind \in {"TX_COMMIT", "TX_ROLLBACK"}, NEW id \in Nat
    PROVE  /\ WriteFrame(log0, p, Control(kind, id)) \in Seq(ControlCells)
           /\ Width(Control(kind, id)) = 1
           /\ p + 1 <= Len(WriteFrame(log0, p, Control(kind, id)))
<1> DEFINE rec == Control(kind, id)
<1>1. rec \in ControlRecs
  BY DEF Control, ControlRecs
<1>2. Width(rec) = 1
  BY <1>1 DEF Width, ControlRecs
<1> HIDE DEF rec
<1> DEFINE cell(i) == IF i \in (p + 1)..(p + 1) THEN [rec |-> rec, part |-> i - p] ELSE log0[i]
           end == IF p + 1 > Len(log0) THEN p + 1 ELSE Len(log0)
<1>3. WriteFrame(log0, p, rec) = [i \in 1..end |-> cell(i)]
  BY <1>2 DEF WriteFrame
<1>4. end \in Nat /\ p + 1 <= end
  OBVIOUS
<1>5. ASSUME NEW i \in 1..end PROVE cell(i) \in ControlCells
  <2>1. CASE i = p + 1
    <3>1. cell(i) = [rec |-> rec, part |-> 1]
      BY <2>1
    <3> QED BY <1>1, <3>1 DEF ControlCells
  <2>2. CASE i # p + 1
    <3>1. i \in 1..Len(log0) /\ cell(i) = log0[i]
      BY <2>2
    <3> QED BY <3>1
  <2> QED BY <2>1, <2>2
<1> HIDE DEF cell, end
<1>6. [i \in 1..end |-> cell(i)] \in Seq(ControlCells) /\ Len([i \in 1..end |-> cell(i)]) = end
  BY <1>4, <1>5
<1> QED BY <1>2, <1>3, <1>4, <1>6 DEF rec

\* A new database.
LEMMA InitInv == Init => Inv
<1> SUFFICES ASSUME Init PROVE Inv
  OBVIOUS
<1>1. Blank \in Bodies
  BY DEF Blank, Bodies
<1>2. client \in {"api", "db"}
  BY ClientsAssumption DEF Init
<1>3. Numbering /\ OnlyControl
  BY DEF Init, Numbering, OnlyControl
<1>4. DbSafe
  BY <1>1 DEF Init, DbSafe, Restorable, PutBack
<1> QED BY <1>2, <1>3, <1>4 DEF Inv

\* commit and rollback of a Database append one control frame.
LEMMA FrameKeeps ==
    ASSUME Inv, NEW kind \in {"TX_COMMIT", "TX_ROLLBACK"},
           AppendRec(Control(kind, active)), client' = client
    PROVE  OnlyControl'
<1>1. SUFFICES ASSUME client # "api"
               PROVE  log' \in Seq(ControlCells) /\ pos' \in Nat /\ pos' <= Len(log')
  BY DEF OnlyControl
<1>2. log \in Seq(ControlCells) /\ pos \in Nat /\ pos <= Len(log) /\ active \in Nat
  BY <1>1 DEF Inv, OnlyControl, Numbering
<1>3. log' = WriteFrame(log, pos, Control(kind, active))
      /\ pos' = pos + Width(Control(kind, active))
  BY DEF AppendRec
<1> DEFINE new == WriteFrame(log, pos, Control(kind, active))
<1>4. new \in Seq(ControlCells) /\ Width(Control(kind, active)) = 1 /\ pos + 1 <= Len(new)
  BY <1>2, ControlAppended
<1> HIDE DEF new
<1>5. log' = new /\ pos' = pos + 1
  BY <1>3, <1>4 DEF new
<1> QED BY <1>2, <1>4, <1>5

\* A log of control frames only is readable, and its replay changes nothing.
LEMMA ControlOpen ==
    ASSUME log \in Seq(ControlCells)
    PROVE  Readable(log) /\ Replay(log, page) = page
<1>1. Records(log) \in Seq(ControlRecs)
  BY ControlRecords
<1>2. ASSUME NEW i \in DOMAIN Records(log) PROVE Records(log)[i] # Corrupt
  <2>1. Records(log)[i] \in ControlRecs
    BY <1>1
  <2>2. \A r \in ControlRecs : r.kind # "CORRUPT"
    BY DEF ControlRecs
  <2>3. Corrupt.kind = "CORRUPT"
    BY DEF Corrupt
  <2> QED BY <2>1, <2>2, <2>3
<1> QED BY <1>1, <1>2, ControlReplay DEF Readable

\* Every step keeps the invariant.
LEMMA NextInv == Inv /\ [Next]_vars => Inv'
<1> SUFFICES ASSUME Inv, [Next]_vars PROVE Inv'
  OBVIOUS
<1> USE DEF Inv
<1>0. client' = client
  BY DEF Next, vars, Begin, Commit, CommitFails, Rollback, RestorePage, RolledBack, Checkpoint,
         SqlBegin, SqlCommit, SqlRollback, LogMutation, ExecuteDml, WriteLogged, Stop, Open
<1> SUFFICES Numbering' /\ DbSafe' /\ OnlyControl'
  BY <1>0
<1>1. CASE Begin
  <2>1. Numbering' /\ OnlyControl'
    BY <1>1 DEF Begin, NewTx, Numbering, OnlyControl, history
  <2>2. DbSafe'
    <3>1. client = "db" => tx = "none"
      BY <1>1 DEF Begin, NewTx, Ready, DbSafe, Inv
    <3>2. /\ snapshot' = page /\ tx' = "block" /\ active' # 0
          /\ UNCHANGED <<client, page, phase, due, committed, mishaps>> /\ phase = "open"
      BY <1>1 DEF Begin, NewTx, Ready, Numbering, history
    <3> QED BY <3>1, <3>2 DEF DbSafe, Restorable, PutBack
  <2> QED BY <2>1, <2>2
<1>2. CASE Commit
  <2>1. Numbering'
    BY <1>2 DEF Commit, Numbering
  <2>2. DbSafe'
    BY <1>2 DEF Commit, Ready, DbSafe, Restorable, PutBack
  <2>3. OnlyControl'
    BY <1>2, FrameKeeps DEF Commit
  <2> QED BY <2>1, <2>2, <2>3
<1>3. CASE CommitFails
  <2>1. Numbering'
    BY <1>3 DEF CommitFails, Numbering, history
  <2>2. DbSafe'
    BY <1>3 DEF CommitFails, Ready, DbSafe, Restorable, PutBack, history
  <2>3. CASE AppendRec(Control("TX_COMMIT", active))
    BY <1>0, <2>1, <2>2, <2>3, FrameKeeps
  <2>4. CASE UNCHANGED <<log, pos>>
    BY <1>0, <2>1, <2>2, <2>4 DEF OnlyControl
  <2> QED BY <1>3, <2>3, <2>4 DEF CommitFails
<1>4. CASE Rollback
  <2>1. Numbering'
    BY <1>4 DEF Rollback, Numbering, history
  <2>2. DbSafe'
    BY <1>4 DEF Rollback, RollingBack, DbSafe, Restorable, PutBack, history
  <2>3. OnlyControl'
    BY <1>4, FrameKeeps DEF Rollback
  <2> QED BY <2>1, <2>2, <2>3
<1>5. ASSUME NEW p \in Pages, RestorePage(p) PROVE Numbering' /\ DbSafe' /\ OnlyControl'
  <2>1. Numbering' /\ OnlyControl'
    BY <1>5 DEF RestorePage, Numbering, OnlyControl, history
  <2>2. /\ tx = "rollback" /\ page' = [page EXCEPT ![p] = snapshot[p]] /\ undo' = undo \ {p}
        /\ UNCHANGED <<client, phase, active, due, snapshot, tx, committed, mishaps>>
    BY <1>5 DEF RestorePage, history
  <2>3. SUFFICES ASSUME client = "db" PROVE DbSafe'
    BY <1>0, <2>1 DEF DbSafe
  <2>4. page' \in Bodies
    BY <2>2, <2>3 DEF DbSafe, Bodies
  <2>5. mishaps = {} => Restorable'
    <3>1. SUFFICES ASSUME mishaps = {}, NEW q \in Pages \ undo' PROVE page'[q] = committed[q]
      BY <2>2, <2>3 DEF DbSafe, Restorable, PutBack
    <3>2. snapshot = committed /\ (q # p => page[q] = committed[q])
      BY <2>2, <2>3, <3>1 DEF DbSafe, Restorable, PutBack
    <3> QED BY <2>2, <2>3, <3>2 DEF DbSafe, Bodies
  <2> QED BY <2>2, <2>3, <2>4, <2>5 DEF DbSafe
<1>6. CASE RolledBack
  <2>1. Numbering' /\ OnlyControl'
    BY <1>6 DEF RolledBack, Numbering, OnlyControl, history
  <2>2. /\ tx = "rollback" /\ undo = {} /\ tx' = "none"
        /\ UNCHANGED <<client, page, phase, active, due, snapshot, undo, committed, mishaps>>
    BY <1>6 DEF RolledBack, history
  <2>3. client = "db" /\ mishaps = {} => page = committed
    BY <2>2 DEF DbSafe, Restorable, PutBack, Bodies
  <2>4. client = "db" /\ mishaps' = {} => Restorable'
    BY <2>2, <2>3 DEF Restorable, PutBack
  <2> QED BY <2>1, <2>2, <2>4 DEF DbSafe
<1>7. CASE Checkpoint
  <2>1. Numbering' /\ OnlyControl'
    BY <1>7 DEF Checkpoint, Numbering, OnlyControl, history
  <2>2. DbSafe'
    BY <1>7 DEF Checkpoint, DbSafe, Restorable, PutBack, history
  <2> QED BY <2>1, <2>2
<1>8. CASE SqlBegin
  <2>1. Numbering' /\ OnlyControl'
    BY <1>8 DEF SqlBegin, NewTx, Numbering, OnlyControl, history
  <2>2. DbSafe'
    BY <1>8 DEF SqlBegin, NewTx, Ready, DbSafe, Restorable, PutBack, Numbering, history
  <2> QED BY <2>1, <2>2
<1>9. CASE SqlCommit
  <2>1. Numbering' /\ OnlyControl'
    BY <1>9 DEF SqlCommit, Numbering, OnlyControl
  <2>2. DbSafe'
    BY <1>9 DEF SqlCommit, DbSafe, Restorable, PutBack
  <2> QED BY <2>1, <2>2
<1>10. CASE SqlRollback
  <2>1. Numbering' /\ OnlyControl'
    BY <1>10 DEF SqlRollback, Numbering, OnlyControl
  <2>2. mishaps' = {} => mishaps = {} /\ page = committed
    BY <1>10 DEF SqlRollback
  <2>3. DbSafe'
    BY <1>10, <2>2 DEF SqlRollback, DbSafe, Restorable, PutBack
  <2> QED BY <2>1, <2>3
<1>11. ASSUME NEW p \in Pages, NEW v \in Values, LogMutation(p, v)
       PROVE  Numbering' /\ DbSafe' /\ OnlyControl'
  BY <1>11 DEF LogMutation, Numbering, DbSafe, OnlyControl, history
<1>12. ASSUME NEW p \in Pages, NEW v \in Values, ExecuteDml(p, v)
       PROVE  Numbering' /\ DbSafe' /\ OnlyControl'
  <2>1. Numbering' /\ OnlyControl'
    BY <1>12 DEF ExecuteDml, Numbering, OnlyControl
  <2>2. /\ client = "db" /\ tx # "rollback" /\ page' = [page EXCEPT ![p] = v]
        /\ committed' = IF tx = "none" THEN page' ELSE committed
        /\ UNCHANGED <<client, phase, active, due, snapshot, tx, mishaps>>
    BY <1>12 DEF ExecuteDml, Ready
  <2>3. page' \in Bodies /\ committed' \in Bodies
    BY <2>2 DEF DbSafe, Bodies
  <2>4. mishaps = {} => Restorable'
    BY <2>2 DEF DbSafe, Restorable, PutBack
  <2> QED BY <2>1, <2>2, <2>3, <2>4 DEF DbSafe
<1>13. CASE WriteLogged
  <2>1. Numbering' /\ OnlyControl'
    BY <1>13 DEF WriteLogged, Numbering, OnlyControl, history
  <2>2. DbSafe'
    BY <1>13 DEF WriteLogged, DbSafe
  <2> QED BY <2>1, <2>2
<1>14. CASE Stop
  <2>1. Numbering' /\ OnlyControl'
    BY <1>14 DEF Stop, Numbering, OnlyControl
  <2>2. Blank \in Bodies
    BY DEF Blank, Bodies
  <2>3. client = "db" /\ mishaps' = {} => mishaps = {} /\ page = committed
    BY <1>14 DEF Stop, DbSafe, Restorable
  <2>4. DbSafe'
    BY <1>14, <2>2, <2>3 DEF Stop, DbSafe, Restorable, PutBack
  <2> QED BY <2>1, <2>4
<1>15. CASE Open
  <2>1. Numbering' /\ OnlyControl'
    BY <1>15 DEF Open, Numbering, OnlyControl, history
  <2>2. client = "db" => phase' = "open" /\ page' = page
    BY <1>15, ControlOpen DEF Open, OnlyControl
  <2>3. DbSafe'
    BY <1>15, <2>2 DEF Open, DbSafe, Restorable, PutBack, history
  <2> QED BY <2>1, <2>3
<1>16. CASE UNCHANGED vars
  BY <1>16 DEF vars, mem, history, Numbering, DbSafe, Restorable, PutBack, OnlyControl
<1> QED BY <1>1, <1>2, <1>3, <1>4, <1>5, <1>6, <1>7, <1>8, <1>9, <1>10, <1>11, <1>12, <1>13,
           <1>14, <1>15, <1>16 DEF Next

\* The invariant holds in every reachable state.
LEMMA Invariance == Spec => []Inv
  BY InitInv, NextInv, PTL DEF Spec

-----------------------------------------------------------------------------
(* The invariant of the client that logs                                   *)

Touched(p) == \E k \in DOMAIN touched : touched[k] = p

\* The log is made of whole frames of the records the client appends.
LogWhole ==
    /\ log \in Seq(ApiCells)
    /\ Framed(log)
    /\ Records(log) \in Seq(ApiRecs)
    /\ \A i \in DOMAIN Records(log) : IsRec(Records(log)[i])

\* A session that may write is at the end of the log and uses a new id for every
\* transaction; a log found at open is only read.
Sessions(recs) ==
    /\ phase \in {"open", "stopped"}
    /\ phase = "open" /\ ~inherited =>
          pos = Len(log) /\ \A i \in DOMAIN recs : recs[i].tx < nextTx
    /\ tx \in {"none", "block", "rollback"}
    /\ active = 0 => due = NoWrite /\ tx # "block"
    /\ active # 0 => /\ phase = "open" /\ ~inherited /\ tx = "block"
                     /\ active < nextTx /\ active \notin Done(recs)
    /\ due # NoWrite => /\ due.pg \in Pages /\ due.after \in Values
                        /\ Touched(due.pg)
                        /\ \E i \in DOMAIN recs : Changes(recs, i, due.pg)

\* Redoing or undoing the last change of a page gives its committed body, ...
Settled(recs) ==
    \A p \in Pages : \A i \in DOMAIN recs :
       LastChange(recs, i, p) => Outcome(recs, i) = committed[p]

\* ... which a page that the log does not mention has already.
Unchanged(recs) ==
    \A p \in Pages :
       (\A i \in DOMAIN recs : ~Changes(recs, i, p)) => page[p] = committed[p]

Idle ==
    /\ phase = "open" /\ tx = "none" => page = committed
    /\ tx = "rollback" => phase = "open" /\ ~inherited /\ snapshot = committed
    /\ PutBack

\* The pages of the running transaction: the log's last change of a touched page
\* is its own, from the committed body to the one the page has or is about to get.
Working(recs) ==
    active # 0 =>
       /\ snapshot = committed
       /\ \A p \in Pages :
            IF Touched(p)
              THEN \A i \in DOMAIN recs :
                      LastChange(recs, i, p) =>
                         /\ recs[i].tx = active
                         /\ recs[i].before = committed[p]
                         /\ recs[i].after = IF due.pg = p THEN due.after ELSE page[p]
              ELSE /\ page[p] = committed[p]
                   /\ \A i \in DOMAIN recs : Changes(recs, i, p) => recs[i].tx # active

Contents ==
    page \in Bodies /\ snapshot \in Bodies /\ committed \in Bodies /\ touched \in Seq(Pages)

Recoverable ==
    client = "api" =>
       /\ LogWhole /\ Contents /\ Idle
       /\ Sessions(Records(log)) /\ Settled(Records(log))
       /\ Unchanged(Records(log)) /\ Working(Records(log))

HabitsKept == {"once", "checkpointOnOpen", "checkpointIdle"} \subseteq Habits

\* What one more record changes of the history.
Longer(recs, new, rec) ==
    LET n == Len(recs) IN
    /\ n \in Nat /\ DOMAIN recs = 1..n /\ DOMAIN new = 1..(n + 1)
    /\ new \in Seq(ApiRecs)
    /\ new[n + 1] = rec
    /\ \A i \in 1..n : new[i] = recs[i]
    /\ Done(new) = Done(recs) \cup (IF rec.kind = "TX_COMMIT" THEN {rec.tx} ELSE {})
    /\ \A p : \A i \in 1..n : Changes(recs, i, p) <=> Changes(new, i, p)
    /\ \A p : \A i \in 1..(n + 1) :
          LastChange(new, i, p) =>
             IF Changes(new, n + 1, p) THEN i = n + 1
             ELSE i \in 1..n /\ LastChange(recs, i, p)

\* Appending to a sequence of records makes it longer in that sense.
LEMMA Appended ==
    ASSUME NEW recs \in Seq(ApiRecs), NEW rec \in ApiRecs, NEW new, new = Append(recs, rec)
    PROVE  Longer(recs, new, rec)
<1> DEFINE n == Len(recs)
<1>1. new \in Seq(ApiRecs) /\ n \in Nat /\ DOMAIN recs = 1..n /\ DOMAIN new = 1..(n + 1)
  OBVIOUS
<1>2. new[n + 1] = rec /\ \A i \in 1..n : new[i] = recs[i]
  OBVIOUS
<1>3. (\A i \in 1..n : i \in 1..(n + 1) /\ n + 1 > i)
      /\ (\A i \in 1..(n + 1) : i = n + 1 \/ i \in 1..n) /\ n + 1 \in 1..(n + 1)
  BY <1>1
<1>4. \A p : \A i \in 1..n : Changes(recs, i, p) <=> Changes(new, i, p)
  BY <1>2 DEF Changes
<1>5. ASSUME NEW p, NEW i \in 1..(n + 1), LastChange(new, i, p)
      PROVE  IF Changes(new, n + 1, p) THEN i = n + 1 ELSE i \in 1..n /\ LastChange(recs, i, p)
  BY <1>1, <1>3, <1>4, <1>5 DEF LastChange
<1>6. Done(new) = Done(recs) \cup (IF rec.kind = "TX_COMMIT" THEN {rec.tx} ELSE {})
  <2>1. ASSUME NEW t \in Done(new)
        PROVE  t \in Done(recs) \/ (rec.kind = "TX_COMMIT" /\ t = rec.tx)
    <3>1. PICK i \in 1..(n + 1) : new[i].kind = "TX_COMMIT" /\ t = new[i].tx
      BY <1>1 DEF Done
    <3> QED BY <1>1, <1>2, <1>3, <3>1 DEF Done
  <2>2. ASSUME NEW t \in Done(recs) PROVE t \in Done(new)
    <3>1. PICK i \in 1..n : recs[i].kind = "TX_COMMIT" /\ t = recs[i].tx
      BY <1>1 DEF Done
    <3> QED BY <1>1, <1>2, <1>3, <3>1 DEF Done
  <2>3. rec.kind = "TX_COMMIT" => rec.tx \in Done(new)
    BY <1>1, <1>2, <1>3 DEF Done
  <2> QED BY <2>1, <2>2, <2>3
<1> QED BY <1>1, <1>2, <1>4, <1>5, <1>6 DEF Longer

\* commit and rollback append well-formed records, ...
LEMMA ControlIsApi ==
    ASSUME NEW kind \in {"TX_COMMIT", "TX_ROLLBACK"}, NEW id \in Nat
    PROVE  /\ Control(kind, id) \in ApiRecs /\ IsRec(Control(kind, id))
           /\ Control(kind, id).kind = kind /\ Control(kind, id).tx = id
  BY DEF Control, ApiRecs, IsRec

\* ... and so does log_mutation.
LEMMA MutationIsApi ==
    ASSUME NEW id \in Nat, NEW p \in Pages, NEW a \in Values \cup {0}, NEW b \in Values \cup {0},
           NEW m, m = Mutation(id, p, a, b)
    PROVE  /\ m \in ApiRecs /\ IsRec(m)
           /\ m.kind = "MUTATE" /\ m.tx = id /\ m.pg = p /\ m.before = a /\ m.after = b
  BY DEF Mutation, ApiRecs, IsRec

\* An append at the end keeps the log whole and adds one record to the history.
LEMMA LogGrows ==
    ASSUME LogWhole, pos = Len(log), NEW rec \in ApiRecs, IsRec(rec), AppendRec(rec)
    PROVE  LogWhole' /\ pos' = Len(log') /\ Records(log') = Append(Records(log), rec)
<1> DEFINE new == Records(log')
           recs == Records(log)
           n == Len(recs)
<1>1. log \in Seq(ApiCells) /\ Framed(log) /\ recs \in Seq(ApiRecs)
  BY DEF LogWhole
<1>2. log' = WriteFrame(log, Len(log), rec) /\ pos' = pos + Width(rec)
  BY DEF AppendRec
<1>3. log' \in Seq(ApiCells) /\ Framed(log') /\ pos' = Len(log')
  BY <1>1, <1>2, FrameWritten, StaysFramed
<1>4. new = Append(recs, rec)
  BY <1>1, <1>2, RecordAppended
<1>5. \A i \in DOMAIN recs : IsRec(recs[i])
  BY DEF LogWhole
<1> HIDE DEF new, recs
<1>6. new \in Seq(ApiRecs) /\ \A i \in DOMAIN new : IsRec(new[i])
  <2>1. /\ new \in Seq(ApiRecs) /\ n \in Nat /\ DOMAIN recs = 1..n /\ DOMAIN new = 1..(n + 1)
        /\ new[n + 1] = rec /\ \A i \in 1..n : new[i] = recs[i]
    BY <1>1, <1>4, Appended DEF Longer
  <2>2. \A i \in 1..(n + 1) : i = n + 1 \/ i \in 1..n
    BY <2>1
  <2> QED BY <1>5, <2>1, <2>2
<1> QED BY <1>3, <1>4, <1>6 DEF LogWhole, new, recs

\* A new database.
LEMMA InitRecoverable == Init => Recoverable
<1> SUFFICES ASSUME Init PROVE Recoverable
  OBVIOUS
<1>1. Records(log) = <<>> /\ Framed(log) /\ log = <<>>
  BY EmptyLog DEF Init
<1>2. <<>> \in Seq(ApiRecs) /\ <<>> \in Seq(ApiCells) /\ DOMAIN <<>> = {} /\ Len(<<>>) = 0
  OBVIOUS
<1>3. Contents
  BY DEF Init, Contents, Bodies, Blank
<1>4. LogWhole
  BY <1>1, <1>2 DEF LogWhole
<1>5. Sessions(<<>>) /\ Idle
  BY <1>1, <1>2 DEF Init, Sessions, Idle, PutBack, NoWrite
<1>6. Settled(<<>>) /\ Unchanged(<<>>) /\ Working(<<>>)
  BY <1>2 DEF Init, Settled, Unchanged, Working
<1> QED BY <1>1, <1>3, <1>4, <1>5, <1>6 DEF Recoverable

\* Every step of a client that keeps the habits keeps the invariant.
LEMMA NextRecoverable ==
    ASSUME HabitsKept PROVE Numbering /\ Recoverable /\ [Next]_vars => Recoverable'
<1> SUFFICES ASSUME Numbering, Recoverable, [Next]_vars PROVE Recoverable'
  OBVIOUS
<1>1. client' = client
  BY DEF Next, vars, Begin, Commit, Rollback, Checkpoint, SqlCommit, SqlRollback,
         CommitFails, RestorePage, RolledBack, SqlBegin, LogMutation, ExecuteDml, WriteLogged,
         Stop, Open
<1>2. CASE client # "api"
  BY <1>1, <1>2 DEF Recoverable
<1>3. CASE client = "api"
  <2> DEFINE recs == Records(log)
             n == Len(recs)
  <2>1. LogWhole /\ Contents /\ Idle /\ Sessions(recs) /\ Settled(recs)
        /\ Unchanged(recs) /\ Working(recs)
    BY <1>3 DEF Recoverable
  <2>2. recs \in Seq(ApiRecs) /\ \A i \in DOMAIN recs : recs[i].tx \in Nat
    BY <2>1 DEF LogWhole, IsRec
  <2>3. /\ Keeps("once") /\ Keeps("checkpointOnOpen") /\ Keeps("checkpointIdle")
        /\ 0 \notin Pages
    BY <1>3, PagesAssumption DEF HabitsKept, Keeps
  <2>4. SUFFICES LogWhole' /\ Contents' /\ Idle' /\ Sessions(recs)' /\ Settled(recs)'
                 /\ Unchanged(recs)' /\ Working(recs)'
    BY <1>1, <1>3 DEF Recoverable
  <2>5. UNCHANGED log => recs' = recs /\ LogWhole'
    BY <2>1 DEF LogWhole
  <2>6. ASSUME pos = Len(log), NEW rec \in ApiRecs, IsRec(rec), AppendRec(rec)
        PROVE  LogWhole' /\ pos' = Len(log') /\ recs' = Append(recs, rec)
    BY <2>1, <2>6, LogGrows
  <2>7. log' = <<>> => recs' = <<>> /\ LogWhole'
    <3>1. <<>> \in Seq(ApiRecs) /\ <<>> \in Seq(ApiCells) /\ DOMAIN <<>> = {}
      OBVIOUS
    <3> QED BY <3>1, EmptyLog DEF LogWhole
  <2> HIDE DEF recs
  <2>8. CASE Begin
    <3>1. recs' = recs /\ LogWhole'
      BY <2>5, <2>8 DEF Begin
    <3>2. /\ phase = "open" /\ due = NoWrite /\ active = 0 /\ ~inherited /\ tx = "none"
          /\ page = committed
      BY <2>1, <2>3, <2>8 DEF Begin, NewTx, Ready, Idle, Sessions
    <3>3. \A i \in DOMAIN recs : recs[i].tx < nextTx /\ recs[i].tx # nextTx
      BY <2>1, <2>2, <3>2 DEF Sessions, Numbering
    <3>4. nextTx \notin Done(recs)
      BY <3>3 DEF Done
    <3>5. Contents' /\ Idle'
      BY <2>1, <2>8 DEF Begin, NewTx, Contents, Idle, PutBack, Numbering, history
    <3>6. Sessions(recs)'
      BY <2>1, <2>2, <2>8, <3>1, <3>2, <3>3, <3>4 DEF Begin, NewTx, Sessions, Numbering
    <3>7. Settled(recs)' /\ Unchanged(recs)'
      BY <2>1, <2>8, <3>1 DEF Begin, Settled, Unchanged, history
    <3>8. Working(recs)'
      <4>1. \A p : ~Touched(p)'
        BY <2>8 DEF Begin, NewTx, Touched
      <4> QED BY <2>8, <3>1, <3>2, <3>3, <4>1 DEF Begin, NewTx, Working, history
    <3> QED BY <3>1, <3>5, <3>6, <3>7, <3>8
  <2>9. CASE Commit
    <3> DEFINE rec == Control("TX_COMMIT", active)
    <3>1. rec \in ApiRecs /\ IsRec(rec) /\ rec.kind = "TX_COMMIT" /\ rec.tx = active
      BY ControlIsApi DEF Numbering
    <3>2. AppendRec(rec)
      BY <2>9 DEF Commit
    <3> HIDE DEF rec
    <3>3. /\ phase = "open" /\ due = NoWrite /\ active # 0 /\ ~inherited
          /\ pos = Len(log) /\ active < nextTx /\ \A i \in DOMAIN recs : recs[i].tx < nextTx
      BY <2>1, <2>9 DEF Commit, Ready, Sessions
    <3>4. LogWhole' /\ pos' = Len(log') /\ recs' = Append(recs, rec)
      BY <2>6, <3>1, <3>2, <3>3
    <3>5. /\ n \in Nat /\ DOMAIN recs = 1..n /\ DOMAIN recs' = 1..(n + 1)
          /\ recs'[n + 1] = rec /\ (\A i \in 1..n : recs'[i] = recs[i])
          /\ Done(recs') = Done(recs) \cup {active}
          /\ (\A p : \A i \in 1..n : Changes(recs, i, p) <=> Changes(recs', i, p))
          /\ (\A p : \A i \in 1..(n + 1) : LastChange(recs', i, p) =>
                 IF Changes(recs', n + 1, p) THEN i = n + 1
                 ELSE i \in 1..n /\ LastChange(recs, i, p))
      <4>1. Longer(recs, recs', rec)
        BY <2>2, <3>1, <3>4, Appended
      <4> QED BY <3>1, <4>1 DEF Longer
    <3>6. (\A p : ~Changes(recs', n + 1, p)) /\ \A i \in 1..(n + 1) : i = n + 1 \/ i \in 1..n
      BY <3>1, <3>5 DEF Changes
    <3>7. Contents' /\ Idle' /\ Unchanged(recs)' /\ Working(recs)'
      BY <2>1, <2>9 DEF Commit, Contents, Idle, PutBack, Unchanged, Working
    <3>8. Sessions(recs)'
      <4>1. \A i \in DOMAIN recs' : recs'[i].tx < nextTx
        BY <3>1, <3>3, <3>5, <3>6
      <4> QED BY <2>9, <3>3, <3>4, <4>1 DEF Commit, Sessions
    <3>9. Settled(recs)'
      <4>1. SUFFICES ASSUME NEW p \in Pages, NEW i \in 1..(n + 1), LastChange(recs', i, p)
                     PROVE  Outcome(recs', i) = page[p]
        BY <2>9, <3>5 DEF Commit, Settled
      <4>2. i \in 1..n /\ LastChange(recs, i, p) /\ recs'[i] = recs[i] /\ Changes(recs, i, p)
        BY <3>5, <3>6, <4>1 DEF LastChange
      <4>3. Outcome(recs, i) = committed[p]
        BY <2>1, <3>5, <4>2 DEF Settled
      <4>4. due.pg # p
        BY <2>3, <3>3 DEF NoWrite
      <4>5. CASE Touched(p)
        <5>1. recs[i].tx = active /\ recs[i].after = page[p]
          BY <2>1, <3>3, <3>5, <4>2, <4>4, <4>5 DEF Working
        <5> QED BY <3>5, <4>2, <5>1 DEF Outcome
      <4>6. CASE ~Touched(p)
        <5>1. page[p] = committed[p] /\ recs[i].tx # active
          BY <2>1, <3>3, <3>5, <4>2, <4>6 DEF Working
        <5> QED BY <3>5, <4>2, <4>3, <5>1 DEF Outcome
      <4> QED BY <4>5, <4>6
    <3> QED BY <3>4, <3>7, <3>8, <3>9
  <2>10. CASE Rollback
    <3> DEFINE rec == Control("TX_ROLLBACK", active)
    <3>1. rec \in ApiRecs /\ IsRec(rec) /\ rec.kind = "TX_ROLLBACK" /\ rec.tx = active
      BY ControlIsApi DEF Numbering
    <3>2. AppendRec(rec)
      BY <2>10 DEF Rollback
    <3> HIDE DEF rec
    <3>3. /\ phase = "open" /\ due = NoWrite /\ active # 0 /\ ~inherited
          /\ pos = Len(log) /\ active < nextTx /\ \A i \in DOMAIN recs : recs[i].tx < nextTx
      BY <1>3, <2>1, <2>10 DEF Rollback, RollingBack, Sessions
    <3>4. LogWhole' /\ pos' = Len(log') /\ recs' = Append(recs, rec)
      BY <2>6, <3>1, <3>2, <3>3
    <3>5. /\ n \in Nat /\ DOMAIN recs = 1..n /\ DOMAIN recs' = 1..(n + 1)
          /\ recs'[n + 1] = rec /\ (\A i \in 1..n : recs'[i] = recs[i])
          /\ Done(recs') = Done(recs)
          /\ (\A p : \A i \in 1..(n + 1) : LastChange(recs', i, p) =>
                 IF Changes(recs', n + 1, p) THEN i = n + 1
                 ELSE i \in 1..n /\ LastChange(recs, i, p))
      <4>1. Longer(recs, recs', rec)
        BY <2>2, <3>1, <3>4, Appended
      <4> QED BY <3>1, <4>1 DEF Longer
    <3>6. (\A p : ~Changes(recs', n + 1, p)) /\ \A i \in 1..(n + 1) : i = n + 1 \/ i \in 1..n
      BY <3>1, <3>5 DEF Changes
    <3>7. snapshot = committed /\ UNCHANGED <<page, committed, snapshot>>
      BY <2>1, <2>10, <3>3 DEF Rollback, Working, history
    <3>8. Contents' /\ Idle' /\ Unchanged(recs)' /\ Working(recs)'
      <4>1. active' = 0 /\ tx' = "rollback" /\ undo' = Pages /\ UNCHANGED <<phase, touched, inherited>>
        BY <2>10 DEF Rollback
      <4>2. \A p : \A i \in 1..n : Changes(recs, i, p) <=> Changes(recs', i, p)
        BY <3>5 DEF Changes
      <4>3. Unchanged(recs)'
        BY <2>1, <3>5, <3>6, <3>7, <4>2 DEF Unchanged
      <4> QED BY <2>1, <3>3, <3>7, <4>1, <4>3 DEF Contents, Idle, PutBack, Working
    <3>9. Sessions(recs)'
      <4>1. \A i \in DOMAIN recs' : recs'[i].tx < nextTx
        BY <3>1, <3>3, <3>5, <3>6
      <4> QED BY <2>10, <3>3, <3>4, <4>1 DEF Rollback, Sessions
    <3>10. Settled(recs)'
      BY <2>1, <3>5, <3>6, <3>7 DEF Settled, Outcome
    <3> QED BY <3>4, <3>8, <3>9, <3>10
  <2>19. ASSUME NEW p \in Pages, RestorePage(p)
         PROVE  LogWhole' /\ Contents' /\ Idle' /\ Sessions(recs)' /\ Settled(recs)'
                /\ Unchanged(recs)' /\ Working(recs)'
    <3>1. recs' = recs /\ LogWhole'
      BY <2>5, <2>19 DEF RestorePage
    <3>2. /\ tx = "rollback" /\ page' = [page EXCEPT ![p] = snapshot[p]] /\ undo' = undo \ {p}
          /\ UNCHANGED <<log, phase, pos, nextTx, active, due, snapshot, touched, inherited, tx,
                         committed>>
      BY <2>19 DEF RestorePage, history
    <3>3. snapshot = committed /\ active = 0
      BY <2>1, <3>2 DEF Idle, Sessions
    <3>4. /\ page' \in Bodies /\ page'[p] = committed[p]
          /\ \A q \in Pages : q # p => page'[q] = page[q]
      BY <2>1, <3>2, <3>3 DEF Contents, Bodies
    <3>5. Contents' /\ Idle'
      BY <2>1, <3>2, <3>3, <3>4 DEF Contents, Idle, PutBack
    <3>6. Sessions(recs)' /\ Settled(recs)'
      BY <2>1, <3>1, <3>2 DEF Sessions, Settled, Touched
    <3>7. Unchanged(recs)' /\ Working(recs)'
      BY <2>1, <3>1, <3>2, <3>3, <3>4 DEF Unchanged, Working
    <3> QED BY <3>1, <3>5, <3>6, <3>7
  <2>20. CASE RolledBack
    <3>1. recs' = recs /\ LogWhole'
      BY <2>5, <2>20 DEF RolledBack
    <3>2. /\ tx = "rollback" /\ undo = {} /\ tx' = "none"
          /\ UNCHANGED <<page, log, phase, pos, nextTx, active, due, snapshot, touched, inherited,
                         undo, committed>>
      BY <2>20 DEF RolledBack, history
    <3>3. page = committed /\ active = 0
      BY <2>1, <3>2 DEF Idle, PutBack, Sessions, Contents, Bodies
    <3>4. Contents' /\ Idle'
      BY <2>1, <3>2, <3>3 DEF Contents, Idle, PutBack
    <3>5. Sessions(recs)' /\ Settled(recs)'
      BY <2>1, <3>1, <3>2, <3>3 DEF Sessions, Settled, Touched
    <3>6. Unchanged(recs)' /\ Working(recs)'
      BY <2>1, <3>1, <3>2, <3>3 DEF Unchanged, Working
    <3> QED BY <3>1, <3>4, <3>5, <3>6
  <2>11. CASE Checkpoint
    <3>1. recs' = <<>> /\ LogWhole' /\ DOMAIN <<>> = {} /\ Len(<<>>) = 0
      BY <2>7, <2>11 DEF Checkpoint
    <3>2. phase = "open" /\ due = NoWrite /\ active = 0 /\ tx = "none" /\ page = committed
      BY <2>1, <2>3, <2>11 DEF Checkpoint, Ready, Idle, Sessions
    <3>3. Contents' /\ Idle' /\ Settled(recs)' /\ Unchanged(recs)' /\ Working(recs)'
      BY <2>1, <2>11, <3>1, <3>2 DEF Checkpoint, Contents, Idle, PutBack, Settled, Unchanged,
                                           Working, history
    <3>4. Sessions(recs)'
      BY <2>1, <2>11, <3>1, <3>2 DEF Checkpoint, Sessions
    <3> QED BY <3>1, <3>3, <3>4
  <2>12. CASE CommitFails \/ SqlBegin \/ SqlCommit \/ SqlRollback
    <3>1. SqlCommit \/ SqlRollback
      BY <1>3, <2>12 DEF CommitFails, SqlBegin
    <3> QED BY <2>1, <3>1 DEF SqlCommit, SqlRollback, Sessions
  <2>13. ASSUME NEW p \in Pages, NEW v \in Values, LogMutation(p, v)
         PROVE  LogWhole' /\ Contents' /\ Idle' /\ Sessions(recs)' /\ Settled(recs)'
                /\ Unchanged(recs)' /\ Working(recs)'
    <3> DEFINE rec == Mutation(active, p, page[p], v)
    <3>1. page[p] \in Values \cup {0}
      BY <2>1 DEF Contents, Bodies
    <3>2. /\ rec \in ApiRecs /\ IsRec(rec) /\ rec.kind = "MUTATE" /\ rec.tx = active
          /\ rec.pg = p /\ rec.before = page[p] /\ rec.after = v
      BY <3>1, MutationIsApi DEF Numbering
    <3>3. AppendRec(rec)
      BY <2>13 DEF LogMutation
    <3> HIDE DEF rec
    <3>4. /\ phase = "open" /\ due = NoWrite /\ active # 0 /\ ~inherited /\ tx = "block"
          /\ pos = Len(log) /\ active < nextTx /\ active \notin Done(recs)
          /\ \A i \in DOMAIN recs : recs[i].tx < nextTx
      BY <2>1, <2>13 DEF LogMutation, Ready, Sessions, Working
    <3>5. LogWhole' /\ pos' = Len(log') /\ recs' = Append(recs, rec)
      BY <2>6, <3>2, <3>3, <3>4
    <3>6. /\ n \in Nat /\ DOMAIN recs = 1..n /\ DOMAIN recs' = 1..(n + 1)
          /\ recs'[n + 1] = rec /\ (\A i \in 1..n : recs'[i] = recs[i])
          /\ Done(recs') = Done(recs)
          /\ (\A q : \A i \in 1..n : Changes(recs, i, q) <=> Changes(recs', i, q))
          /\ (\A q : \A i \in 1..(n + 1) : LastChange(recs', i, q) =>
                 IF Changes(recs', n + 1, q) THEN i = n + 1
                 ELSE i \in 1..n /\ LastChange(recs, i, q))
      <4>1. Longer(recs, recs', rec)
        BY <2>2, <3>2, <3>5, Appended
      <4> QED BY <3>2, <4>1 DEF Longer
    <3>7. /\ \A q : Changes(recs', n + 1, q) <=> q = p
          /\ \A i \in 1..(n + 1) : i = n + 1 \/ i \in 1..n
          /\ \A i \in 1..n : i \in 1..(n + 1)
          /\ n + 1 \in 1..(n + 1)
      BY <3>2, <3>6 DEF Changes
    <3>8. ~Touched(p)
      BY <2>3, <2>13 DEF LogMutation, MayTouch, Touched
    <3>9. page[p] = committed[p] /\ snapshot = committed
      BY <2>1, <3>4, <3>8 DEF Working
    <3>10. touched \in Seq(Pages) /\ touched' = Append(touched, p)
      BY <2>1, <2>13 DEF LogMutation, Contents
    <3>11. touched' \in Seq(Pages) /\ \A q : Touched(q)' <=> Touched(q) \/ q = p
      <4> DEFINE k == Len(touched)
      <4>1. /\ k \in Nat /\ DOMAIN touched = 1..k /\ DOMAIN touched' = 1..(k + 1)
            /\ touched'[k + 1] = p /\ (\A j \in 1..k : touched'[j] = touched[j])
            /\ touched' \in Seq(Pages)
        BY <3>10
      <4>2. /\ \A j \in 1..(k + 1) : j = k + 1 \/ j \in 1..k
            /\ \A j \in 1..k : j \in 1..(k + 1)
            /\ k + 1 \in 1..(k + 1)
        BY <4>1
      <4> HIDE DEF k
      <4> QED BY <4>1, <4>2 DEF Touched
    <3>12. Contents' /\ Idle'
      BY <2>1, <2>13, <3>4, <3>11 DEF LogMutation, Contents, Idle, PutBack, history
    <3>13. due' = [pg |-> p, after |-> v] /\ due'.pg = p /\ due'.after = v
      BY <2>13 DEF LogMutation
    <3>14. Sessions(recs)'
      <4>1. \A i \in DOMAIN recs' : recs'[i].tx < nextTx
        BY <3>2, <3>4, <3>6, <3>7
      <4>2. Touched(due.pg)' /\ \E i \in DOMAIN recs' : Changes(recs', i, due'.pg)
        BY <3>6, <3>7, <3>11, <3>13
      <4> QED BY <2>13, <3>4, <3>5, <3>6, <3>13, <4>1, <4>2 DEF LogMutation, Sessions
    <3>15. Settled(recs)'
      <4>1. SUFFICES ASSUME NEW q \in Pages, NEW i \in 1..(n + 1), LastChange(recs', i, q)
                     PROVE  Outcome(recs', i) = committed[q]
        BY <2>13, <3>6 DEF LogMutation, Settled, history
      <4>2. CASE q = p
        BY <3>2, <3>4, <3>6, <3>7, <3>9, <4>1, <4>2 DEF Outcome
      <4>3. CASE q # p
        BY <2>1, <3>6, <3>7, <4>1, <4>3 DEF Settled, Outcome
      <4> QED BY <4>2, <4>3
    <3>16. Unchanged(recs)'
      BY <2>1, <2>13, <3>6, <3>7 DEF LogMutation, Unchanged, history
    <3>17. Working(recs)'
      <4>1. UNCHANGED <<active, snapshot, committed, page>>
        BY <2>13 DEF LogMutation, history
      <4>2. ASSUME NEW q \in Pages, Touched(q)', NEW i \in 1..(n + 1), LastChange(recs', i, q)
            PROVE  /\ recs'[i].tx = active /\ recs'[i].before = committed[q]
                   /\ recs'[i].after = IF p = q THEN v ELSE page[q]
        <5>1. CASE q = p
          BY <3>2, <3>6, <3>7, <3>9, <4>2, <5>1
        <5>2. CASE q # p
          <6>1. i \in 1..n /\ LastChange(recs, i, q) /\ recs'[i] = recs[i] /\ Touched(q)
            BY <3>6, <3>7, <3>11, <4>2, <5>2
          <6>2. due.pg # q
            BY <2>3, <3>4 DEF NoWrite
          <6>3. recs[i].tx = active /\ recs[i].before = committed[q] /\ recs[i].after = page[q]
            BY <2>1, <3>4, <3>6, <6>1, <6>2 DEF Working
          <6> QED BY <5>2, <6>1, <6>3
        <5> QED BY <5>1, <5>2
      <4>3. ASSUME NEW q \in Pages, ~Touched(q)'
            PROVE  /\ page[q] = committed[q]
                   /\ \A i \in 1..(n + 1) : Changes(recs', i, q) => recs'[i].tx # active
        <5>1. q # p /\ ~Touched(q)
          BY <3>11, <4>3
        <5>2. page[q] = committed[q]
              /\ \A i \in 1..n : Changes(recs, i, q) => recs[i].tx # active
          BY <2>1, <3>4, <3>6, <5>1 DEF Working
        <5> QED BY <3>6, <3>7, <5>1, <5>2
      <4> QED BY <3>6, <3>9, <3>13, <4>1, <4>2, <4>3 DEF Working
    <3> QED BY <3>5, <3>12, <3>14, <3>15, <3>16, <3>17
  <2>14. ASSUME NEW p \in Pages, NEW v \in Values, ExecuteDml(p, v) PROVE FALSE
    BY <1>3, <2>14 DEF ExecuteDml
  <2>15. CASE WriteLogged
    <3>1. recs' = recs /\ LogWhole'
      BY <2>5, <2>15 DEF WriteLogged
    <3>2. /\ due.pg \in Pages /\ due.after \in Values /\ Touched(due.pg) /\ active # 0
          /\ \E i \in DOMAIN recs : Changes(recs, i, due.pg)
      BY <2>1, <2>15 DEF WriteLogged, Sessions
    <3>3. /\ page' \in Bodies /\ page'[due.pg] = due.after
          /\ \A q \in Pages : q # due.pg => page'[q] = page[q]
      BY <2>1, <2>15, <3>2 DEF WriteLogged, Contents, Bodies
    <3>4. due' = NoWrite /\ due'.pg = 0 /\ \A q : Touched(q)' <=> Touched(q)
      BY <2>15 DEF WriteLogged, NoWrite, Touched
    <3>5. Contents' /\ Idle'
      BY <2>1, <2>15, <3>2, <3>3 DEF WriteLogged, Contents, Idle, PutBack, Sessions, history
    <3>6. Sessions(recs)'
      BY <2>1, <2>15, <3>1, <3>2, <3>4 DEF WriteLogged, Sessions
    <3>7. Settled(recs)'
      BY <2>1, <2>15, <3>1 DEF WriteLogged, Settled, history
    <3>8. Unchanged(recs)'
      BY <2>1, <2>15, <3>1, <3>2, <3>3 DEF WriteLogged, Unchanged, history
    <3>9. Working(recs)'
      <4>1. UNCHANGED <<active, snapshot, committed>>
        BY <2>15 DEF WriteLogged, history
      <4>2. ASSUME NEW q \in Pages, Touched(q), NEW i \in DOMAIN recs, LastChange(recs, i, q)
            PROVE  /\ recs[i].tx = active /\ recs[i].before = committed[q]
                   /\ recs[i].after = IF due'.pg = q THEN due'.after ELSE page'[q]
        BY <2>1, <2>3, <3>2, <3>3, <3>4, <4>2 DEF Working
      <4>3. ASSUME NEW q \in Pages, ~Touched(q)
            PROVE  /\ page'[q] = committed[q]
                   /\ \A i \in DOMAIN recs : Changes(recs, i, q) => recs[i].tx # active
        BY <2>1, <3>2, <3>3, <4>3 DEF Working
      <4>4. snapshot = committed
        BY <2>1, <3>2 DEF Working
      <4> QED BY <3>1, <3>4, <4>1, <4>2, <4>3, <4>4 DEF Working
    <3> QED BY <3>1, <3>5, <3>6, <3>7, <3>8, <3>9
  <2>16. CASE Stop
    <3>1. recs' = recs /\ LogWhole'
      BY <2>5, <2>16 DEF Stop
    <3>2. Blank \in Bodies /\ <<>> \in Seq(Pages)
      BY DEF Blank, Bodies
    <3>3. Contents' /\ Idle' /\ Settled(recs)' /\ Unchanged(recs)' /\ Working(recs)'
      BY <2>1, <2>16, <3>1, <3>2 DEF Stop, Contents, Idle, PutBack, Settled, Unchanged, Working
    <3>4. Sessions(recs)'
      BY <2>16 DEF Stop, Sessions
    <3> QED BY <3>1, <3>3, <3>4
  <2>17. CASE Open
    <3>1. recs' = recs /\ LogWhole'
      BY <2>5, <2>17 DEF Open
    <3>2. Readable(log)
      <4>1. ASSUME NEW i \in DOMAIN recs PROVE recs[i] # Corrupt
        <5>1. recs[i].kind # "CORRUPT"
          BY <2>1 DEF LogWhole, IsRec, recs
        <5>2. Corrupt.kind = "CORRUPT"
          BY DEF Corrupt
        <5> QED BY <5>1, <5>2
      <4> QED BY <4>1 DEF Readable, recs
    <3>3. Replay(log, page) = committed
      <4>1. page \in [Pages -> Values \cup {0}] /\ committed \in [Pages -> Values \cup {0}]
        BY <2>1 DEF Contents, Bodies
      <4>2. /\ recs \in Seq(ApiRecs)
            /\ \A i \in DOMAIN recs : IsRec(recs[i])
            /\ \A p \in Pages : \A i \in DOMAIN recs :
                  LastChange(recs, i, p) => Outcome(recs, i) = committed[p]
            /\ \A p \in Pages :
                  (\A i \in DOMAIN recs : ~Changes(recs, i, p)) => page[p] = committed[p]
        BY <2>1, <2>2 DEF LogWhole, Settled, Unchanged, recs
      <4> QED BY <4>1, <4>2, ReplayReaches DEF recs
    <3>4. /\ phase' = "open" /\ page' = committed /\ active = 0 /\ tx # "rollback"
          /\ UNCHANGED <<log, active, due, snapshot, touched, tx, undo, committed, nextTx>>
          /\ pos' = 0 /\ inherited' = (log # <<>>)
      BY <2>1, <2>17, <3>2, <3>3 DEF Open, Sessions, Idle, history
    <3>5. Contents' /\ Idle' /\ Settled(recs)' /\ Unchanged(recs)' /\ Working(recs)'
      BY <2>1, <3>1, <3>4 DEF Contents, Idle, PutBack, Settled, Unchanged, Working
    <3>6. Sessions(recs)'
      <4>1. ~inherited' => log = <<>> /\ recs = <<>>
        BY <3>4, EmptyLog DEF recs
      <4>2. DOMAIN <<>> = {} /\ Len(<<>>) = 0
        OBVIOUS
      <4> QED BY <2>1, <3>1, <3>4, <4>1, <4>2 DEF Sessions
    <3> QED BY <3>1, <3>5, <3>6
  <2>18. CASE UNCHANGED vars
    <3>1. recs' = recs /\ LogWhole'
      BY <2>5, <2>18 DEF vars
    <3>2. Contents' /\ Idle' /\ Settled(recs)' /\ Unchanged(recs)'
      BY <2>1, <2>18, <3>1 DEF vars, mem, history, Contents, Idle, PutBack, Settled, Unchanged
    <3>3. Sessions(recs)' /\ Working(recs)'
      BY <2>1, <2>18, <3>1 DEF vars, mem, history, Sessions, Working, Touched
    <3> QED BY <3>1, <3>2, <3>3
  <2> QED BY <2>8, <2>9, <2>10, <2>11, <2>12, <2>13, <2>14, <2>15, <2>16, <2>17,
            <2>18, <2>19, <2>20 DEF Next
<1> QED BY <1>2, <1>3

\* The invariant holds in every reachable state.
LEMMA RecoverableAlways == ASSUME HabitsKept PROVE Spec => []Recoverable
<1>1. Inv => Numbering
  BY DEF Inv
<1>2. Numbering /\ Recoverable /\ [Next]_vars => Recoverable'
  BY NextRecoverable
<1> QED BY <1>1, <1>2, InitRecoverable, Invariance, PTL DEF Spec

-----------------------------------------------------------------------------
(* Theorems                                                                *)

\* A Database can always be opened again, and outside the two windows of Mishaps
\* its pages are exactly what was committed whenever no transaction is under way,
\* for any pages, values and number of transactions and stops: transaction() keeps
\* all of its statements or, after an exception or a failing commit, none, however
\* BEGIN, CHECKPOINT and stops come in between, and replay_wal changes nothing: the
\* log holds whole TX_COMMIT and TX_ROLLBACK frames only, however often a new
\* session wrote over the frames of an older one from offset 0.
THEOREM DatabaseIsExact == Spec => []DatabaseRecovered
<1>1. Inv => DatabaseRecovered
  BY DEF Inv, DbSafe, Restorable, DatabaseRecovered, AlwaysOpens, IdleIsCommitted
<1> QED BY <1>1, Invariance, PTL

\* A client that logs a change before it makes it, changes a page once per
\* transaction, truncates a log it finds at open and runs CHECKPOINT between
\* transactions always opens the database again, and finds exactly its committed
\* writes, for any number of pages, values, transactions, writes and stops and
\* wherever the stops fall: between the append and the page write, after a commit
\* record, or between an open and the truncation that should follow it, when the
\* same log is replayed a second time.
THEOREM RecoveryIsExact == ASSUME HabitsKept PROVE Spec => []LoggedRecovered
<1>1. Recoverable => LoggedRecovered
  BY DEF Recoverable, Sessions, Idle, LoggedRecovered, AlwaysOpens, IdleIsCommitted
<1> QED BY <1>1, RecoverableAlways, PTL
===============================================================================
