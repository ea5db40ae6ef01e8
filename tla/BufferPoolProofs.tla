--------------------------- MODULE BufferPoolProofs ---------------------------
(***************************************************************************)
(* LatestKept and PinnedNotEvicted for every capacity and every set of     *)
(* clients, pages and values, when nobody puts a page that is in the pool. *)
(*                                                                         *)
(* The pin count of an entry is the number of clients that have it pinned, *)
(* so the victim of an eviction is nobody's.  A client's handle is the     *)
(* entry in the pool from the moment it is taken: until it is pinned no    *)
(* other call runs, and then it is not evicted.  An entry that is not      *)
(* dirty is what the file holds, so the victim's value is never lost.      *)
(***************************************************************************)
EXTENDS BufferPool, SequenceTheorems, FiniteSetTheorems, NaturalsInduction,
        WellFoundedInduction, TLAPS

Entries == [page : PageIds, value : Values, dirty : BOOLEAN, pins : Nat]

\* TypeOK without the history of uses.
Types ==
    /\ pool \in Seq(Entries)
    /\ handle \in [Clients -> PageIds \cup {NoPage}]
    /\ attached \in [Clients -> BOOLEAN]
    /\ pinned \in [Clients -> BOOLEAN]
    /\ disk \in [PageIds -> Values]
    /\ latest \in [PageIds -> Values]

OnePerPage == \A i, j \in DOMAIN pool : pool[i].page = pool[j].page => i = j

HandlesAttached == \A c \in Clients :
    /\ pinned[c] => handle[c] # NoPage
    /\ handle[c] # NoPage => attached[c] /\ Resident(handle[c])

Pinners(p) == {c \in Clients : pinned[c] /\ handle[c] = p}

PinsExact ==
    /\ \A p \in PageIds : IsFiniteSet(Pinners(p))
    /\ \A i \in DOMAIN pool : pool[i].pins = Cardinality(Pinners(pool[i].page))

Contents ==
    /\ \A i \in DOMAIN pool :
          /\ latest[pool[i].page] = pool[i].value
          /\ pool[i].dirty \/ disk[pool[i].page] = pool[i].value
    /\ \A p \in PageIds : Resident(p) \/ latest[p] = disk[p]

Inv == Types /\ OnePerPage /\ HandlesAttached /\ PinsExact /\ Contents

-----------------------------------------------------------------------------
(* Positions, victims and room                                             *)

LEMMA PoolFacts ==
    ASSUME Types
    PROVE  /\ Len(pool) \in Nat /\ DOMAIN pool = 1..Len(pool)
           /\ \A i \in DOMAIN pool :
                 /\ pool[i] \in Entries /\ pool[i].page \in PageIds /\ pool[i].value \in Values
                 /\ pool[i].dirty \in BOOLEAN /\ pool[i].pins \in Nat
<1>1. Len(pool) \in Nat /\ DOMAIN pool = 1..Len(pool)
  BY DEF Types
<1>2. \A i \in DOMAIN pool : pool[i] \in Entries
  BY <1>1 DEF Types
<1>3. \A e \in Entries : e.page \in PageIds /\ e.value \in Values /\ e.dirty \in BOOLEAN /\ e.pins \in Nat
  BY DEF Entries
<1> QED BY <1>1, <1>2, <1>3

LEMMA ResidentFacts ==
    ASSUME NEW p
    PROVE  /\ Resident(p) <=> \E i \in DOMAIN pool : pool[i].page = p
           /\ Resident(p) => PositionOf(p) \in DOMAIN pool /\ pool[PositionOf(p)].page = p
<1>1. Resident(p) => PositionOf(p) \in Positions(p)
  BY DEF Resident, PositionOf
<1> QED BY <1>1 DEF Resident, Positions

LEMMA VictimFound ==
    ASSUME Types, Full, CanMakeRoom
    PROVE  Victim \in DOMAIN pool /\ pool[Victim].pins = 0
<1>1. Unpinned \subseteq Nat /\ Unpinned # {}
  BY PoolFacts DEF Unpinned, CanMakeRoom
<1>2. PICK i \in Unpinned : \A j \in Unpinned : i <= j
  <2> DEFINE R == OpToRel(<, Nat)
  <2>1. PICK i \in Unpinned : \A j \in Unpinned : ~(<<j, i>> \in R)
    BY <1>1, NatLessThanWellFounded, WFMin
  <2>2. \A j \in Unpinned : j < i => <<j, i>> \in R
    BY <1>1 DEF OpToRel
  <2>3. \A j \in Unpinned : j \in Nat /\ i \in Nat
    BY <1>1
  <2> HIDE DEF R
  <2>4. \A j \in Unpinned : ~(j < i)
    BY <2>1, <2>2
  <2>5. \A j \in Unpinned : i <= j
    BY <2>3, <2>4
  <2> QED BY <2>5
<1>3. Victim \in Unpinned
  BY <1>2 DEF Victim
<1> QED BY <1>3 DEF Unpinned

\* A sequence without the element at i.
LEMMA RemoveAtFacts ==
    ASSUME NEW S, NEW s \in Seq(S), NEW i \in 1..Len(s)
    PROVE  /\ RemoveAt(s, i) \in Seq(S) /\ Len(RemoveAt(s, i)) = Len(s) - 1
           /\ \A j \in 1..(Len(s) - 1) : RemoveAt(s, i)[j] = IF j < i THEN s[j] ELSE s[j + 1]
<1> DEFINE a == SubSeq(s, 1, i - 1)
           b == SubSeq(s, i + 1, Len(s))
<1>1. Len(s) \in Nat /\ i \in Nat /\ i >= 1 /\ i <= Len(s)
  OBVIOUS
<1>2. a \in Seq(S) /\ Len(a) = i - 1 /\ \A j \in 1..(i - 1) : a[j] = s[j]
  BY <1>1, SubSeqProperties
<1>3. b \in Seq(S) /\ Len(b) = Len(s) - i /\ \A j \in 1..(Len(s) - i) : b[j] = s[i + j]
  BY <1>1, SubSeqProperties
<1> HIDE DEF a, b
<1>4. /\ a \o b \in Seq(S) /\ Len(a \o b) = Len(a) + Len(b)
      /\ \A j \in 1..(Len(a) + Len(b)) : (a \o b)[j] = IF j <= Len(a) THEN a[j] ELSE b[j - Len(a)]
  BY <1>2, <1>3, ConcatProperties
<1>5. Len(a) + Len(b) = Len(s) - 1
  BY <1>1, <1>2, <1>3
<1>6. ASSUME NEW j \in 1..(Len(s) - 1)
      PROVE  (a \o b)[j] = IF j < i THEN s[j] ELSE s[j + 1]
  <2>1. CASE j < i
    BY <1>1, <1>2, <1>4, <1>5, <2>1
  <2>2. CASE ~(j < i)
    <3>1. j - (i - 1) \in 1..(Len(s) - i) /\ i + (j - (i - 1)) = j + 1
      BY <1>1, <2>2
    <3>2. (a \o b)[j] = b[j - (i - 1)]
      BY <1>1, <1>2, <1>4, <1>5, <2>2
    <3> QED BY <1>3, <2>2, <3>1, <3>2
  <2> QED BY <2>1, <2>2
<1> QED BY <1>4, <1>5, <1>6 DEF RemoveAt, a, b

\* After _evict_if_full the pool holds the entries of the pages that stay.
LEMMA RoomFacts ==
    ASSUME Types, OnePerPage, CanMakeRoom
    PROVE  /\ PoolWithRoom \in Seq(Entries)
           /\ \A j \in 1..Len(PoolWithRoom) : \E i \in DOMAIN pool :
                 PoolWithRoom[j] = pool[i] /\ pool[i].page \notin Evicted
           /\ \A i \in DOMAIN pool : pool[i].page \notin Evicted =>
                 \E j \in 1..Len(PoolWithRoom) : PoolWithRoom[j] = pool[i]
           /\ \A j, k \in 1..Len(PoolWithRoom) :
                 PoolWithRoom[j].page = PoolWithRoom[k].page => j = k
<1>1. CASE ~Full
  BY <1>1, PoolFacts DEF PoolWithRoom, Evicted, Types, OnePerPage
<1>2. CASE Full
  <2> DEFINE v == Victim
             q == RemoveAt(pool, v)
             n == Len(pool)
  <2>1. n \in Nat /\ v \in 1..n /\ v \in Nat /\ DOMAIN pool = 1..n
    BY <1>2, VictimFound, PoolFacts
  <2>2. PoolWithRoom = q /\ Evicted = {pool[v].page}
    BY <1>2 DEF PoolWithRoom, Evicted
  <2>3. /\ q \in Seq(Entries) /\ Len(q) = n - 1
        /\ \A j \in 1..(n - 1) : q[j] = IF j < v THEN pool[j] ELSE pool[j + 1]
    BY <2>1, RemoveAtFacts DEF Types
  <2> HIDE DEF q, v, n
  <2>4. \A i \in 1..n : pool[i].page \in Evicted <=> i = v
    BY <2>1, <2>2 DEF OnePerPage
  <2>5. ASSUME NEW j \in 1..(n - 1)
        PROVE  \E i \in 1..n : q[j] = pool[i] /\ i # v
    <3>1. CASE j < v
      <4>1. j \in 1..n /\ j # v
        BY <2>1, <3>1
      <4> QED BY <2>3, <3>1, <4>1
    <3>2. CASE ~(j < v)
      <4>1. j + 1 \in 1..n /\ j + 1 # v
        BY <2>1, <3>2
      <4> QED BY <2>3, <3>2, <4>1
    <3> QED BY <3>1, <3>2
  <2>6. ASSUME NEW i \in 1..n, i # v
        PROVE  \E j \in 1..(n - 1) : q[j] = pool[i]
    <3>1. CASE i < v
      <4>1. i \in 1..(n - 1)
        BY <2>1, <3>1
      <4> QED BY <2>3, <3>1, <4>1
    <3>2. CASE ~(i < v)
      <4>1. i - 1 \in 1..(n - 1) /\ ~(i - 1 < v) /\ (i - 1) + 1 = i
        BY <2>1, <2>6, <3>2
      <4> QED BY <2>3, <4>1
    <3> QED BY <3>1, <3>2
  <2>7. ASSUME NEW j \in 1..(n - 1), NEW k \in 1..(n - 1), q[j].page = q[k].page
        PROVE  j = k
    <3> DEFINE Old(x) == IF x < v THEN x ELSE x + 1
    <3>1. Old(j) \in 1..n /\ Old(k) \in 1..n /\ (Old(j) = Old(k) => j = k)
      BY <2>1
    <3>2. q[j] = pool[Old(j)] /\ q[k] = pool[Old(k)]
      BY <2>3
    <3> QED BY <2>1, <2>7, <3>1, <3>2 DEF OnePerPage
  <2>8. \A j \in 1..(n - 1) : \E i \in DOMAIN pool : q[j] = pool[i] /\ pool[i].page \notin Evicted
    BY <2>1, <2>4, <2>5
  <2>9. \A i \in DOMAIN pool : pool[i].page \notin Evicted => \E j \in 1..(n - 1) : q[j] = pool[i]
    BY <2>1, <2>4, <2>6
  <2>10. \A j, k \in 1..(n - 1) : q[j].page = q[k].page => j = k
    BY <2>7
  <2> QED BY <2>2, <2>3, <2>8, <2>9, <2>10
<1> QED BY <1>1, <1>2

\* A page that is not in the pool is stored at its end.
LEMMA AddFacts ==
    ASSUME Types, OnePerPage, CanMakeRoom, NEW e \in Entries, ~Resident(e.page),
           pool' = Append(PoolWithRoom, e)
    PROVE  /\ pool' \in Seq(Entries)
           /\ \A j \in DOMAIN pool' : pool'[j] = e \/
                 \E i \in DOMAIN pool : pool'[j] = pool[i] /\ pool[i].page \notin Evicted
           /\ OnePerPage'
           /\ \A p : Resident(p)' <=> p = e.page \/ (Resident(p) /\ p \notin Evicted)
<1> DEFINE q == PoolWithRoom
           n == Len(q)
<1>1. /\ q \in Seq(Entries)
      /\ \A j \in 1..n : \E i \in DOMAIN pool : q[j] = pool[i] /\ pool[i].page \notin Evicted
      /\ \A i \in DOMAIN pool : pool[i].page \notin Evicted => \E j \in 1..n : q[j] = pool[i]
      /\ \A j, k \in 1..n : q[j].page = q[k].page => j = k
  BY RoomFacts
<1> HIDE DEF q
<1>2. n \in Nat
  BY <1>1
<1> HIDE DEF n
<1>3. /\ pool' \in Seq(Entries) /\ DOMAIN pool' = 1..(n + 1)
      /\ pool'[n + 1] = e /\ \A j \in 1..n : pool'[j] = q[j]
  BY <1>1, <1>2, AppendProperties DEF q, n
<1>4. \A j \in 1..(n + 1) : j = n + 1 \/ j \in 1..n
  BY <1>2
<1>5. \A j \in 1..n : j \in 1..(n + 1)
  BY <1>2
<1>6. n + 1 \in 1..(n + 1)
  BY <1>2
<1>7. \A j \in 1..n : q[j].page # e.page
  BY <1>1, ResidentFacts
<1>8. OnePerPage'
  <2>1. SUFFICES ASSUME NEW i \in DOMAIN pool', NEW j \in DOMAIN pool',
                        pool'[i].page = pool'[j].page
                 PROVE  i = j
    BY DEF OnePerPage
  <2>2. (i = n + 1 \/ i \in 1..n) /\ (j = n + 1 \/ j \in 1..n)
    BY <1>3, <1>4
  <2>3. i \in 1..n => pool'[i].page # e.page
    BY <1>3, <1>7
  <2>4. j \in 1..n => pool'[j].page # e.page
    BY <1>3, <1>7
  <2>5. i \in 1..n /\ j \in 1..n => i = j
    BY <1>1, <1>3, <2>1
  <2> QED BY <1>3, <2>1, <2>2, <2>3, <2>4, <2>5
<1>9. ASSUME NEW p
      PROVE  Resident(p)' <=> p = e.page \/ (Resident(p) /\ p \notin Evicted)
  <2>1. Resident(p)' <=> \E j \in DOMAIN pool' : pool'[j].page = p
    BY DEF Resident, Positions
  <2>2. Resident(p) <=> \E i \in DOMAIN pool : pool[i].page = p
    BY ResidentFacts
  <2>3. Resident(p)' => p = e.page \/ (Resident(p) /\ p \notin Evicted)
    <3>1. SUFFICES ASSUME NEW j \in 1..n, pool'[j].page = p
                   PROVE  Resident(p) /\ p \notin Evicted
      BY <1>3, <1>4, <2>1
    <3>2. PICK i \in DOMAIN pool : q[j] = pool[i] /\ pool[i].page \notin Evicted
      BY <1>1
    <3>3. pool[i].page = p
      BY <1>3, <3>1, <3>2
    <3> QED BY <2>2, <3>2, <3>3
  <2>4. p = e.page => Resident(p)'
    BY <1>3, <1>6, <2>1
  <2>5. Resident(p) /\ p \notin Evicted => Resident(p)'
    <3>1. SUFFICES ASSUME Resident(p), p \notin Evicted
                   PROVE  \E j \in DOMAIN pool' : pool'[j].page = p
      BY <2>1
    <3>2. PICK i \in DOMAIN pool : pool[i].page = p
      BY <2>2, <3>1
    <3>3. PICK j \in 1..n : q[j] = pool[i]
      BY <1>1, <3>1, <3>2
    <3> QED BY <1>3, <1>5, <3>2, <3>3
  <2> QED BY <2>3, <2>4, <2>5
<1>10. ASSUME NEW j \in DOMAIN pool'
       PROVE  pool'[j] = e \/
                 \E i \in DOMAIN pool : pool'[j] = pool[i] /\ pool[i].page \notin Evicted
  <2>1. CASE j = n + 1
    BY <1>3, <2>1
  <2>2. CASE j \in 1..n
    <3>1. PICK i \in DOMAIN pool : q[j] = pool[i] /\ pool[i].page \notin Evicted
      BY <1>1, <2>2
    <3>2. pool'[j] = pool[i]
      BY <1>3, <2>2, <3>1
    <3> QED BY <3>1, <3>2
  <2> QED BY <1>3, <1>4, <2>1, <2>2
<1> QED BY <1>3, <1>8, <1>9, <1>10

\* The entry at a position is changed and its page is not.
LEMMA SetFacts ==
    ASSUME Types, OnePerPage, NEW k \in DOMAIN pool, NEW e \in Entries,
           e.page = pool[k].page, pool' = [pool EXCEPT ![k] = e]
    PROVE  /\ pool' \in Seq(Entries) /\ DOMAIN pool' = DOMAIN pool
           /\ pool'[k] = e /\ \A i \in DOMAIN pool : i # k => pool'[i] = pool[i]
           /\ \A i \in DOMAIN pool : pool'[i].page = pool[i].page
           /\ OnePerPage'
           /\ \A p : Resident(p)' <=> Resident(p)
<1>1. Len(pool) \in Nat /\ DOMAIN pool = 1..Len(pool)
  BY PoolFacts
<1>2. pool' \in Seq(Entries) /\ Len(pool') = Len(pool)
  BY <1>1, ExceptSeq DEF Types
<1>3. /\ DOMAIN pool' = DOMAIN pool
      /\ pool'[k] = e /\ \A i \in DOMAIN pool : i # k => pool'[i] = pool[i]
  BY <1>1
<1>4. \A i \in DOMAIN pool : pool'[i].page = pool[i].page
  BY <1>3
<1>5. OnePerPage'
  BY <1>3, <1>4 DEF OnePerPage
<1>6. \A p : Resident(p)' <=> Resident(p)
  BY <1>3, <1>4 DEF Resident, Positions
<1> QED BY <1>2, <1>3, <1>4, <1>5, <1>6

-----------------------------------------------------------------------------
(* What an eviction takes                                                  *)

\* Nobody has the victim pinned, so nobody has a handle on it.
LEMMA NobodysVictim ==
    ASSUME Inv, CanMakeRoom
    PROVE  \A c \in Clients : pinned[c] => handle[c] \notin Evicted
<1> SUFFICES ASSUME NEW c \in Clients, pinned[c], handle[c] \in Evicted
             PROVE  FALSE
  OBVIOUS
<1> USE DEF Inv
<1>1. Full /\ handle[c] = pool[Victim].page
  BY DEF Evicted
<1>2. Victim \in DOMAIN pool /\ pool[Victim].pins = 0
  BY <1>1, VictimFound
<1>3. Cardinality(Pinners(handle[c])) = 0
  BY <1>1, <1>2 DEF PinsExact
<1>4. IsFiniteSet(Pinners(handle[c]))
  BY <1>1, <1>2, PoolFacts DEF PinsExact
<1>5. Pinners(handle[c]) = {}
  BY <1>3, <1>4, FS_EmptySet
<1> QED BY <1>5 DEF Pinners

\* The victim's last value is in the file when the victim is gone.
LEMMA VictimSaved ==
    ASSUME Inv, CanMakeRoom
    PROVE  /\ DiskWithRoom \in [PageIds -> Values]
           /\ \A p \in PageIds : DiskWithRoom[p] = IF p \in Evicted THEN latest[p] ELSE disk[p]
<1> USE DEF Inv
<1>1. CASE ~Full
  BY <1>1 DEF DiskWithRoom, Evicted, Types
<1>2. CASE Full
  <2> DEFINE e == pool[Victim]
  <2>1. Victim \in DOMAIN pool
    BY <1>2, VictimFound
  <2>2. e.page \in PageIds /\ e.value \in Values
    BY <2>1, PoolFacts
  <2>3. latest[e.page] = e.value /\ (e.dirty \/ disk[e.page] = e.value)
    BY <2>1 DEF Contents
  <2>4. Evicted = {e.page}
    BY <1>2 DEF Evicted
  <2>5. DiskWithRoom = IF e.dirty THEN [disk EXCEPT ![e.page] = e.value] ELSE disk
    BY <1>2 DEF DiskWithRoom
  <2> HIDE DEF e
  <2> QED BY <2>2, <2>3, <2>4, <2>5 DEF Types
<1> QED BY <1>1, <1>2

-----------------------------------------------------------------------------
(* The steps                                                               *)

LEMMA InitInv == ASSUME Init PROVE Inv
<1>1. Types
  <2>1. pool \in Seq(Entries)
    BY DEF Init
  <2> QED BY <2>1 DEF Init, Types
<1>2. DOMAIN pool = {}
  BY DEF Init
<1>3. OnePerPage /\ HandlesAttached
  BY <1>2 DEF Init, OnePerPage, HandlesAttached
<1>4. \A p : Pinners(p) = {}
  BY DEF Init, Pinners
<1>5. PinsExact
  BY <1>2, <1>4, FS_EmptySet DEF PinsExact
<1>6. Contents
  BY <1>2 DEF Init, Contents
<1> QED BY <1>1, <1>3, <1>5, <1>6 DEF Inv

LEMMA GetHitInv ==
    ASSUME Inv, NEW c \in Clients, NEW p \in PageIds, GetHit(c, p)
    PROVE  Inv'
<1> USE DEF Inv, GetHit
<1>1. Types'
  BY DEF Types
<1>2. OnePerPage' /\ Contents'
  BY DEF OnePerPage, Contents, Resident, Positions
<1>3. HandlesAttached'
  BY DEF HandlesAttached, Types, Resident, Positions
<1>4. \A q \in PageIds : Pinners(q)' = Pinners(q)
  BY DEF Pinners, HandlesAttached, Types
<1>5. PinsExact'
  BY <1>4, PoolFacts DEF PinsExact
<1> QED BY <1>1, <1>2, <1>3, <1>5

\* GetMiss and the Put of a page that is not in the pool.
LEMMA AddInv ==
    ASSUME Inv, Settled, CanMakeRoom,
           NEW c \in Clients, handle[c] = NoPage,
           NEW e \in Entries, ~Resident(e.page), e.pins = 0,
           pool' = Append(PoolWithRoom, e),
           disk' = DiskWithRoom,
           handle' = [handle EXCEPT ![c] = e.page],
           NEW gone, gone \subseteq Evicted \cup {e.page}, Detach(gone, c, TRUE),
           latest' = [latest EXCEPT ![e.page] = e.value],
           e.dirty \/ disk'[e.page] = e.value,
           pinned' = pinned
    PROVE  Inv'
<1> USE DEF Inv
<1>1. e.page \in PageIds /\ e.value \in Values
  BY DEF Entries
<1>2. /\ pool' \in Seq(Entries)
      /\ \A j \in DOMAIN pool' : pool'[j] = e \/
            \E i \in DOMAIN pool : pool'[j] = pool[i] /\ pool[i].page \notin Evicted
      /\ OnePerPage'
      /\ \A p : Resident(p)' <=> p = e.page \/ (Resident(p) /\ p \notin Evicted)
  BY AddFacts
<1>3. /\ DiskWithRoom \in [PageIds -> Values]
      /\ \A p \in PageIds : DiskWithRoom[p] = IF p \in Evicted THEN latest[p] ELSE disk[p]
  BY VictimSaved
<1>4. \A i \in DOMAIN pool : pool[i].page \in PageIds /\ pool[i].page # e.page
  BY PoolFacts, ResidentFacts
<1>5. \A x \in Clients : handle[x] # NoPage => /\ pinned[x] /\ attached[x] /\ handle[x] # e.page
                                               /\ Resident(handle[x]) /\ handle[x] \notin Evicted
  BY NobodysVictim DEF Settled, HandlesAttached
<1>6. ~pinned[c]
  BY DEF HandlesAttached
<1>7. Types'
  <2>1. attached' \in [Clients -> BOOLEAN]
    BY DEF Detach, Types
  <2> QED BY <1>1, <1>2, <1>3, <2>1 DEF Types
<1>8. HandlesAttached'
  <2>1. SUFFICES ASSUME NEW x \in Clients
                 PROVE  /\ pinned'[x] => handle'[x] # NoPage
                        /\ handle'[x] # NoPage => attached'[x] /\ Resident(handle[x])'
    BY DEF HandlesAttached
  <2>2. CASE x = c
    <3>1. handle'[x] = e.page /\ attached'[x]
      BY <2>2 DEF Detach, Types
    <3> QED BY <1>2, <1>6, <2>2, <3>1 DEF Resident, Positions
  <2>3. CASE x # c
    <3>1. handle'[x] = handle[x]
      BY <2>3 DEF Types
    <3>2. pinned'[x] => handle'[x] # NoPage
      BY <3>1 DEF HandlesAttached
    <3>3. attached'[x] <=> attached[x] /\ handle[x] \notin gone
      BY <2>3 DEF Detach
    <3>4. handle'[x] # NoPage => attached'[x] /\ Resident(handle[x])'
      BY <1>2, <1>5, <3>1, <3>3 DEF Resident, Positions
    <3> QED BY <3>2, <3>4
  <2> QED BY <2>2, <2>3
<1>9. \A p \in PageIds : Pinners(p)' = Pinners(p)
  BY <1>6 DEF Pinners, Types
<1>10. Pinners(e.page) = {}
  BY <1>5 DEF Pinners, HandlesAttached
<1>11. PinsExact'
  <2>1. ASSUME NEW j \in DOMAIN pool'
        PROVE  pool'[j].pins = Cardinality(Pinners(pool[j].page)')
    <3>1. CASE pool'[j] = e
      BY <1>1, <1>9, <1>10, <3>1, FS_EmptySet DEF Pinners
    <3>2. ASSUME NEW i \in DOMAIN pool, pool'[j] = pool[i]
          PROVE  pool'[j].pins = Cardinality(Pinners(pool[j].page)')
      BY <1>4, <1>9, <3>2 DEF PinsExact, Pinners
    <3> QED BY <1>2, <3>1, <3>2
  <2> QED BY <1>9, <2>1 DEF PinsExact
<1>12. Contents'
  <2>1. ASSUME NEW j \in DOMAIN pool'
        PROVE  /\ latest'[pool'[j].page] = pool'[j].value
               /\ pool'[j].dirty \/ disk'[pool'[j].page] = pool'[j].value
    <3>1. CASE pool'[j] = e
      BY <1>1, <3>1 DEF Types
    <3>2. ASSUME NEW i \in DOMAIN pool, pool'[j] = pool[i], pool[i].page \notin Evicted
          PROVE  /\ latest'[pool'[j].page] = pool'[j].value
                 /\ pool'[j].dirty \/ disk'[pool'[j].page] = pool'[j].value
      <4>1. latest'[pool[i].page] = latest[pool[i].page]
        BY <1>4 DEF Types
      <4>2. disk'[pool[i].page] = disk[pool[i].page]
        BY <1>3, <1>4, <3>2
      <4> QED BY <3>2, <4>1, <4>2 DEF Contents
    <3> QED BY <1>2, <3>1, <3>2
  <2>2. ASSUME NEW p \in PageIds, ~Resident(p)'
        PROVE  latest'[p] = disk'[p]
    <3>1. p # e.page /\ (~Resident(p) \/ p \in Evicted)
      BY <1>2, <2>2
    <3>2. latest'[p] = latest[p]
      BY <3>1 DEF Types
    <3> QED BY <1>3, <3>1, <3>2 DEF Contents
  <2> QED BY <2>1, <2>2 DEF Contents
<1> QED BY <1>2, <1>7, <1>8, <1>11, <1>12

LEMMA GetMissInv ==
    ASSUME Inv, NEW c \in Clients, NEW p \in PageIds, GetMiss(c, p)
    PROVE  Inv'
<1> DEFINE e == Entry(p, disk'[p], FALSE)
<1>1. Settled /\ handle[c] = NoPage /\ ~Resident(p) /\ CanMakeRoom /\ disk' = DiskWithRoom
  BY DEF GetMiss
<1>2. disk' \in [PageIds -> Values] /\ disk'[p] \in Values
  BY <1>1, VictimSaved
<1>3. e.page = p /\ e.value = disk'[p] /\ e.pins = 0
  BY DEF Entry
<1>4. e \in Entries
  BY <1>2 DEF Entry, Entries
<1>5. /\ pool' = Append(PoolWithRoom, e) /\ handle' = [handle EXCEPT ![c] = e.page]
      /\ Detach(Evicted, c, TRUE) /\ pinned' = pinned
  BY <1>3 DEF GetMiss
<1>6. latest[p] = disk'[p]
  <2>1. latest[p] = disk[p]
    BY <1>1 DEF Inv, Contents
  <2> QED BY <1>1, <2>1, VictimSaved
<1>7. latest' = [latest EXCEPT ![e.page] = e.value]
  BY <1>3, <1>6 DEF GetMiss, Inv, Types
<1>8. ~Resident(e.page) /\ disk'[e.page] = e.value
  BY <1>1, <1>3
<1> HIDE DEF e
<1>9. Evicted \subseteq Evicted \cup {e.page}
  OBVIOUS
<1> QED BY <1>1, <1>3, <1>4, <1>5, <1>7, <1>8, <1>9, AddInv

LEMMA PutInv ==
    ASSUME Inv, ~PutResident,
           NEW c \in Clients, NEW p \in PageIds, NEW v \in Values, Put(c, p, v)
    PROVE  Inv'
<1> DEFINE e == Entry(p, v, TRUE)
<1>1. Settled /\ handle[c] = NoPage /\ ~Resident(p) /\ CanMakeRoom /\ disk' = DiskWithRoom
  BY DEF Put
<1>2. e.page = p /\ e.value = v /\ e.pins = 0 /\ e.dirty
  BY DEF Entry
<1>3. e \in Entries
  BY DEF Entry, Entries
<1>4. pool' = Append(PoolWithRoom, e)
  <2>1. pool' = Stored(PoolWithRoom, e)
    BY DEF Put
  <2>2. ASSUME NEW j \in DOMAIN PoolWithRoom
        PROVE  PoolWithRoom[j].page # p
    <3>1. /\ PoolWithRoom \in Seq(Entries)
          /\ \A k \in 1..Len(PoolWithRoom) : \E i \in DOMAIN pool :
                PoolWithRoom[k] = pool[i] /\ pool[i].page \notin Evicted
      BY <1>1, RoomFacts DEF Inv
    <3>2. j \in 1..Len(PoolWithRoom)
      BY <3>1
    <3>3. PICK i \in DOMAIN pool : PoolWithRoom[j] = pool[i]
      BY <3>1, <3>2
    <3> QED BY <1>1, <3>3, ResidentFacts
  <2> HIDE DEF e
  <2> QED BY <1>2, <2>1, <2>2 DEF Stored
<1>5. /\ handle' = [handle EXCEPT ![c] = e.page] /\ pinned' = pinned
      /\ Detach(Evicted \cup {e.page}, c, TRUE)
      /\ latest' = [latest EXCEPT ![e.page] = e.value]
  BY <1>2 DEF Put
<1>6. ~Resident(e.page)
  BY <1>1, <1>2
<1> HIDE DEF e
<1>7. Evicted \cup {e.page} \subseteq Evicted \cup {e.page}
  OBVIOUS
<1> QED BY <1>1, <1>2, <1>3, <1>4, <1>5, <1>6, <1>7, AddInv

LEMMA FlushAllInv ==
    ASSUME Inv, FlushAll
    PROVE  Inv'
<1> USE DEF Inv
<1>1. Len(pool) \in Nat /\ DOMAIN pool = 1..Len(pool)
  BY PoolFacts
<1>2. /\ pool' = [i \in DOMAIN pool |-> [pool[i] EXCEPT !.dirty = FALSE]]
      /\ disk' = [p \in PageIds |-> IF Resident(p) /\ pool[PositionOf(p)].dirty
                                      THEN pool[PositionOf(p)].value ELSE disk[p]]
      /\ UNCHANGED <<handle, attached, pinned, latest>>
  BY DEF FlushAll
<1>3. ASSUME NEW i \in DOMAIN pool
      PROVE  /\ pool'[i] \in Entries /\ pool'[i].page = pool[i].page
             /\ pool'[i].value = pool[i].value /\ pool'[i].pins = pool[i].pins
  <2>1. PICK e \in Entries : e = pool[i]
    BY PoolFacts
  <2>2. pool'[i] = [e EXCEPT !.dirty = FALSE]
    BY <1>2, <2>1
  <2> QED BY <2>1, <2>2 DEF Entries
<1>4. DOMAIN pool' = DOMAIN pool
  BY <1>2
<1>5. pool' \in Seq(Entries)
  <2>1. pool' \in [1..Len(pool) -> Entries]
    BY <1>1, <1>2, <1>3
  <2> QED BY <1>1, <2>1
<1>6. OnePerPage'
  BY <1>3, <1>4 DEF OnePerPage
<1>7. \A p : Resident(p)' <=> Resident(p)
  BY <1>3, <1>4 DEF Resident, Positions
<1>8. ASSUME NEW p \in PageIds
      PROVE  disk'[p] \in Values /\ disk'[p] = latest[p]
  <2>1. latest[p] \in Values
    BY DEF Types
  <2>2. CASE Resident(p)
    <3>1. PositionOf(p) \in DOMAIN pool /\ pool[PositionOf(p)].page = p
      BY <2>2, ResidentFacts
    <3> QED BY <1>2, <2>1, <2>2, <3>1 DEF Contents
  <2>3. CASE ~Resident(p)
    BY <1>2, <2>1, <2>3 DEF Contents
  <2> QED BY <2>2, <2>3
<1>9. disk' \in [PageIds -> Values]
  BY <1>2, <1>8
<1>10. Types'
  BY <1>2, <1>5, <1>9 DEF Types
<1>11. HandlesAttached'
  BY <1>2, <1>7 DEF HandlesAttached, Resident, Positions
<1>12. \A p : Pinners(p)' = Pinners(p)
  BY <1>2 DEF Pinners
<1>13. PinsExact'
  <2>1. ASSUME NEW i \in DOMAIN pool'
        PROVE  pool'[i].pins = Cardinality(Pinners(pool[i].page)')
    <3>1. i \in DOMAIN pool /\ pool'[i].pins = pool[i].pins /\ pool'[i].page = pool[i].page
      BY <1>3, <1>4
    <3>2. Pinners(pool[i].page)' = Pinners(pool[i].page)
      BY <1>2, <3>1 DEF Pinners
    <3> QED BY <3>1, <3>2 DEF PinsExact
  <2> QED BY <1>12, <2>1 DEF PinsExact
<1>14. Contents'
  <2>1. ASSUME NEW i \in DOMAIN pool'
        PROVE  latest'[pool'[i].page] = pool'[i].value /\ disk'[pool'[i].page] = pool'[i].value
    <3>1. i \in DOMAIN pool /\ pool[i].page \in PageIds /\ latest[pool[i].page] = pool[i].value
      BY <1>4, PoolFacts DEF Contents
    <3> QED BY <1>2, <1>3, <1>8, <3>1
  <2>2. \A p \in PageIds : latest'[p] = disk'[p]
    BY <1>2, <1>8
  <2> QED BY <2>1, <2>2 DEF Contents
<1> QED BY <1>6, <1>10, <1>11, <1>13, <1>14

\* A handle that is held is the entry of its page in the pool.
LEMMA HeldEntry ==
    ASSUME Inv, NEW c \in Clients, handle[c] # NoPage
    PROVE  /\ PositionOf(handle[c]) \in DOMAIN pool /\ handle[c] \in PageIds
           /\ EntryOf(c) \in Entries /\ EntryOf(c).page = handle[c]
           /\ \A e : SetEntry(c, e) => pool' = [pool EXCEPT ![PositionOf(handle[c])] = e]
<1> USE DEF Inv
<1>1. attached[c] /\ Resident(handle[c])
  BY DEF HandlesAttached
<1>2. PositionOf(handle[c]) \in DOMAIN pool /\ pool[PositionOf(handle[c])].page = handle[c]
  BY <1>1, ResidentFacts
<1>3. handle[c] \in PageIds
  BY DEF Types
<1> QED BY <1>1, <1>2, <1>3, PoolFacts DEF EntryOf, SetEntry

LEMMA PinInv ==
    ASSUME Inv, NEW c \in Clients, Pin(c)
    PROVE  Inv'
<1> DEFINE k == PositionOf(handle[c])
<1> USE DEF Inv
<1>1. /\ handle[c] # NoPage /\ ~pinned[c] /\ pinned' = [pinned EXCEPT ![c] = TRUE]
      /\ SetEntry(c, [EntryOf(c) EXCEPT !.pins = @ + 1])
      /\ UNCHANGED <<handle, attached, disk, latest>>
  BY DEF Pin
<1>2. k \in DOMAIN pool /\ handle[c] \in PageIds /\ pool[k].page = handle[c]
  BY <1>1, HeldEntry DEF EntryOf
<1>3. PICK o \in Entries : o = pool[k]
  BY <1>2, PoolFacts
<1>4. pool' = [pool EXCEPT ![k] = [o EXCEPT !.pins = @ + 1]]
  BY <1>1, <1>3, HeldEntry DEF EntryOf
<1> HIDE DEF k
<1>5. PICK e \in Entries : /\ e = [o EXCEPT !.pins = @ + 1]
                           /\ e.page = o.page /\ e.value = o.value
                           /\ e.dirty = o.dirty /\ e.pins = o.pins + 1
  <2>1. [o EXCEPT !.pins = @ + 1] \in Entries
    BY DEF Entries
  <2> QED BY <2>1 DEF Entries
<1>6. /\ pool' \in Seq(Entries) /\ DOMAIN pool' = DOMAIN pool
      /\ pool'[k] = e /\ \A i \in DOMAIN pool : i # k => pool'[i] = pool[i]
      /\ \A i \in DOMAIN pool : pool'[i].page = pool[i].page
      /\ OnePerPage'
      /\ \A p : Resident(p)' <=> Resident(p)
  BY <1>2, <1>3, <1>4, <1>5, SetFacts
<1>7. Types'
  BY <1>1, <1>6 DEF Types
<1>8. HandlesAttached'
  BY <1>1, <1>6 DEF HandlesAttached, Types, Resident, Positions
<1>9. \A p : p # handle[c] => Pinners(p)' = Pinners(p)
  BY <1>1 DEF Pinners, Types
<1>10. Pinners(handle[c])' = Pinners(handle[c]) \cup {c} /\ c \notin Pinners(handle[c])
  BY <1>1 DEF Pinners, Types
<1>11. IsFiniteSet(Pinners(handle[c]))
  BY <1>2 DEF PinsExact
<1>12. /\ IsFiniteSet(Pinners(handle[c]) \cup {c})
       /\ Cardinality(Pinners(handle[c]) \cup {c}) = Cardinality(Pinners(handle[c])) + 1
  BY <1>10, <1>11, FS_AddElement
<1>13. PinsExact'
  <2>1. ASSUME NEW p \in PageIds PROVE IsFiniteSet(Pinners(p)')
    <3>1. CASE p = handle[c]
      BY <1>1, <1>10, <1>12, <3>1 DEF Pinners
    <3>2. CASE p # handle[c]
      BY <1>9, <3>2 DEF PinsExact
    <3> QED BY <3>1, <3>2
  <2>2. ASSUME NEW i \in DOMAIN pool'
        PROVE  pool'[i].pins = Cardinality(Pinners(pool[i].page)')
    <3>1. CASE i = k
      <4>1. pool'[i].pins = Cardinality(Pinners(handle[c])) + 1
        BY <1>2, <1>3, <1>5, <1>6, <3>1 DEF PinsExact
      <4>2. Pinners(pool[i].page)' = Pinners(handle[c]) \cup {c}
        BY <1>1, <1>2, <1>6, <1>10, <3>1 DEF Pinners
      <4> QED BY <1>12, <4>1, <4>2
    <3>2. CASE i # k
      <4>1. i \in DOMAIN pool /\ pool'[i] = pool[i]
        BY <1>6, <3>2
      <4>2. pool[i].page # handle[c]
        BY <1>2, <3>2, <4>1 DEF OnePerPage
      <4>3. Pinners(pool[i].page)' = Pinners(pool[i].page)
        BY <1>9, <4>1, <4>2 DEF Pinners
      <4> QED BY <4>1, <4>3 DEF PinsExact
    <3> QED BY <3>1, <3>2
  <2> QED BY <2>1, <2>2 DEF PinsExact
<1>14. Contents'
  <2>1. ASSUME NEW i \in DOMAIN pool
        PROVE  /\ pool'[i].page = pool[i].page /\ pool'[i].value = pool[i].value
               /\ pool'[i].dirty = pool[i].dirty
    BY <1>3, <1>5, <1>6
  <2> QED BY <1>1, <1>6, <2>1 DEF Contents
<1> QED BY <1>6, <1>7, <1>8, <1>13, <1>14

LEMMA UnpinInv ==
    ASSUME Inv, NEW c \in Clients, Unpin(c)
    PROVE  Inv'
<1> DEFINE k == PositionOf(handle[c])
           h == handle[c]
<1> USE DEF Inv
<1>1. /\ pinned[c] /\ pinned' = [pinned EXCEPT ![c] = FALSE]
      /\ SetEntry(c, [EntryOf(c) EXCEPT !.pins = IF @ > 0 THEN @ - 1 ELSE @])
      /\ handle' = [handle EXCEPT ![c] = NoPage] /\ attached' = [attached EXCEPT ![c] = FALSE]
      /\ UNCHANGED <<disk, latest>>
  BY DEF Unpin
<1>2. h # NoPage
  BY <1>1 DEF HandlesAttached
<1>3. k \in DOMAIN pool /\ h \in PageIds /\ pool[k].page = h
  BY <1>2, HeldEntry DEF EntryOf
<1>4. PICK o \in Entries : o = pool[k]
  BY <1>3, PoolFacts
<1>5. pool' = [pool EXCEPT ![k] = [o EXCEPT !.pins = IF @ > 0 THEN @ - 1 ELSE @]]
  BY <1>1, <1>2, <1>4, HeldEntry DEF EntryOf
<1> HIDE DEF k
<1>6. IsFiniteSet(Pinners(h)) /\ c \in Pinners(h) /\ o.pins = Cardinality(Pinners(h))
  BY <1>1, <1>3, <1>4 DEF PinsExact, Pinners
<1>7. /\ IsFiniteSet(Pinners(h) \ {c})
      /\ Cardinality(Pinners(h) \ {c}) = Cardinality(Pinners(h)) - 1
  BY <1>6, FS_RemoveElement
<1>8. Cardinality(Pinners(h)) \in Nat /\ Cardinality(Pinners(h) \ {c}) \in Nat
  BY <1>6, <1>7, FS_CardinalityType
<1>9. o.pins \in Nat /\ o.pins > 0
  BY <1>6, <1>7, <1>8
<1>10. PICK e \in Entries : /\ e = [o EXCEPT !.pins = IF @ > 0 THEN @ - 1 ELSE @]
                            /\ e.page = o.page /\ e.value = o.value
                            /\ e.dirty = o.dirty /\ e.pins = o.pins - 1
  <2>1. o.pins - 1 \in Nat
    BY <1>9
  <2>2. [o EXCEPT !.pins = IF @ > 0 THEN @ - 1 ELSE @] = [o EXCEPT !.pins = o.pins - 1]
    BY <1>9 DEF Entries
  <2>3. [o EXCEPT !.pins = o.pins - 1] \in Entries
    BY <2>1 DEF Entries
  <2> QED BY <2>1, <2>2, <2>3 DEF Entries
<1>11. /\ pool' \in Seq(Entries) /\ DOMAIN pool' = DOMAIN pool
       /\ pool'[k] = e /\ \A i \in DOMAIN pool : i # k => pool'[i] = pool[i]
       /\ \A i \in DOMAIN pool : pool'[i].page = pool[i].page
       /\ OnePerPage'
       /\ \A p : Resident(p)' <=> Resident(p)
  BY <1>3, <1>4, <1>5, <1>10, SetFacts
<1>12. Types'
  BY <1>1, <1>11 DEF Types
<1>13. HandlesAttached'
  <2>1. SUFFICES ASSUME NEW x \in Clients
                 PROVE  /\ pinned'[x] => handle'[x] # NoPage
                        /\ handle'[x] # NoPage => attached'[x] /\ Resident(handle[x])'
    BY DEF HandlesAttached
  <2>2. CASE x = c
    BY <1>1, <2>2 DEF Types
  <2>3. CASE x # c
    <3>1. handle'[x] = handle[x] /\ attached'[x] = attached[x] /\ pinned'[x] = pinned[x]
      BY <1>1, <2>3 DEF Types
    <3> QED BY <1>11, <3>1 DEF HandlesAttached, Resident, Positions
  <2> QED BY <2>2, <2>3
<1>14. \A p : p # h => Pinners(p)' = Pinners(p)
  BY <1>1 DEF Pinners, Types
<1>15. {x \in Clients : pinned'[x] /\ handle'[x] = h} = Pinners(h) \ {c}
  BY <1>1 DEF Pinners, Types
<1>16. PinsExact'
  <2>1. ASSUME NEW p \in PageIds PROVE IsFiniteSet(Pinners(p)')
    <3>1. CASE p = h
      BY <1>7, <1>15, <3>1 DEF Pinners
    <3>2. CASE p # h
      BY <1>14, <3>2 DEF PinsExact
    <3> QED BY <3>1, <3>2
  <2>2. ASSUME NEW i \in DOMAIN pool'
        PROVE  pool'[i].pins = Cardinality(Pinners(pool[i].page)')
    <3>1. CASE i = k
      <4>1. pool'[i].pins = Cardinality(Pinners(h)) - 1
        BY <1>6, <1>10, <1>11, <3>1
      <4>2. pool'[i].page = h
        BY <1>3, <1>11, <3>1
      <4>3. Pinners(pool[i].page)' = Pinners(h) \ {c}
        BY <1>15, <4>2 DEF Pinners
      <4> QED BY <1>7, <4>1, <4>3
    <3>2. CASE i # k
      <4>1. i \in DOMAIN pool /\ pool'[i] = pool[i]
        BY <1>11, <3>2
      <4>2. pool[i].page # h
        BY <1>3, <3>2, <4>1 DEF OnePerPage
      <4>3. Pinners(pool[i].page)' = Pinners(pool[i].page)
        BY <1>14, <4>1, <4>2 DEF Pinners
      <4> QED BY <4>1, <4>3 DEF PinsExact
    <3> QED BY <3>1, <3>2
  <2> QED BY <2>1, <2>2 DEF PinsExact
<1>17. Contents'
  <2>1. ASSUME NEW i \in DOMAIN pool
        PROVE  /\ pool'[i].page = pool[i].page /\ pool'[i].value = pool[i].value
               /\ pool'[i].dirty = pool[i].dirty
    BY <1>4, <1>10, <1>11
  <2> QED BY <1>1, <1>11, <2>1 DEF Contents
<1> QED BY <1>11, <1>12, <1>13, <1>16, <1>17

LEMMA WriteInv ==
    ASSUME Inv, NEW c \in Clients, NEW v \in Values, Write(c, v)
    PROVE  Inv'
<1> DEFINE k == PositionOf(handle[c])
           h == handle[c]
<1> USE DEF Inv
<1>1. /\ pinned[c] /\ latest' = [latest EXCEPT ![h] = v]
      /\ SetEntry(c, [EntryOf(c) EXCEPT !.value = v, !.dirty = TRUE])
      /\ UNCHANGED <<handle, attached, pinned, disk>>
  BY DEF Write
<1>2. h # NoPage
  BY <1>1 DEF HandlesAttached
<1>3. k \in DOMAIN pool /\ h \in PageIds /\ pool[k].page = h
  BY <1>2, HeldEntry DEF EntryOf
<1>4. PICK o \in Entries : o = pool[k]
  BY <1>3, PoolFacts
<1>5. pool' = [pool EXCEPT ![k] = [o EXCEPT !.value = v, !.dirty = TRUE]]
  BY <1>1, <1>2, <1>4, HeldEntry DEF EntryOf
<1> HIDE DEF k
<1>6. PICK e \in Entries : /\ e = [o EXCEPT !.value = v, !.dirty = TRUE]
                           /\ e.page = o.page /\ e.value = v /\ e.dirty /\ e.pins = o.pins
  <2>1. [o EXCEPT !.value = v, !.dirty = TRUE] \in Entries
    BY DEF Entries
  <2> QED BY <2>1 DEF Entries
<1>7. /\ pool' \in Seq(Entries) /\ DOMAIN pool' = DOMAIN pool
      /\ pool'[k] = e /\ \A i \in DOMAIN pool : i # k => pool'[i] = pool[i]
      /\ \A i \in DOMAIN pool : pool'[i].page = pool[i].page
      /\ OnePerPage'
      /\ \A p : Resident(p)' <=> Resident(p)
  BY <1>3, <1>4, <1>5, <1>6, SetFacts
<1>8. Types'
  BY <1>1, <1>3, <1>7 DEF Types
<1>9. HandlesAttached'
  BY <1>1, <1>7 DEF HandlesAttached, Resident, Positions
<1>10. PinsExact'
  <2>1. \A p : Pinners(p)' = Pinners(p)
    BY <1>1 DEF Pinners
  <2>2. \A i \in DOMAIN pool : pool'[i].pins = pool[i].pins
    BY <1>4, <1>6, <1>7
  <2>3. ASSUME NEW i \in DOMAIN pool'
        PROVE  pool'[i].pins = Cardinality(Pinners(pool[i].page)')
    <3>1. i \in DOMAIN pool /\ pool'[i].pins = pool[i].pins /\ pool'[i].page = pool[i].page
      BY <1>7, <2>2
    <3>2. Pinners(pool[i].page)' = Pinners(pool[i].page)
      BY <1>1, <3>1 DEF Pinners
    <3> QED BY <3>1, <3>2 DEF PinsExact
  <2> QED BY <2>1, <2>3 DEF PinsExact
<1>11. Contents'
  <2>1. ASSUME NEW i \in DOMAIN pool'
        PROVE  /\ latest'[pool'[i].page] = pool'[i].value
               /\ pool'[i].dirty \/ disk'[pool'[i].page] = pool'[i].value
    <3>1. CASE i = k
      BY <1>1, <1>3, <1>6, <1>7, <3>1 DEF Types
    <3>2. CASE i # k
      <4>1. i \in DOMAIN pool /\ pool'[i] = pool[i] /\ pool[i].page \in PageIds
        BY <1>7, <3>2, PoolFacts
      <4>2. pool[i].page # h
        BY <1>3, <3>2, <4>1 DEF OnePerPage
      <4>3. latest'[pool[i].page] = latest[pool[i].page]
        BY <1>1, <4>1, <4>2 DEF Types
      <4> QED BY <1>1, <4>1, <4>3 DEF Contents
    <3> QED BY <3>1, <3>2
  <2>2. ASSUME NEW p \in PageIds, ~Resident(p)'
        PROVE  latest'[p] = disk'[p]
    <3>1. ~Resident(p) /\ p # h
      BY <1>3, <1>7, <2>2, ResidentFacts
    <3> QED BY <1>1, <3>1 DEF Contents, Types
  <2> QED BY <2>1, <2>2 DEF Contents
<1> QED BY <1>7, <1>8, <1>9, <1>10, <1>11

LEMMA NextInv ==
    ASSUME Inv, ~PutResident, [Next]_vars
    PROVE  Inv'
<1>1. CASE UNCHANGED vars
  <2>1. Types' /\ OnePerPage'
    BY <1>1 DEF vars, Inv, Types, OnePerPage
  <2>2. HandlesAttached' /\ Contents'
    BY <1>1 DEF vars, Inv, HandlesAttached, Contents, Resident, Positions
  <2>3. PinsExact'
    BY <1>1 DEF vars, Inv, PinsExact, Pinners
  <2> QED BY <2>1, <2>2, <2>3 DEF Inv
<1>2. CASE FlushAll
  BY <1>2, FlushAllInv
<1>3. ASSUME NEW c \in Clients, Pin(c) PROVE Inv'
  BY <1>3, PinInv
<1>4. ASSUME NEW c \in Clients, Unpin(c) PROVE Inv'
  BY <1>4, UnpinInv
<1>5. ASSUME NEW c \in Clients, NEW p \in PageIds, GetHit(c, p) PROVE Inv'
  BY <1>5, GetHitInv
<1>6. ASSUME NEW c \in Clients, NEW p \in PageIds, GetMiss(c, p) PROVE Inv'
  BY <1>6, GetMissInv
<1>7. ASSUME NEW c \in Clients, NEW v \in Values, Write(c, v) PROVE Inv'
  BY <1>7, WriteInv
<1>8. ASSUME NEW c \in Clients, NEW v \in Values, NEW p \in PageIds, Put(c, p, v) PROVE Inv'
  BY <1>8, PutInv
<1> QED BY <1>1, <1>2, <1>3, <1>4, <1>5, <1>6, <1>7, <1>8 DEF Next

-----------------------------------------------------------------------------
(* The theorems                                                            *)

\* No call loses a write: whatever is evicted, flushed and read again, the
\* last value written to a page is in the pool or, once it left, in the file,
\* as long as put() is not called for a page in the pool (storage.py, get, put
\* and _evict_if_full).
THEOREM NoWriteLost ==
    ASSUME ~PutResident
    PROVE  Spec => []LatestKept
<1>1. Init => Inv
  BY InitInv
<1>2. Inv /\ [Next]_vars => Inv'
  BY NextInv
<1>3. Inv => LatestKept
  <2>1. SUFFICES ASSUME Inv, NEW p \in PageIds
                 PROVE  latest[p] = IF Resident(p) THEN pool[PositionOf(p)].value ELSE disk[p]
    BY DEF LatestKept
  <2>2. CASE Resident(p)
    BY <2>1, <2>2, ResidentFacts DEF Inv, Contents
  <2>3. CASE ~Resident(p)
    BY <2>1, <2>3 DEF Inv, Contents
  <2> QED BY <2>2, <2>3
<1> QED BY <1>1, <1>2, <1>3, PTL DEF Spec

\* A step that leaves a client's pin alone leaves its page in the pool, because
\* the handle is still attached to an entry of the pool after the step; and the
\* client's own unpin() only changes a count.
LEMMA PinnedStays ==
    ASSUME Inv, ~PutResident, [Next]_vars, NEW c \in Clients, pinned[c]
    PROVE  Resident(handle[c]) /\ \A p : p = handle[c] => Resident(p)'
<1>1. handle[c] # NoPage /\ Resident(handle[c])
  BY DEF Inv, HandlesAttached
<1>2. CASE pinned'[c] /\ handle'[c] = handle[c]
  <2>1. Inv'
    BY NextInv
  <2>2. Resident(handle[c])'
    BY <1>1, <1>2, <2>1 DEF Inv, HandlesAttached
  <2> QED BY <1>1, <1>2, <2>2 DEF Resident, Positions
<1>3. CASE Unpin(c)
  <2> DEFINE k == PositionOf(handle[c])
             e == [EntryOf(c) EXCEPT !.pins = IF @ > 0 THEN @ - 1 ELSE @]
  <2>1. /\ k \in DOMAIN pool /\ EntryOf(c) \in Entries /\ EntryOf(c) = pool[k]
        /\ pool' = [pool EXCEPT ![k] = e]
    BY <1>1, <1>3, HeldEntry DEF EntryOf, Unpin
  <2>2. DOMAIN pool' = DOMAIN pool /\ \A i \in DOMAIN pool : i # k => pool'[i] = pool[i]
    BY <2>1
  <2>3. pool'[k] = e
    BY <2>1
  <2>4. e.page = pool[k].page
    BY <2>1 DEF Entries
  <2>5. \A i \in DOMAIN pool : pool'[i].page = pool[i].page
    BY <2>2, <2>3, <2>4
  <2> QED BY <1>1, <2>2, <2>5 DEF Resident, Positions
<1>4. ASSUME NEW x \in Clients, handle[x] = NoPage, NEW p, handle' = [handle EXCEPT ![x] = p],
             pinned' = pinned
      PROVE  pinned'[c] /\ handle'[c] = handle[c]
  BY <1>1, <1>4 DEF Inv, Types
<1>5. ASSUME NEW x \in Clients, Pin(x) \/ Unpin(x) \/ (\E v \in Values : Write(x, v))
      PROVE  Unpin(c) \/ (pinned'[c] /\ handle'[c] = handle[c])
  BY <1>5 DEF Pin, Unpin, Write, Inv, Types
<1>6. ASSUME NEW x \in Clients, NEW p \in PageIds,
             GetHit(x, p) \/ GetMiss(x, p) \/ (\E v \in Values : Put(x, p, v))
      PROVE  pinned'[c] /\ handle'[c] = handle[c]
  BY <1>4, <1>6 DEF GetHit, GetMiss, Put
<1>7. Unpin(c) \/ (pinned'[c] /\ handle'[c] = handle[c])
  BY <1>5, <1>6 DEF Next, FlushAll, vars
<1> QED BY <1>1, <1>2, <1>3, <1>7

\* A page that some client has pinned is not evicted before it is unpinned, as
\* long as put() is not called for a page in the pool (storage.py, pin, unpin
\* and _evict_if_full).
THEOREM PinsHold ==
    ASSUME ~PutResident
    PROVE  Spec => PinnedNotEvicted
<1>1. Init => Inv
  BY InitInv
<1>2. Inv /\ [Next]_vars => Inv'
  BY NextInv
<1>3. Inv /\ [Next]_vars =>
         [\A p \in PageIds : Resident(p) /\ ~Resident(p)' =>
             \A c \in Clients : pinned[c] => handle[c] # p]_vars
  BY PinnedStays
<1> QED BY <1>1, <1>2, <1>3, PTL DEF Spec, PinnedNotEvicted
===============================================================================
