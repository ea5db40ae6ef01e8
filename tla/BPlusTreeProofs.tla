--------------------------- MODULE BPlusTreeProofs ---------------------------
(***************************************************************************)
(* Proofs about the B+ tree of src/tinydb/index.py (module BPlusTree), for *)
(* every Order and every number of keys and pages.                         *)
(*                                                                         *)
(* The inductive invariant Inv sees a tree as the sequence of its leaves   *)
(* and the sequence of separators between them: the keys of a leaf lie     *)
(* between its separators, the chain of next links is the sequence of      *)
(* leaves, every page is owned by the tree, free or not yet allocated, and *)
(* every leaf has the right size.  It holds a fact the code does not state:*)
(* a tree has at most two levels, because _split_and_propagate never       *)
(* splits a root that is an internal node.  For the same reason the root   *)
(* is the one node that can outgrow its page; Inv allows it to be cut, and *)
(* counting the keys of the leaves below it (ManyKeys) says how many keys  *)
(* that takes.                                                             *)
(*                                                                         *)
(* What the tree binds is a relation between keys and row ids, read off    *)
(* the pages without any search.  A split, a borrowing and a merge keep    *)
(* it (Settled); an insert or a delete, before any of those, changes it    *)
(* for its own key (BoundTo, Unbound); and seek finds it (SeekIs), which   *)
(* gives the refinement of OrderedMap.  For the scans, a walk along the    *)
(* chain of leaves takes, leaf by leaf, what that relation holds for       *)
(* increasing sets of keys (WalkSelects), and there is one sequence with   *)
(* that content (SelectsOne).                                              *)
(***************************************************************************)
EXTENDS BPlusTree, FiniteSetTheorems, NaturalsInduction, WellFoundedInduction, TLAPS

-----------------------------------------------------------------------------
(* Numbers and sequences *)

\* A non-empty set of numbers has a least one.
LEMMA LeastNumber ==
    ASSUME NEW S \in SUBSET Nat, S # {}
    PROVE  \E m \in S : \A k \in S : m <= k
<1> DEFINE R == OpToRel(<, Nat)
<1>1. PICK m \in S : \A k \in S : ~(<<k, m>> \in R)
  BY NatLessThanWellFounded, WFMin
<1>2. \A k \in S : k < m => <<k, m>> \in R
  BY DEF OpToRel
<1> HIDE DEF R
<1>3. \A k \in S : ~(k < m) /\ k \in Nat /\ m \in Nat
  BY <1>1, <1>2
<1>4. \A k \in S : m <= k
  BY <1>3
<1> QED BY <1>4

\* The length and the elements of a slice.
LEMMA SubSeqIs ==
    ASSUME NEW A, NEW s \in Seq(A), NEW a \in 1..(Len(s) + 1), NEW b \in (a - 1)..Len(s)
    PROVE  /\ SubSeq(s, a, b) \in Seq(A)
           /\ Len(SubSeq(s, a, b)) = b - a + 1
           /\ \A j \in 1..(b - a + 1) : SubSeq(s, a, b)[j] = s[a + j - 1]
OBVIOUS

\* The length and the elements of a concatenation.
LEMMA ConcatIs ==
    ASSUME NEW A, NEW s \in Seq(A), NEW u \in Seq(A)
    PROVE  /\ s \o u \in Seq(A)
           /\ Len(s \o u) = Len(s) + Len(u)
           /\ \A j \in 1..(Len(s) + Len(u)) :
                 (s \o u)[j] = IF j <= Len(s) THEN s[j] ELSE u[j - Len(s)]
OBVIOUS

\* Sequences of one length with the same elements are equal.
LEMMA SeqEqual ==
    ASSUME NEW A, NEW s \in Seq(A), NEW u \in Seq(A), Len(s) = Len(u),
           \A j \in 1..Len(s) : s[j] = u[j]
    PROVE  s = u
OBVIOUS

\* u is s with e put in at place i, or with the element at place i left out.
SplicedIn(u, s, i, e) ==
    /\ Len(u) = Len(s) + 1
    /\ \A j \in 1..(Len(s) + 1) : u[j] = IF j < i THEN s[j] ELSE IF j = i THEN e ELSE s[j - 1]

CutOut(u, s, i) ==
    /\ Len(u) = Len(s) - 1
    /\ \A j \in 1..(Len(s) - 1) : u[j] = IF j < i THEN s[j] ELSE s[j + 1]

\* InsertAt, which models list.insert, puts one element in and keeps the others in order.
LEMMA InsertAtIs ==
    ASSUME NEW A, NEW s \in Seq(A), NEW e \in A, NEW i \in 1..(Len(s) + 1),
           NEW u, u = InsertAt(s, i, e)
    PROVE  u \in Seq(A) /\ SplicedIn(u, s, i, e)
<1> DEFINE n == Len(s)
           a == SubSeq(s, 1, i - 1)
           b == SubSeq(s, i, Len(s))
<1>0. n \in Nat /\ i \in Nat
  OBVIOUS
<1>1. a \in Seq(A) /\ Len(a) = i - 1 /\ \A j \in 1..(i - 1) : a[j] = s[j]
  OBVIOUS
<1>2. b \in Seq(A) /\ Len(b) = n + 1 - i /\ \A j \in 1..(n + 1 - i) : b[j] = s[i + j - 1]
  OBVIOUS
<1>3. u = (a \o <<e>>) \o b
  BY DEF InsertAt
<1> HIDE DEF a, b
<1> DEFINE c == a \o <<e>>
<1>4. c \in Seq(A) /\ Len(c) = i /\ \A j \in 1..i : c[j] = IF j < i THEN a[j] ELSE e
  BY <1>1
<1> DEFINE d == c \o b
<1> HIDE DEF c
<1>5. /\ d \in Seq(A) /\ Len(d) = Len(c) + Len(b)
      /\ \A j \in 1..(Len(c) + Len(b)) : d[j] = IF j <= Len(c) THEN c[j] ELSE b[j - Len(c)]
  BY <1>2, <1>4, ConcatIs
<1> HIDE DEF d
<1>6. d \in Seq(A) /\ Len(d) = n + 1
  BY <1>0, <1>2, <1>4, <1>5
<1>7. \A j \in 1..(n + 1) : d[j] = IF j < i THEN s[j] ELSE IF j = i THEN e ELSE s[j - 1]
  <2> SUFFICES ASSUME NEW j \in 1..(n + 1)
               PROVE  d[j] = IF j < i THEN s[j] ELSE IF j = i THEN e ELSE s[j - 1]
    OBVIOUS
  <2> HIDE DEF n
  <2>1. CASE j <= i
    BY <1>0, <1>1, <1>2, <1>4, <1>5, <2>1
  <2>2. CASE j > i
    <3>1. j \in 1..(i + (n + 1 - i)) /\ ~(j <= i)
      BY <1>0, <2>2
    <3>2. d[j] = b[j - i]
      BY <1>2, <1>4, <1>5, <3>1
    <3>3. j - i \in 1..(n + 1 - i) /\ i + (j - i) - 1 = j - 1
      BY <1>0, <2>2
    <3> QED BY <1>0, <1>2, <2>2, <3>2, <3>3
  <2> QED BY <1>0, <2>1, <2>2
<1> QED BY <1>3, <1>6, <1>7 DEF c, d, SplicedIn

\* RemoveAt, which models list.pop(i), leaves one element out.
LEMMA RemoveAtIs ==
    ASSUME NEW A, NEW s \in Seq(A), NEW i \in 1..Len(s), NEW u, u = RemoveAt(s, i)
    PROVE  u \in Seq(A) /\ CutOut(u, s, i)
<1> DEFINE n == Len(s)
           a == SubSeq(s, 1, i - 1)
           b == SubSeq(s, i + 1, Len(s))
<1>0. n \in Nat /\ i \in Nat
  OBVIOUS
<1>1. a \in Seq(A) /\ Len(a) = i - 1 /\ \A j \in 1..(i - 1) : a[j] = s[j]
  OBVIOUS
<1>2. b \in Seq(A) /\ Len(b) = n - i /\ \A j \in 1..(n - i) : b[j] = s[i + j]
  OBVIOUS
<1>3. u = a \o b
  BY DEF RemoveAt
<1> HIDE DEF a, b
<1> DEFINE d == a \o b
<1>5. /\ d \in Seq(A) /\ Len(d) = Len(a) + Len(b)
      /\ \A j \in 1..(Len(a) + Len(b)) : d[j] = IF j <= Len(a) THEN a[j] ELSE b[j - Len(a)]
  BY <1>1, <1>2, ConcatIs
<1> HIDE DEF d
<1>6. d \in Seq(A) /\ Len(d) = n - 1
  BY <1>0, <1>1, <1>2, <1>5
<1>7. \A j \in 1..(n - 1) : d[j] = IF j < i THEN s[j] ELSE s[j + 1]
  <2> SUFFICES ASSUME NEW j \in 1..(n - 1)
               PROVE  d[j] = IF j < i THEN s[j] ELSE s[j + 1]
    OBVIOUS
  <2> HIDE DEF n
  <2>1. CASE j < i
    BY <1>0, <1>1, <1>2, <1>5, <2>1
  <2>2. CASE j >= i
    <3>1. d[j] = b[j - (i - 1)] /\ j - (i - 1) \in 1..(n - i) /\ i + (j - (i - 1)) = j + 1
      BY <1>0, <1>1, <1>2, <1>5, <2>2
    <3> QED BY <1>0, <1>2, <2>2, <3>1
  <2> QED BY <1>0, <2>1, <2>2
<1> QED BY <1>3, <1>6, <1>7 DEF d, CutOut

\* The first, the last and the other elements of a non-empty sequence.
LEMMA EndsIs ==
    ASSUME NEW A, NEW s \in Seq(A), Len(s) > 0
    PROVE  /\ Front(s) \in Seq(A) /\ Len(Front(s)) = Len(s) - 1
           /\ \A j \in 1..(Len(s) - 1) : Front(s)[j] = s[j]
           /\ Last(s) = s[Len(s)] /\ Last(s) \in A
           /\ Tail(s) \in Seq(A) /\ Len(Tail(s)) = Len(s) - 1
           /\ \A j \in 1..(Len(s) - 1) : Tail(s)[j] = s[j + 1]
           /\ Head(s) = s[1] /\ Head(s) \in A
<1>1. Front(s) \in Seq(A) /\ Len(Front(s)) = Len(s) - 1
      /\ \A j \in 1..(Len(s) - 1) : Front(s)[j] = s[j]
  <2>1. Len(s) \in Nat /\ 1 \in 1..(Len(s) + 1) /\ Len(s) - 1 \in (1 - 1)..Len(s)
        /\ Len(s) - 1 - 1 + 1 = Len(s) - 1 /\ \A j \in 1..(Len(s) - 1) : 1 + j - 1 = j
    OBVIOUS
  <2> QED BY <2>1, SubSeqIs DEF Front
<1>2. Last(s) = s[Len(s)] /\ Last(s) \in A
  BY DEF Last
<1>3. Tail(s) \in Seq(A) /\ Len(Tail(s)) = Len(s) - 1
      /\ \A j \in 1..(Len(s) - 1) : Tail(s)[j] = s[j + 1]
  OBVIOUS
<1>4. Head(s) = s[1] /\ Head(s) \in A
  OBVIOUS
<1> QED BY <1>1, <1>2, <1>3, <1>4
-----------------------------------------------------------------------------
(* The invariant *)

\* The pages of the file, and what a page holds.
Pages == 1..MaxPages

Blank == Leaf(<<>>, <<>>, 0)

LeafNodes ==
    [leaf : {TRUE}, keys : Seq(Keys), vals : Seq(RowIds), kids : {<<>>}, next : 0..MaxPages]

InnerNodes ==
    [leaf : {FALSE}, keys : Seq(Keys), vals : {<<>>}, kids : Seq(Pages), next : {0}]

Trees ==
    [node : [Pages -> LeafNodes \cup InnerNodes], root : Pages, ids : SUBSET Pages,
     free : Seq(Pages), count : Nat]

\* The leaves of a tree from left to right, and the separators between them.
Leaves(t) == IF t.node[t.root].leaf THEN <<t.root>> ELSE t.node[t.root].kids

Seps(t) == IF t.node[t.root].leaf THEN <<>> ELSE t.node[t.root].keys

Increasing(s) == \A a, b \in 1..Len(s) : a < b => s[a] < s[b]

\* The keys fit between the separators around the leaf at place j.
Between(keys, S, j) ==
    \A i \in 1..Len(keys) : /\ j > 1 => S[j - 1] <= keys[i]
                            /\ j <= Len(S) => keys[i] < S[j]

\* The leaf n, at place j, holds keys in order between its separators.
LeafSound(n, S, j) ==
    /\ n \in LeafNodes
    /\ Len(n.vals) = Len(n.keys)
    /\ Increasing(n.keys)
    /\ Between(n.keys, S, j)

\* The leaves are different pages, and the chain links them in this order.
Arranged(node, L, S) ==
    /\ L \in Seq(Pages) /\ S \in Seq(Keys)
    /\ Len(L) = Len(S) + 1
    /\ \A a, b \in 1..Len(L) : L[a] = L[b] => a = b
    /\ Increasing(S)
    /\ \A j \in 1..Len(L) :
          /\ LeafSound(node[L[j]], S, j)
          /\ node[L[j]].next = IF j < Len(L) THEN L[j + 1] ELSE 0

\* A page below count is owned or on the free list, where it is once.
Accounted(t) ==
    /\ t.count \in 2..(MaxPages + 1)
    /\ t.ids \subseteq 1..(t.count - 1)
    /\ \A a, b \in 1..Len(t.free) : t.free[a] = t.free[b] => a = b
    /\ \A p \in Pages : (\E a \in 1..Len(t.free) : t.free[a] = p) <=> p < t.count /\ p \notin t.ids

\* The tree owns its root and leaves, and no other page holds anything.
Rooted(t) ==
    /\ ~t.node[t.root].leaf => Len(Seps(t)) > 0
    /\ \A j \in 1..Len(Leaves(t)) : t.node[Leaves(t)[j]].leaf
    /\ \A p \in Pages : p \in t.ids <=> p = t.root \/ \E j \in 1..Len(Leaves(t)) : p = Leaves(t)[j]
    /\ \A p \in Pages : p \notin t.ids => t.node[p] = Blank

Sound(t) ==
    /\ t \in Trees
    /\ Arranged(t.node, Leaves(t), Seps(t))
    /\ Rooted(t)
    /\ Accounted(t)

\* The leaves have at most Order keys and, unless there is one leaf, MinKeys.
Sized(t) ==
    \A j \in 1..Len(Leaves(t)) :
        /\ Len(t.node[Leaves(t)[j]].keys) <= Order
        /\ Len(Leaves(t)) > 1 => Len(t.node[Leaves(t)[j]].keys) >= MinKeys

\* What the file holds is a sound tree, but for a root that outgrew its page.
Inv == \E t : Sound(t) /\ Sized(t) /\ tree = Stored(t)

-----------------------------------------------------------------------------
(* Nodes and trees                                                         *)

\* What the constructor of a leaf builds.
LeafOf(n, ks, vs, nx) == n \in LeafNodes /\ n.keys = ks /\ n.vals = vs /\ n.next = nx

\* The leaf constructor builds a leaf node with what it is given.
LEMMA LeafIs ==
    ASSUME NEW ks \in Seq(Keys), NEW vs \in Seq(RowIds), NEW nx \in 0..MaxPages,
           NEW n, n = Leaf(ks, vs, nx)
    PROVE  LeafOf(n, ks, vs, nx)
BY DEF Leaf, LeafNodes, LeafOf

\* The fields of a leaf node.
LEMMA LeafShape ==
    ASSUME NEW n \in LeafNodes
    PROVE  /\ n.leaf = TRUE /\ n.keys \in Seq(Keys) /\ n.vals \in Seq(RowIds) /\ n.next \in 0..MaxPages
           /\ n.kids = <<>>
           /\ n = Leaf(n.keys, n.vals, n.next)
BY DEF Leaf, LeafNodes

\* The fields of an internal node.
LEMMA InnerShape ==
    ASSUME NEW n \in InnerNodes
    PROVE  n.leaf = FALSE /\ n.keys \in Seq(Keys) /\ n.kids \in Seq(Pages) /\ n.vals = <<>> /\ n.next = 0
BY DEF InnerNodes

\* A page never used, or freed, reads as an empty leaf.
LEMMA BlankIs == Blank \in LeafNodes /\ Blank.vals = <<>> /\ Blank.keys = <<>> /\ Blank.next = 0
<1>1. <<>> \in Seq(Keys) /\ <<>> \in Seq(RowIds) /\ 0 \in 0..MaxPages
  BY PagesAssumption
<1> QED BY <1>1 DEF Blank, Leaf, LeafNodes

\* The fields of a tree.
LEMMA TreeShape ==
    ASSUME NEW t \in Trees
    PROVE  /\ t.node \in [Pages -> LeafNodes \cup InnerNodes]
           /\ t.root \in Pages /\ t.ids \in SUBSET Pages /\ t.free \in Seq(Pages) /\ t.count \in Nat
BY DEF Trees

\* The tree u is t with node n written to page p.
Wrote(u, t, p, n) ==
    /\ u \in Trees
    /\ u.node = [t.node EXCEPT ![p] = n]
    /\ u.node[p] = n /\ \A x \in Pages : x # p => u.node[x] = t.node[x]
    /\ u.root = t.root /\ u.ids = t.ids /\ u.free = t.free /\ u.count = t.count

\* Writing one node of the file changes that page alone.
LEMMA WriteIs ==
    ASSUME NEW t \in Trees, NEW p \in Pages, NEW n \in LeafNodes \cup InnerNodes,
           NEW u, u = Write(t, p, n)
    PROVE  Wrote(u, t, p, n)
<1>1. /\ u \in Trees
      /\ u.node = [t.node EXCEPT ![p] = n]
      /\ u.root = t.root /\ u.ids = t.ids /\ u.free = t.free /\ u.count = t.count
  BY DEF Write, Trees
<1>2. t.node \in [Pages -> LeafNodes \cup InnerNodes]
  BY TreeShape
<1>3. u.node[p] = n /\ \A x \in Pages : x # p => u.node[x] = t.node[x]
  BY <1>1, <1>2
<1> QED BY <1>1, <1>3 DEF Wrote

\* A page that is not the root is a leaf.
LEMMA OnlyRootInner ==
    ASSUME NEW t, Sound(t), NEW p \in Pages, p # t.root
    PROVE  t.node[p] \in LeafNodes
<1>1. CASE p \notin t.ids
  BY <1>1, BlankIs DEF Sound, Rooted
<1>2. CASE p \in t.ids
  <2>1. PICK j \in 1..Len(Leaves(t)) : p = Leaves(t)[j]
    BY <1>2 DEF Sound, Rooted
  <2> QED BY <2>1 DEF Sound, Arranged, LeafSound
<1> QED BY <1>1, <1>2

\* The leaves and separators of a tree are sequences of pages and of keys.
LEMMA ViewIs ==
    ASSUME NEW t, Sound(t)
    PROVE  /\ t \in Trees
           /\ Leaves(t) \in Seq(Pages) /\ Seps(t) \in Seq(Keys)
           /\ Len(Leaves(t)) = Len(Seps(t)) + 1
           /\ \A a, b \in 1..Len(Leaves(t)) : Leaves(t)[a] = Leaves(t)[b] => a = b
           /\ \A a, b \in 1..Len(Seps(t)) : a < b => Seps(t)[a] < Seps(t)[b]
           /\ \A j \in 1..Len(Leaves(t)) :
                 /\ Leaves(t)[j] \in Pages
                 /\ LeafSound(t.node[Leaves(t)[j]], Seps(t), j)
                 /\ t.node[Leaves(t)[j]].next = IF j < Len(Leaves(t)) THEN Leaves(t)[j + 1] ELSE 0
BY DEF Sound, Arranged, Increasing

-----------------------------------------------------------------------------
(* Search                                                                  *)

\* Keys are integers and row ids positive ones.
LEMMA KeysAreInts == Keys \subseteq Int /\ RowIds \subseteq Nat /\ 0 \notin RowIds
<1>1. Cardinality(Keys) \in Nat
  BY KeysAssumption, FS_CardinalityType
<1> QED BY <1>1, KeysAssumption, RowIdsAssumption

\* _child_index finds the place between the separators.
LEMMA ChildIndexIs ==
    ASSUME NEW s \in Seq(Keys), NEW k \in Keys
    PROVE  /\ ChildIndex(s, k) \in 1..(Len(s) + 1)
           /\ ChildIndex(s, k) <= Len(s) => k < s[ChildIndex(s, k)]
           /\ \A a \in 1..Len(s) : a < ChildIndex(s, k) => s[a] <= k
<1> DEFINE above == {i \in DOMAIN s : k < s[i]}
<1>0. DOMAIN s = 1..Len(s) /\ Len(s) \in Nat /\ \A a \in 1..Len(s) : s[a] \in Keys
  OBVIOUS
<1>1. DOMAIN s = 1..Len(s) /\ Len(s) \in Nat /\ \A a \in 1..Len(s) : s[a] \in Int
  BY <1>0, KeysAreInts
<1>2. k \in Int
  BY KeysAreInts
<1>3. CASE above = {}
  <2>1. ChildIndex(s, k) = Len(s) + 1
    BY <1>3 DEF ChildIndex
  <2>2. \A a \in 1..Len(s) : ~(k < s[a])
    BY <1>1, <1>3
  <2> QED BY <1>1, <1>2, <2>1, <2>2
<1>4. CASE above # {}
  <2> DEFINE c == CHOOSE i \in above : \A j \in above : i <= j
  <2>1. ChildIndex(s, k) = c
    BY <1>4 DEF ChildIndex
  <2>2. above \in SUBSET Nat
    BY <1>1
  <2>3. \E i \in above : \A j \in above : i <= j
    <3> HIDE DEF above
    <3> QED BY <1>4, <2>2, LeastNumber
  <2>4. c \in above /\ \A j \in above : c <= j
    BY <2>3
  <2> HIDE DEF c
  <2>5. c \in 1..Len(s) /\ k < s[c]
    BY <1>1, <2>4
  <2>6. ASSUME NEW a \in 1..Len(s), a < c PROVE s[a] <= k
    <3>1. a \notin above
      <4> HIDE DEF above
      <4> QED BY <1>1, <2>4, <2>5, <2>6
    <3> QED BY <1>1, <1>2, <3>1
  <2> QED BY <1>1, <2>1, <2>5, <2>6
<1> QED BY <1>3, <1>4

\* What _find_leaf_with_path returns: nothing when the root is a leaf, else the root.
LEMMA PathIs ==
    ASSUME NEW t, Sound(t), NEW k \in Keys
    PROVE  Path(t, k) = IF t.node[t.root].leaf THEN <<>> ELSE <<<<t.root, ChildIndex(Seps(t), k)>>>>
<1> DEFINE Body(f, p) ==
             IF t.node[p].leaf THEN <<>>
             ELSE LET i == ChildIndex(t.node[p].keys, k)
                  IN  <<<<p, i>>>> \o f[t.node[p].kids[i]]
           Is(f) == f = [p \in DOMAIN t.node |-> Body(f, p)]
           f0 == CHOOSE f : Is(f)
<1>1. Path(t, k) = f0[t.root]
  BY DEF Path
<1>2. DOMAIN t.node = Pages /\ t.root \in Pages
  BY ViewIs, TreeShape
<1>3. \A p \in Pages : p # t.root => t.node[p].leaf
  BY OnlyRootInner, LeafShape
<1>4. ASSUME ~t.node[t.root].leaf
      PROVE  LET i == ChildIndex(t.node[t.root].keys, k)
             IN  t.node[t.root].kids[i] \in Pages /\ t.node[t.node[t.root].kids[i]].leaf
  <2>1. Leaves(t) = t.node[t.root].kids /\ Seps(t) = t.node[t.root].keys
    BY <1>4 DEF Leaves, Seps
  <2>2. ChildIndex(Seps(t), k) \in 1..Len(Leaves(t))
    BY ViewIs, ChildIndexIs
  <2>3. Leaves(t)[ChildIndex(Seps(t), k)] \in Pages
        /\ t.node[Leaves(t)[ChildIndex(Seps(t), k)]].leaf
    BY <2>2, ViewIs, LeafShape DEF LeafSound
  <2> QED BY <2>1, <2>3
<1> DEFINE g == [p \in Pages |-> IF t.node[p].leaf THEN <<>>
                                 ELSE <<<<p, ChildIndex(t.node[p].keys, k)>>>>]
<1>5. Is(g)
  <2>1. ASSUME NEW p \in Pages PROVE g[p] = Body(g, p)
    <3>1. CASE t.node[p].leaf
      BY <3>1
    <3>2. CASE ~t.node[p].leaf
      <4> DEFINE i == ChildIndex(t.node[p].keys, k)
      <4>1. p = t.root
        BY <1>3, <3>2
      <4>2. g[t.node[p].kids[i]] = <<>>
        BY <1>4, <3>2, <4>1
      <4>3. g[p] = <<<<p, i>>>>
        BY <3>2
      <4>4. Body(g, p) = <<<<p, i>>>> \o g[t.node[p].kids[i]]
        BY <3>2
      <4> HIDE DEF g
      <4>5. <<<<p, i>>>> \o <<>> = <<<<p, i>>>>
        OBVIOUS
      <4> QED BY <4>2, <4>3, <4>4, <4>5
    <3> QED BY <3>1, <3>2
  <2> HIDE DEF Body
  <2> QED BY <1>2, <2>1
<1>6. Is(f0)
  <2> HIDE DEF Is
  <2> QED BY <1>5
<1>7. \A p \in Pages : f0[p] = Body(f0, p)
  <2> HIDE DEF f0, Body
  <2> QED BY <1>2, <1>6
<1> HIDE DEF f0
<1>8. CASE t.node[t.root].leaf
  BY <1>1, <1>2, <1>7, <1>8
<1>9. CASE ~t.node[t.root].leaf
  <2> DEFINE i == ChildIndex(t.node[t.root].keys, k)
  <2>1. f0[t.node[t.root].kids[i]] = <<>>
    BY <1>4, <1>7, <1>9
  <2>2. f0[t.root] = <<<<t.root, i>>>> \o f0[t.node[t.root].kids[i]]
    BY <1>2, <1>7, <1>9
  <2>3. <<<<t.root, i>>>> \o <<>> = <<<<t.root, i>>>>
    OBVIOUS
  <2>4. i = ChildIndex(Seps(t), k)
    BY <1>9 DEF Seps
  <2> HIDE DEF i
  <2> QED BY <1>1, <1>9, <2>1, <2>2, <2>3, <2>4
<1> QED BY <1>8, <1>9

\* The leaf _find_leaf returns is the one between whose separators the key lies.
LEMMA FindLeafIs ==
    ASSUME NEW t, Sound(t), NEW k \in Keys, NEW j, j = ChildIndex(Seps(t), k)
    PROVE  /\ j \in 1..Len(Leaves(t))
           /\ PathEnd(t, Path(t, k)) = Leaves(t)[j]
           /\ j > 1 => Seps(t)[j - 1] <= k
           /\ j <= Len(Seps(t)) => k < Seps(t)[j]
<1>1. Seps(t) \in Seq(Keys) /\ Len(Leaves(t)) = Len(Seps(t)) + 1 /\ Len(Seps(t)) \in Nat
  BY ViewIs
<1>2. /\ j \in 1..(Len(Seps(t)) + 1)
      /\ j <= Len(Seps(t)) => k < Seps(t)[j]
      /\ \A a \in 1..Len(Seps(t)) : a < j => Seps(t)[a] <= k
  BY <1>1, ChildIndexIs
<1>3. j > 1 => Seps(t)[j - 1] <= k
  BY <1>1, <1>2
<1>4. PathEnd(t, Path(t, k)) = Leaves(t)[j]
  <2>1. CASE t.node[t.root].leaf
    <3>1. Path(t, k) = <<>>
      BY <2>1, PathIs
    <3>2. Seps(t) = <<>> /\ Leaves(t) = <<t.root>>
      BY <2>1 DEF Seps, Leaves
    <3>3. j = 1
      BY <1>2, <3>2
    <3> QED BY <3>1, <3>2, <3>3 DEF PathEnd
  <2>2. CASE ~t.node[t.root].leaf
    <3>1. Path(t, k) = <<<<t.root, j>>>>
      BY <2>2, PathIs
    <3>2. Leaves(t) = t.node[t.root].kids
      BY <2>2 DEF Leaves
    <3>3. Path(t, k) # <<>> /\ Last(Path(t, k)) = <<t.root, j>>
      BY <3>1 DEF Last
    <3> QED BY <3>2, <3>3 DEF PathEnd
  <2> QED BY <2>1, <2>2
<1> QED BY <1>1, <1>2, <1>3, <1>4

\* What a page binds, and what the pages of a tree bind together.
Has(n, k, r) == \E i \in 1..Len(n.vals) : n.keys[i] = k /\ n.vals[i] = r

Binds(t, k, r) == \E p \in Pages : Has(t.node[p], k, r)

\* A page that binds something is a leaf of the tree.
LEMMA HolderIsLeaf ==
    ASSUME NEW t, Sound(t), NEW p \in Pages, Len(t.node[p].vals) > 0
    PROVE  \E a \in 1..Len(Leaves(t)) : p = Leaves(t)[a]
<1>1. p \in t.ids
  <2>1. Len(Blank.vals) = 0
    BY BlankIs
  <2> QED BY <2>1 DEF Sound, Rooted
<1>2. CASE p = t.root
  <2>1. t.node[p] \in LeafNodes \cup InnerNodes
    BY ViewIs, TreeShape
  <2>2. t.node[p].leaf
    <3>1. CASE t.node[p] \in InnerNodes
      <4>1. t.node[p].vals = <<>>
        BY <3>1, InnerShape
      <4>2. ~(Len(<<>>) > 0)
        OBVIOUS
      <4> QED BY <4>1, <4>2
    <3>2. CASE t.node[p] \in LeafNodes
      BY <3>2, LeafShape
    <3> QED BY <2>1, <3>1, <3>2
  <2>3. Leaves(t) = <<t.root>>
    BY <1>2, <2>2 DEF Leaves
  <2>4. 1 \in 1..Len(Leaves(t)) /\ Leaves(t)[1] = p
    BY <1>2, <2>3
  <2> QED BY <2>4
<1>3. CASE p # t.root
  BY <1>1, <1>3 DEF Sound, Rooted
<1> QED BY <1>2, <1>3

\* A key is only found in the leaf whose separators enclose it.
LEMMA HolderIs ==
    ASSUME NEW t, Sound(t), NEW k \in Keys, NEW p \in Pages,
           NEW i \in 1..Len(t.node[p].vals), t.node[p].keys[i] = k
    PROVE  p = Leaves(t)[ChildIndex(Seps(t), k)]
<1> DEFINE S == Seps(t)
           j == ChildIndex(S, k)
           n == t.node[p]
<1>0. Len(n.vals) > 0
  <2>1. n \in LeafNodes \cup InnerNodes
    BY ViewIs, TreeShape
  <2>2. n.vals \in Seq(RowIds)
    <3>1. CASE n \in InnerNodes
      <4>1. n.vals = <<>>
        BY <3>1, InnerShape
      <4>2. <<>> \in Seq(RowIds)
        OBVIOUS
      <4> QED BY <4>1, <4>2
    <3>2. CASE n \in LeafNodes
      BY <3>2, LeafShape
    <3> QED BY <2>1, <3>1, <3>2
  <2>3. Len(n.vals) \in Nat
    BY <2>2
  <2> HIDE DEF n
  <2> QED BY <2>3 DEF n
<1>1. PICK a \in 1..Len(Leaves(t)) : p = Leaves(t)[a]
  BY <1>0, HolderIsLeaf
<1>2. /\ S \in Seq(Keys) /\ Len(Leaves(t)) = Len(S) + 1 /\ Len(S) \in Nat
      /\ \A c, d \in 1..Len(S) : c < d => S[c] < S[d]
      /\ LeafSound(n, S, a)
  BY <1>1, ViewIs
<1>3. i \in 1..Len(n.keys)
  BY <1>2 DEF LeafSound
<1>4. (a > 1 => S[a - 1] <= k) /\ (a <= Len(S) => k < S[a])
  BY <1>2, <1>3 DEF LeafSound, Between
<1>5. j \in 1..(Len(S) + 1) /\ (j > 1 => S[j - 1] <= k) /\ (j <= Len(S) => k < S[j])
  BY <1>2, FindLeafIs
<1>6. k \in Int /\ \A c \in 1..Len(S) : S[c] \in Int
  <2>1. \A c \in 1..Len(S) : S[c] \in Keys
    BY <1>2
  <2> QED BY <2>1, KeysAreInts
<1> HIDE DEF S, j, n
<1>7. ~(a < j)
  <2> SUFFICES ASSUME a < j PROVE FALSE
    OBVIOUS
  <2>1. a \in 1..Len(S) /\ j - 1 \in 1..Len(S) /\ a <= j - 1 /\ j > 1
    BY <1>1, <1>2, <1>5
  <2>2. S[a] <= S[j - 1]
    BY <1>2, <1>6, <2>1
  <2>3. k < S[a] /\ S[j - 1] <= k
    BY <1>4, <1>5, <2>1
  <2>4. S[a] \in Int /\ S[j - 1] \in Int
    BY <1>6, <2>1
  <2> QED BY <1>6, <2>2, <2>3, <2>4
<1>8. ~(j < a)
  <2> SUFFICES ASSUME j < a PROVE FALSE
    OBVIOUS
  <2>1. j \in 1..Len(S) /\ a - 1 \in 1..Len(S) /\ j <= a - 1 /\ a > 1
    BY <1>1, <1>2, <1>5
  <2>2. S[j] <= S[a - 1]
    BY <1>2, <1>6, <2>1
  <2>3. k < S[j] /\ S[a - 1] <= k
    BY <1>4, <1>5, <2>1
  <2>4. S[j] \in Int /\ S[a - 1] \in Int
    BY <1>6, <2>1
  <2> QED BY <1>6, <2>2, <2>3, <2>4
<1>9. a = j
  BY <1>1, <1>2, <1>5, <1>7, <1>8
<1> QED BY <1>1, <1>9 DEF S, j

\* seek finds what the pages of the tree bind, and nothing else.
LEMMA SeekIs ==
    ASSUME NEW t, Sound(t), NEW k \in Keys
    PROVE  /\ \A r : Binds(t, k, r) => Seek(t, k) = r
           /\ (\A r : ~Binds(t, k, r)) => Seek(t, k) = 0
           /\ Seek(t, k) # 0 => Binds(t, k, Seek(t, k))
           /\ Seek(t, k) \in RowIds \cup {0}
<1> DEFINE j == ChildIndex(Seps(t), k)
           p == Leaves(t)[j]
           n == t.node[p]
           at == Position(n.keys, k)
<1>1. j \in 1..Len(Leaves(t)) /\ FindLeaf(t, k) = p
  BY FindLeafIs DEF FindLeaf
<1>2. p \in Pages /\ n \in LeafNodes /\ Len(n.vals) = Len(n.keys) /\ Increasing(n.keys)
  BY <1>1, ViewIs DEF LeafSound
<1>3. n.keys \in Seq(Keys) /\ n.vals \in Seq(RowIds) /\ Len(n.keys) \in Nat
  <2>1. n.keys \in Seq(Keys) /\ n.vals \in Seq(RowIds)
    BY <1>2, LeafShape
  <2> QED BY <2>1
<1>4. at = {i \in 1..Len(n.vals) : n.keys[i] = k}
  BY <1>2, <1>3 DEF Position
<1>5. Seek(t, k) = IF at = {} THEN 0 ELSE n.vals[CHOOSE i \in at : \A b \in at : i <= b]
  BY <1>1 DEF Seek
<1>6. \A r : \A q \in Pages : Has(t.node[q], k, r) => q = p
  BY HolderIs DEF Has
<1>7. CASE at = {}
  <2>1. \A r : ~Has(n, k, r)
    BY <1>4, <1>7 DEF Has
  <2>2. \A r : ~Binds(t, k, r)
    BY <1>6, <2>1 DEF Binds
  <2> QED BY <1>5, <1>7, <2>2
<1>8. CASE at # {}
  <2>1. PICK i \in 1..Len(n.vals) : n.keys[i] = k
    BY <1>4, <1>8
  <2>2. ASSUME NEW b \in 1..Len(n.vals), n.keys[b] = k PROVE b = i
    <3>1. i \in 1..Len(n.keys) /\ b \in 1..Len(n.keys)
      BY <1>2
    <3>2. (i < b => n.keys[i] < n.keys[b]) /\ (b < i => n.keys[b] < n.keys[i])
      BY <1>2, <3>1 DEF Increasing
    <3>3. ~(k < k)
      BY KeysAreInts
    <3>4. i \in Int /\ b \in Int /\ ~(i < b) /\ ~(b < i)
      BY <1>3, <2>1, <2>2, <3>1, <3>2, <3>3
    <3> QED BY <3>4
  <2>3. at = {i}
    BY <1>4, <2>1, <2>2
  <2>4. (CHOOSE a \in {i} : \A b \in {i} : a <= b) = i
    <3>1. i <= i
      BY <1>3, <2>1
    <3> QED BY <3>1
  <2>5. Seek(t, k) = n.vals[i]
    <3> HIDE DEF at, n
    <3> QED BY <1>5, <1>8, <2>3, <2>4
  <2>6. Has(n, k, n.vals[i]) /\ n.vals[i] \in RowIds
    BY <1>3, <2>1 DEF Has
  <2>7. \A r : Has(n, k, r) => r = n.vals[i]
    BY <2>2 DEF Has
  <2>8. \A r : Binds(t, k, r) <=> r = n.vals[i]
    BY <1>2, <1>6, <2>6, <2>7 DEF Binds
  <2> QED BY <2>5, <2>6, <2>8, KeysAreInts
<1> QED BY <1>7, <1>8

-----------------------------------------------------------------------------
(* One leaf rewritten                                                      *)

\* An increasing sequence of keys holds each of them once.
LEMMA IncreasingDistinct ==
    ASSUME NEW s \in Seq(Keys), Increasing(s), NEW a \in 1..Len(s), NEW b \in 1..Len(s), s[a] = s[b]
    PROVE  a = b
<1>1. s[a] \in Int
  <2>1. s[a] \in Keys
    OBVIOUS
  <2> QED BY <2>1, KeysAreInts
<1>2. (a < b => s[a] < s[b]) /\ (b < a => s[b] < s[a])
  BY DEF Increasing
<1>3. ~(s[a] < s[a])
  BY <1>1
<1>4. a \in Int /\ b \in Int /\ ~(a < b) /\ ~(b < a)
  BY <1>2, <1>3
<1> QED BY <1>4

\* The fields of a leaf of the tree.
LEMMA SoundLeafShape ==
    ASSUME NEW n, NEW S, NEW j, LeafSound(n, S, j)
    PROVE  /\ n.leaf = TRUE /\ n.keys \in Seq(Keys) /\ n.vals \in Seq(RowIds) /\ n.next \in 0..MaxPages
           /\ Len(n.keys) \in Nat /\ Len(n.vals) = Len(n.keys)
           /\ \A a \in 1..Len(n.keys) : n.keys[a] \in Keys /\ n.keys[a] \in Int /\ n.vals[a] \in RowIds
           /\ n = Leaf(n.keys, n.vals, n.next)
<1>1. n \in LeafNodes /\ Len(n.vals) = Len(n.keys)
  BY DEF LeafSound
<1>2. /\ n.leaf = TRUE /\ n.keys \in Seq(Keys) /\ n.vals \in Seq(RowIds) /\ n.next \in 0..MaxPages
      /\ n = Leaf(n.keys, n.vals, n.next)
  BY <1>1, LeafShape
<1>3. Len(n.keys) \in Nat /\ \A a \in 1..Len(n.keys) : n.keys[a] \in Keys
  BY <1>2
<1>4. \A a \in 1..Len(n.vals) : n.vals[a] \in RowIds
  BY <1>2
<1> QED BY <1>1, <1>2, <1>3, <1>4, KeysAreInts

\* A leaf that had keys ks and row ids vs and got k and r at place i, or lost place i.
Grown(m, ks, vs, nx, i, k, r) ==
    /\ m \in LeafNodes /\ m.next = nx
    /\ SplicedIn(m.keys, ks, i, k)
    /\ SplicedIn(m.vals, vs, i, r)

Shrunk(m, ks, vs, nx, i) ==
    /\ m \in LeafNodes /\ m.next = nx
    /\ CutOut(m.keys, ks, i)
    /\ CutOut(m.vals, vs, i)

\* The leaf insert writes has the new pair at place i.
LEMMA LeafGrown ==
    ASSUME NEW ks \in Seq(Keys), NEW vs \in Seq(RowIds), Len(vs) = Len(ks), NEW k \in Keys,
           NEW r \in RowIds, NEW i \in 1..(Len(ks) + 1), NEW nx \in 0..MaxPages,
           NEW m, m = Leaf(InsertAt(ks, i, k), InsertAt(vs, i, r), nx)
    PROVE  Grown(m, ks, vs, nx, i, k, r)
<1> DEFINE ks2 == InsertAt(ks, i, k)
           vs2 == InsertAt(vs, i, r)
<1>1. i \in 1..(Len(vs) + 1) /\ m = Leaf(ks2, vs2, nx)
  OBVIOUS
<1>2. ks2 \in Seq(Keys) /\ SplicedIn(ks2, ks, i, k)
  BY InsertAtIs, Zenon
<1>3. vs2 \in Seq(RowIds) /\ SplicedIn(vs2, vs, i, r)
  BY <1>1, InsertAtIs, Zenon
<1> HIDE DEF ks2, vs2
<1>4. m \in LeafNodes /\ m.keys = ks2 /\ m.vals = vs2 /\ m.next = nx
  BY <1>1, <1>2, <1>3 DEF Leaf, LeafNodes
<1> QED BY <1>2, <1>3, <1>4 DEF Grown

\* The leaf delete writes lacks the pair at place i.
LEMMA LeafShrunk ==
    ASSUME NEW ks \in Seq(Keys), NEW vs \in Seq(RowIds), Len(vs) = Len(ks),
           NEW i \in 1..Len(ks), NEW nx \in 0..MaxPages,
           NEW m, m = Leaf(RemoveAt(ks, i), RemoveAt(vs, i), nx)
    PROVE  Shrunk(m, ks, vs, nx, i)
<1> DEFINE ks2 == RemoveAt(ks, i)
           vs2 == RemoveAt(vs, i)
<1>1. i \in 1..Len(vs) /\ m = Leaf(ks2, vs2, nx)
  OBVIOUS
<1>2. ks2 \in Seq(Keys) /\ CutOut(ks2, ks, i)
  BY RemoveAtIs, Zenon
<1>3. vs2 \in Seq(RowIds) /\ CutOut(vs2, vs, i)
  BY <1>1, RemoveAtIs, Zenon
<1> HIDE DEF ks2, vs2
<1>4. m \in LeafNodes /\ m.keys = ks2 /\ m.vals = vs2 /\ m.next = nx
  BY <1>1, <1>2, <1>3 DEF Leaf, LeafNodes
<1> QED BY <1>2, <1>3, <1>4 DEF Shrunk

\* A leaf stays in order, between its separators, when insert puts a new key where
\* _child_index says, and binds that key besides what it bound.
LEMMA InsertedLeaf ==
    ASSUME NEW n, NEW S, NEW j, LeafSound(n, S, j), NEW k \in Keys, NEW r \in RowIds,
           j > 1 => S[j - 1] <= k, j <= Len(S) => k < S[j],
           \A a \in 1..Len(n.keys) : n.keys[a] # k,
           NEW i, i = ChildIndex(n.keys, k),
           NEW m, m = Leaf(InsertAt(n.keys, i, k), InsertAt(n.vals, i, r), n.next)
    PROVE  /\ LeafSound(m, S, j) /\ m.next = n.next /\ Len(m.keys) = Len(n.keys) + 1
           /\ \A k2, r2 : Has(m, k2, r2) <=> Has(n, k2, r2) \/ (k2 = k /\ r2 = r)
<1> DEFINE ks == n.keys
           vs == n.vals
           c == Len(n.keys)
           ks2 == m.keys
           vs2 == m.vals
<1>1. /\ ks \in Seq(Keys) /\ vs \in Seq(RowIds) /\ n.next \in 0..MaxPages
      /\ c \in Nat /\ Len(vs) = c
      /\ \A a \in 1..c : ks[a] \in Int
  BY SoundLeafShape
<1>2. k \in Int
  BY KeysAreInts
<1>3. /\ i \in 1..(c + 1)
      /\ i <= c => k < ks[i]
      /\ \A a \in 1..c : a < i => ks[a] <= k
  BY <1>1, ChildIndexIs
<1>6. /\ m \in LeafNodes /\ m.next = n.next /\ Len(ks2) = c + 1 /\ Len(vs2) = c + 1
      /\ \A a \in 1..(c + 1) :
            /\ ks2[a] = IF a < i THEN ks[a] ELSE IF a = i THEN k ELSE ks[a - 1]
            /\ vs2[a] = IF a < i THEN vs[a] ELSE IF a = i THEN r ELSE vs[a - 1]
  <2>1. Grown(m, ks, vs, n.next, i, k, r)
    BY <1>1, <1>3, LeafGrown, Zenon
  <2> QED BY <1>1, <2>1 DEF Grown, SplicedIn
<1>7. Increasing(ks) /\ Between(ks, S, j)
  BY DEF LeafSound
<1> HIDE DEF ks, vs, c, ks2, vs2
<1>8. \A a \in 1..c : a < i => ks[a] < k
  <2>1. \A a \in 1..c : ks[a] # k
    BY DEF ks, c
  <2> QED BY <1>1, <1>2, <1>3, <2>1
<1>9. \A a \in 1..c : a >= i => k < ks[a]
  <2> SUFFICES ASSUME NEW a \in 1..c, a >= i PROVE k < ks[a]
    OBVIOUS
  <2>1. i \in 1..c /\ k < ks[i]
    BY <1>1, <1>3
  <2>2. i < a => ks[i] < ks[a]
    BY <1>7, <2>1 DEF Increasing, c, ks
  <2> QED BY <1>1, <1>2, <1>3, <2>1, <2>2
<1>10. Increasing(ks2)
  <2> SUFFICES ASSUME NEW a \in 1..(c + 1), NEW b \in 1..(c + 1), a < b PROVE ks2[a] < ks2[b]
    BY <1>6 DEF Increasing
  <2>1. \A x, y \in 1..c : x < y => ks[x] < ks[y]
    BY <1>7 DEF Increasing, ks, c
  <2>2. CASE b < i
    <3>1. a \in 1..c /\ b \in 1..c /\ a < i /\ b < i
      BY <1>1, <1>3, <2>2
    <3>2. ks2[a] = ks[a] /\ ks2[b] = ks[b]
      BY <1>6, <3>1
    <3> QED BY <2>1, <3>1, <3>2
  <2>3. CASE b = i
    <3>1. a \in 1..c /\ a < i
      BY <1>1, <1>3, <2>3
    <3> QED BY <1>3, <1>6, <1>8, <2>3, <3>1
  <2>4. CASE b > i /\ a < i
    <3>1. a \in 1..c /\ b - 1 \in 1..c /\ a < b - 1 /\ ~(b < i) /\ b # i
      BY <1>1, <1>3, <2>4
    <3> QED BY <1>6, <2>1, <2>4, <3>1
  <2>5. CASE b > i /\ a = i
    <3>1. b - 1 \in 1..c /\ b - 1 >= i /\ ~(b < i) /\ b # i /\ ~(a < i)
      BY <1>1, <1>3, <2>5
    <3> QED BY <1>6, <1>9, <2>5, <3>1
  <2>6. CASE b > i /\ a > i
    <3>1. a - 1 \in 1..c /\ b - 1 \in 1..c /\ a - 1 < b - 1 /\ ~(b < i) /\ b # i /\ ~(a < i) /\ a # i
      BY <1>1, <1>3, <2>6
    <3> QED BY <1>6, <2>1, <2>6, <3>1
  <2> QED BY <1>3, <2>2, <2>3, <2>4, <2>5, <2>6
<1>11. Between(ks2, S, j)
  <2> SUFFICES ASSUME NEW a \in 1..(c + 1)
               PROVE  (j > 1 => S[j - 1] <= ks2[a]) /\ (j <= Len(S) => ks2[a] < S[j])
    BY <1>6 DEF Between
  <2>1. \A x \in 1..c : (j > 1 => S[j - 1] <= ks[x]) /\ (j <= Len(S) => ks[x] < S[j])
    BY <1>7 DEF Between, ks, c
  <2>2. CASE a < i
    <3>1. a \in 1..c
      BY <1>1, <1>3, <2>2
    <3> QED BY <1>6, <2>1, <2>2, <3>1
  <2>3. CASE a = i
    BY <1>3, <1>6, <2>3
  <2>4. CASE a > i
    <3>1. a - 1 \in 1..c /\ ~(a < i) /\ a # i
      BY <1>1, <1>3, <2>4
    <3> QED BY <1>6, <2>1, <2>4, <3>1
  <2> QED BY <1>3, <2>2, <2>3, <2>4
<1>12. ASSUME NEW k2, NEW r2 PROVE Has(m, k2, r2) <=> Has(n, k2, r2) \/ (k2 = k /\ r2 = r)
  <2>1. ASSUME Has(m, k2, r2) PROVE Has(n, k2, r2) \/ (k2 = k /\ r2 = r)
    <3>1. PICK a \in 1..(c + 1) : ks2[a] = k2 /\ vs2[a] = r2
      BY <1>6, <2>1 DEF Has, ks2, vs2
    <3>2. CASE a < i
      <4>1. a \in 1..c
        BY <1>1, <1>3, <3>2
      <4>2. ks[a] = k2 /\ vs[a] = r2
        BY <1>6, <3>1, <3>2
      <4> QED BY <1>1, <4>1, <4>2 DEF Has, ks, vs
    <3>3. CASE a = i
      BY <1>3, <1>6, <3>1, <3>3
    <3>4. CASE a > i
      <4>1. a - 1 \in 1..c /\ ~(a < i) /\ a # i
        BY <1>1, <1>3, <3>4
      <4>2. ks[a - 1] = k2 /\ vs[a - 1] = r2
        BY <1>6, <3>1, <4>1
      <4> QED BY <1>1, <4>1, <4>2 DEF Has, ks, vs
    <3> QED BY <1>3, <3>2, <3>3, <3>4
  <2>2. ASSUME Has(n, k2, r2) PROVE Has(m, k2, r2)
    <3>1. PICK a \in 1..c : ks[a] = k2 /\ vs[a] = r2
      BY <1>1, <2>2 DEF Has, ks, vs
    <3>2. CASE a < i
      <4>1. a \in 1..(c + 1) /\ ks2[a] = k2 /\ vs2[a] = r2
        BY <1>1, <1>6, <3>1, <3>2
      <4> QED BY <1>6, <4>1 DEF Has, ks2, vs2
    <3>3. CASE a >= i
      <4>1. a + 1 \in 1..(c + 1) /\ ~(a + 1 < i) /\ a + 1 # i /\ a + 1 - 1 = a
        BY <1>1, <1>3, <3>3
      <4>2. ks2[a + 1] = k2 /\ vs2[a + 1] = r2
        BY <1>6, <3>1, <4>1
      <4> QED BY <1>6, <4>1, <4>2 DEF Has, ks2, vs2
    <3> QED BY <1>1, <1>3, <3>2, <3>3
  <2>3. Has(m, k, r)
    <3>1. ks2[i] = k /\ vs2[i] = r
      BY <1>3, <1>6
    <3> QED BY <1>3, <1>6, <3>1 DEF Has, ks2, vs2
  <2> QED BY <2>1, <2>2, <2>3
<1> QED BY <1>6, <1>10, <1>11, <1>12 DEF LeafSound, c, ks2, vs2

\* A leaf stays in order when delete removes a pair, and loses only the binding of its key.
LEMMA RemovedLeaf ==
    ASSUME NEW n, NEW S, NEW j, LeafSound(n, S, j), NEW i \in 1..Len(n.keys),
           NEW m, m = Leaf(RemoveAt(n.keys, i), RemoveAt(n.vals, i), n.next)
    PROVE  /\ LeafSound(m, S, j) /\ m.next = n.next /\ Len(m.keys) = Len(n.keys) - 1
           /\ \A k2, r2 : Has(m, k2, r2) <=> Has(n, k2, r2) /\ k2 # n.keys[i]
<1> DEFINE ks == n.keys
           vs == n.vals
           c == Len(n.keys)
           ks2 == m.keys
           vs2 == m.vals
<1>1. /\ ks \in Seq(Keys) /\ vs \in Seq(RowIds) /\ n.next \in 0..MaxPages
      /\ c \in Nat /\ Len(vs) = c
      /\ \A a \in 1..c : ks[a] \in Int
  BY SoundLeafShape
<1>3. i \in 1..c
  OBVIOUS
<1>6. /\ m \in LeafNodes /\ m.next = n.next /\ Len(ks2) = c - 1 /\ Len(vs2) = c - 1
      /\ \A a \in 1..(c - 1) : /\ ks2[a] = IF a < i THEN ks[a] ELSE ks[a + 1]
                               /\ vs2[a] = IF a < i THEN vs[a] ELSE vs[a + 1]
  <2>1. Shrunk(m, ks, vs, n.next, i)
    BY <1>1, <1>3, LeafShrunk, Zenon
  <2> QED BY <1>1, <2>1 DEF Shrunk, CutOut
<1>7. Increasing(ks) /\ Between(ks, S, j)
  BY DEF LeafSound
<1>8. \A a \in 1..c : ks[a] = ks[i] => a = i
  BY <1>1, <1>3, <1>7, IncreasingDistinct
<1> HIDE DEF ks, vs, c, ks2, vs2
<1>10. Increasing(ks2)
  <2> SUFFICES ASSUME NEW a \in 1..(c - 1), NEW b \in 1..(c - 1), a < b PROVE ks2[a] < ks2[b]
    BY <1>6 DEF Increasing
  <2>1. \A x, y \in 1..c : x < y => ks[x] < ks[y]
    BY <1>7 DEF Increasing, ks, c
  <2> DEFINE x == IF a < i THEN a ELSE a + 1
             y == IF b < i THEN b ELSE b + 1
  <2>2. x \in 1..c /\ y \in 1..c /\ x < y
    BY <1>1, <1>3
  <2>3. ks2[a] = ks[x] /\ ks2[b] = ks[y]
    BY <1>6
  <2> HIDE DEF x, y
  <2> QED BY <2>1, <2>2, <2>3
<1>11. Between(ks2, S, j)
  <2> SUFFICES ASSUME NEW a \in 1..(c - 1)
               PROVE  (j > 1 => S[j - 1] <= ks2[a]) /\ (j <= Len(S) => ks2[a] < S[j])
    BY <1>6 DEF Between
  <2>1. \A x \in 1..c : (j > 1 => S[j - 1] <= ks[x]) /\ (j <= Len(S) => ks[x] < S[j])
    BY <1>7 DEF Between, ks, c
  <2> DEFINE x == IF a < i THEN a ELSE a + 1
  <2>2. x \in 1..c
    BY <1>1, <1>3
  <2>3. ks2[a] = ks[x]
    BY <1>6
  <2> HIDE DEF x
  <2> QED BY <2>1, <2>2, <2>3
<1>12. ASSUME NEW k2, NEW r2 PROVE Has(m, k2, r2) <=> Has(n, k2, r2) /\ k2 # ks[i]
  <2>1. ASSUME Has(m, k2, r2) PROVE Has(n, k2, r2) /\ k2 # ks[i]
    <3>1. PICK a \in 1..(c - 1) : ks2[a] = k2 /\ vs2[a] = r2
      BY <1>6, <2>1 DEF Has, ks2, vs2
    <3> DEFINE x == IF a < i THEN a ELSE a + 1
    <3>2. x \in 1..c /\ x # i
      BY <1>1, <1>3
    <3>3. ks[x] = k2 /\ vs[x] = r2
      BY <1>6, <3>1
    <3> HIDE DEF x
    <3>4. k2 # ks[i]
      BY <1>8, <3>2, <3>3
    <3> QED BY <1>1, <3>2, <3>3, <3>4 DEF Has, ks, vs
  <2>2. ASSUME Has(n, k2, r2), k2 # ks[i] PROVE Has(m, k2, r2)
    <3>1. PICK a \in 1..c : ks[a] = k2 /\ vs[a] = r2
      BY <1>1, <2>2 DEF Has, ks, vs
    <3>2. CASE a < i
      <4>1. a \in 1..(c - 1) /\ ks2[a] = k2 /\ vs2[a] = r2
        BY <1>1, <1>3, <1>6, <3>1, <3>2
      <4> QED BY <1>6, <4>1 DEF Has, ks2, vs2
    <3>3. CASE a > i
      <4>1. a - 1 \in 1..(c - 1) /\ ~(a - 1 < i) /\ a - 1 + 1 = a
        BY <1>1, <1>3, <3>3
      <4>2. ks2[a - 1] = k2 /\ vs2[a - 1] = r2
        BY <1>6, <3>1, <4>1
      <4> QED BY <1>6, <4>1, <4>2 DEF Has, ks2, vs2
    <3>4. a # i
      BY <2>2, <3>1
    <3> QED BY <1>1, <1>3, <3>2, <3>3, <3>4
  <2> QED BY <2>1, <2>2
<1> QED BY <1>6, <1>10, <1>11, <1>12 DEF LeafSound, c, ks, ks2, vs2

\* Inserting a key that is there changes its row id and nothing else.
LEMMA ReboundLeaf ==
    ASSUME NEW n, NEW S, NEW j, LeafSound(n, S, j), NEW i \in 1..Len(n.keys), NEW r \in RowIds,
           NEW m, m = [n EXCEPT !.vals[i] = r]
    PROVE  /\ LeafSound(m, S, j) /\ m.next = n.next /\ Len(m.keys) = Len(n.keys)
           /\ \A k2, r2 : Has(m, k2, r2)
                 <=> (k2 # n.keys[i] /\ Has(n, k2, r2)) \/ (k2 = n.keys[i] /\ r2 = r)
<1> DEFINE vs2 == [n.vals EXCEPT ![i] = r]
<1>1. /\ n.keys \in Seq(Keys) /\ n.vals \in Seq(RowIds) /\ n.next \in 0..MaxPages
      /\ Len(n.keys) \in Nat /\ Len(n.vals) = Len(n.keys)
      /\ n \in LeafNodes /\ Increasing(n.keys) /\ Between(n.keys, S, j)
  BY SoundLeafShape DEF LeafSound
<1>2. /\ vs2 \in Seq(RowIds) /\ Len(vs2) = Len(n.keys)
      /\ \A a \in 1..Len(n.keys) : vs2[a] = IF a = i THEN r ELSE n.vals[a]
  BY <1>1
<1> HIDE DEF vs2
<1>3. m \in LeafNodes /\ m.keys = n.keys /\ m.vals = vs2 /\ m.next = n.next
  BY <1>1, <1>2 DEF LeafNodes, vs2
<1>4. \A a \in 1..Len(n.keys) : n.keys[a] = n.keys[i] => a = i
  BY <1>1, IncreasingDistinct
<1>5. ASSUME NEW k2, NEW r2
      PROVE  Has(m, k2, r2) <=> (k2 # n.keys[i] /\ Has(n, k2, r2)) \/ (k2 = n.keys[i] /\ r2 = r)
  <2>1. Has(m, k2, r2) <=> \E a \in 1..Len(n.keys) : n.keys[a] = k2 /\ vs2[a] = r2
    BY <1>2, <1>3 DEF Has
  <2>2. Has(n, k2, r2) <=> \E a \in 1..Len(n.keys) : n.keys[a] = k2 /\ n.vals[a] = r2
    BY <1>1 DEF Has
  <2> QED BY <1>2, <1>4, <2>1, <2>2
<1> QED BY <1>1, <1>2, <1>3, <1>5 DEF LeafSound

\* A leaf of the tree, its page and where it is in the page table.
LEMMA LeafPage ==
    ASSUME NEW t, Sound(t), NEW j \in 1..Len(Leaves(t))
    PROVE  /\ Leaves(t)[j] \in Pages /\ Leaves(t)[j] \in t.ids
           /\ LeafSound(t.node[Leaves(t)[j]], Seps(t), j)
           /\ t.node[Leaves(t)[j]].leaf = TRUE
           /\ Leaves(t)[j] = t.root <=> t.node[t.root].leaf
<1>1. /\ Leaves(t)[j] \in Pages /\ LeafSound(t.node[Leaves(t)[j]], Seps(t), j)
  BY ViewIs
<1>2. t.node[Leaves(t)[j]].leaf = TRUE
  BY <1>1, SoundLeafShape
<1>3. Leaves(t)[j] \in t.ids
  BY <1>1 DEF Sound, Rooted
<1>4. ASSUME t.node[t.root].leaf PROVE Leaves(t)[j] = t.root
  <2>1. Leaves(t) = <<t.root>>
    BY <1>4 DEF Leaves
  <2>2. j = 1
    BY <2>1
  <2> QED BY <2>1, <2>2
<1>5. t.root \in Pages /\ t.node[t.root] \in LeafNodes \cup InnerNodes
  BY ViewIs, TreeShape
<1> QED BY <1>1, <1>2, <1>3, <1>4

\* Rewriting one leaf between its separators keeps the tree sound.
LEMMA InPlace ==
    ASSUME NEW t, Sound(t), NEW j \in 1..Len(Leaves(t)), NEW m, LeafSound(m, Seps(t), j),
           m.next = t.node[Leaves(t)[j]].next, NEW u, u = Write(t, Leaves(t)[j], m)
    PROVE  /\ Sound(u)
           /\ Leaves(u) = Leaves(t) /\ Seps(u) = Seps(t)
           /\ u.node = [t.node EXCEPT ![Leaves(t)[j]] = m]
           /\ u.root = t.root /\ u.ids = t.ids /\ u.free = t.free /\ u.count = t.count
<1> DEFINE L == Leaves(t)
           S == Seps(t)
           q == L[j]
<1>1. /\ q \in Pages /\ q \in t.ids /\ t.node[q].leaf = TRUE /\ (q = t.root <=> t.node[t.root].leaf)
  BY LeafPage
<1>2. m \in LeafNodes /\ m.leaf = TRUE
  BY LeafShape DEF LeafSound
<1>3. t \in Trees /\ t.node \in [Pages -> LeafNodes \cup InnerNodes] /\ t.root \in Pages
  BY ViewIs, TreeShape
<1>4. /\ u \in Trees
      /\ u.node = [t.node EXCEPT ![q] = m]
      /\ u.root = t.root /\ u.ids = t.ids /\ u.free = t.free /\ u.count = t.count
  BY <1>1, <1>2, <1>3, WriteIs DEF Wrote
<1>5. u.node[q] = m /\ \A p \in Pages : p # q => u.node[p] = t.node[p]
  BY <1>1, <1>3, <1>4
<1>6. Leaves(u) = L /\ Seps(u) = S /\ u.node[u.root].leaf = t.node[t.root].leaf
  <2>1. CASE q = t.root
    <3>1. t.node[t.root].leaf = TRUE /\ u.node[u.root].leaf = TRUE
      BY <1>1, <1>2, <1>4, <1>5, <2>1
    <3> QED BY <1>4, <3>1 DEF Leaves, Seps
  <2>2. CASE q # t.root
    <3>1. u.node[u.root] = t.node[t.root]
      BY <1>3, <1>4, <1>5, <2>2
    <3> QED BY <1>4, <3>1 DEF Leaves, Seps
  <2> QED BY <2>1, <2>2
<1> HIDE DEF q, L, S
<1>7. \A a \in 1..Len(L) : L[a] \in Pages /\ (a # j => L[a] # q)
  BY ViewIs DEF L, q
<1>8. Arranged(u.node, L, S)
  <2>1. Arranged(t.node, L, S)
    BY DEF Sound, L, S
  <2>2. ASSUME NEW a \in 1..Len(L)
        PROVE  LeafSound(u.node[L[a]], S, a)
               /\ u.node[L[a]].next = IF a < Len(L) THEN L[a + 1] ELSE 0
    <3>1. LeafSound(t.node[L[a]], S, a)
          /\ t.node[L[a]].next = IF a < Len(L) THEN L[a + 1] ELSE 0
      BY <2>1 DEF Arranged
    <3>2. CASE a = j
      <4>1. u.node[L[a]] = m /\ m.next = t.node[L[a]].next /\ LeafSound(m, S, a)
        BY <1>5, <3>2 DEF q, L, S
      <4> QED BY <3>1, <4>1
    <3>3. CASE a # j
      <4>1. u.node[L[a]] = t.node[L[a]]
        BY <1>5, <1>7, <3>3
      <4> QED BY <3>1, <4>1
    <3> QED BY <3>2, <3>3
  <2> QED BY <2>1, <2>2 DEF Arranged
<1>9. Rooted(u)
  <2>1. Rooted(t)
    BY DEF Sound
  <2>2. ASSUME NEW a \in 1..Len(L) PROVE u.node[L[a]].leaf
    BY <1>8, LeafShape DEF Arranged, LeafSound
  <2>3. ASSUME NEW p \in Pages, p \notin t.ids PROVE u.node[p] = Blank
    BY <1>1, <1>5, <2>1, <2>3 DEF Rooted
  <2> QED BY <1>4, <1>6, <2>1, <2>2, <2>3 DEF Rooted, L, S
<1>10. Accounted(u)
  BY <1>4 DEF Sound, Accounted
<1> QED BY <1>4, <1>6, <1>8, <1>9, <1>10 DEF Sound, L, S, q

\* What the pages bind after one page was rewritten.
LEMMA BindsWritten ==
    ASSUME NEW t \in Trees, NEW q \in Pages, NEW m, NEW u, u.node = [t.node EXCEPT ![q] = m],
           NEW k, NEW r
    PROVE  Binds(u, k, r) <=> Has(m, k, r) \/ \E p \in Pages \ {q} : Has(t.node[p], k, r)
<1>1. t.node \in [Pages -> LeafNodes \cup InnerNodes]
  BY TreeShape
<1>2. u.node[q] = m /\ \A p \in Pages : p # q => u.node[p] = t.node[p]
  BY <1>1
<1> QED BY <1>2 DEF Binds

-----------------------------------------------------------------------------
(* Pages taken and given back                                              *)

\* There is a page left to take.
HasPage(t) == Len(t.free) >= 1 \/ t.count <= MaxPages

HasTwoPages(t) == t.count + 2 <= MaxPages + 1 \/ Len(t.free) >= 2


\* A step that moves no page between owners keeps the account.
LEMMA SameAccount ==
    ASSUME NEW t, NEW u, Accounted(t), u.ids = t.ids, u.free = t.free, u.count = t.count
    PROVE  Accounted(u)
BY DEF Accounted

\* alloc_page returns a page that no other owner holds and keeps the account.
LEMMA AllocatedIs ==
    ASSUME NEW t \in Trees, Accounted(t), HasPage(t), NEW q, q = NewPage(t), NEW u, u = Allocated(t)
    PROVE  /\ q \in Pages /\ q \notin t.ids
           /\ u \in Trees /\ Accounted(u)
           /\ u.node = t.node /\ u.root = t.root /\ u.ids = t.ids \cup {q}
           /\ HasTwoPages(t) => HasPage(u)
<1>1. /\ t.node \in [Pages -> LeafNodes \cup InnerNodes]
      /\ t.root \in Pages /\ t.ids \in SUBSET Pages /\ t.free \in Seq(Pages) /\ t.count \in Nat
  BY TreeShape
<1> DEFINE f == t.free
           c == t.count
<1>2. /\ c \in 2..(MaxPages + 1) /\ t.ids \subseteq 1..(c - 1)
      /\ \A a, b \in 1..Len(f) : f[a] = f[b] => a = b
      /\ \A p \in Pages : (\E a \in 1..Len(f) : f[a] = p) <=> p < c /\ p \notin t.ids
  BY DEF Accounted
<1>3. Len(f) \in Nat /\ MaxPages \in Nat
  BY <1>1, PagesAssumption
<1>4. CASE f # <<>>
  <2> DEFINE g == Tail(f)
  <2>1. q = f[1] /\ u = [t EXCEPT !.free = g, !.ids = t.ids \cup {q}]
    BY <1>1, <1>4 DEF NewPage, Allocated
  <2>2. Len(f) > 0
    BY <1>1, <1>4
  <2>3. g \in Seq(Pages) /\ Len(g) = Len(f) - 1 /\ \A a \in 1..(Len(f) - 1) : g[a] = f[a + 1]
    BY <1>1, <1>4
  <2>4. 1 \in 1..Len(f) /\ q \in Pages
    BY <1>1, <1>3, <2>1, <2>2
  <2>5. q \notin t.ids /\ q < c
    BY <1>2, <2>1, <2>4
  <2> HIDE DEF g
  <2>6. /\ u \in Trees /\ u.node = t.node /\ u.root = t.root /\ u.ids = t.ids \cup {q}
        /\ u.free = g /\ u.count = c
    <3>1. t.ids \cup {q} \in SUBSET Pages
      BY <1>1, <2>4
    <3> DEFINE I == t.ids \cup {q}
    <3>2. I \in SUBSET Pages /\ u = [t EXCEPT !.free = g, !.ids = I]
      BY <2>1, <3>1
    <3> HIDE DEF I
    <3>3. /\ u \in Trees /\ u.node = t.node /\ u.root = t.root /\ u.ids = I
          /\ u.free = g /\ u.count = t.count
      BY <2>3, <3>2 DEF Trees
    <3> QED BY <3>3 DEF I
  <2>7. \A a \in 1..Len(g) : a \in 1..(Len(f) - 1) /\ a + 1 \in 1..Len(f) /\ g[a] = f[a + 1]
    BY <1>3, <2>3
  <2>8. \A a, b \in 1..Len(g) : g[a] = g[b] => a = b
    <3> SUFFICES ASSUME NEW a \in 1..Len(g), NEW b \in 1..Len(g), g[a] = g[b] PROVE a = b
      OBVIOUS
    <3>1. a + 1 = b + 1
      BY <1>2, <2>7
    <3> QED BY <1>3, <2>3, <3>1
  <2>9. ASSUME NEW p \in Pages
        PROVE  (\E a \in 1..Len(g) : g[a] = p) <=> p < c /\ p \notin u.ids
    <3>1. ASSUME NEW a \in 1..Len(g), g[a] = p PROVE p < c /\ p \notin u.ids
      <4>1. p = f[a + 1] /\ a + 1 \in 1..Len(f) /\ a + 1 # 1
        BY <2>7, <3>1
      <4>2. p < c /\ p \notin t.ids /\ p # q
        BY <1>2, <2>1, <2>4, <4>1
      <4> QED BY <2>6, <4>2
    <3>2. ASSUME p < c, p \notin u.ids PROVE \E a \in 1..Len(g) : g[a] = p
      <4>1. p \notin t.ids /\ p # q
        BY <2>6, <3>2
      <4>2. PICK b \in 1..Len(f) : f[b] = p
        BY <1>2, <3>2, <4>1
      <4>3. b # 1
        BY <2>1, <4>1, <4>2
      <4>4. b - 1 \in 1..Len(g) /\ b - 1 + 1 = b
        BY <1>3, <2>3, <4>3
      <4> QED BY <2>7, <4>2, <4>4
    <3> QED BY <3>1, <3>2
  <2>10. u.ids \subseteq 1..(c - 1)
    <3>1. q \in 1..(c - 1)
      BY <1>2, <2>4, <2>5 DEF Pages
    <3> QED BY <1>2, <2>6, <3>1
  <2>11. Accounted(u)
    BY <1>2, <2>6, <2>8, <2>9, <2>10 DEF Accounted
  <2>12. HasTwoPages(t) => HasPage(u)
    BY <1>2, <1>3, <2>3, <2>6 DEF HasTwoPages, HasPage
  <2> QED BY <2>4, <2>5, <2>6, <2>11, <2>12
<1>5. CASE f = <<>>
  <2>1. q = c /\ u = [t EXCEPT !.count = c + 1, !.ids = t.ids \cup {q}]
    BY <1>5 DEF NewPage, Allocated
  <2>2. Len(f) = 0
    BY <1>5
  <2>3. c <= MaxPages
    BY <2>2 DEF HasPage
  <2>4. q \in Pages /\ q \notin t.ids
    BY <1>2, <1>3, <2>1, <2>3 DEF Pages
  <2>5. /\ u \in Trees /\ u.node = t.node /\ u.root = t.root /\ u.ids = t.ids \cup {q}
        /\ u.free = f /\ u.count = c + 1
    <3>1. t.ids \cup {q} \in SUBSET Pages /\ c + 1 \in Nat
      BY <1>1, <2>4
    <3> DEFINE I == t.ids \cup {q}
               d == c + 1
    <3>2. I \in SUBSET Pages /\ d \in Nat /\ u = [t EXCEPT !.count = d, !.ids = I]
      BY <2>1, <3>1
    <3> HIDE DEF I, d
    <3>3. /\ u \in Trees /\ u.node = t.node /\ u.root = t.root /\ u.ids = I
          /\ u.free = t.free /\ u.count = d
      BY <3>2 DEF Trees
    <3> QED BY <3>3 DEF I, d
  <2>6. \A p \in Pages : p < c + 1 /\ p \notin u.ids <=> p < c /\ p \notin t.ids
    BY <1>2, <1>3, <2>1, <2>5 DEF Pages
  <2>7. u.ids \subseteq 1..(c + 1 - 1) /\ c + 1 \in 2..(MaxPages + 1)
    BY <1>2, <1>3, <2>1, <2>3, <2>5
  <2>8. Accounted(u)
    BY <1>2, <2>5, <2>6, <2>7 DEF Accounted
  <2>9. HasTwoPages(t) => HasPage(u)
    BY <1>2, <1>3, <2>2, <2>5 DEF HasTwoPages, HasPage
  <2> QED BY <2>4, <2>5, <2>8, <2>9
<1> QED BY <1>4, <1>5

\* free_page gives back a page the tree owns, blank.
LEMMA FreedIs ==
    ASSUME NEW t \in Trees, Accounted(t), NEW q \in Pages, q \in t.ids, NEW u, u = Freed(t, q)
    PROVE  /\ u \in Trees /\ Accounted(u)
           /\ u.node = [t.node EXCEPT ![q] = Blank] /\ u.root = t.root /\ u.ids = t.ids \ {q}
<1>1. /\ t.node \in [Pages -> LeafNodes \cup InnerNodes]
      /\ t.root \in Pages /\ t.ids \in SUBSET Pages /\ t.free \in Seq(Pages) /\ t.count \in Nat
  BY TreeShape
<1> DEFINE f == t.free
           c == t.count
           g == <<q>> \o f
<1>2. /\ c \in 2..(MaxPages + 1) /\ t.ids \subseteq 1..(c - 1)
      /\ \A a, b \in 1..Len(f) : f[a] = f[b] => a = b
      /\ \A p \in Pages : (\E a \in 1..Len(f) : f[a] = p) <=> p < c /\ p \notin t.ids
  BY DEF Accounted
<1>3. Len(f) \in Nat /\ MaxPages \in Nat
  BY <1>1, PagesAssumption
<1>4. g \in Seq(Pages) /\ Len(g) = Len(f) + 1
      /\ \A a \in 1..(Len(f) + 1) : g[a] = IF a = 1 THEN q ELSE f[a - 1]
  BY <1>1, <1>3
<1>5. u = [t EXCEPT !.free = g, !.ids = t.ids \ {q}, !.node[q] = Blank]
  BY DEF Freed, Blank
<1> HIDE DEF g
<1>6. /\ u \in Trees /\ u.node = [t.node EXCEPT ![q] = Blank] /\ u.root = t.root
      /\ u.ids = t.ids \ {q} /\ u.free = g /\ u.count = c
  <2>1. Blank \in LeafNodes \cup InnerNodes /\ t.ids \ {q} \in SUBSET Pages
    BY <1>1, BlankIs
  <2> DEFINE I == t.ids \ {q}
  <2>2. I \in SUBSET Pages /\ u = [t EXCEPT !.free = g, !.ids = I, !.node[q] = Blank]
    BY <1>5, <2>1
  <2> HIDE DEF I
  <2>3. /\ u \in Trees /\ u.node = [t.node EXCEPT ![q] = Blank] /\ u.root = t.root
        /\ u.ids = I /\ u.free = g /\ u.count = t.count
    <3>1. g \in Seq(Pages)
      BY <1>4
    <3>2. Blank \in LeafNodes \cup InnerNodes
      BY <2>1
    <3> HIDE DEF f, c
    <3> DEFINE N == [t.node EXCEPT ![q] = Blank]
    <3>3. N \in [Pages -> LeafNodes \cup InnerNodes]
      BY <1>1, <3>2
    <3>4. u = [t EXCEPT !.free = g, !.ids = I, !.node = N]
      BY <2>2
    <3> HIDE DEF N
    <3>5. /\ u \in Trees /\ u.node = N /\ u.root = t.root
          /\ u.ids = I /\ u.free = g /\ u.count = t.count
      BY <2>2, <3>1, <3>3, <3>4 DEF Trees
    <3> QED BY <3>5 DEF N
  <2> QED BY <2>3 DEF I
<1>7. \A a \in 1..Len(f) : f[a] # q
  BY <1>2
<1>8. \A a \in 1..Len(g) : a # 1 => a - 1 \in 1..Len(f) /\ g[a] = f[a - 1]
  BY <1>3, <1>4
<1>9. 1 \in 1..Len(g) /\ g[1] = q
  BY <1>3, <1>4
<1>10. \A a, b \in 1..Len(g) : g[a] = g[b] => a = b
  <2> SUFFICES ASSUME NEW a \in 1..Len(g), NEW b \in 1..Len(g), g[a] = g[b], a # b PROVE FALSE
    OBVIOUS
  <2>1. a # 1 /\ b # 1
    BY <1>7, <1>8, <1>9
  <2>2. a - 1 \in 1..Len(f) /\ b - 1 \in 1..Len(f) /\ f[a - 1] = f[b - 1]
    BY <1>8, <2>1
  <2>3. a - 1 = b - 1
    <3> HIDE DEF f
    <3> QED BY <1>2, <2>2
  <2> QED BY <1>3, <1>4, <2>3
<1>11. ASSUME NEW p \in Pages
       PROVE  (\E a \in 1..Len(g) : g[a] = p) <=> p < c /\ p \notin u.ids
  <2>0. q < c
    BY <1>2
  <2>1. ASSUME NEW a \in 1..Len(g), g[a] = p PROVE p < c /\ p \notin u.ids
    BY <1>2, <1>6, <1>8, <1>9, <2>0, <2>1
  <2>2. ASSUME p < c, p \notin u.ids PROVE \E a \in 1..Len(g) : g[a] = p
    <3>1. CASE p = q
      BY <1>9, <3>1
    <3>2. CASE p # q
      <4>1. PICK b \in 1..Len(f) : f[b] = p
        BY <1>2, <1>6, <2>2, <3>2
      <4>2. b + 1 \in 1..Len(g) /\ b + 1 # 1 /\ b + 1 - 1 = b
        BY <1>3, <1>4
      <4> QED BY <1>8, <4>1, <4>2
    <3> QED BY <3>1, <3>2
  <2> QED BY <2>1, <2>2
<1>12. Accounted(u)
  BY <1>2, <1>6, <1>10, <1>11 DEF Accounted
<1> QED BY <1>6, <1>12
-----------------------------------------------------------------------------
(* Two neighbouring leaves                                                 *)

\* A leaf whose keys fit between the separators below place a and above place b.
Spans(n, S, a, b) ==
    /\ n \in LeafNodes
    /\ Len(n.vals) = Len(n.keys)
    /\ Increasing(n.keys)
    /\ \A i \in 1..Len(n.keys) : /\ a > 1 => S[a - 1] <= n.keys[i]
                                 /\ b <= Len(S) => n.keys[i] < S[b]

\* The leaf m holds what l and then r hold.
Joined(m, l, r) ==
    /\ Len(m.keys) = Len(l.keys) + Len(r.keys)
    /\ \A i \in 1..Len(l.keys) : m.keys[i] = l.keys[i] /\ m.vals[i] = l.vals[i]
    /\ \A i \in 1..Len(r.keys) : /\ m.keys[Len(l.keys) + i] = r.keys[i]
                                 /\ m.vals[Len(l.keys) + i] = r.vals[i]

\* The leaves l and r lie on the two sides of sep, between the separators
\* below place a and above place b.
Parted(l, r, S, a, b, sep) ==
    /\ Spans(l, S, a, b) /\ Spans(r, S, a, b) /\ sep \in Keys
    /\ \A i \in 1..Len(l.keys) : l.keys[i] < sep
    /\ \A i \in 1..Len(r.keys) : sep <= r.keys[i]
    /\ a > 1 => S[a - 1] < sep
    /\ b <= Len(S) => sep < S[b]

\* What two leaves bind together.
BindsBoth(m, l, r) == \A k, v : Has(m, k, v) <=> Has(l, k, v) \/ Has(r, k, v)

\* A leaf that is two leaves joined binds what they bind.
LEMMA JoinedHas ==
    ASSUME NEW m \in LeafNodes, NEW l \in LeafNodes, NEW r \in LeafNodes, Joined(m, l, r),
           Len(m.vals) = Len(m.keys), Len(l.vals) = Len(l.keys), Len(r.vals) = Len(r.keys)
    PROVE  BindsBoth(m, l, r)
<1> SUFFICES ASSUME NEW k, NEW v
             PROVE  Has(m, k, v) <=> Has(l, k, v) \/ Has(r, k, v)
  BY DEF BindsBoth
<1> DEFINE c == Len(l.keys)
           d == Len(r.keys)
<1>1. l.keys \in Seq(Keys) /\ r.keys \in Seq(Keys)
  BY LeafShape
<1>2. c \in Nat /\ d \in Nat
  BY <1>1
<1>3. /\ Len(m.keys) = c + d
      /\ \A i \in 1..c : m.keys[i] = l.keys[i] /\ m.vals[i] = l.vals[i]
      /\ \A i \in 1..d : m.keys[c + i] = r.keys[i] /\ m.vals[c + i] = r.vals[i]
  BY DEF Joined
<1> HIDE DEF c, d
<1>4. ASSUME Has(m, k, v) PROVE Has(l, k, v) \/ Has(r, k, v)
  <2>1. PICK i \in 1..(c + d) : m.keys[i] = k /\ m.vals[i] = v
    BY <1>3, <1>4 DEF Has
  <2>2. CASE i <= c
    <3>1. i \in 1..c
      BY <1>2, <2>2
    <3>2. l.keys[i] = k /\ l.vals[i] = v
      BY <1>3, <2>1, <3>1
    <3> QED BY <3>1, <3>2 DEF Has, c
  <2>3. CASE i > c
    <3>1. i - c \in 1..d /\ c + (i - c) = i
      BY <1>2, <2>3
    <3>2. r.keys[i - c] = k /\ r.vals[i - c] = v
      BY <1>3, <2>1, <3>1
    <3> QED BY <3>1, <3>2 DEF Has, d
  <2> QED BY <1>2, <2>2, <2>3
<1>5. ASSUME Has(l, k, v) PROVE Has(m, k, v)
  <2>1. PICK i \in 1..c : l.keys[i] = k /\ l.vals[i] = v
    BY <1>5 DEF Has, c
  <2>2. i \in 1..Len(m.vals)
    BY <1>2, <1>3
  <2>3. m.keys[i] = k /\ m.vals[i] = v
    BY <1>3, <2>1
  <2> QED BY <2>2, <2>3 DEF Has
<1>6. ASSUME Has(r, k, v) PROVE Has(m, k, v)
  <2>1. PICK i \in 1..d : r.keys[i] = k /\ r.vals[i] = v
    BY <1>6 DEF Has, d
  <2>2. c + i \in 1..Len(m.vals)
    BY <1>2, <1>3
  <2>3. m.keys[c + i] = k /\ m.vals[c + i] = v
    BY <1>3, <2>1
  <2> QED BY <2>2, <2>3 DEF Has
<1> QED BY <1>4, <1>5, <1>6

\* Neighbouring leaves joined into one.
LEMMA JoinedSpans ==
    ASSUME NEW S \in Seq(Keys), Increasing(S), NEW j \in 1..Len(S), NEW l, NEW r,
           LeafSound(l, S, j), LeafSound(r, S, j + 1),
           NEW m \in LeafNodes, Len(m.vals) = Len(m.keys), Joined(m, l, r)
    PROVE  Spans(m, S, j, j + 1)
<1> DEFINE c == Len(l.keys)
           d == Len(r.keys)
           ks == m.keys
<1>1. /\ c \in Nat /\ \A a \in 1..c : l.keys[a] \in Int
      /\ d \in Nat /\ \A a \in 1..d : r.keys[a] \in Int
  BY SoundLeafShape
<1>2. /\ Len(ks) = c + d
      /\ \A i \in 1..c : ks[i] = l.keys[i]
      /\ \A i \in 1..d : ks[c + i] = r.keys[i]
  BY DEF Joined
<1>3. \A a \in 1..Len(S) : S[a] \in Int
  <2>1. \A a \in 1..Len(S) : S[a] \in Keys
    OBVIOUS
  <2> QED BY <2>1, KeysAreInts
<1>4. Len(S) \in Nat
  OBVIOUS
<1>5. /\ \A x, y \in 1..c : x < y => l.keys[x] < l.keys[y]
      /\ \A x, y \in 1..d : x < y => r.keys[x] < r.keys[y]
      /\ \A x \in 1..c : (j > 1 => S[j - 1] <= l.keys[x]) /\ l.keys[x] < S[j]
      /\ \A x \in 1..d : S[j] <= r.keys[x] /\ (j + 1 <= Len(S) => r.keys[x] < S[j + 1])
  <2>1. j \in Nat /\ j <= Len(S) /\ j + 1 > 1 /\ j + 1 - 1 = j
    BY <1>4
  <2> QED BY <2>1 DEF LeafSound, Increasing, Between
<1>6. (j > 1 => S[j - 1] < S[j]) /\ (j + 1 <= Len(S) => S[j] < S[j + 1])
  <2>1. j \in Nat /\ (j > 1 => j - 1 \in 1..Len(S) /\ j - 1 < j)
        /\ (j + 1 <= Len(S) => j + 1 \in 1..Len(S) /\ j < j + 1)
    BY <1>4
  <2> QED BY <2>1 DEF Increasing
<1> HIDE DEF c, d, ks
<1>7. ASSUME NEW i \in 1..(c + d)
      PROVE  \/ i \in 1..c /\ ks[i] = l.keys[i]
             \/ i - c \in 1..d /\ ks[i] = r.keys[i - c] /\ i > c
  <2>1. CASE i <= c
    BY <1>1, <1>2, <2>1
  <2>2. CASE i > c
    <3>1. i - c \in 1..d /\ c + (i - c) = i
      BY <1>1, <2>2
    <3> QED BY <1>2, <2>2, <3>1
  <2> QED BY <1>1, <2>1, <2>2
<1>8. Increasing(ks)
  <2> SUFFICES ASSUME NEW a \in 1..(c + d), NEW b \in 1..(c + d), a < b PROVE ks[a] < ks[b]
    BY <1>2 DEF Increasing
  <2>1. CASE b \in 1..c /\ ks[b] = l.keys[b]
    <3>1. a \in 1..c
      BY <1>1, <2>1
    <3> QED BY <1>2, <1>5, <2>1, <3>1
  <2>2. CASE b - c \in 1..d /\ ks[b] = r.keys[b - c] /\ a \in 1..c /\ ks[a] = l.keys[a]
    <3>1. ks[a] < S[j] /\ S[j] <= ks[b]
      BY <1>5, <2>2
    <3>2. ks[a] \in Int /\ ks[b] \in Int /\ S[j] \in Int
      BY <1>1, <1>3, <2>2
    <3> QED BY <3>1, <3>2
  <2>3. CASE b - c \in 1..d /\ ks[b] = r.keys[b - c] /\ a - c \in 1..d /\ ks[a] = r.keys[a - c]
    <3>1. a - c < b - c
      BY <1>1
    <3> QED BY <1>5, <2>3, <3>1
  <2> QED BY <1>7, <2>1, <2>2, <2>3
<1>9. ASSUME NEW i \in 1..(c + d)
      PROVE  (j > 1 => S[j - 1] <= ks[i]) /\ (j + 1 <= Len(S) => ks[i] < S[j + 1])
  <2>0. S[j] \in Int /\ (j > 1 => S[j - 1] \in Int) /\ (j + 1 <= Len(S) => S[j + 1] \in Int)
    BY <1>3, <1>4
  <2>1. CASE i \in 1..c /\ ks[i] = l.keys[i]
    <3>1. ks[i] \in Int /\ ks[i] < S[j] /\ (j > 1 => S[j - 1] <= ks[i])
      BY <1>1, <1>5, <2>1
    <3> QED BY <1>6, <2>0, <3>1
  <2>2. CASE i - c \in 1..d /\ ks[i] = r.keys[i - c]
    <3>1. ks[i] \in Int /\ S[j] <= ks[i] /\ (j + 1 <= Len(S) => ks[i] < S[j + 1])
      BY <1>1, <1>5, <2>2
    <3> QED BY <1>6, <2>0, <3>1
  <2> QED BY <1>7, <2>1, <2>2
<1> QED BY <1>2, <1>8, <1>9 DEF Spans, ks

\* A leaf cut in two at the key that becomes the separator between the halves.
LEMMA CutSpans ==
    ASSUME NEW S \in Seq(Keys), NEW a \in Nat, NEW b \in Nat, NEW m, Spans(m, S, a, b),
           a > 1 => a - 1 \in 1..Len(S), b > 0,
           NEW l \in LeafNodes, Len(l.vals) = Len(l.keys), Len(l.keys) > 0,
           NEW r \in LeafNodes, Len(r.vals) = Len(r.keys), Len(r.keys) > 0,
           Joined(m, l, r), NEW sep, sep = r.keys[1]
    PROVE  Parted(l, r, S, a, b, sep)
<1> DEFINE c == Len(l.keys)
           d == Len(r.keys)
           ks == m.keys
<1>1. l.keys \in Seq(Keys) /\ r.keys \in Seq(Keys)
  BY LeafShape
<1>2. c \in Nat /\ d \in Nat /\ c > 0 /\ d > 0
      /\ (\A i \in 1..c : l.keys[i] \in Keys) /\ (\A i \in 1..d : r.keys[i] \in Keys)
  BY <1>1
<1>3. (\A i \in 1..c : l.keys[i] \in Int) /\ (\A i \in 1..d : r.keys[i] \in Int)
  BY <1>2, KeysAreInts
<1>4. /\ Len(ks) = c + d
      /\ \A i \in 1..c : ks[i] = l.keys[i]
      /\ \A i \in 1..d : ks[c + i] = r.keys[i]
  BY DEF Joined
<1>5. /\ \A x, y \in 1..(c + d) : x < y => ks[x] < ks[y]
      /\ \A x \in 1..(c + d) : (a > 1 => S[a - 1] <= ks[x]) /\ (b <= Len(S) => ks[x] < S[b])
  BY <1>4 DEF Spans, Increasing
<1>6. a > 1 => S[a - 1] \in Int
  <2>1. a > 1 => S[a - 1] \in Keys
    OBVIOUS
  <2> QED BY <2>1, KeysAreInts
<1> HIDE DEF c, d, ks
<1>7. \A i \in 1..c : i \in 1..(c + d)
  BY <1>2
<1>8. \A i \in 1..d : c + i \in 1..(c + d)
  BY <1>2
<1>9. Spans(l, S, a, b)
  <2>1. Increasing(l.keys)
    BY <1>4, <1>5, <1>7 DEF Increasing, c
  <2>2. \A i \in 1..c : (a > 1 => S[a - 1] <= l.keys[i]) /\ (b <= Len(S) => l.keys[i] < S[b])
    BY <1>4, <1>5, <1>7
  <2> QED BY <2>1, <2>2 DEF Spans, c
<1>10. Spans(r, S, a, b)
  <2>1. \A x, y \in 1..d : x < y => c + x < c + y
    BY <1>2
  <2>2. Increasing(r.keys)
    BY <1>4, <1>5, <1>8, <2>1 DEF Increasing, d
  <2>3. \A i \in 1..d : (a > 1 => S[a - 1] <= r.keys[i]) /\ (b <= Len(S) => r.keys[i] < S[b])
    BY <1>4, <1>5, <1>8
  <2> QED BY <2>2, <2>3 DEF Spans, d
<1>11. 1 \in 1..d /\ sep = ks[c + 1] /\ c + 1 \in 1..(c + d) /\ sep \in Keys /\ sep \in Int
  BY <1>2, <1>3, <1>4
<1>12. \A i \in 1..c : l.keys[i] < sep
  <2>1. \A i \in 1..c : i < c + 1
    BY <1>2
  <2> QED BY <1>4, <1>5, <1>7, <1>11, <2>1
<1>13. ASSUME NEW i \in 1..d PROVE sep <= r.keys[i]
  <2>1. i = 1 \/ c + 1 < c + i
    BY <1>2
  <2>2. CASE i = 1
    <3>1. r.keys[i] = sep
      BY <2>2
    <3>2. sep <= sep
      BY <1>11
    <3> QED BY <3>1, <3>2
  <2>3. CASE c + 1 < c + i
    <3>1. sep < r.keys[i] /\ r.keys[i] \in Int
      BY <1>3, <1>4, <1>5, <1>8, <1>11, <2>3
    <3> QED BY <1>11, <3>1
  <2> QED BY <2>1, <2>2, <2>3
<1>14. a > 1 => S[a - 1] < sep
  <2>1. 1 \in 1..c
    BY <1>2
  <2>2. (a > 1 => S[a - 1] <= l.keys[1]) /\ l.keys[1] < sep /\ l.keys[1] \in Int
    BY <1>3, <1>4, <1>5, <1>7, <1>12, <2>1
  <2> QED BY <1>6, <1>11, <2>2
<1>15. b <= Len(S) => sep < S[b]
  BY <1>5, <1>11
<1> QED BY <1>9, <1>10, <1>11, <1>12, <1>13, <1>14, <1>15 DEF Parted, c, d
-----------------------------------------------------------------------------
(* The leaves of a tree rearranged                                         *)

\* What an arrangement says of its leaves, its separators and their order.
LEMMA ArrangedIs ==
    ASSUME NEW N, NEW L, NEW S, Arranged(N, L, S)
    PROVE  /\ L \in Seq(Pages) /\ S \in Seq(Keys) /\ Len(S) \in Nat /\ Len(L) = Len(S) + 1
           /\ \A a \in 1..Len(L) : L[a] \in Pages
           /\ \A a \in 1..Len(S) : S[a] \in Keys /\ S[a] \in Int
           /\ \A a, b \in 1..Len(L) : L[a] = L[b] => a = b
           /\ \A a, b \in 1..Len(S) : a < b => S[a] < S[b]
           /\ \A j \in 1..Len(L) :
                 /\ LeafSound(N[L[j]], S, j)
                 /\ N[L[j]].next = IF j < Len(L) THEN L[j + 1] ELSE 0
<1>1. /\ L \in Seq(Pages) /\ S \in Seq(Keys) /\ Len(L) = Len(S) + 1
      /\ \A a, b \in 1..Len(L) : L[a] = L[b] => a = b
      /\ \A a, b \in 1..Len(S) : a < b => S[a] < S[b]
      /\ \A j \in 1..Len(L) :
            /\ LeafSound(N[L[j]], S, j)
            /\ N[L[j]].next = IF j < Len(L) THEN L[j + 1] ELSE 0
  BY DEF Arranged, Increasing
<1>2. Len(S) \in Nat /\ (\A a \in 1..Len(S) : S[a] \in Keys) /\ \A a \in 1..Len(L) : L[a] \in Pages
  BY <1>1
<1> QED BY <1>1, <1>2, KeysAreInts

\* The pages of the leaves at places outside C are as they were.
Kept(M, N, L, C) == \A a \in 1..Len(L) : a \notin C => M[L[a]] = N[L[a]]

Absent(q, L) == \A a \in 1..Len(L) : L[a] # q

\* A leaf stays sound when its place moves and the separators around it do not change.
LEMMA LeafMoves ==
    ASSUME NEW n, NEW S, NEW S2, NEW j \in Int, NEW i \in Int, LeafSound(n, S, j),
           i > 1 => j > 1 /\ S2[i - 1] = S[j - 1],
           i <= Len(S2) => j <= Len(S) /\ S2[i] = S[j]
    PROVE  LeafSound(n, S2, i)
BY DEF LeafSound, Between

\* A leaf splits: its right half goes to page q, the separator between the halves to place j.
LEMMA SplitArranged ==
    ASSUME NEW N, NEW L, NEW S, Arranged(N, L, S), NEW j \in 1..Len(L),
           NEW q \in Pages, Absent(q, L), NEW sep,
           NEW L2 \in Seq(Pages), SplicedIn(L2, L, j + 1, q),
           NEW S2 \in Seq(Keys), SplicedIn(S2, S, j, sep),
           NEW M, Kept(M, N, L, {j}), Parted(M[L[j]], M[q], S, j, j, sep),
           M[L[j]].next = q, M[q].next = N[L[j]].next
    PROVE  Arranged(M, L2, S2)
<1> DEFINE c == Len(S)
<1>1. /\ L \in Seq(Pages) /\ S \in Seq(Keys) /\ c \in Nat /\ Len(L) = c + 1
      /\ \A a \in 1..c : S[a] \in Int
      /\ \A a, b \in 1..(c + 1) : L[a] = L[b] => a = b
      /\ \A a, b \in 1..c : a < b => S[a] < S[b]
      /\ \A i \in 1..(c + 1) :
            /\ LeafSound(N[L[i]], S, i)
            /\ N[L[i]].next = IF i < c + 1 THEN L[i + 1] ELSE 0
  <2>1. /\ L \in Seq(Pages) /\ S \in Seq(Keys) /\ Len(L) = Len(S) + 1
        /\ \A a, b \in 1..Len(L) : L[a] = L[b] => a = b
        /\ \A a, b \in 1..Len(S) : a < b => S[a] < S[b]
        /\ \A i \in 1..Len(L) :
              /\ LeafSound(N[L[i]], S, i)
              /\ N[L[i]].next = IF i < Len(L) THEN L[i + 1] ELSE 0
    BY DEF Arranged, Increasing
  <2>2. Len(S) \in Nat /\ \A a \in 1..Len(S) : S[a] \in Int
    BY ArrangedIs, Zenon
  <2> QED BY <2>1, <2>2
<1>2. /\ Len(L2) = c + 2
      /\ \A a \in 1..(c + 2) : L2[a] = IF a < j + 1 THEN L[a] ELSE IF a = j + 1 THEN q ELSE L[a - 1]
  <2>1. c + 1 + 1 = c + 2
    BY <1>1
  <2> QED BY <1>1, <2>1 DEF SplicedIn
<1>3. /\ Len(S2) = c + 1
      /\ \A a \in 1..(c + 1) : S2[a] = IF a < j THEN S[a] ELSE IF a = j THEN sep ELSE S[a - 1]
  BY <1>1 DEF SplicedIn
<1>4. j \in 1..(c + 1) /\ sep \in Int
  BY <1>1, KeysAreInts DEF Parted
<1>5. (j > 1 => S[j - 1] < sep) /\ (j <= c => sep < S[j])
  BY DEF Parted
<1> HIDE DEF c
<1>6. \A a, b \in 1..(c + 2) : L2[a] = L2[b] => a = b
  <2> SUFFICES ASSUME NEW a \in 1..(c + 2), NEW b \in 1..(c + 2), L2[a] = L2[b] PROVE a = b
    OBVIOUS
  <2> DEFINE x == IF a < j + 1 THEN a ELSE a - 1
             y == IF b < j + 1 THEN b ELSE b - 1
  <2>1. a # j + 1 => x \in 1..(c + 1) /\ L2[a] = L[x]
    BY <1>1, <1>2, <1>4
  <2>2. b # j + 1 => y \in 1..(c + 1) /\ L2[b] = L[y]
    BY <1>1, <1>2, <1>4
  <2>3. \A z \in 1..(c + 1) : L[z] # q
    BY <1>1 DEF Absent
  <2>4. (a = j + 1 => L2[a] = q) /\ (b = j + 1 => L2[b] = q)
    BY <1>2, <1>4
  <2>5. a # j + 1 /\ b # j + 1 => x = y
    <3> HIDE DEF x, y
    <3> QED BY <1>1, <2>1, <2>2
  <2>6. a = j + 1 <=> b = j + 1
    <3> HIDE DEF x, y
    <3> QED BY <2>1, <2>2, <2>3, <2>4
  <2>7. CASE a = j + 1
    BY <2>6, <2>7
  <2>8. CASE a # j + 1
    <3>1. a \in Int /\ b \in Int /\ j \in Int /\ b # j + 1 /\ x = y
      BY <1>1, <1>4, <2>5, <2>6, <2>8
    <3> QED BY <2>8, <3>1
  <2> QED BY <2>7, <2>8
<1>7. Increasing(S2)
  <2> SUFFICES ASSUME NEW a \in 1..(c + 1), NEW b \in 1..(c + 1), a < b PROVE S2[a] < S2[b]
    BY <1>3 DEF Increasing
  <2>1. CASE b < j
    <3>1. a \in 1..c /\ b \in 1..c /\ a < j
      BY <1>1, <1>4, <2>1
    <3> QED BY <1>1, <1>3, <2>1, <3>1
  <2>2. CASE b = j
    <3>1. a \in 1..c /\ j - 1 \in 1..c /\ a < j /\ (a = j - 1 \/ a < j - 1) /\ j > 1
      BY <1>1, <1>4, <2>2
    <3>2. S[a] <= S[j - 1]
      <4>1. S[a] \in Int /\ S[j - 1] \in Int /\ (a < j - 1 => S[a] < S[j - 1])
        BY <1>1, <3>1
      <4> QED BY <3>1, <4>1
    <3>3. S[a] < sep
      BY <1>1, <1>4, <1>5, <3>1, <3>2
    <3> QED BY <1>3, <2>2, <3>1, <3>3
  <2>3. CASE b > j /\ a < j
    <3>1. a \in 1..c /\ b - 1 \in 1..c /\ a < b - 1 /\ ~(b < j) /\ b # j
      BY <1>1, <1>4, <2>3
    <3> QED BY <1>1, <1>3, <2>3, <3>1
  <2>4. CASE b > j /\ a = j
    <3>1. b - 1 \in 1..c /\ j \in 1..c /\ (j = b - 1 \/ j < b - 1) /\ ~(b < j) /\ b # j /\ j <= c
      BY <1>1, <1>4, <2>4
    <3>2. S[j] <= S[b - 1]
      <4>1. S[j] \in Int /\ S[b - 1] \in Int /\ (j < b - 1 => S[j] < S[b - 1])
        BY <1>1, <3>1
      <4> QED BY <3>1, <4>1
    <3>3. sep < S[b - 1]
      BY <1>1, <1>4, <1>5, <3>1, <3>2
    <3> QED BY <1>3, <2>4, <3>1, <3>3
  <2>5. CASE b > j /\ a > j
    <3>1. a - 1 \in 1..c /\ b - 1 \in 1..c /\ a - 1 < b - 1 /\ ~(b < j) /\ b # j /\ ~(a < j) /\ a # j
      BY <1>1, <1>4, <2>5
    <3> QED BY <1>1, <1>3, <3>1
  <2> QED BY <1>4, <2>1, <2>2, <2>3, <2>4, <2>5
<1>8. ASSUME NEW i \in 1..(c + 2)
      PROVE  LeafSound(M[L2[i]], S2, i) /\ M[L2[i]].next = IF i < c + 2 THEN L2[i + 1] ELSE 0
  <2>1. CASE i < j
    <3>1. i \in 1..(c + 1) /\ i # j /\ i < c + 1 /\ i < j + 1 /\ i + 1 \in 1..(c + 2) /\ i + 1 < j + 1
          /\ i < c + 2 /\ i <= c
      BY <1>1, <1>4, <2>1
    <3>2. L2[i] = L[i] /\ L2[i + 1] = L[i + 1]
      BY <1>2, <3>1
    <3>3. M[L[i]] = N[L[i]]
      BY <1>1, <3>1 DEF Kept
    <3>4. LeafSound(N[L[i]], S2, i)
      <4>1. i > 1 => S2[i - 1] = S[i - 1]
        <5>1. i > 1 => i - 1 \in 1..(c + 1) /\ i - 1 < j
          BY <1>1, <2>1, <3>1
        <5> QED BY <1>3, <5>1
      <4>2. S2[i] = S[i]
        BY <1>3, <2>1, <3>1
      <4>3. LeafSound(N[L[i]], S, i)
        BY <1>1, <3>1
      <4>4. i <= Len(S) /\ i \in Int
        BY <3>1 DEF c
      <4> QED BY <4>1, <4>2, <4>3, <4>4, LeafMoves
    <3>5. N[L[i]].next = L[i + 1]
      BY <1>1, <3>1
    <3> QED BY <3>1, <3>2, <3>3, <3>4, <3>5
  <2>2. CASE i = j
    <3>1. i \in 1..(c + 1) /\ i < j + 1 /\ i + 1 \in 1..(c + 2) /\ ~(i + 1 < j + 1) /\ i + 1 = j + 1
          /\ i < c + 2
      BY <1>1, <1>4, <2>2
    <3>2. L2[i] = L[j] /\ L2[i + 1] = q
      BY <1>2, <2>2, <3>1
    <3>3. S2[j] = sep /\ (j > 1 => S2[j - 1] = S[j - 1])
      <4>1. j > 1 => j - 1 \in 1..(c + 1) /\ j - 1 < j
        BY <1>1, <1>4
      <4> QED BY <1>3, <1>4, <4>1
    <3>4. LeafSound(M[L[j]], S2, j)
      <4> DEFINE n == M[L[j]]
      <4>1. /\ n \in LeafNodes /\ Len(n.vals) = Len(n.keys) /\ Increasing(n.keys)
            /\ \A x \in 1..Len(n.keys) : (j > 1 => S[j - 1] <= n.keys[x]) /\ n.keys[x] < sep
        BY DEF Parted, Spans
      <4> HIDE DEF n
      <4>2. Between(n.keys, S2, j)
        BY <3>3, <4>1 DEF Between
      <4> QED BY <4>1, <4>2 DEF LeafSound, n
    <3> QED BY <2>2, <3>1, <3>2, <3>4
  <2>3. CASE i = j + 1
    <3>1. ~(i < j + 1) /\ (i < c + 2 => i + 1 \in 1..(c + 2) /\ ~(i + 1 < j + 1) /\ i + 1 # j + 1)
          /\ i + 1 - 1 = j + 1 /\ i - 1 = j /\ (i < c + 2 <=> j < c + 1)
      BY <1>1, <1>4, <2>3
    <3>2. L2[i] = q /\ (i < c + 2 => L2[i + 1] = L[j + 1])
      <4>1. L2[i] = q
        BY <1>2, <2>3, <3>1
      <4>2. ASSUME i < c + 2 PROVE L2[i + 1] = L[i + 1 - 1]
        BY <1>2, <3>1, <4>2
      <4> QED BY <3>1, <4>1, <4>2
    <3>3. S2[i - 1] = sep /\ (i <= c + 1 => S2[i] = S[j] /\ j <= c)
      <4>1. i <= c + 1 => i \in 1..(c + 1) /\ ~(i < j) /\ i # j /\ i - 1 = j /\ j <= c
        <5>1. j \in Int /\ c \in Int /\ j >= 1
          BY <1>1, <1>4
        <5> QED BY <2>3, <5>1
      <4> QED BY <1>3, <1>4, <3>1, <4>1
    <3>4. LeafSound(M[q], S2, i)
      <4> DEFINE n == M[q]
      <4>1. /\ n \in LeafNodes /\ Len(n.vals) = Len(n.keys) /\ Increasing(n.keys)
            /\ \A x \in 1..Len(n.keys) : sep <= n.keys[x] /\ (j <= c => n.keys[x] < S[j])
        BY DEF Parted, Spans, c
      <4> HIDE DEF n
      <4>2. Between(n.keys, S2, i)
        BY <1>3, <3>3, <4>1 DEF Between
      <4> QED BY <4>1, <4>2 DEF LeafSound, n
    <3>5. N[L[j]].next = IF j < c + 1 THEN L[j + 1] ELSE 0
      BY <1>1, <1>4
    <3> QED BY <3>1, <3>2, <3>4, <3>5
  <2>4. CASE i > j + 1
    <3>0. i \in Int /\ j \in Int /\ c \in Int
      BY <1>1, <1>4
    <3>1. i - 1 \in 1..(c + 1) /\ i - 1 # j /\ ~(i < j + 1) /\ i # j + 1 /\ (i < c + 2 <=> i - 1 < c + 1)
          /\ (i < c + 2 => i + 1 \in 1..(c + 2) /\ ~(i + 1 < j + 1) /\ i + 1 # j + 1
                           /\ i + 1 - 1 = i - 1 + 1)
      BY <1>4, <2>4, <3>0
    <3>2. L2[i] = L[i - 1] /\ (i < c + 2 => L2[i + 1] = L[i - 1 + 1])
      BY <1>2, <3>1
    <3>3. M[L[i - 1]] = N[L[i - 1]]
      BY <1>1, <3>1 DEF Kept
    <3>4. LeafSound(N[L[i - 1]], S2, i)
      <4>1. S2[i - 1] = S[i - 1 - 1] /\ i - 1 > 1
        <5>1. i - 1 > 1 /\ ~(i - 1 < j) /\ i - 1 # j
          BY <1>1, <1>4, <2>4
        <5> QED BY <1>3, <3>1, <5>1
      <4>2. i <= c + 1 => S2[i] = S[i - 1] /\ i - 1 <= c
        <5>1. i <= c + 1 => i \in 1..(c + 1) /\ ~(i < j) /\ i # j /\ i - 1 <= c
          BY <1>1, <1>4, <2>4
        <5> QED BY <1>3, <5>1
      <4>3. LeafSound(N[L[i - 1]], S, i - 1)
        BY <1>1, <3>1
      <4>4. i \in Int /\ i - 1 \in Int
        BY <3>1
      <4>5. i <= Len(S2) => i - 1 <= Len(S) /\ S2[i] = S[i - 1]
        BY <1>3, <4>2 DEF c
      <4> QED BY <4>1, <4>3, <4>4, <4>5, LeafMoves
    <3>5. N[L[i - 1]].next = IF i - 1 < c + 1 THEN L[i - 1 + 1] ELSE 0
      BY <1>1, <3>1
    <3> QED BY <3>1, <3>2, <3>3, <3>4, <3>5
  <2> QED BY <1>4, <2>1, <2>2, <2>3, <2>4
<1>9. Len(L2) = Len(S2) + 1
  BY <1>1, <1>2, <1>3
<1> QED BY <1>2, <1>6, <1>7, <1>8, <1>9 DEF Arranged
\* Keys move between neighbouring leaves and the separator between them follows.
LEMMA ShiftArranged ==
    ASSUME NEW N, NEW L, NEW S, Arranged(N, L, S), NEW j \in 1..Len(S), NEW sep,
           NEW S2, S2 = [S EXCEPT ![j] = sep],
           NEW M, Kept(M, N, L, {j, j + 1}), Parted(M[L[j]], M[L[j + 1]], S, j, j + 1, sep),
           M[L[j]].next = N[L[j]].next, M[L[j + 1]].next = N[L[j + 1]].next
    PROVE  Arranged(M, L, S2)
<1> DEFINE c == Len(S)
<1>1. /\ L \in Seq(Pages) /\ S \in Seq(Keys) /\ c \in Nat /\ Len(L) = c + 1
      /\ \A a \in 1..c : S[a] \in Int
      /\ \A a, b \in 1..(c + 1) : L[a] = L[b] => a = b
      /\ \A a, b \in 1..c : a < b => S[a] < S[b]
      /\ \A i \in 1..(c + 1) :
            /\ LeafSound(N[L[i]], S, i)
            /\ N[L[i]].next = IF i < c + 1 THEN L[i + 1] ELSE 0
  <2>1. /\ L \in Seq(Pages) /\ S \in Seq(Keys) /\ Len(L) = Len(S) + 1
        /\ \A a, b \in 1..Len(L) : L[a] = L[b] => a = b
        /\ \A a, b \in 1..Len(S) : a < b => S[a] < S[b]
        /\ \A i \in 1..Len(L) :
              /\ LeafSound(N[L[i]], S, i)
              /\ N[L[i]].next = IF i < Len(L) THEN L[i + 1] ELSE 0
    BY DEF Arranged, Increasing
  <2>2. Len(S) \in Nat /\ \A a \in 1..Len(S) : S[a] \in Int
    BY ArrangedIs, Zenon
  <2> QED BY <2>1, <2>2
<1>0. sep \in Keys
  BY DEF Parted
<1>2. /\ S2 \in Seq(Keys) /\ Len(S2) = c
      /\ S2[j] = sep /\ \A a \in 1..c : a # j => S2[a] = S[a]
  BY <1>0, <1>1
<1>3. j \in 1..c /\ sep \in Int /\ j \in Int
  BY <1>0, <1>1, KeysAreInts
<1>4. (j > 1 => S[j - 1] < sep) /\ (j + 1 <= c => sep < S[j + 1])
  BY DEF Parted
<1> HIDE DEF c
<1>5. Increasing(S2)
  <2> SUFFICES ASSUME NEW a \in 1..c, NEW b \in 1..c, a < b PROVE S2[a] < S2[b]
    BY <1>2 DEF Increasing
  <2>1. S[a] \in Int /\ S[b] \in Int /\ S[a] < S[b]
    BY <1>1
  <2>2. CASE a = j
    <3>1. b # j /\ j + 1 \in 1..c /\ j + 1 <= c /\ (b = j + 1 \/ j + 1 < b)
      BY <1>1, <1>3, <2>2
    <3>2. S[j + 1] \in Int /\ (j + 1 < b => S[j + 1] < S[b])
      BY <1>1, <3>1
    <3>3. sep < S[b]
      BY <1>3, <1>4, <2>1, <3>1, <3>2
    <3> QED BY <1>2, <2>2, <3>1, <3>3
  <2>3. CASE b = j
    <3>1. a # j /\ j - 1 \in 1..c /\ j > 1 /\ (a = j - 1 \/ a < j - 1)
      BY <1>1, <1>3, <2>3
    <3>2. S[j - 1] \in Int /\ (a < j - 1 => S[a] < S[j - 1])
      BY <1>1, <3>1
    <3>3. S[a] < sep
      BY <1>3, <1>4, <2>1, <3>1, <3>2
    <3> QED BY <1>2, <2>3, <3>1, <3>3
  <2>4. CASE a # j /\ b # j
    BY <1>2, <2>1, <2>4
  <2> QED BY <2>2, <2>3, <2>4
<1>6. ASSUME NEW i \in 1..(c + 1)
      PROVE  LeafSound(M[L[i]], S2, i) /\ M[L[i]].next = IF i < c + 1 THEN L[i + 1] ELSE 0
  <2>0. N[L[i]].next = IF i < c + 1 THEN L[i + 1] ELSE 0
    BY <1>1
  <2>1. CASE i = j
    <3> DEFINE n == M[L[j]]
    <3>1. /\ n \in LeafNodes /\ Len(n.vals) = Len(n.keys) /\ Increasing(n.keys)
          /\ \A x \in 1..Len(n.keys) : (j > 1 => S[j - 1] <= n.keys[x]) /\ n.keys[x] < sep
      BY DEF Parted, Spans
    <3> HIDE DEF n
    <3>2. j > 1 => S2[j - 1] = S[j - 1]
      <4>1. j > 1 => j - 1 \in 1..c /\ j - 1 # j
        BY <1>1, <1>3
      <4> QED BY <1>2, <4>1
    <3>3. Between(n.keys, S2, j)
      BY <1>2, <3>1, <3>2 DEF Between
    <3>4. LeafSound(n, S2, j)
      BY <3>1, <3>3 DEF LeafSound
    <3> QED BY <2>0, <2>1, <3>4 DEF n
  <2>2. CASE i = j + 1
    <3> DEFINE n == M[L[j + 1]]
    <3>1. /\ n \in LeafNodes /\ Len(n.vals) = Len(n.keys) /\ Increasing(n.keys)
          /\ \A x \in 1..Len(n.keys) : sep <= n.keys[x] /\ (j + 1 <= c => n.keys[x] < S[j + 1])
      BY DEF Parted, Spans, c
    <3> HIDE DEF n
    <3>2. (i <= c => S2[i] = S[j + 1]) /\ S2[i - 1] = sep
      <4>1. (i <= c => i \in 1..c /\ i # j) /\ i - 1 = j
        BY <1>1, <1>3, <2>2
      <4> QED BY <1>2, <2>2, <4>1
    <3>3. Between(n.keys, S2, i)
      BY <1>2, <2>2, <3>1, <3>2 DEF Between
    <3>4. LeafSound(n, S2, i)
      BY <3>1, <3>3 DEF LeafSound
    <3> QED BY <2>0, <2>2, <3>4 DEF n
  <2>3. CASE i # j /\ i # j + 1
    <3>1. M[L[i]] = N[L[i]] /\ LeafSound(N[L[i]], S, i) /\ i \in Int
      BY <1>1, <2>3 DEF Kept
    <3>2. (i > 1 => S2[i - 1] = S[i - 1]) /\ (i <= c => S2[i] = S[i])
      <4>1. (i > 1 => i - 1 \in 1..c /\ i - 1 # j) /\ (i <= c => i \in 1..c)
        BY <1>1, <1>3, <2>3
      <4> QED BY <1>2, <2>3, <4>1
    <3>3. LeafSound(N[L[i]], S2, i)
      <4>1. i <= Len(S2) => i <= Len(S) /\ S2[i] = S[i]
        BY <1>2, <3>2 DEF c
      <4> QED BY <3>1, <3>2, <4>1, LeafMoves
    <3> QED BY <2>0, <3>1, <3>3
  <2> QED BY <2>1, <2>2, <2>3
<1>7. L \in Seq(Pages) /\ Len(L) = Len(S2) + 1 /\ \A a, b \in 1..Len(L) : L[a] = L[b] => a = b
  BY <1>1, <1>2
<1>8. \A i \in 1..Len(L) : /\ LeafSound(M[L[i]], S2, i)
                           /\ M[L[i]].next = IF i < Len(L) THEN L[i + 1] ELSE 0
  BY <1>1, <1>6
<1> QED BY <1>2, <1>5, <1>7, <1>8 DEF Arranged

\* A separator left out of an increasing sequence of them.
LEMMA CutIncreasing ==
    ASSUME NEW S \in Seq(Keys), Increasing(S), NEW j \in 1..Len(S), NEW S2, CutOut(S2, S, j)
    PROVE  Increasing(S2)
<1> DEFINE c == Len(S)
<1>1. c \in Nat /\ (\A a, b \in 1..c : a < b => S[a] < S[b]) /\ j \in 1..c
  BY DEF Increasing
<1>2. Len(S2) = c - 1 /\ \A a \in 1..(c - 1) : S2[a] = IF a < j THEN S[a] ELSE S[a + 1]
  BY DEF CutOut
<1> HIDE DEF c
<1> SUFFICES ASSUME NEW a \in 1..(c - 1), NEW b \in 1..(c - 1), a < b PROVE S2[a] < S2[b]
  BY <1>2 DEF Increasing
<1> DEFINE x == IF a < j THEN a ELSE a + 1
           y == IF b < j THEN b ELSE b + 1
<1>3. x \in 1..c /\ y \in 1..c /\ x < y
  BY <1>1
<1>4. S2[a] = S[x] /\ S2[b] = S[y]
  BY <1>2
<1> HIDE DEF x, y
<1> QED BY <1>1, <1>3, <1>4

\* Two neighbouring leaves become one, in the page of the left one, or in the
\* page of the right one when they are the first two.
LEMMA MergeArranged ==
    ASSUME NEW N, NEW L, NEW S, Arranged(N, L, S), NEW j \in 1..Len(S), NEW e \in {j, j + 1},
           e = j => j = 1,
           NEW L2 \in Seq(Pages), CutOut(L2, L, e), NEW S2 \in Seq(Keys), CutOut(S2, S, j),
           NEW M, Kept(M, N, L, {j, j + 1}),
           NEW m, Spans(m, S, j, j + 1), m.next = N[L[j + 1]].next,
           M[L[IF e = j THEN j + 1 ELSE j]] = m
    PROVE  Arranged(M, L2, S2)
<1> DEFINE c == Len(S)
<1>1. /\ L \in Seq(Pages) /\ S \in Seq(Keys) /\ c \in Nat /\ Len(L) = c + 1
      /\ \A a \in 1..c : S[a] \in Int
      /\ \A a, b \in 1..(c + 1) : L[a] = L[b] => a = b
      /\ Increasing(S)
      /\ \A i \in 1..(c + 1) :
            /\ LeafSound(N[L[i]], S, i)
            /\ N[L[i]].next = IF i < c + 1 THEN L[i + 1] ELSE 0
  <2>1. /\ L \in Seq(Pages) /\ S \in Seq(Keys) /\ Len(L) = Len(S) + 1
        /\ \A a, b \in 1..Len(L) : L[a] = L[b] => a = b
        /\ Increasing(S)
        /\ \A i \in 1..Len(L) :
              /\ LeafSound(N[L[i]], S, i)
              /\ N[L[i]].next = IF i < Len(L) THEN L[i + 1] ELSE 0
    BY DEF Arranged
  <2>2. Len(S) \in Nat /\ \A a \in 1..Len(S) : S[a] \in Int
    BY ArrangedIs, Zenon
  <2> QED BY <2>1, <2>2
<1>2. /\ Len(L2) = c
      /\ \A a \in 1..c : L2[a] = IF a < e THEN L[a] ELSE L[a + 1]
  <2>1. c + 1 - 1 = c
    BY <1>1
  <2> QED BY <1>1, <2>1 DEF CutOut
<1>3. /\ Len(S2) = c - 1
      /\ \A a \in 1..(c - 1) : S2[a] = IF a < j THEN S[a] ELSE S[a + 1]
  BY <1>1 DEF CutOut
<1>4. j \in 1..c /\ j \in Int /\ e \in Int /\ (e = j \/ e = j + 1)
  BY <1>1
<1>5. Increasing(S2)
  BY <1>1, CutIncreasing
<1> HIDE DEF c
<1>6. \A a, b \in 1..c : L2[a] = L2[b] => a = b
  <2> SUFFICES ASSUME NEW a \in 1..c, NEW b \in 1..c, L2[a] = L2[b] PROVE a = b
    OBVIOUS
  <2> DEFINE x == IF a < e THEN a ELSE a + 1
             y == IF b < e THEN b ELSE b + 1
  <2>1. x \in 1..(c + 1) /\ y \in 1..(c + 1) /\ L2[a] = L[x] /\ L2[b] = L[y]
    BY <1>1, <1>2, <1>4
  <2>2. x = y
    <3> HIDE DEF x, y
    <3>1. \A d, f \in 1..(c + 1) : L[d] = L[f] => d = f
      BY <1>1
    <3>2. L[x] = L[y]
      BY <2>1
    <3> QED BY <2>1, <3>1, <3>2
  <2> QED BY <1>1, <1>4, <2>2
\* The merged leaf at place j, the ones before it where they were, the ones
\* after it one place further down.
<1>7. L2[j] = L[IF e = j THEN j + 1 ELSE j]
  BY <1>2, <1>4
<1>8. \A a \in 1..c : a < j => L2[a] = L[a]
  BY <1>2, <1>4
<1>9. \A a \in 1..c : a > j => L2[a] = L[a + 1]
  BY <1>2, <1>4
<1>10. m.next = IF j < c THEN L2[j + 1] ELSE 0
  <2>1. j + 1 \in 1..(c + 1) /\ (j + 1 < c + 1 <=> j < c) /\ (j < c => j + 1 \in 1..c /\ j + 1 > j)
    BY <1>1, <1>4
  <2>2. m.next = IF j + 1 < c + 1 THEN L[j + 1 + 1] ELSE 0
    BY <1>1, <2>1
  <2> QED BY <1>9, <2>1, <2>2
<1>11. ASSUME NEW i \in 1..c
       PROVE  LeafSound(M[L2[i]], S2, i) /\ M[L2[i]].next = IF i < c THEN L2[i + 1] ELSE 0
  <2>1. CASE i < j
    <3>0. e = j + 1
      BY <1>4, <2>1
    <3>1. i \in 1..(c + 1) /\ i # j /\ i # j + 1 /\ i < c + 1 /\ i < c /\ i + 1 \in 1..c /\ i <= c
          /\ i \in Int
      BY <1>1, <1>4, <2>1
    <3>2. L2[i] = L[i] /\ M[L[i]] = N[L[i]]
      BY <1>1, <1>8, <2>1, <3>1 DEF Kept
    <3>3. L2[i + 1] = L[i + 1]
      <4>1. i + 1 < e
        BY <1>4, <2>1, <3>0
      <4> QED BY <1>2, <3>1, <4>1
    <3>4. N[L[i]].next = L[i + 1] /\ LeafSound(N[L[i]], S, i)
      BY <1>1, <3>1
    <3>5. (i > 1 => S2[i - 1] = S[i - 1]) /\ i <= Len(S2) /\ i <= Len(S) /\ S2[i] = S[i]
      <4>1. (i > 1 => i - 1 \in 1..(c - 1) /\ i - 1 < j) /\ i \in 1..(c - 1) /\ i <= c - 1
        BY <1>1, <1>4, <2>1, <3>1
      <4> QED BY <1>3, <2>1, <3>1, <4>1 DEF c
    <3>6. LeafSound(N[L[i]], S2, i)
      BY <3>1, <3>4, <3>5, LeafMoves
    <3> QED BY <3>1, <3>2, <3>3, <3>4, <3>6
  <2>2. CASE i = j
    <3>1. M[L2[i]] = m
      BY <1>7, <2>2
    <3>2. /\ m \in LeafNodes /\ Len(m.vals) = Len(m.keys) /\ Increasing(m.keys)
          /\ \A x \in 1..Len(m.keys) : (j > 1 => S[j - 1] <= m.keys[x])
                                       /\ (j + 1 <= c => m.keys[x] < S[j + 1])
      BY DEF Spans, c
    <3>3. (j > 1 => S2[j - 1] = S[j - 1]) /\ (j <= c - 1 => S2[j] = S[j + 1] /\ j + 1 <= c)
      <4>1. (j > 1 => j - 1 \in 1..(c - 1) /\ j - 1 < j)
            /\ (j <= c - 1 => j \in 1..(c - 1) /\ ~(j < j) /\ j + 1 <= c)
        BY <1>1, <1>4
      <4> QED BY <1>3, <4>1
    <3>4. Between(m.keys, S2, j)
      BY <1>3, <3>2, <3>3 DEF Between
    <3>5. LeafSound(m, S2, j)
      BY <3>2, <3>4 DEF LeafSound
    <3> QED BY <1>10, <2>2, <3>1, <3>5
  <2>3. CASE i > j
    <3>1. i + 1 \in 1..(c + 1) /\ i + 1 # j /\ i + 1 # j + 1 /\ (i + 1 < c + 1 <=> i < c)
          /\ (i < c => i + 1 \in 1..c /\ i + 1 > j) /\ i \in Int /\ i + 1 \in Int /\ i + 1 > 1
      BY <1>1, <1>4, <2>3
    <3>2. L2[i] = L[i + 1] /\ M[L[i + 1]] = N[L[i + 1]]
      BY <1>1, <1>9, <2>3, <3>1 DEF Kept
    <3>3. i < c => L2[i + 1] = L[i + 1 + 1]
      BY <1>9, <3>1
    <3>4. /\ LeafSound(N[L[i + 1]], S, i + 1)
          /\ N[L[i + 1]].next = IF i + 1 < c + 1 THEN L[i + 1 + 1] ELSE 0
      BY <1>1, <3>1
    <3>5. S2[i - 1] = S[i + 1 - 1] /\ (i <= Len(S2) => i + 1 <= Len(S) /\ S2[i] = S[i + 1])
      <4>0. c \in Nat /\ j \in Int /\ j >= 1 /\ i \in Int /\ i <= c /\ i > j
        BY <1>1, <1>4, <2>3
      <4>1. i - 1 \in 1..(c - 1) /\ ~(i - 1 < j) /\ i - 1 + 1 = i + 1 - 1
            /\ (i <= c - 1 => i \in 1..(c - 1) /\ ~(i < j) /\ i + 1 <= c)
        BY <4>0
      <4>2. S2[i - 1] = S[i - 1 + 1]
        BY <1>3, <4>1
      <4>3. i <= c - 1 => S2[i] = S[i + 1]
        BY <1>3, <4>1
      <4> QED BY <1>3, <4>1, <4>2, <4>3 DEF c
    <3>6. LeafSound(N[L[i + 1]], S2, i)
      BY <3>1, <3>4, <3>5, LeafMoves
    <3> QED BY <3>1, <3>2, <3>3, <3>4, <3>6
  <2> QED BY <1>4, <2>1, <2>2, <2>3
<1>12. Len(L2) = Len(S2) + 1
  BY <1>1, <1>2, <1>3
<1> QED BY <1>2, <1>5, <1>6, <1>11, <1>12 DEF Arranged
-----------------------------------------------------------------------------
(* Trees put together from their leaves                                    *)

\* The leaves L and separators S are a root of their own or a single leaf.
Topped(u, L, S) ==
    \/ L = <<u.root>> /\ S = <<>>
    \/ /\ Len(S) > 0 /\ u.node[u.root].leaf = FALSE
       /\ u.node[u.root].keys = S /\ u.node[u.root].kids = L

\* The tree owns the root and the leaves, and the other pages are blank.
Owns(u, L) ==
    /\ \A p \in Pages : p \in u.ids <=> p = u.root \/ \E j \in 1..Len(L) : L[j] = p
    /\ \A p \in Pages : p \notin u.ids => u.node[p] = Blank

\* A tree with the given leaves and separators, in a root of their own or as
\* a single leaf, that owns their pages and no other.
LEMMA Assembled ==
    ASSUME NEW u \in Trees, Accounted(u), NEW L, NEW S, Arranged(u.node, L, S),
           Topped(u, L, S), Owns(u, L)
    PROVE  Sound(u) /\ Leaves(u) = L /\ Seps(u) = S
<1>1. \A j \in 1..Len(L) : u.node[L[j]].leaf = TRUE
  <2> SUFFICES ASSUME NEW j \in 1..Len(L) PROVE u.node[L[j]].leaf = TRUE
    OBVIOUS
  <2>1. LeafSound(u.node[L[j]], S, j)
    BY DEF Arranged
  <2> QED BY <2>1, LeafShape DEF LeafSound
<1>2. Leaves(u) = L /\ Seps(u) = S /\ (~u.node[u.root].leaf => Len(S) > 0)
  <2>1. CASE L = <<u.root>> /\ S = <<>>
    <3>1. 1 \in 1..Len(L) /\ L[1] = u.root
      BY <2>1
    <3>2. u.node[u.root].leaf = TRUE
      BY <1>1, <3>1
    <3> QED BY <2>1, <3>2 DEF Leaves, Seps
  <2>2. CASE Len(S) > 0 /\ u.node[u.root].leaf = FALSE
             /\ u.node[u.root].keys = S /\ u.node[u.root].kids = L
    BY <2>2 DEF Leaves, Seps
  <2> QED BY <2>1, <2>2 DEF Topped
<1>3. /\ \A p \in Pages : p \in u.ids <=> p = u.root \/ \E j \in 1..Len(L) : p = L[j]
      /\ \A p \in Pages : p \notin u.ids => u.node[p] = Blank
  BY DEF Owns
<1>4. Rooted(u)
  BY <1>1, <1>2, <1>3 DEF Rooted
<1> QED BY <1>2, <1>4 DEF Sound

\* What a sequence holds after an element was put in or left out.
HoldsAlso(L2, L, q) ==
    \A p : (\E a \in 1..Len(L2) : L2[a] = p) <=> p = q \/ \E b \in 1..Len(L) : L[b] = p

HoldsBut(L2, L, i) ==
    \A p : (\E a \in 1..Len(L2) : L2[a] = p) <=> \E b \in 1..Len(L) : b # i /\ L[b] = p

\* Putting a page into the sequence of leaves adds that page.
LEMMA SplicedHolds ==
    ASSUME NEW L \in Seq(Pages), NEW i \in 1..(Len(L) + 1), NEW q, NEW L2, SplicedIn(L2, L, i, q)
    PROVE  HoldsAlso(L2, L, q)
<1> SUFFICES ASSUME NEW p
             PROVE  (\E a \in 1..Len(L2) : L2[a] = p) <=> p = q \/ \E b \in 1..Len(L) : L[b] = p
  BY DEF HoldsAlso
<1> DEFINE c == Len(L)
<1>1. c \in Nat /\ i \in 1..(c + 1) /\ Len(L2) = c + 1
      /\ \A j \in 1..(c + 1) : L2[j] = IF j < i THEN L[j] ELSE IF j = i THEN q ELSE L[j - 1]
  BY DEF SplicedIn
<1> HIDE DEF c
<1>2. ASSUME NEW a \in 1..(c + 1), L2[a] = p PROVE p = q \/ \E b \in 1..c : L[b] = p
  <2>1. a < i => a \in 1..c /\ L[a] = p
    BY <1>1, <1>2
  <2>2. a > i => a - 1 \in 1..c /\ L[a - 1] = p
    BY <1>1, <1>2
  <2>3. a = i => p = q
    BY <1>1, <1>2
  <2>4. a < i \/ a = i \/ a > i
    BY <1>1
  <2> QED BY <2>1, <2>2, <2>3, <2>4
<1>3. L2[i] = q /\ i \in 1..(c + 1)
  BY <1>1
<1>4. ASSUME NEW b \in 1..c, L[b] = p PROVE \E a \in 1..(c + 1) : L2[a] = p
  <2>1. b < i => b \in 1..(c + 1) /\ L2[b] = p
    BY <1>1, <1>4
  <2>2. b >= i => b + 1 \in 1..(c + 1) /\ L2[b + 1] = p
    <3>1. b >= i => b + 1 \in 1..(c + 1) /\ ~(b + 1 < i) /\ b + 1 # i /\ b + 1 - 1 = b
      BY <1>1
    <3> QED BY <1>1, <1>4, <3>1
  <2>3. b < i \/ b >= i
    BY <1>1
  <2> QED BY <2>1, <2>2, <2>3
<1> QED BY <1>1, <1>2, <1>3, <1>4 DEF c

\* Taking a page out of the sequence of leaves removes that page.
LEMMA CutHolds ==
    ASSUME NEW L \in Seq(Pages), NEW i \in 1..Len(L), NEW L2, CutOut(L2, L, i)
    PROVE  HoldsBut(L2, L, i)
<1> SUFFICES ASSUME NEW p
             PROVE  (\E a \in 1..Len(L2) : L2[a] = p) <=> \E b \in 1..Len(L) : b # i /\ L[b] = p
  BY DEF HoldsBut
<1> DEFINE c == Len(L)
<1>1. c \in Nat /\ i \in 1..c /\ Len(L2) = c - 1
      /\ \A j \in 1..(c - 1) : L2[j] = IF j < i THEN L[j] ELSE L[j + 1]
  BY DEF CutOut
<1> HIDE DEF c
<1>2. ASSUME NEW a \in 1..(c - 1), L2[a] = p PROVE \E b \in 1..c : b # i /\ L[b] = p
  <2>1. a < i => a \in 1..c /\ a # i /\ L[a] = p
    BY <1>1, <1>2
  <2>2. a >= i => a + 1 \in 1..c /\ a + 1 # i /\ L[a + 1] = p
    BY <1>1, <1>2
  <2>3. a < i \/ a >= i
    BY <1>1
  <2> QED BY <2>1, <2>2, <2>3
<1>3. ASSUME NEW b \in 1..c, b # i, L[b] = p PROVE \E a \in 1..(c - 1) : L2[a] = p
  <2>1. b < i => b \in 1..(c - 1) /\ L2[b] = p
    BY <1>1, <1>3
  <2>2. b > i => b - 1 \in 1..(c - 1) /\ L2[b - 1] = p
    <3>1. b > i => b - 1 \in 1..(c - 1) /\ ~(b - 1 < i) /\ b - 1 + 1 = b
      BY <1>1
    <3> QED BY <1>1, <1>3, <3>1
  <2>3. b < i \/ b > i
    BY <1>1, <1>3
  <2> QED BY <2>1, <2>2, <2>3
<1> QED BY <1>1, <1>2, <1>3 DEF c

-----------------------------------------------------------------------------
(* Splits                                                                  *)

\* The leaf n cut after place mid into l, which points at page q, and r.
Halved(n, l, r, q, mid) ==
    /\ l \in LeafNodes /\ Len(l.vals) = Len(l.keys) /\ Len(l.keys) = mid
    /\ r \in LeafNodes /\ Len(r.vals) = Len(r.keys) /\ Len(r.keys) = Len(n.keys) - mid
    /\ Joined(n, l, r) /\ l.next = q /\ r.next = n.next /\ n.keys[mid + 1] = r.keys[1]

\* The sequence s cut after place mid.
CutAt(s, a, b, mid) ==
    /\ Len(a) = mid /\ Len(b) = Len(s) - mid
    /\ \A i \in 1..mid : s[i] = a[i]
    /\ \A i \in 1..(Len(s) - mid) : s[mid + i] = b[i]

\* The two slices a split takes are the sequence cut after place mid.
LEMMA SubSeqsCut ==
    ASSUME NEW A, NEW s \in Seq(A), NEW c, c = Len(s), NEW mid \in 1..(c - 1),
           NEW a, a = SubSeq(s, 1, mid), NEW b, b = SubSeq(s, mid + 1, c)
    PROVE  a \in Seq(A) /\ b \in Seq(A) /\ CutAt(s, a, b, mid)
<1>1. c \in Nat /\ mid \in Int
  OBVIOUS
<1>2. 1 \in 1..(c + 1) /\ mid \in (1 - 1)..c /\ mid - 1 + 1 = mid
      /\ mid + 1 \in 1..(c + 1) /\ c \in (mid + 1 - 1)..c /\ c - (mid + 1) + 1 = c - mid
      /\ (\A i \in 1..mid : 1 + i - 1 = i) /\ (\A i \in 1..(c - mid) : mid + 1 + i - 1 = mid + i)
  BY <1>1
<1>3. a \in Seq(A) /\ Len(a) = mid /\ \A i \in 1..mid : a[i] = s[i]
  BY <1>2, SubSeqIs
<1>4. b \in Seq(A) /\ Len(b) = c - mid /\ \A i \in 1..(c - mid) : b[i] = s[mid + i]
  BY <1>2, SubSeqIs
<1> QED BY <1>3, <1>4 DEF CutAt

\* The halves of an overfull leaf hold what it held.
LEMMA HalvesAre ==
    ASSUME NEW n, NEW S, NEW j, LeafSound(n, S, j), NEW mid \in 1..(Len(n.keys) - 1),
           NEW q \in Pages, NEW l, l = LeftHalf(n, mid, q), NEW r, r = RightHalf(n, mid)
    PROVE  Halved(n, l, r, q, mid)
<1> DEFINE ks == n.keys
           vs == n.vals
           c == Len(ks)
           lk == SubSeq(ks, 1, mid)
           lv == SubSeq(vs, 1, mid)
           rk == SubSeq(ks, mid + 1, c)
           rv == SubSeq(vs, mid + 1, c)
<1>1. /\ n.leaf = TRUE /\ ks \in Seq(Keys) /\ vs \in Seq(RowIds) /\ n.next \in 0..MaxPages
      /\ c \in Nat /\ Len(vs) = c
  BY SoundLeafShape
<1>2. l = Leaf(lk, lv, q) /\ r = Leaf(rk, rv, n.next)
  BY <1>1 DEF LeftHalf, RightHalf
<1>4. mid \in 1..(c - 1) /\ mid \in Nat
  BY <1>1
<1> HIDE DEF ks, vs, c
<1>5. c = Len(ks)
  BY DEF c
<1>6. lk \in Seq(Keys) /\ rk \in Seq(Keys) /\ CutAt(ks, lk, rk, mid)
  BY <1>1, <1>4, <1>5, SubSeqsCut, Zenon
<1>7. lv \in Seq(RowIds) /\ rv \in Seq(RowIds) /\ CutAt(vs, lv, rv, mid)
  BY <1>1, <1>4, SubSeqsCut, Zenon
<1> HIDE DEF lk, lv, rk, rv
<1>8. /\ Len(lk) = mid /\ Len(rk) = c - mid /\ Len(lv) = mid /\ Len(rv) = c - mid
      /\ \A i \in 1..mid : ks[i] = lk[i] /\ vs[i] = lv[i]
      /\ \A i \in 1..(c - mid) : ks[mid + i] = rk[i] /\ vs[mid + i] = rv[i]
  BY <1>1, <1>5, <1>6, <1>7 DEF CutAt
<1>10. q \in 0..MaxPages
  BY PagesAssumption DEF Pages
<1>11. l \in LeafNodes /\ l.keys = lk /\ l.vals = lv /\ l.next = q
  <2>1. lk \in Seq(Keys) /\ lv \in Seq(RowIds)
    BY <1>6, <1>7
  <2>2. l = Leaf(lk, lv, q)
    BY <1>2
  <2> QED BY <1>10, <2>1, <2>2 DEF Leaf, LeafNodes
<1>12. r \in LeafNodes /\ r.keys = rk /\ r.vals = rv /\ r.next = n.next
  <2>1. rk \in Seq(Keys) /\ rv \in Seq(RowIds) /\ n.next \in 0..MaxPages
    BY <1>1, <1>6, <1>7
  <2>2. r = Leaf(rk, rv, n.next)
    BY <1>2
  <2> QED BY <2>1, <2>2 DEF Leaf, LeafNodes
<1>13. Joined(n, l, r)
  <2>1. c = mid + (c - mid)
    BY <1>1, <1>4
  <2>2. Len(n.keys) = Len(l.keys) + Len(r.keys)
    BY <1>8, <1>11, <1>12, <2>1 DEF c, ks
  <2> QED BY <1>8, <1>11, <1>12, <2>2 DEF Joined, ks, vs
<1>14. n.keys[mid + 1] = r.keys[1]
  <2>0. c \in Nat
    BY <1>1
  <2>1. 1 \in 1..(c - mid)
    BY <1>4, <2>0
  <2> QED BY <1>8, <1>12, <2>1 DEF ks
<1> QED BY <1>8, <1>11, <1>12, <1>13, <1>14 DEF Halved, c, ks
\* The separator between the halves fits between the separators around the leaf.
LEMMA SplitView ==
    ASSUME NEW t, Sound(t), NEW j \in 1..Len(Leaves(t)), NEW p, p = Leaves(t)[j],
           NEW mid \in 1..(Len(t.node[p].keys) - 1), NEW q \in Pages, q \notin t.ids,
           NEW l, NEW r, Halved(t.node[p], l, r, q, mid), NEW sep, sep = t.node[p].keys[mid + 1],
           NEW M, M[p] = l, M[q] = r, Kept(M, t.node, Leaves(t), {j}),
           NEW L2 \in Seq(Pages), SplicedIn(L2, Leaves(t), j + 1, q),
           NEW S2 \in Seq(Keys), SplicedIn(S2, Seps(t), j, sep)
    PROVE  Arranged(M, L2, S2)
<1> DEFINE L == Leaves(t)
           S == Seps(t)
           n == t.node[p]
<1>1. Arranged(t.node, L, S)
  BY DEF Sound
<1>2. LeafSound(n, S, j) /\ S \in Seq(Keys) /\ Len(L) = Len(S) + 1 /\ Len(S) \in Nat
  BY ViewIs
<1>3. Absent(q, L)
  <2>1. \A a \in 1..Len(L) : L[a] \in t.ids
    BY LeafPage
  <2> QED BY <2>1 DEF Absent
<1>4. /\ l \in LeafNodes /\ Len(l.vals) = Len(l.keys) /\ Len(l.keys) = mid
      /\ r \in LeafNodes /\ Len(r.vals) = Len(r.keys) /\ Len(r.keys) = Len(n.keys) - mid
      /\ Joined(n, l, r) /\ l.next = q /\ r.next = n.next /\ sep = r.keys[1]
  BY DEF Halved
<1>5. Spans(n, S, j, j)
  BY <1>2 DEF LeafSound, Between, Spans
<1>6. Len(n.keys) \in Nat
  BY <1>2, SoundLeafShape
<1>7. j \in Nat /\ (j > 1 => j - 1 \in 1..Len(S)) /\ j > 0
  BY <1>2
<1>8. Len(l.keys) > 0 /\ Len(r.keys) > 0
  BY <1>4, <1>6
<1> HIDE DEF L, S, n
<1>9. Parted(l, r, S, j, j, sep)
  BY <1>2, <1>4, <1>5, <1>7, <1>8, CutSpans, Zenon
<1>10. j \in 1..Len(L) /\ p = L[j] /\ SplicedIn(L2, L, j + 1, q) /\ SplicedIn(S2, S, j, sep)
       /\ Kept(M, t.node, L, {j})
  BY DEF L, S
<1>11. /\ Parted(M[L[j]], M[q], S, j, j, sep)
       /\ M[L[j]].next = q /\ M[q].next = t.node[L[j]].next
  BY <1>4, <1>9, <1>10 DEF n
<1> QED BY <1>1, <1>3, <1>10, <1>11, SplitArranged, Zenon

\* Splitting a leaf takes a page for its right half and touches no other page.
SplitTo(t, u, p, q, mid) ==
    /\ q \in Pages /\ q \notin t.ids
    /\ u \in Trees /\ Accounted(u) /\ u.root = t.root /\ u.ids = t.ids \cup {q}
    /\ Halved(t.node[p], u.node[p], u.node[q], q, mid)
    /\ \A x \in Pages : x # p /\ x # q => u.node[x] = t.node[x]
    /\ HasTwoPages(t) => HasPage(u)

\* Splitting a leaf writes its two halves, the right one to a new page, and nothing else.
LEMMA SplitNodeIs ==
    ASSUME NEW t, Sound(t), HasPage(t), NEW j \in 1..Len(Leaves(t)), NEW p, p = Leaves(t)[j],
           NEW n, n = t.node[p], NEW mid \in 1..(Len(n.keys) - 1), mid = Len(n.keys) \div 2,
           NEW q, q = NewPage(t), NEW u, u = SplitNode(t, p)
    PROVE  SplitTo(t, u, p, q, mid)
<1> DEFINE l == LeftHalf(n, mid, q)
           r == RightHalf(n, mid)
           a == Allocated(t)
           b == Write(a, p, l)
<1>1. u = Write(b, q, r)
  BY DEF SplitNode
<1>2. t \in Trees /\ Accounted(t)
  BY DEF Sound
<1>3. p \in Pages /\ p \in t.ids /\ LeafSound(n, Seps(t), j)
  BY LeafPage
<1> HIDE DEF l, r, a, b
<1>4. /\ q \in Pages /\ q \notin t.ids
      /\ a \in Trees /\ Accounted(a)
      /\ a.node = t.node /\ a.root = t.root /\ a.ids = t.ids \cup {q}
      /\ HasTwoPages(t) => HasPage(a)
  BY <1>2, AllocatedIs DEF a
<1>5. Halved(n, l, r, q, mid)
  <2>1. q \in Pages
    BY <1>4
  <2> QED BY <1>3, <2>1, HalvesAre, Zenon DEF l, r
<1>6. l \in LeafNodes \cup InnerNodes /\ r \in LeafNodes \cup InnerNodes
  BY <1>5 DEF Halved
<1>7. Wrote(b, a, p, l)
  <2>1. a \in Trees
    BY <1>4
  <2> QED BY <1>3, <1>6, <2>1, WriteIs, Zenon DEF b
<1>8. Wrote(u, b, q, r)
  <2>1. b \in Trees /\ q \in Pages
    BY <1>4, <1>7 DEF Wrote
  <2> QED BY <1>1, <1>6, <2>1, WriteIs, Zenon
<1>10. p # q
  BY <1>3, <1>4
<1>11. u.node[p] = l /\ u.node[q] = r /\ \A x \in Pages : x # p /\ x # q => u.node[x] = t.node[x]
  <2>1. b.node[p] = l /\ \A x \in Pages : x # p => b.node[x] = t.node[x]
    BY <1>4, <1>7 DEF Wrote
  <2>2. u.node[q] = r /\ \A x \in Pages : x # q => u.node[x] = b.node[x]
    BY <1>8 DEF Wrote
  <2> QED BY <1>3, <1>10, <2>1, <2>2
<1>12. Accounted(u) /\ (HasPage(a) => HasPage(u))
  <2>1. u.ids = a.ids /\ u.free = a.free /\ u.count = a.count
    BY <1>7, <1>8 DEF Wrote
  <2>2. Accounted(a)
    BY <1>4
  <2> QED BY <2>1, <2>2 DEF Accounted, HasPage
<1> QED BY <1>4, <1>5, <1>7, <1>8, <1>11, <1>12 DEF Wrote, SplitTo

\* The trees differ in the pages of C only.
Within(t, u, C) == \A x \in Pages : x \notin C => u.node[x] = t.node[x]

\* The pages of C bind the same in both trees.
BindAlike(t, u, C) ==
    \A k, r : (\E x \in C : Has(u.node[x], k, r)) <=> (\E x \in C : Has(t.node[x], k, r))

SameBinds(t, u) == \A k, r : Binds(u, k, r) <=> Binds(t, k, r)

\* Trees that differ in pages which together bind the same pairs bind the same pairs.
LEMMA SameBindsBy ==
    ASSUME NEW t, NEW u, NEW C \in SUBSET Pages, Within(t, u, C), BindAlike(t, u, C)
    PROVE  SameBinds(t, u)
BY DEF SameBinds, Binds, Within, BindAlike

\* Internal and blank pages bind nothing.
LEMMA HasNothing ==
    ASSUME NEW n, n = Blank \/ n \in InnerNodes, NEW k, NEW r
    PROVE  ~Has(n, k, r)
<1>1. n.vals = <<>>
  BY BlankIs, InnerShape
<1>2. 1..Len(<<>>) = {}
  OBVIOUS
<1> QED BY <1>1, <1>2 DEF Has

\* The number of keys a leaf that is not the root may have.
Full(n) == MinKeys <= Len(n.keys) /\ Len(n.keys) <= Order

\* Both halves of a leaf with one key too many are full.
LEMMA HalvesFull ==
    ASSUME NEW n, NEW l, NEW r, NEW q, NEW mid, Len(n.keys) = Order + 1,
           mid = (Order + 1) \div 2, Halved(n, l, r, q, mid)
    PROVE  Full(l) /\ Full(r)
<1>0. Len(l.keys) = mid /\ Len(r.keys) = Len(n.keys) - mid
  BY Zenon DEF Halved
<1>1. Len(l.keys) = mid /\ Len(r.keys) = Order + 1 - mid
  BY <1>0, OrderAssumption
<1>2. /\ MinKeys <= mid /\ mid <= Order
      /\ MinKeys <= Order + 1 - mid /\ Order + 1 - mid <= Order
  BY OrderAssumption DEF MinKeys
<1> QED BY <1>1, <1>2 DEF Full
\* The leaf at place j has one key too many, the others are full, and there is
\* room for a split.
Overfull(t, j) ==
    /\ Sound(t) /\ HasTwoPages(t)
    /\ j \in 1..Len(Leaves(t)) /\ Len(t.node[Leaves(t)[j]].keys) = Order + 1
    /\ \A a \in 1..Len(Leaves(t)) : a # j => Full(t.node[Leaves(t)[a]])

\* The tree u is sound, within its bounds, and binds what t binds.
Settled(t, u) == Sound(u) /\ Sized(u) /\ SameBinds(t, u)

\* And it has no more leaves.
Rebalanced(t, u) == Settled(t, u) /\ Len(Leaves(u)) <= Len(Leaves(t))

AllFull(u, L) == \A a \in 1..Len(L) : Full(u.node[L[a]])

\* A tree all of whose leaves are full enough has leaves of the right size.
LEMMA FullSized == ASSUME NEW u, NEW L, L = Leaves(u), AllFull(u, L) PROVE Sized(u)
BY DEF Sized, Full, AllFull

\* The page above the leaves: an internal node, or a page the tree did not have.
Above(t, top) ==
    \/ top = t.root /\ ~t.node[t.root].leaf
    \/ t.node[t.root].leaf /\ top \notin t.ids

\* The page above the leaves is not one of them, and every other page is.
LEMMA RootAside ==
    ASSUME NEW t, Sound(t), NEW top \in Pages, Above(t, top)
    PROVE  /\ \A a \in 1..Len(Leaves(t)) : Leaves(t)[a] # top
           /\ t.node[top] = Blank \/ t.node[top] \in InnerNodes
           /\ \A x \in Pages : x \in t.ids /\ x # top => \E b \in 1..Len(Leaves(t)) : Leaves(t)[b] = x
<1>1. \A a \in 1..Len(Leaves(t)) : Leaves(t)[a] \in t.ids
                                   /\ (Leaves(t)[a] = t.root <=> t.node[t.root].leaf)
  BY LeafPage
<1>2. \A x \in Pages : x \in t.ids <=> x = t.root \/ \E b \in 1..Len(Leaves(t)) : x = Leaves(t)[b]
  BY DEF Sound, Rooted
<1>3. \A x \in Pages : x \notin t.ids => t.node[x] = Blank
  BY DEF Sound, Rooted
<1>4. CASE top = t.root /\ ~t.node[t.root].leaf
  <2>1. t.node[top] \in InnerNodes
    <3>1. t.node[t.root] \in LeafNodes \cup InnerNodes
      BY ViewIs, TreeShape
    <3> QED BY <1>4, <3>1, LeafShape
  <2> QED BY <1>1, <1>2, <1>4, <2>1
<1>5. CASE t.node[t.root].leaf /\ top \notin t.ids
  <2>1. Len(Leaves(t)) = 1 /\ Leaves(t)[1] = t.root
    BY <1>5 DEF Leaves
  <2>2. 1 \in 1..Len(Leaves(t))
    BY <2>1
  <2> QED BY <1>1, <1>2, <1>3, <1>5, <2>1, <2>2
<1> QED BY <1>4, <1>5 DEF Above

\* A leaf replaced by its halves, with a separator between them, leaves a sound tree
\* that binds what it did.
LEMMA SplitOutcome ==
    ASSUME NEW t, NEW j, Overfull(t, j), NEW p, p = Leaves(t)[j],
           NEW mid \in 1..Order, NEW q \in Pages, q \notin t.ids,
           NEW u \in Trees, Accounted(u), NEW top \in Pages, top = u.root, top # p, top # q,
           NEW L2 \in Seq(Pages), SplicedIn(L2, Leaves(t), j + 1, q),
           NEW S2 \in Seq(Keys), SplicedIn(S2, Seps(t), j, t.node[p].keys[mid + 1]),
           Halved(t.node[p], u.node[p], u.node[q], q, mid), Full(u.node[p]), Full(u.node[q]),
           u.node[top] \in InnerNodes, u.node[top].keys = S2, u.node[top].kids = L2,
           Within(t, u, {p, q, top}), u.ids = t.ids \cup {q, top}, Above(t, top)
    PROVE  Settled(t, u)
<1>0. \A x \in Pages : x # p /\ x # q /\ x # top => u.node[x] = t.node[x]
  BY DEF Within
<1> DEFINE L == Leaves(t)
           S == Seps(t)
<1>1. Sound(t) /\ j \in 1..Len(L) /\ Len(t.node[p].keys) = Order + 1
      /\ \A a \in 1..Len(L) : a # j => Full(t.node[L[a]])
  BY DEF Overfull
<1>2. /\ L \in Seq(Pages) /\ S \in Seq(Keys) /\ Len(L) = Len(S) + 1 /\ Len(S) \in Nat
      /\ \A a, b \in 1..Len(L) : L[a] = L[b] => a = b
      /\ \A a \in 1..Len(L) : L[a] \in Pages
  BY <1>1, ViewIs
<1>3. \A a \in 1..Len(L) : L[a] \in t.ids
  BY <1>1, LeafPage
<1>4. /\ \A a \in 1..Len(L) : L[a] # top
      /\ t.node[top] = Blank \/ t.node[top] \in InnerNodes
      /\ \A x \in Pages : x \in t.ids /\ x # top => \E b \in 1..Len(L) : L[b] = x
  BY <1>1, RootAside
<1>5. \A x \in Pages : x \notin t.ids => t.node[x] = Blank
  BY <1>1 DEF Sound, Rooted
<1>6. j + 1 \in 1..(Len(L) + 1)
  BY <1>1, <1>2
<1>7. \A x : (\E a \in 1..Len(L2) : L2[a] = x) <=> x = q \/ \E b \in 1..Len(L) : L[b] = x
  <2>1. HoldsAlso(L2, L, q)
    BY <1>2, <1>6, SplicedHolds, Zenon
  <2> QED BY <2>1 DEF HoldsAlso
<1>8. p \in Pages /\ p \in t.ids
  BY <1>1, <1>2, <1>3
<1>9. mid \in 1..(Len(t.node[p].keys) - 1)
  <2>1. Order + 1 - 1 = Order
    BY OrderAssumption
  <2>2. Len(t.node[p].keys) = Order + 1
    BY <1>1
  <2>3. Len(t.node[p].keys) - 1 = Order
    BY <2>2, OrderAssumption
  <2> QED BY <2>3, Zenon
<1>10. \A a \in 1..Len(L) : a # j => L[a] # p
  BY <1>1, <1>2
<1> HIDE DEF L, S
<1>11. Kept(u.node, t.node, L, {j})
  BY <1>0, <1>2, <1>3, <1>4, <1>10 DEF Kept
<1>12. Arranged(u.node, L2, S2)
  <2>1. j \in 1..Len(Leaves(t)) /\ Kept(u.node, t.node, Leaves(t), {j})
    BY <1>1, <1>11 DEF L
  <2> QED BY <1>1, <1>9, <2>1, SplitView, Zenon
<1>13. Len(S2) > 0 /\ Len(L2) = Len(S2) + 1
  <2>1. Len(S2) = Len(S) + 1 /\ Len(L2) = Len(L) + 1
    BY DEF SplicedIn, S, L
  <2> QED BY <1>2, <2>1
<1>14. u.node[u.root].leaf = FALSE /\ u.node[u.root].keys = S2 /\ u.node[u.root].kids = L2
  BY InnerShape
<1>15. ASSUME NEW x \in Pages
       PROVE  x \in u.ids <=> x = u.root \/ \E a \in 1..Len(L2) : L2[a] = x
  <2>1. x \in u.ids <=> x \in t.ids \/ x = q \/ x = top
    OBVIOUS
  <2>2. (\E a \in 1..Len(L2) : L2[a] = x) <=> x = q \/ \E b \in 1..Len(L) : L[b] = x
    <3>1. HoldsAlso(L2, L, q)
      BY <1>7 DEF HoldsAlso
    <3> HIDE <1>7
    <3> QED BY <3>1 DEF HoldsAlso
  <2>3. x \in t.ids /\ x # top => \E b \in 1..Len(L) : L[b] = x
    BY <1>4
  <2>4. (\E b \in 1..Len(L) : L[b] = x) => x \in t.ids
    BY <1>3
  <2> QED BY <2>1, <2>2, <2>3, <2>4
<1>16. \A x \in Pages : x \notin u.ids => u.node[x] = Blank
  BY <1>0, <1>5, <1>8
<1>17. Sound(u) /\ Leaves(u) = L2 /\ Seps(u) = S2
  <2>1. Topped(u, L2, S2) /\ Owns(u, L2)
    BY <1>13, <1>14, <1>15, <1>16 DEF Topped, Owns
  <2> QED BY <1>12, <2>1, Assembled, Zenon
<1>18. Sized(u)
  <2>2. ASSUME NEW a \in 1..Len(L2) PROVE Full(u.node[L2[a]])
    <3>1. L2[a] = q \/ \E b \in 1..Len(L) : L[b] = L2[a]
      BY <1>7
    <3>2. ASSUME NEW b \in 1..Len(L), L[b] = L2[a] PROVE Full(u.node[L2[a]])
      <4>1. CASE b = j
        BY <3>2, <4>1 DEF L
      <4>2. CASE b # j
        <5>1. u.node[L[b]] = t.node[L[b]]
          BY <1>11, <4>2 DEF Kept
        <5> QED BY <1>1, <3>2, <4>2, <5>1
      <4> QED BY <4>1, <4>2
    <3> QED BY <3>1, <3>2
  <2>3. AllFull(u, L2)
    BY <2>2 DEF AllFull
  <2> QED BY <1>17, <2>3, FullSized, Zenon
<1>19. SameBinds(t, u)
  <2> DEFINE C == {p, q, top}
  <2>1. Within(t, u, C)
    OBVIOUS
  <2>2. C \in SUBSET Pages
    BY <1>8
  <2>3. ASSUME NEW k, NEW r
        PROVE (\E x \in C : Has(u.node[x], k, r)) <=> (\E x \in C : Has(t.node[x], k, r))
    <3>1. ~Has(t.node[q], k, r) /\ ~Has(t.node[top], k, r) /\ ~Has(u.node[top], k, r)
      BY <1>4, <1>5, HasNothing
    <3>2. Has(t.node[p], k, r) <=> Has(u.node[p], k, r) \/ Has(u.node[q], k, r)
      <4>1. LeafSound(t.node[p], Seps(t), j)
        BY <1>1, LeafPage DEF L
      <4>2. t.node[p] \in LeafNodes /\ Len(t.node[p].vals) = Len(t.node[p].keys)
        BY <4>1 DEF LeafSound
      <4>3. /\ u.node[p] \in LeafNodes /\ Len(u.node[p].vals) = Len(u.node[p].keys)
            /\ u.node[q] \in LeafNodes /\ Len(u.node[q].vals) = Len(u.node[q].keys)
            /\ Joined(t.node[p], u.node[p], u.node[q])
        BY Zenon DEF Halved
      <4>4. BindsBoth(t.node[p], u.node[p], u.node[q])
        BY <4>2, <4>3, JoinedHas, Zenon
      <4> QED BY <4>4 DEF BindsBoth
    <3> QED BY <3>1, <3>2
  <2>4. BindAlike(t, u, C)
    BY <2>3 DEF BindAlike
  <2> HIDE DEF C
  <2> QED BY <2>1, <2>2, <2>4, SameBindsBy, Zenon
<1> QED BY <1>17, <1>18, <1>19 DEF Settled
\* The middle of an overfull leaf.
LEMMA MiddleIs ==
    ASSUME NEW mid, mid = (Order + 1) \div 2
    PROVE  mid \in 1..Order /\ mid \in 1..(Order + 1 - 1) /\ mid \in Nat
BY OrderAssumption

\* One level of _split_and_propagate below an internal root.
LEMMA SplitChildIs ==
    ASSUME NEW t, NEW j, Overfull(t, j), ~t.node[t.root].leaf, NEW s, s = SplitChild(t, t.root, j)
    PROVE  Settled(t, s.tree) /\ ~s.tree.node[s.tree.root].leaf
<1> DEFINE L == Leaves(t)
           S == Seps(t)
           p == L[j]
           n == t.node[p]
           mid == (Order + 1) \div 2
           q == NewPage(t)
           a == SplitNode(t, p)
           sep == n.keys[mid + 1]
           S2 == InsertAt(S, j, sep)
           L2 == InsertAt(L, j + 1, q)
           up == Internal(S2, L2)
           u == Write(a, t.root, up)
<1>1. /\ Sound(t) /\ HasTwoPages(t) /\ j \in 1..Len(L) /\ Len(n.keys) = Order + 1
  BY DEF Overfull
<1>2. L = t.node[t.root].kids /\ S = t.node[t.root].keys
  BY DEF Leaves, Seps
<1>3. s.tree = u
  <2>1. ~(Order + 1 <= Order)
    BY OrderAssumption
  <2>2. ~(Len(n.keys) <= Order)
    BY <1>1, <2>1
  <2> QED BY <1>1, <1>2, <2>2 DEF SplitChild
<1>4. mid \in 1..Order /\ mid \in 1..(Len(n.keys) - 1) /\ mid = Len(n.keys) \div 2
  BY <1>1, MiddleIs
<1>5. /\ L \in Seq(Pages) /\ S \in Seq(Keys) /\ Len(L) = Len(S) + 1 /\ Len(S) \in Nat
      /\ t.root \in Pages /\ p \in Pages
  BY <1>1, ViewIs, TreeShape
<1>6. HasPage(t)
  <2>1. t.free \in Seq(Pages) /\ t.count \in Nat
    BY <1>1, TreeShape DEF Sound
  <2>2. Len(t.free) \in Nat
    BY <2>1
  <2> QED BY <1>1, <2>1, <2>2, PagesAssumption DEF HasTwoPages, HasPage
<1>7. LeafSound(n, S, j) /\ p \in t.ids /\ p # t.root
  BY <1>1, LeafPage
<1> HIDE DEF mid
<1>8. sep \in Keys
  <2>1. n.keys \in Seq(Keys) /\ Len(n.keys) \in Nat
    BY <1>7, SoundLeafShape
  <2>2. mid \in 1..(Len(n.keys) - 1)
    BY <1>4
  <2>3. mid + 1 \in 1..Len(n.keys)
    BY <2>1, <2>2
  <2> QED BY <2>1, <2>3
<1> HIDE DEF L, S, p, n, q, a, sep, S2, L2, up, u
<1>9. /\ q \in Pages /\ q \notin t.ids
      /\ a \in Trees /\ Accounted(a) /\ a.root = t.root /\ a.ids = t.ids \cup {q}
      /\ Halved(n, a.node[p], a.node[q], q, mid)
      /\ \A x \in Pages : x # p /\ x # q => a.node[x] = t.node[x]
  <2>1. p = Leaves(t)[j] /\ n = t.node[p] /\ q = NewPage(t) /\ a = SplitNode(t, p)
        /\ j \in 1..Len(Leaves(t))
    BY <1>1 DEF L, p, n, q, a
  <2>2. SplitTo(t, a, p, q, mid)
    BY <1>1, <1>4, <1>6, <2>1, SplitNodeIs, Zenon
  <2> QED BY <2>1, <2>2 DEF SplitTo
<1>10. S2 \in Seq(Keys) /\ SplicedIn(S2, S, j, sep)
  <2>1. j \in 1..(Len(S) + 1)
    BY <1>1, <1>5
  <2> QED BY <1>5, <1>8, <2>1, InsertAtIs, Zenon DEF S2
<1>11. L2 \in Seq(Pages) /\ SplicedIn(L2, L, j + 1, q)
  <2>1. j + 1 \in 1..(Len(L) + 1) /\ q \in Pages
    BY <1>1, <1>5, <1>9
  <2> QED BY <1>5, <2>1, InsertAtIs, Zenon DEF L2
<1>12. up \in InnerNodes /\ up.keys = S2 /\ up.kids = L2
  <2>1. S2 \in Seq(Keys) /\ L2 \in Seq(Pages)
    BY <1>10, <1>11
  <2> QED BY <2>1 DEF up, Internal, InnerNodes
<1>13. Wrote(u, a, t.root, up)
  <2>1. up \in LeafNodes \cup InnerNodes /\ a \in Trees
    BY <1>9, <1>12
  <2> QED BY <1>5, <2>1, WriteIs, Zenon DEF u
<1>14. t.root # q
  <2>1. t.root \in t.ids
    BY <1>1, <1>5 DEF Sound, Rooted
  <2> QED BY <1>9, <2>1
<1>15. u \in Trees /\ Accounted(u) /\ u.root = t.root /\ u.node[t.root] = up
       /\ u.ids = t.ids \cup {q, t.root}
  <2>1. u.ids = a.ids /\ u.free = a.free /\ u.count = a.count /\ u.root = a.root /\ u \in Trees
        /\ u.node[t.root] = up
    BY <1>13 DEF Wrote
  <2>2. Accounted(u)
    BY <1>9, <2>1 DEF Accounted
  <2>3. t.root \in t.ids
    BY <1>1, <1>5 DEF Sound, Rooted
  <2> QED BY <1>9, <2>1, <2>2, <2>3
<1>16. u.node[p] = a.node[p] /\ u.node[q] = a.node[q]
  BY <1>5, <1>7, <1>9, <1>13, <1>14 DEF Wrote
<1>17. \A x \in Pages : x # p /\ x # q /\ x # t.root => u.node[x] = t.node[x]
  BY <1>9, <1>13 DEF Wrote
<1>18. Halved(n, u.node[p], u.node[q], q, mid)
  BY <1>9, <1>16
<1>19. Full(u.node[p]) /\ Full(u.node[q])
  BY <1>1, <1>18, HalvesFull, Zenon DEF mid
<1>20. Settled(t, u)
  <2> DEFINE top == t.root
  <2>1. top \in Pages /\ top = u.root /\ top # p /\ top # q /\ u.node[top] \in InnerNodes
        /\ u.node[top].keys = S2 /\ u.node[top].kids = L2 /\ u.ids = t.ids \cup {q, top}
        /\ top = t.root /\ u \in Trees /\ Accounted(u)
    BY <1>5, <1>7, <1>12, <1>14, <1>15
  <2>2. Within(t, u, {p, q, top}) /\ Above(t, top)
    BY <1>17 DEF Within, Above
  <2>3. p = Leaves(t)[j] /\ SplicedIn(L2, Leaves(t), j + 1, q)
        /\ SplicedIn(S2, Seps(t), j, t.node[p].keys[mid + 1])
        /\ Halved(t.node[p], u.node[p], u.node[q], q, mid)
    BY <1>10, <1>11, <1>18 DEF p, L, S, sep, n
  <2>4. q \in Pages /\ q \notin t.ids /\ mid \in 1..Order /\ L2 \in Seq(Pages) /\ S2 \in Seq(Keys)
    BY <1>4, <1>9, <1>10, <1>11
  <2> HIDE DEF top
  <2> QED BY <1>19, <2>1, <2>2, <2>3, <2>4, SplitOutcome, Zenon
<1>21. u.node[u.root].leaf = FALSE
  BY <1>12, <1>15, InnerShape
<1> QED BY <1>3, <1>20, <1>21
\* _split_and_propagate with an empty path, when the root is an overfull leaf.
LEMMA SplitRootIs ==
    ASSUME NEW t, NEW j, Overfull(t, j), t.node[t.root].leaf, NEW u, u = SplitRoot(t)
    PROVE  Settled(t, u)
<1> DEFINE L == Leaves(t)
           S == Seps(t)
           p == t.root
           n == t.node[p]
           mid == (Order + 1) \div 2
           q == NewPage(t)
           a == SplitNode(t, p)
           top == NewPage(a)
           b == Allocated(a)
           sep == n.keys[mid + 1]
           S2 == <<sep>>
           L2 == <<p, q>>
           up == Internal(S2, L2)
           c == Write(b, top, up)
<1>1. Sound(t) /\ HasTwoPages(t) /\ j \in 1..Len(L)
  BY DEF Overfull
<1>2. L = <<p>> /\ S = <<>>
  BY DEF Leaves, Seps
<1>3. j = 1 /\ p = L[j] /\ Len(n.keys) = Order + 1
  <2>1. j = 1
    BY <1>1, <1>2
  <2>2. p = L[j]
    BY <1>2, <2>1
  <2>3. Len(t.node[L[j]].keys) = Order + 1
    BY DEF Overfull
  <2> QED BY <2>1, <2>2, <2>3
<1>4. u = [c EXCEPT !.root = top]
  <2>1. ~(Order + 1 <= Order)
    BY OrderAssumption
  <2>2. ~(Len(n.keys) <= Order)
    BY <1>3, <2>1
  <2> QED BY <1>3, <2>2 DEF SplitRoot
<1>5. mid \in 1..Order /\ mid \in 1..(Len(n.keys) - 1) /\ mid = Len(n.keys) \div 2
  <2>1. mid \in 1..Order /\ mid \in 1..(Order + 1 - 1)
    BY MiddleIs
  <2>2. Len(n.keys) = Order + 1
    BY <1>3
  <2> HIDE DEF n
  <2> QED BY <2>1, <2>2
<1>6. p \in Pages
  BY <1>1, ViewIs, TreeShape
<1>7. HasPage(t)
  <2>1. t.free \in Seq(Pages) /\ t.count \in Nat
    BY <1>1, TreeShape DEF Sound
  <2>2. Len(t.free) \in Nat
    BY <2>1
  <2> QED BY <1>1, <2>1, <2>2, PagesAssumption DEF HasTwoPages, HasPage
<1>8. LeafSound(n, S, j) /\ p \in t.ids
  BY <1>1, <1>3, LeafPage
<1> HIDE DEF mid
<1>9. sep \in Keys
  <2>1. n.keys \in Seq(Keys) /\ Len(n.keys) \in Nat
    BY <1>8, SoundLeafShape
  <2>2. mid \in 1..(Len(n.keys) - 1)
    BY <1>5
  <2>3. mid + 1 \in 1..Len(n.keys)
    BY <2>1, <2>2
  <2> QED BY <2>1, <2>3
<1>10. p = t.root /\ p = Leaves(t)[j] /\ n = t.node[p] /\ q = NewPage(t) /\ a = SplitNode(t, p)
       /\ j \in 1..Len(Leaves(t)) /\ top = NewPage(a) /\ b = Allocated(a) /\ c = Write(b, top, up)
  BY <1>1, <1>3
<1> HIDE DEF L, S, p, n, q, a, sep, S2, L2, up, top, b, c
<1>11. SplitTo(t, a, p, q, mid)
  BY <1>1, <1>5, <1>7, <1>10, SplitNodeIs, Zenon
<1>12. /\ q \in Pages /\ q \notin t.ids
       /\ a \in Trees /\ Accounted(a) /\ a.root = t.root /\ a.ids = t.ids \cup {q}
       /\ Halved(n, a.node[p], a.node[q], q, mid)
       /\ \A x \in Pages : x # p /\ x # q => a.node[x] = t.node[x]
       /\ HasPage(a)
  BY <1>1, <1>10, <1>11 DEF SplitTo
<1>13. /\ top \in Pages /\ top \notin a.ids
       /\ b \in Trees /\ Accounted(b) /\ b.node = a.node /\ b.ids = a.ids \cup {top}
  BY <1>10, <1>12, AllocatedIs
<1>14. L2 \in Seq(Pages) /\ SplicedIn(L2, L, j + 1, q)
  <2>1. L2 \in Seq(Pages) /\ Len(L2) = 2 /\ L2[1] = p /\ L2[2] = q
    BY <1>6, <1>12 DEF L2
  <2>2. Len(L) = 1 /\ L[1] = p
    BY <1>2
  <2>3. \A x \in 1..(1 + 1) : (x = 1 /\ x < 1 + 1) \/ (x = 2 /\ ~(x < 1 + 1) /\ x = 1 + 1)
    OBVIOUS
  <2> QED BY <1>3, <2>1, <2>2, <2>3 DEF SplicedIn
<1>15. S2 \in Seq(Keys) /\ SplicedIn(S2, S, j, sep) /\ Len(S2) = 1
  <2>1. S2 \in Seq(Keys) /\ Len(S2) = 1 /\ S2[1] = sep
    BY <1>9 DEF S2
  <2>2. Len(S) = 0
    BY <1>2
  <2>3. \A x \in 1..(0 + 1) : x = 1 /\ ~(x < 1)
    OBVIOUS
  <2> QED BY <1>3, <2>1, <2>2, <2>3 DEF SplicedIn
<1>16. up \in InnerNodes /\ up.keys = S2 /\ up.kids = L2
  <2>1. S2 \in Seq(Keys) /\ L2 \in Seq(Pages)
    BY <1>14, <1>15
  <2> QED BY <2>1 DEF up, Internal, InnerNodes
<1>17. Wrote(c, b, top, up)
  <2>1. up \in LeafNodes \cup InnerNodes /\ b \in Trees /\ top \in Pages
    BY <1>13, <1>16
  <2> QED BY <1>10, <2>1, WriteIs, Zenon
<1>18. u \in Trees /\ u.node = c.node /\ u.root = top /\ u.ids = c.ids
       /\ u.free = c.free /\ u.count = c.count
  <2>1. c \in Trees /\ top \in Pages
    BY <1>13, <1>17 DEF Wrote
  <2> QED BY <1>4, <2>1 DEF Trees
<1>19. top # p /\ top # q /\ top \notin t.ids
  BY <1>8, <1>12, <1>13
<1>20. u.node[top] = up /\ \A x \in Pages : x # top => u.node[x] = a.node[x]
  BY <1>13, <1>17, <1>18 DEF Wrote
<1>21. Accounted(u) /\ u.ids = t.ids \cup {q, top}
  <2>1. u.ids = b.ids /\ u.free = b.free /\ u.count = b.count
    BY <1>17, <1>18 DEF Wrote
  <2>2. Accounted(u)
    BY <1>13, <2>1 DEF Accounted
  <2> QED BY <1>12, <1>13, <2>1, <2>2
<1>22. Halved(n, u.node[p], u.node[q], q, mid)
  BY <1>6, <1>12, <1>19, <1>20
<1>23. Full(u.node[p]) /\ Full(u.node[q])
  BY <1>3, <1>22, HalvesFull, Zenon DEF mid
<1>24. Within(t, u, {p, q, top}) /\ Above(t, top)
  BY <1>12, <1>19, <1>20 DEF Within, Above
<1>25. top \in Pages /\ top = u.root /\ u.node[top] \in InnerNodes
       /\ u.node[top].keys = S2 /\ u.node[top].kids = L2 /\ u \in Trees
  BY <1>13, <1>16, <1>18, <1>20
<1>26. SplicedIn(L2, Leaves(t), j + 1, q) /\ SplicedIn(S2, Seps(t), j, t.node[p].keys[mid + 1])
       /\ Halved(t.node[p], u.node[p], u.node[q], q, mid)
  BY <1>10, <1>14, <1>15, <1>22 DEF L, S, sep
<1>27. q \in Pages /\ q \notin t.ids /\ mid \in 1..Order /\ L2 \in Seq(Pages) /\ S2 \in Seq(Keys)
  BY <1>5, <1>12, <1>14, <1>15
<1> QED BY <1>10, <1>19, <1>21, <1>23, <1>24, <1>25, <1>26, <1>27, SplitOutcome, Zenon

\* What _split_and_propagate does on the two paths a descent can return.
LEMMA SplitPathIs ==
    ASSUME NEW t, NEW path, NEW root, NEW j, path = <<>> \/ path = <<<<root, j>>>>
    PROVE  /\ path = <<>> => SplitAndPropagate(t, path) = SplitRoot(t)
           /\ path = <<<<root, j>>>> =>
                 LET s == SplitChild(t, root, j) IN
                   SplitAndPropagate(t, path) = IF s.more THEN SplitRoot(s.tree) ELSE s.tree
<1> DEFINE level(n) == path[Len(path) - n + 1]
           Body(f, n) == IF n = 0 THEN [tree |-> t, more |-> TRUE]
                         ELSE IF f[n - 1].more
                           THEN SplitChild(f[n - 1].tree, level(n)[1], level(n)[2])
                         ELSE f[n - 1]
           Is(f) == f = [n \in 0..Len(path) |-> Body(f, n)]
           f0 == CHOOSE f : Is(f)
           first == [tree |-> t, more |-> TRUE]
           s == SplitChild(t, root, j)
<1>1. SplitAndPropagate(t, path)
        = IF f0[Len(path)].more THEN SplitRoot(f0[Len(path)].tree) ELSE f0[Len(path)].tree
  BY DEF SplitAndPropagate
<1>2. CASE path = <<>>
  <2>1. Len(path) = 0
    BY <1>2
  <2> DEFINE g == [n \in 0..0 |-> first]
  <2>2. Is(g)
    <3>1. \A n \in 0..0 : n = 0
      OBVIOUS
    <3> QED BY <2>1, <3>1
  <2>3. Is(f0)
    <3> HIDE DEF Is
    <3> QED BY <2>2
  <2>4. f0[0] = first
    <3>1. f0[0] = Body(f0, 0)
      <4> HIDE DEF f0, Body
      <4> QED BY <2>1, <2>3
    <3> HIDE DEF f0
    <3> QED BY <3>1
  <2>5. path # <<<<root, j>>>>
    <3>1. Len(<<<<root, j>>>>) = 1
      OBVIOUS
    <3> QED BY <2>1, <3>1
  <2> HIDE DEF f0
  <2> QED BY <1>1, <1>2, <2>1, <2>4, <2>5
<1>3. CASE path = <<<<root, j>>>>
  <2>1. Len(path) = 1 /\ path[1] = <<root, j>> /\ path # <<>>
    BY <1>3
  <2>2. level(1)[1] = root /\ level(1)[2] = j
    BY <2>1
  <2> HIDE DEF level, s
  <2> DEFINE g == [n \in 0..1 |-> IF n = 0 THEN first ELSE s]
  <2>3. Is(g)
    <3>1. ASSUME NEW n \in 0..1 PROVE g[n] = Body(g, n)
      <4>1. CASE n = 0
        BY <4>1
      <4>2. CASE n = 1
        <5>1. g[0] = first /\ g[1] = s /\ first.more = TRUE /\ first.tree = t
          OBVIOUS
        <5>2. Body(g, 1) = SplitChild(g[0].tree, level(1)[1], level(1)[2])
          BY <5>1
        <5> HIDE DEF g, Body, first
        <5> QED BY <2>2, <4>2, <5>1, <5>2 DEF s
      <4> QED BY <4>1, <4>2
    <3>2. 0..Len(path) = 0..1
      BY <2>1
    <3> HIDE DEF Body
    <3> QED BY <3>1, <3>2
  <2>4. Is(f0)
    <3> HIDE DEF Is
    <3> QED BY <2>3
  <2>5. f0[0] = Body(f0, 0) /\ f0[1] = Body(f0, 1)
    <3> HIDE DEF f0, Body
    <3> QED BY <2>1, <2>4
  <2> HIDE DEF f0
  <2>6. f0[0] = first /\ first.more = TRUE /\ first.tree = t
    BY <2>5
  <2>7. f0[1] = SplitChild(f0[0].tree, level(1)[1], level(1)[2])
    <3> HIDE DEF first
    <3> QED BY <2>5, <2>6
  <2>8. f0[1] = s
    <3> HIDE DEF first
    <3> QED BY <2>2, <2>6, <2>7 DEF s
  <2> QED BY <1>1, <2>1, <2>8 DEF s
<1> QED BY <1>2, <1>3

\* An overfull leaf is split, and the tree is sound and within its bounds again.
LEMMA SplitAndPropagateIs ==
    ASSUME NEW t, NEW j, Overfull(t, j), NEW path,
           path = IF t.node[t.root].leaf THEN <<>> ELSE <<<<t.root, j>>>>
    PROVE  Settled(t, SplitAndPropagate(t, path))
<1>1. CASE t.node[t.root].leaf
  <2>1. path = <<>>
    BY <1>1
  <2>2. SplitAndPropagate(t, path) = SplitRoot(t)
    BY <2>1, SplitPathIs
  <2> QED BY <1>1, <2>2, SplitRootIs
<1>2. CASE ~t.node[t.root].leaf
  <2> DEFINE s == SplitChild(t, t.root, j)
  <2>1. path = <<<<t.root, j>>>>
    BY <1>2
  <2>2. SplitAndPropagate(t, path) = IF s.more THEN SplitRoot(s.tree) ELSE s.tree
    BY <2>1, SplitPathIs
  <2>3. Settled(t, s.tree) /\ ~s.tree.node[s.tree.root].leaf
    BY <1>2, SplitChildIs
  <2> HIDE DEF s
  <2>4. SplitRoot(s.tree) = s.tree
    BY <2>3 DEF SplitRoot
  <2> QED BY <2>2, <2>3, <2>4
<1> QED BY <1>1, <1>2
-----------------------------------------------------------------------------
(* Rebalancing                                                             *)

\* The leaves l2 and r2 hold what l and r hold, in the same order, and neither is empty.
Regrouped(l, r, l2, r2) ==
    /\ l2 \in LeafNodes /\ Len(l2.vals) = Len(l2.keys) /\ Len(l2.keys) > 0 /\ l2.next = l.next
    /\ r2 \in LeafNodes /\ Len(r2.vals) = Len(r2.keys) /\ Len(r2.keys) > 0 /\ r2.next = r.next
    /\ \E m \in LeafNodes : Len(m.vals) = Len(m.keys) /\ Joined(m, l, r) /\ Joined(m, l2, r2)

OthersFull(t, C) == \A a \in 1..Len(Leaves(t)) : a \notin C => Full(t.node[Leaves(t)[a]])

\* Three nodes written to different pages.
WroteThree(u, t, x, y, z, l, m, n) ==
    /\ u.node[x] = l /\ u.node[y] = m /\ u.node[z] = n
    /\ \A p \in Pages : p # x /\ p # y /\ p # z => u.node[p] = t.node[p]

\* Writing them one after the other does that.
LEMMA ThreeWritten ==
    ASSUME NEW t, NEW a, NEW b, NEW u, NEW x \in Pages, NEW y \in Pages, NEW z \in Pages,
           x # y, x # z, y # z, NEW l, NEW m, NEW n,
           Wrote(a, t, x, l), Wrote(b, a, y, m), Wrote(u, b, z, n)
    PROVE  WroteThree(u, t, x, y, z, l, m, n)
BY DEF Wrote, WroteThree

\* Borrowing: the leaves at places j and j + 1 are regrouped, with the
\* separator between them the first key of the right one.
LEMMA ShiftOutcome ==
    ASSUME NEW t, Sound(t), ~t.node[t.root].leaf, NEW j \in 1..Len(Seps(t)),
           NEW x, x = Leaves(t)[j], NEW y, y = Leaves(t)[j + 1],
           NEW l2, NEW r2, Regrouped(t.node[x], t.node[y], l2, r2), Full(l2), Full(r2),
           OthersFull(t, {j, j + 1}), NEW sep, sep = r2.keys[1],
           NEW up, up = [t.node[t.root] EXCEPT !.keys[j] = sep],
           NEW u, u = Write(Write(Write(t, x, l2), y, r2), t.root, up)
    PROVE  Rebalanced(t, u)
<1> DEFINE L == Leaves(t)
           S == Seps(t)
           top == t.root
           l == t.node[x]
           r == t.node[y]
           S2 == [S EXCEPT ![j] = sep]
           a == Write(t, x, l2)
           b == Write(a, y, r2)
<1>1. /\ L \in Seq(Pages) /\ S \in Seq(Keys) /\ Len(L) = Len(S) + 1 /\ Len(S) \in Nat
      /\ t \in Trees /\ top \in Pages /\ Arranged(t.node, L, S) /\ Accounted(t)
      /\ \A c, d \in 1..Len(L) : L[c] = L[d] => c = d
      /\ \A c \in 1..Len(L) : L[c] \in Pages
  BY ViewIs, TreeShape DEF Sound
<1>2. L = t.node[top].kids /\ S = t.node[top].keys
  BY DEF Leaves, Seps
<1>3. j \in 1..Len(L) /\ j + 1 \in 1..Len(L) /\ j # j + 1 /\ j \in Nat /\ j \in 1..Len(S)
  BY <1>1
<1>4. x \in Pages /\ y \in Pages /\ x # y
  BY <1>1, <1>3
<1>5. x # top /\ y # top
  BY <1>3, LeafPage
<1>6. LeafSound(l, S, j) /\ LeafSound(r, S, j + 1)
  BY <1>3, LeafPage
<1>7. \A c \in 1..Len(L) : L[c] # top
  BY LeafPage
<1> HIDE DEF L, S, l, r, S2, a, b
<1>8. /\ l2 \in LeafNodes /\ Len(l2.vals) = Len(l2.keys) /\ Len(l2.keys) > 0 /\ l2.next = l.next
      /\ r2 \in LeafNodes /\ Len(r2.vals) = Len(r2.keys) /\ Len(r2.keys) > 0 /\ r2.next = r.next
  BY DEF Regrouped, l, r
<1>9. PICK m \in LeafNodes : Len(m.vals) = Len(m.keys) /\ Joined(m, l, r) /\ Joined(m, l2, r2)
  BY DEF Regrouped, l, r
<1>10. Spans(m, S, j, j + 1)
  <2>1. Increasing(S)
    BY <1>1 DEF Arranged
  <2> QED BY <1>1, <1>3, <1>6, <1>9, <2>1, JoinedSpans, Zenon
<1>11. Parted(l2, r2, S, j, j + 1, sep)
  <2>1. j \in Nat /\ j + 1 \in Nat /\ (j > 1 => j - 1 \in 1..Len(S)) /\ j + 1 > 0
    BY <1>1, <1>3
  <2> QED BY <1>1, <1>8, <1>9, <1>10, <2>1, CutSpans, Zenon
<1>12. sep \in Keys
  BY <1>11 DEF Parted
<1>13. t.node[top] \in InnerNodes
  <2>1. t.node[top] \in LeafNodes \cup InnerNodes
    BY <1>1, TreeShape
  <2> QED BY <2>1, LeafShape
<1>14. up \in InnerNodes /\ up.keys = S2 /\ up.kids = L /\ S2 \in Seq(Keys) /\ Len(S2) = Len(S)
  <2>1. S2 \in Seq(Keys) /\ Len(S2) = Len(S)
    BY <1>1, <1>3, <1>12 DEF S2
  <2>2. up = [t.node[top] EXCEPT !.keys = S2]
    BY <1>2 DEF S2
  <2> QED BY <1>2, <1>13, <2>1, <2>2 DEF InnerNodes
<1>15. Wrote(a, t, x, l2)
  BY <1>1, <1>4, <1>8, WriteIs DEF a
<1>16. Wrote(b, a, y, r2)
  <2>1. a \in Trees
    BY <1>15 DEF Wrote
  <2> QED BY <1>4, <1>8, <2>1, WriteIs DEF b
<1>17. Wrote(u, b, top, up)
  <2>1. b \in Trees
    BY <1>16 DEF Wrote
  <2>2. u = Write(b, top, up)
    BY DEF a, b
  <2> QED BY <1>1, <1>14, <2>1, <2>2, WriteIs
<1>18. /\ u.node[x] = l2 /\ u.node[y] = r2 /\ u.node[top] = up
       /\ \A z \in Pages : z # x /\ z # y /\ z # top => u.node[z] = t.node[z]
  <2> HIDE DEF top
  <2>1. WroteThree(u, t, x, y, top, l2, r2, up)
    BY <1>1, <1>4, <1>5, <1>15, <1>16, <1>17, ThreeWritten, Zenon
  <2> QED BY <2>1, Zenon DEF WroteThree
<1>19. u \in Trees /\ u.root = top /\ u.ids = t.ids /\ Accounted(u)
  <2>1. u \in Trees /\ u.root = top /\ u.ids = t.ids /\ u.free = t.free /\ u.count = t.count
    BY <1>15, <1>16, <1>17 DEF Wrote
  <2>2. Accounted(t)
    BY <1>1
  <2>3. Accounted(u)
    BY <2>1, <2>2, SameAccount, Zenon
  <2> QED BY <2>1, <2>3
<1>20. x = L[j] /\ y = L[j + 1]
  BY DEF L
<1>21. Kept(u.node, t.node, L, {j, j + 1})
  <2> SUFFICES ASSUME NEW c \in 1..Len(L), c \notin {j, j + 1} PROVE u.node[L[c]] = t.node[L[c]]
    BY DEF Kept
  <2>1. L[c] # x /\ L[c] # y /\ L[c] # top /\ L[c] \in Pages
    BY <1>1, <1>3, <1>7, <1>20
  <2> QED BY <1>18, <2>1
<1>22. Arranged(u.node, L, S2)
  <2>1. /\ Parted(u.node[L[j]], u.node[L[j + 1]], S, j, j + 1, sep)
        /\ u.node[L[j]].next = t.node[L[j]].next /\ u.node[L[j + 1]].next = t.node[L[j + 1]].next
    BY <1>8, <1>11, <1>18, <1>20 DEF l, r
  <2> QED BY <1>1, <1>3, <1>21, <2>1, ShiftArranged, Zenon DEF S2
<1>23. Sound(u) /\ Leaves(u) = L /\ Seps(u) = S2
  <2>1. Len(S2) > 0
    BY <1>1, <1>3, <1>14
  <2>2. Topped(u, L, S2)
    BY <1>14, <1>18, <1>19, <2>1, InnerShape DEF Topped
  <2>3. Owns(u, L)
    <3>1. /\ \A p \in Pages : p \in t.ids <=> p = top \/ \E c \in 1..Len(L) : p = L[c]
          /\ \A p \in Pages : p \notin t.ids => t.node[p] = Blank
      BY DEF Sound, Rooted, L
    <3>2. x \in t.ids /\ y \in t.ids /\ top \in t.ids
      BY <1>1, <1>3, <1>4, <1>20, <3>1
    <3>3. \A p \in Pages : p \notin t.ids => p # x /\ p # y /\ p # top
      BY <3>2, Zenon
    <3>4. ASSUME NEW p \in Pages, p \notin u.ids PROVE u.node[p] = Blank
      <4>1. p \notin t.ids
        BY <1>19, <3>4, Zenon
      <4>2. u.node[p] = t.node[p]
        BY <1>18, <3>3, <4>1, Zenon
      <4> QED BY <3>1, <4>1, <4>2, Zenon
    <3>5. \A p \in Pages : p \in u.ids <=> p = u.root \/ \E c \in 1..Len(L) : L[c] = p
      BY <1>19, <3>1, Zenon
    <3> QED BY <3>4, <3>5 DEF Owns
  <2> QED BY <1>19, <1>22, <2>2, <2>3, Assembled, Zenon
<1>24. Sized(u)
  <2>1. ASSUME NEW c \in 1..Len(L) PROVE Full(u.node[L[c]])
    <3>1. CASE c = j \/ c = j + 1
      BY <1>18, <1>20, <3>1
    <3>2. CASE c # j /\ c # j + 1
      <4>1. u.node[L[c]] = t.node[L[c]]
        BY <1>21, <3>2 DEF Kept
      <4>2. Full(t.node[L[c]])
        BY <3>2 DEF OthersFull, L
      <4> QED BY <4>1, <4>2, Zenon
    <3> QED BY <3>1, <3>2, Zenon
  <2>2. Leaves(u) = L
    BY <1>23
  <2>3. AllFull(u, L)
    BY <2>1 DEF AllFull
  <2> QED BY <2>2, <2>3, FullSized, Zenon
<1>25. SameBinds(t, u)
  <2> DEFINE C == {x, y, top}
  <2>1. Within(t, u, C)
    BY <1>18 DEF Within
  <2>2. C \in SUBSET Pages
    BY <1>1, <1>4
  <2>3. BindsBoth(m, l, r) /\ BindsBoth(m, l2, r2)
    <3>1. l \in LeafNodes /\ Len(l.vals) = Len(l.keys) /\ r \in LeafNodes /\ Len(r.vals) = Len(r.keys)
      BY <1>6 DEF LeafSound
    <3> QED BY <1>8, <1>9, <3>1, JoinedHas, Zenon
  <2>4. ASSUME NEW k, NEW v
        PROVE (\E z \in C : Has(u.node[z], k, v)) <=> (\E z \in C : Has(t.node[z], k, v))
    <3>1. ~Has(t.node[top], k, v) /\ ~Has(u.node[top], k, v)
      BY <1>13, <1>14, <1>18, HasNothing
    <3>2. Has(l, k, v) \/ Has(r, k, v) <=> Has(l2, k, v) \/ Has(r2, k, v)
      BY <2>3 DEF BindsBoth
    <3>3. u.node[x] = l2 /\ u.node[y] = r2 /\ t.node[x] = l /\ t.node[y] = r
      BY <1>18 DEF l, r
    <3> QED BY <3>1, <3>2, <3>3
  <2>5. BindAlike(t, u, C)
    BY <2>4 DEF BindAlike
  <2> HIDE DEF C
  <2> QED BY <2>1, <2>2, <2>5, SameBindsBy, Zenon
<1>26. Len(Leaves(u)) <= Len(Leaves(t))
  <2>1. Leaves(u) = L /\ Len(L) \in Nat
    BY <1>1, <1>23
  <2> QED BY <2>1 DEF L
<1> QED BY <1>23, <1>24, <1>25, <1>26 DEF Settled, Rebalanced
\* The sequence m is a and then b.
Concat(m, a, b) ==
    /\ Len(m) = Len(a) + Len(b)
    /\ \A i \in 1..Len(a) : m[i] = a[i]
    /\ \A i \in 1..Len(b) : m[Len(a) + i] = b[i]

\* A concatenation of sequences over A is one, in the form the merges need.
LEMMA ConcatSeq ==
    ASSUME NEW A, NEW a \in Seq(A), NEW b \in Seq(A), NEW m, m = a \o b
    PROVE  m \in Seq(A) /\ Concat(m, a, b)
<1>1. /\ m \in Seq(A) /\ Len(m) = Len(a) + Len(b)
      /\ \A j \in 1..(Len(a) + Len(b)) : m[j] = IF j <= Len(a) THEN a[j] ELSE b[j - Len(a)]
  BY ConcatIs
<1>2. Len(a) \in Nat /\ Len(b) \in Nat
  OBVIOUS
<1>3. \A i \in 1..Len(a) : i \in 1..(Len(a) + Len(b)) /\ i <= Len(a)
  BY <1>2
<1>4. \A i \in 1..Len(b) : /\ Len(a) + i \in 1..(Len(a) + Len(b)) /\ ~(Len(a) + i <= Len(a))
                           /\ Len(a) + i - Len(a) = i
  BY <1>2
<1> QED BY <1>1, <1>3, <1>4 DEF Concat

\* The last element of a moved to the front of b, or the first of b to the end of a.
MovedRight(a, b, a2, b2) ==
    /\ Len(a2) = Len(a) - 1 /\ Len(b2) = Len(b) + 1 /\ b2[1] = a[Len(a)]
    /\ \A m : Concat(m, a, b) => Concat(m, a2, b2)

MovedLeft(a, b, a2, b2) ==
    /\ Len(a2) = Len(a) + 1 /\ Len(b2) = Len(b) - 1
    /\ Len(b) > 1 => b2[1] = b[2]
    /\ \A m : Concat(m, a, b) => Concat(m, a2, b2)

\* Moving the last element of one sequence to the front of the next keeps their join.
LEMMA MoveRightSeq ==
    ASSUME NEW A, NEW a \in Seq(A), NEW b \in Seq(A), Len(a) > 0,
           NEW a2, a2 = Front(a), NEW b2, b2 = <<Last(a)>> \o b
    PROVE  a2 \in Seq(A) /\ b2 \in Seq(A) /\ MovedRight(a, b, a2, b2)
<1>1. /\ a2 \in Seq(A) /\ Len(a2) = Len(a) - 1 /\ \A j \in 1..(Len(a) - 1) : a2[j] = a[j]
      /\ Last(a) = a[Len(a)] /\ Last(a) \in A
  BY EndsIs
<1> DEFINE e == Last(a)
<1>2. Len(a) \in Nat /\ Len(b) \in Nat
  OBVIOUS
<1>3. /\ b2 \in Seq(A) /\ Len(b2) = Len(b) + 1 /\ b2[1] = e
      /\ \A j \in 1..(Len(b) + 1) : j # 1 => b2[j] = b[j - 1]
  <2>1. e \in A
    BY <1>1
  <2> HIDE DEF e
  <2>2. b2 = <<e>> \o b
    BY DEF e
  <2> QED BY <2>1, <2>2
<1> HIDE DEF e
<1>4. ASSUME NEW m, Concat(m, a, b) PROVE Concat(m, a2, b2)
  <2>1. /\ Len(m) = Len(a) + Len(b)
        /\ \A i \in 1..Len(a) : m[i] = a[i]
        /\ \A i \in 1..Len(b) : m[Len(a) + i] = b[i]
    BY <1>4 DEF Concat
  <2>2. Len(m) = Len(a2) + Len(b2)
    BY <1>1, <1>2, <1>3, <2>1
  <2>3. \A i \in 1..Len(a2) : m[i] = a2[i]
    BY <1>1, <1>2, <2>1
  <2>4. ASSUME NEW i \in 1..Len(b2) PROVE m[Len(a2) + i] = b2[i]
    <3>1. CASE i = 1
      <4>1. Len(a2) + i = Len(a) /\ Len(a) \in 1..Len(a)
        BY <1>1, <1>2, <3>1
      <4> QED BY <1>1, <1>3, <2>1, <3>1, <4>1 DEF e
    <3>2. CASE i # 1
      <4>1. i - 1 \in 1..Len(b) /\ i \in 1..(Len(b) + 1) /\ Len(a2) + i = Len(a) + (i - 1)
        BY <1>1, <1>2, <1>3, <3>2
      <4> QED BY <1>3, <2>1, <3>2, <4>1
    <3> QED BY <3>1, <3>2
  <2> QED BY <2>2, <2>3, <2>4 DEF Concat
<1> QED BY <1>1, <1>3, <1>4 DEF MovedRight, e

\* Moving the first element of one sequence to the end of the one before keeps their join.
LEMMA MoveLeftSeq ==
    ASSUME NEW A, NEW a \in Seq(A), NEW b \in Seq(A), Len(b) > 0,
           NEW a2, a2 = Append(a, Head(b)), NEW b2, b2 = Tail(b)
    PROVE  a2 \in Seq(A) /\ b2 \in Seq(A) /\ MovedLeft(a, b, a2, b2)
<1>1. /\ b2 \in Seq(A) /\ Len(b2) = Len(b) - 1 /\ \A j \in 1..(Len(b) - 1) : b2[j] = b[j + 1]
      /\ Head(b) = b[1] /\ Head(b) \in A
  BY EndsIs
<1> DEFINE e == Head(b)
<1>2. Len(a) \in Nat /\ Len(b) \in Nat
  OBVIOUS
<1>3. /\ a2 \in Seq(A) /\ Len(a2) = Len(a) + 1 /\ a2[Len(a) + 1] = e
      /\ \A j \in 1..Len(a) : a2[j] = a[j]
  <2>1. e \in A
    BY <1>1
  <2> HIDE DEF e
  <2>2. a2 = Append(a, e)
    BY DEF e
  <2> QED BY <2>1, <2>2
<1> HIDE DEF e
<1>4. ASSUME NEW m, Concat(m, a, b) PROVE Concat(m, a2, b2)
  <2>1. /\ Len(m) = Len(a) + Len(b)
        /\ \A i \in 1..Len(a) : m[i] = a[i]
        /\ \A i \in 1..Len(b) : m[Len(a) + i] = b[i]
    BY <1>4 DEF Concat
  <2>2. Len(m) = Len(a2) + Len(b2)
    BY <1>1, <1>2, <1>3, <2>1
  <2>3. ASSUME NEW i \in 1..Len(a2) PROVE m[i] = a2[i]
    <3>1. CASE i = Len(a) + 1
      <4>1. 1 \in 1..Len(b)
        BY <1>2
      <4> QED BY <1>1, <1>3, <2>1, <3>1, <4>1 DEF e
    <3>2. CASE i # Len(a) + 1
      <4>1. i \in 1..Len(a)
        BY <1>2, <1>3, <3>2
      <4> QED BY <1>3, <2>1, <4>1
    <3> QED BY <3>1, <3>2
  <2>4. ASSUME NEW i \in 1..Len(b2) PROVE m[Len(a2) + i] = b2[i]
    <3>1. i \in 1..(Len(b) - 1) /\ i + 1 \in 1..Len(b) /\ Len(a2) + i = Len(a) + (i + 1)
      BY <1>1, <1>2, <1>3
    <3> QED BY <1>1, <2>1, <3>1
  <2> QED BY <2>2, <2>3, <2>4 DEF Concat
<1>5. Len(b) > 1 => b2[1] = b[2]
  BY <1>1, <1>2
<1> QED BY <1>1, <1>3, <1>4, <1>5 DEF MovedLeft

\* Leaves that hold what the sequences say.
LEMMA JoinedBy ==
    ASSUME NEW m, NEW l, NEW r, Concat(m.keys, l.keys, r.keys), Concat(m.vals, l.vals, r.vals),
           Len(l.vals) = Len(l.keys), Len(r.vals) = Len(r.keys)
    PROVE  Joined(m, l, r)
BY DEF Concat, Joined

\* The two leaves joined, as both merges do.
JoinedLeaf(m, l, r, nx) ==
    /\ m \in LeafNodes /\ Len(m.vals) = Len(m.keys) /\ Joined(m, l, r) /\ m.next = nx
    /\ Len(m.keys) = Len(l.keys) + Len(r.keys)

\* The leaf a merge writes is its two leaves joined.
LEMMA JoinIs ==
    ASSUME NEW S, NEW j, NEW S2, NEW i, NEW l, LeafSound(l, S, j), NEW r, LeafSound(r, S2, i),
           NEW nx \in 0..MaxPages, NEW m, m = Leaf(l.keys \o r.keys, l.vals \o r.vals, nx)
    PROVE  JoinedLeaf(m, l, r, nx)
<1> DEFINE ks == l.keys \o r.keys
           vs == l.vals \o r.vals
<1>1. /\ l.keys \in Seq(Keys) /\ l.vals \in Seq(RowIds) /\ Len(l.vals) = Len(l.keys)
      /\ r.keys \in Seq(Keys) /\ r.vals \in Seq(RowIds) /\ Len(r.vals) = Len(r.keys)
  BY SoundLeafShape
<1>2. ks \in Seq(Keys) /\ Concat(ks, l.keys, r.keys)
  BY <1>1, ConcatSeq, Zenon
<1>3. vs \in Seq(RowIds) /\ Concat(vs, l.vals, r.vals)
  BY <1>1, ConcatSeq, Zenon
<1>4. m = Leaf(ks, vs, nx)
  OBVIOUS
<1> HIDE DEF ks, vs
<1>5. m \in LeafNodes /\ m.keys = ks /\ m.vals = vs /\ m.next = nx
  <2>1. ks \in Seq(Keys) /\ vs \in Seq(RowIds)
    BY <1>2, <1>3
  <2>2. LeafOf(m, ks, vs, nx)
    BY <1>4, <2>1, LeafIs, Zenon
  <2> QED BY <2>2 DEF LeafOf
<1>6. Joined(m, l, r)
  BY <1>1, <1>2, <1>3, <1>5, JoinedBy
<1>7. Len(m.vals) = Len(m.keys)
  BY <1>1, <1>2, <1>3, <1>5 DEF Concat
<1> QED BY <1>2, <1>5, <1>6, <1>7 DEF Concat, JoinedLeaf

\* The records the borrowing writes back are leaves with other keys and row ids.
LEMMA LeafUpdate ==
    ASSUME NEW n \in LeafNodes, NEW ks \in Seq(Keys), NEW vs \in Seq(RowIds),
           NEW e, e = [n EXCEPT !.keys = ks, !.vals = vs, !.kids = n.kids]
    PROVE  LeafOf(e, ks, vs, n.next)
BY DEF LeafNodes, LeafOf

\* The last key of l goes to the front of r.
LEMMA BorrowRightward ==
    ASSUME NEW S, NEW j, NEW i, NEW l, LeafSound(l, S, j), NEW r, LeafSound(r, S, i),
           Len(l.keys) > 1,
           NEW l2, LeafOf(l2, Front(l.keys), Front(l.vals), l.next),
           NEW r2, LeafOf(r2, <<Last(l.keys)>> \o r.keys, <<Last(l.vals)>> \o r.vals, r.next)
    PROVE  /\ Regrouped(l, r, l2, r2) /\ r2.keys[1] = Last(l.keys)
           /\ Len(l2.keys) = Len(l.keys) - 1 /\ Len(r2.keys) = Len(r.keys) + 1
<1> DEFINE lk == Front(l.keys)
           lv == Front(l.vals)
           rk == <<Last(l.keys)>> \o r.keys
           rv == <<Last(l.vals)>> \o r.vals
           m == Leaf(l.keys \o r.keys, l.vals \o r.vals, 0)
<1>1. /\ l.keys \in Seq(Keys) /\ l.vals \in Seq(RowIds) /\ Len(l.vals) = Len(l.keys)
      /\ r.keys \in Seq(Keys) /\ r.vals \in Seq(RowIds) /\ Len(r.vals) = Len(r.keys)
      /\ l.next \in 0..MaxPages /\ r.next \in 0..MaxPages
      /\ Len(l.keys) \in Nat /\ Len(r.keys) \in Nat
  BY SoundLeafShape
<1>2. 0 \in 0..MaxPages /\ Len(l.keys) > 0 /\ Len(l.vals) > 0
  BY <1>1, PagesAssumption
<1>3. m \in LeafNodes /\ Len(m.vals) = Len(m.keys) /\ Joined(m, l, r)
  <2>1. m = Leaf(l.keys \o r.keys, l.vals \o r.vals, 0)
    OBVIOUS
  <2> HIDE DEF m
  <2>2. JoinedLeaf(m, l, r, 0)
    BY <1>2, <2>1, JoinIs, Zenon
  <2> QED BY <2>2 DEF JoinedLeaf
<1>4. lk \in Seq(Keys) /\ rk \in Seq(Keys) /\ MovedRight(l.keys, r.keys, lk, rk)
  BY <1>1, <1>2, MoveRightSeq, Zenon
<1>5. lv \in Seq(RowIds) /\ rv \in Seq(RowIds) /\ MovedRight(l.vals, r.vals, lv, rv)
  BY <1>1, <1>2, MoveRightSeq, Zenon
<1>6. Concat(m.keys, l.keys, r.keys) /\ Concat(m.vals, l.vals, r.vals)
  <2>1. l.keys \o r.keys \in Seq(Keys) /\ Concat(l.keys \o r.keys, l.keys, r.keys)
    BY <1>1, ConcatSeq, Zenon
  <2>2. l.vals \o r.vals \in Seq(RowIds) /\ Concat(l.vals \o r.vals, l.vals, r.vals)
    BY <1>1, ConcatSeq, Zenon
  <2>3. m.keys = l.keys \o r.keys /\ m.vals = l.vals \o r.vals
    BY DEF Leaf
  <2> HIDE DEF m
  <2> QED BY <2>1, <2>2, <2>3
<1>9. LeafOf(l2, lk, lv, l.next) /\ LeafOf(r2, rk, rv, r.next)
  OBVIOUS
<1>8. Last(l.keys) = l.keys[Len(l.keys)]
  BY DEF Last
<1> HIDE DEF lk, lv, rk, rv, m
<1>10. /\ l2 \in LeafNodes /\ l2.keys = lk /\ l2.vals = lv /\ l2.next = l.next
       /\ r2 \in LeafNodes /\ r2.keys = rk /\ r2.vals = rv /\ r2.next = r.next
  BY <1>9 DEF LeafOf
<1>11. /\ Len(lk) = Len(l.keys) - 1 /\ Len(rk) = Len(r.keys) + 1 /\ rk[1] = l.keys[Len(l.keys)]
       /\ Len(lv) = Len(l.vals) - 1 /\ Len(rv) = Len(r.vals) + 1
       /\ Concat(m.keys, lk, rk) /\ Concat(m.vals, lv, rv)
  BY <1>4, <1>5, <1>6 DEF MovedRight
<1>12. Len(l2.vals) = Len(l2.keys) /\ Len(r2.vals) = Len(r2.keys)
  BY <1>1, <1>10, <1>11
<1>13. Joined(m, l2, r2)
  BY <1>10, <1>11, <1>12, JoinedBy
<1>14. Len(l2.keys) > 0 /\ Len(r2.keys) > 0
  BY <1>1, <1>10, <1>11
<1>15. Regrouped(l, r, l2, r2)
  BY <1>3, <1>10, <1>12, <1>13, <1>14 DEF Regrouped
<1> QED BY <1>8, <1>10, <1>11, <1>15

\* The first key of r goes to the end of l.
LEMMA BorrowLeftward ==
    ASSUME NEW S, NEW j, NEW i, NEW l, LeafSound(l, S, j), NEW r, LeafSound(r, S, i),
           Len(r.keys) > 1,
           NEW l2, LeafOf(l2, Append(l.keys, Head(r.keys)), Append(l.vals, Head(r.vals)), l.next),
           NEW r2, LeafOf(r2, Tail(r.keys), Tail(r.vals), r.next)
    PROVE  /\ Regrouped(l, r, l2, r2) /\ r2.keys[1] = r.keys[2]
           /\ Len(l2.keys) = Len(l.keys) + 1 /\ Len(r2.keys) = Len(r.keys) - 1
<1> DEFINE lk == Append(l.keys, Head(r.keys))
           lv == Append(l.vals, Head(r.vals))
           rk == Tail(r.keys)
           rv == Tail(r.vals)
           m == Leaf(l.keys \o r.keys, l.vals \o r.vals, 0)
<1>1. /\ l.keys \in Seq(Keys) /\ l.vals \in Seq(RowIds) /\ Len(l.vals) = Len(l.keys)
      /\ r.keys \in Seq(Keys) /\ r.vals \in Seq(RowIds) /\ Len(r.vals) = Len(r.keys)
      /\ l.next \in 0..MaxPages /\ r.next \in 0..MaxPages
      /\ Len(l.keys) \in Nat /\ Len(r.keys) \in Nat
  BY SoundLeafShape
<1>2. 0 \in 0..MaxPages /\ Len(r.keys) > 0 /\ Len(r.vals) > 0
  BY <1>1, PagesAssumption
<1>3. m \in LeafNodes /\ Len(m.vals) = Len(m.keys) /\ Joined(m, l, r)
  <2>1. m = Leaf(l.keys \o r.keys, l.vals \o r.vals, 0)
    OBVIOUS
  <2> HIDE DEF m
  <2>2. JoinedLeaf(m, l, r, 0)
    BY <1>2, <2>1, JoinIs, Zenon
  <2> QED BY <2>2 DEF JoinedLeaf
<1>4. lk \in Seq(Keys) /\ rk \in Seq(Keys) /\ MovedLeft(l.keys, r.keys, lk, rk)
  BY <1>1, <1>2, MoveLeftSeq, Zenon
<1>5. lv \in Seq(RowIds) /\ rv \in Seq(RowIds) /\ MovedLeft(l.vals, r.vals, lv, rv)
  BY <1>1, <1>2, MoveLeftSeq, Zenon
<1>6. Concat(m.keys, l.keys, r.keys) /\ Concat(m.vals, l.vals, r.vals)
  <2>1. l.keys \o r.keys \in Seq(Keys) /\ Concat(l.keys \o r.keys, l.keys, r.keys)
    BY <1>1, ConcatSeq, Zenon
  <2>2. l.vals \o r.vals \in Seq(RowIds) /\ Concat(l.vals \o r.vals, l.vals, r.vals)
    BY <1>1, ConcatSeq, Zenon
  <2>3. m.keys = l.keys \o r.keys /\ m.vals = l.vals \o r.vals
    BY DEF Leaf
  <2> HIDE DEF m
  <2> QED BY <2>1, <2>2, <2>3
<1>9. LeafOf(l2, lk, lv, l.next) /\ LeafOf(r2, rk, rv, r.next)
  OBVIOUS
<1> HIDE DEF lk, lv, rk, rv, m
<1>10. /\ l2 \in LeafNodes /\ l2.keys = lk /\ l2.vals = lv /\ l2.next = l.next
       /\ r2 \in LeafNodes /\ r2.keys = rk /\ r2.vals = rv /\ r2.next = r.next
  BY <1>9 DEF LeafOf
<1>11. /\ Len(lk) = Len(l.keys) + 1 /\ Len(rk) = Len(r.keys) - 1 /\ rk[1] = r.keys[2]
       /\ Len(lv) = Len(l.vals) + 1 /\ Len(rv) = Len(r.vals) - 1
       /\ Concat(m.keys, lk, rk) /\ Concat(m.vals, lv, rv)
  BY <1>4, <1>5, <1>6 DEF MovedLeft
<1>12. Len(l2.vals) = Len(l2.keys) /\ Len(r2.vals) = Len(r2.keys)
  BY <1>1, <1>10, <1>11
<1>13. Joined(m, l2, r2)
  BY <1>10, <1>11, <1>12, JoinedBy
<1>14. Len(l2.keys) > 0 /\ Len(r2.keys) > 0
  BY <1>1, <1>10, <1>11
<1>15. Regrouped(l, r, l2, r2)
  BY <1>3, <1>10, <1>12, <1>13, <1>14 DEF Regrouped
<1> QED BY <1>10, <1>11, <1>15

\* The sizes of the leaves a borrow or a merge leaves behind.
LEMMA MinKeysIs ==
    MinKeys \in Nat /\ MinKeys >= 1 /\ MinKeys <= Order /\ MinKeys - 1 + MinKeys <= Order /\ Order \in Nat
BY OrderAssumption DEF MinKeys

\* The leaf at place i has one key too few, and the others are full.
Underfull(t, i) ==
    /\ Sound(t) /\ ~t.node[t.root].leaf
    /\ i \in 1..Len(Leaves(t)) /\ Len(t.node[Leaves(t)[i]].keys) = MinKeys - 1
    /\ OthersFull(t, {i})

\* Borrowing from the left leaf restores the sizes and keeps every binding.
LEMMA BorrowLeftIs ==
    ASSUME NEW t, NEW i, Underfull(t, i), i > 1,
           Len(t.node[Leaves(t)[i - 1]].keys) > MinKeys, NEW u, u = BorrowLeft(t, t.root, i)
    PROVE  Rebalanced(t, u)
<1> DEFINE L == Leaves(t)
           S == Seps(t)
           j == i - 1
           x == L[j]
           y == L[i]
           l == t.node[x]
           n == t.node[y]
           lk == Front(l.keys)
           lv == Front(l.vals)
           nk == <<Last(l.keys)>> \o n.keys
           nv == <<Last(l.vals)>> \o n.vals
           l2 == [l EXCEPT !.keys = lk, !.vals = lv, !.kids = l.kids]
           r2 == [n EXCEPT !.keys = nk, !.vals = nv, !.kids = n.kids]
           sep == Last(l.keys)
           up == [t.node[t.root] EXCEPT !.keys[j] = sep]
<1>1. Sound(t) /\ i \in 1..Len(L) /\ Len(n.keys) = MinKeys - 1 /\ OthersFull(t, {i})
      /\ ~t.node[t.root].leaf
  BY DEF Underfull
<1>2. L \in Seq(Pages) /\ S \in Seq(Keys) /\ Len(L) = Len(S) + 1 /\ Len(S) \in Nat
  BY <1>1, ViewIs
<1>3. j \in 1..Len(S) /\ j \in 1..Len(L) /\ j + 1 = i /\ j # i
  BY <1>1, <1>2
<1>4. LeafSound(l, S, j) /\ LeafSound(n, S, i) /\ n.leaf = TRUE
  BY <1>1, <1>3, LeafPage
<1>5. L = t.node[t.root].kids /\ S = t.node[t.root].keys
  BY <1>1 DEF Leaves, Seps
<1>6. u = Write(Write(Write(t, x, l2), y, r2), t.root, up)
  BY <1>4, <1>5 DEF BorrowLeft
<1>7. /\ l.keys \in Seq(Keys) /\ l.vals \in Seq(RowIds) /\ Len(l.vals) = Len(l.keys)
      /\ n.keys \in Seq(Keys) /\ n.vals \in Seq(RowIds) /\ Len(n.vals) = Len(n.keys)
      /\ Len(l.keys) \in Nat /\ Len(n.keys) \in Nat
  BY <1>4, SoundLeafShape
<1>8. l \in LeafNodes /\ n \in LeafNodes
  BY <1>4 DEF LeafSound
<1>9. Len(l.keys) > MinKeys
  OBVIOUS
<1>10. x = Leaves(t)[j] /\ y = Leaves(t)[j + 1]
  BY <1>3
<1>11. Full(l)
  BY <1>1, <1>3 DEF OthersFull
<1> HIDE DEF L, S, j, x, y, l, n
<1>12. Len(l.keys) > 1 /\ Len(l.keys) > 0 /\ Len(l.vals) > 0
  BY <1>7, <1>9, MinKeysIs
<1>13. lk \in Seq(Keys) /\ nk \in Seq(Keys) /\ MovedRight(l.keys, n.keys, lk, nk)
  BY <1>7, <1>12, MoveRightSeq, Zenon
<1>14. lv \in Seq(RowIds) /\ nv \in Seq(RowIds) /\ MovedRight(l.vals, n.vals, lv, nv)
  BY <1>7, <1>12, MoveRightSeq, Zenon
<1>15. /\ LeafOf(l2, Front(l.keys), Front(l.vals), l.next)
       /\ LeafOf(r2, <<Last(l.keys)>> \o n.keys, <<Last(l.vals)>> \o n.vals, n.next)
  <2> HIDE DEF lk, lv, nk, nv
  <2>1. LeafOf(l2, lk, lv, l.next)
    <3>1. lk \in Seq(Keys) /\ lv \in Seq(RowIds)
      BY <1>13, <1>14
    <3> QED BY <1>8, <3>1, LeafUpdate
  <2>2. LeafOf(r2, nk, nv, n.next)
    <3>1. nk \in Seq(Keys) /\ nv \in Seq(RowIds)
      BY <1>13, <1>14
    <3> QED BY <1>8, <3>1, LeafUpdate
  <2> HIDE DEF l2, r2
  <2> QED BY <2>1, <2>2 DEF lk, lv, nk, nv
<1> HIDE DEF l2, r2, lk, lv, nk, nv, sep, up
<1>16. /\ Regrouped(l, n, l2, r2) /\ r2.keys[1] = Last(l.keys)
       /\ Len(l2.keys) = Len(l.keys) - 1 /\ Len(r2.keys) = Len(n.keys) + 1
  BY <1>4, <1>12, <1>15, BorrowRightward
<1>17. Full(l2) /\ Full(r2)
  <2>1. Len(r2.keys) = MinKeys
    BY <1>1, <1>16, MinKeysIs DEF n
  <2>2. MinKeys <= Len(l2.keys) /\ Len(l2.keys) <= Order
    BY <1>7, <1>9, <1>11, <1>16, MinKeysIs DEF Full
  <2> QED BY <2>1, <2>2, MinKeysIs DEF Full
<1>18. OthersFull(t, {j, j + 1})
  BY <1>1, <1>3 DEF OthersFull
<1>19. Regrouped(t.node[x], t.node[y], l2, r2)
  BY <1>16 DEF l, n
<1>20. sep = r2.keys[1] /\ up = [t.node[t.root] EXCEPT !.keys[j] = sep] /\ j \in 1..Len(Seps(t))
  BY <1>3, <1>16 DEF sep, up, S
<1> QED BY <1>1, <1>6, <1>10, <1>17, <1>18, <1>19, <1>20, ShiftOutcome, Zenon

\* Borrowing from the right leaf restores the sizes and keeps every binding.
LEMMA BorrowRightIs ==
    ASSUME NEW t, NEW i, Underfull(t, i), i < Len(Leaves(t)),
           Len(t.node[Leaves(t)[i + 1]].keys) > MinKeys, NEW u, u = BorrowRight(t, t.root, i)
    PROVE  Rebalanced(t, u)
<1> DEFINE L == Leaves(t)
           S == Seps(t)
           x == L[i]
           y == L[i + 1]
           n == t.node[x]
           r == t.node[y]
           nk == Append(n.keys, Head(r.keys))
           nv == Append(n.vals, Head(r.vals))
           rk == Tail(r.keys)
           rv == Tail(r.vals)
           l2 == [n EXCEPT !.keys = nk, !.vals = nv, !.kids = n.kids]
           r2 == [r EXCEPT !.keys = rk, !.vals = rv, !.kids = r.kids]
           sep == r.keys[2]
           up == [t.node[t.root] EXCEPT !.keys[i] = sep]
<1>1. Sound(t) /\ i \in 1..Len(L) /\ Len(n.keys) = MinKeys - 1 /\ OthersFull(t, {i})
      /\ ~t.node[t.root].leaf
  BY DEF Underfull
<1>2. L \in Seq(Pages) /\ S \in Seq(Keys) /\ Len(L) = Len(S) + 1 /\ Len(S) \in Nat
  BY <1>1, ViewIs
<1>3. i \in 1..Len(S) /\ i + 1 \in 1..Len(L) /\ i + 1 # i
  BY <1>1, <1>2
<1>4. LeafSound(n, S, i) /\ LeafSound(r, S, i + 1) /\ n.leaf = TRUE
  BY <1>1, <1>3, LeafPage
<1>5. L = t.node[t.root].kids /\ S = t.node[t.root].keys
  BY <1>1 DEF Leaves, Seps
<1>6. u = Write(Write(Write(t, x, l2), y, r2), t.root, up)
  BY <1>4, <1>5 DEF BorrowRight
<1>7. /\ n.keys \in Seq(Keys) /\ n.vals \in Seq(RowIds) /\ Len(n.vals) = Len(n.keys)
      /\ r.keys \in Seq(Keys) /\ r.vals \in Seq(RowIds) /\ Len(r.vals) = Len(r.keys)
      /\ Len(r.keys) \in Nat /\ Len(n.keys) \in Nat
  BY <1>4, SoundLeafShape
<1>8. n \in LeafNodes /\ r \in LeafNodes
  BY <1>4 DEF LeafSound
<1>9. Len(r.keys) > MinKeys
  OBVIOUS
<1>10. x = Leaves(t)[i] /\ y = Leaves(t)[i + 1]
  OBVIOUS
<1>11. Full(r)
  BY <1>1, <1>3 DEF OthersFull
<1> HIDE DEF L, S, x, y, r, n
<1>12. Len(r.keys) > 1 /\ Len(r.keys) > 0 /\ Len(r.vals) > 0
  BY <1>7, <1>9, MinKeysIs
<1>13. nk \in Seq(Keys) /\ rk \in Seq(Keys) /\ MovedLeft(n.keys, r.keys, nk, rk)
  BY <1>7, <1>12, MoveLeftSeq, Zenon
<1>14. nv \in Seq(RowIds) /\ rv \in Seq(RowIds) /\ MovedLeft(n.vals, r.vals, nv, rv)
  BY <1>7, <1>12, MoveLeftSeq, Zenon
<1>15. /\ LeafOf(l2, Append(n.keys, Head(r.keys)), Append(n.vals, Head(r.vals)), n.next)
       /\ LeafOf(r2, Tail(r.keys), Tail(r.vals), r.next)
  <2> HIDE DEF nk, nv, rk, rv
  <2>1. LeafOf(l2, nk, nv, n.next)
    <3>1. nk \in Seq(Keys) /\ nv \in Seq(RowIds)
      BY <1>13, <1>14
    <3> QED BY <1>8, <3>1, LeafUpdate
  <2>2. LeafOf(r2, rk, rv, r.next)
    <3>1. rk \in Seq(Keys) /\ rv \in Seq(RowIds)
      BY <1>13, <1>14
    <3> QED BY <1>8, <3>1, LeafUpdate
  <2> HIDE DEF l2, r2
  <2> QED BY <2>1, <2>2 DEF nk, nv, rk, rv
<1> HIDE DEF l2, r2, nk, nv, rk, rv, sep, up
<1>16. /\ Regrouped(n, r, l2, r2) /\ r2.keys[1] = r.keys[2]
       /\ Len(l2.keys) = Len(n.keys) + 1 /\ Len(r2.keys) = Len(r.keys) - 1
  BY <1>4, <1>12, <1>15, BorrowLeftward
<1>17. Full(l2) /\ Full(r2)
  <2>1. Len(l2.keys) = MinKeys
    BY <1>1, <1>16, MinKeysIs DEF n
  <2>2. MinKeys <= Len(r2.keys) /\ Len(r2.keys) <= Order
    BY <1>7, <1>9, <1>11, <1>16, MinKeysIs DEF Full
  <2> QED BY <2>1, <2>2, MinKeysIs DEF Full
<1>18. OthersFull(t, {i, i + 1})
  BY <1>1, <1>3 DEF OthersFull
<1>19. Regrouped(t.node[x], t.node[y], l2, r2)
  BY <1>16 DEF r, n
<1>20. sep = r2.keys[1] /\ up = [t.node[t.root] EXCEPT !.keys[i] = sep] /\ i \in 1..Len(Seps(t))
  BY <1>3, <1>16 DEF sep, up, S
<1> QED BY <1>1, <1>6, <1>10, <1>17, <1>18, <1>19, <1>20, ShiftOutcome, Zenon

\* Where a merge leaves the two leaves at places j and j + 1: joined in page x,
\* with page d, the one at place e, given back.
Merges(t, j, e, x, d, m) ==
    /\ Sound(t) /\ ~t.node[t.root].leaf
    /\ j \in 1..Len(Seps(t)) /\ e \in {j, j + 1} /\ (e = j => j = 1)
    /\ x = Leaves(t)[IF e = j THEN j + 1 ELSE j] /\ d = Leaves(t)[e]
    /\ JoinedLeaf(m, t.node[Leaves(t)[j]], t.node[Leaves(t)[j + 1]], t.node[Leaves(t)[j + 1]].next)
    /\ Full(m) /\ OthersFull(t, {j, j + 1})

\* The pages of u once the leaves are merged: the old root is kept, or given
\* back when the merged leaf is the only one left.
MergedTo(t, u, x, d, m) ==
    /\ u \in Trees /\ Accounted(u)
    /\ u.node[x] = m /\ u.node[d] = Blank /\ Within(t, u, {x, d, t.root})
    /\ \/ u.root = t.root /\ u.ids = t.ids \ {d} /\ u.node[t.root] \in InnerNodes
       \/ u.root = x /\ u.ids = t.ids \ {d, t.root} /\ u.node[t.root] = Blank

\* The pages a merge deals with are different.
LEMMA MergePages ==
    ASSUME NEW t, NEW j, NEW e, NEW x, NEW d, NEW m, Merges(t, j, e, x, d, m),
           NEW f, f = (IF e = j THEN j + 1 ELSE j)
    PROVE  /\ x \in Pages /\ d \in Pages /\ x # d /\ x # t.root /\ d # t.root
           /\ x \in t.ids /\ d \in t.ids /\ t.root \in t.ids /\ t.root \in Pages
           /\ e \in 1..Len(Leaves(t)) /\ f \in 1..Len(Leaves(t)) /\ e # f
           /\ {e, f} = {j, j + 1} /\ j \in 1..Len(Leaves(t)) /\ j + 1 \in 1..Len(Leaves(t))
           /\ x = Leaves(t)[f] /\ d = Leaves(t)[e]
<1> DEFINE L == Leaves(t)
<1>1. /\ Sound(t) /\ ~t.node[t.root].leaf /\ j \in 1..Len(Seps(t)) /\ e \in {j, j + 1}
      /\ x = L[f] /\ d = L[e]
  BY DEF Merges
<1>2. /\ Len(L) = Len(Seps(t)) + 1 /\ Len(Seps(t)) \in Nat
      /\ \A a, b \in 1..Len(L) : L[a] = L[b] => a = b
      /\ t \in Trees /\ t.root \in Pages
  BY <1>1, ViewIs, TreeShape
<1>3. /\ e \in 1..Len(L) /\ f \in 1..Len(L) /\ e # f /\ {e, f} = {j, j + 1}
      /\ j \in 1..Len(L) /\ j + 1 \in 1..Len(L)
  BY <1>1, <1>2
<1>4. \A a \in 1..Len(L) : L[a] \in Pages /\ L[a] \in t.ids /\ L[a] # t.root
  BY <1>1, LeafPage
<1>5. t.root \in t.ids
  BY <1>1, <1>2 DEF Sound, Rooted
<1> QED BY <1>1, <1>2, <1>3, <1>4, <1>5

\* Two neighbours replaced by their join, with the separator between them gone, leave a
\* sound tree that binds what it did.
LEMMA MergeOutcome ==
    ASSUME NEW t, NEW j, NEW e, NEW x, NEW d, NEW m, Merges(t, j, e, x, d, m),
           NEW u, MergedTo(t, u, x, d, m),
           NEW L2 \in Seq(Pages), CutOut(L2, Leaves(t), e),
           NEW S2 \in Seq(Keys), CutOut(S2, Seps(t), j), Topped(u, L2, S2)
    PROVE  Rebalanced(t, u)
<1> DEFINE L == Leaves(t)
           S == Seps(t)
           top == t.root
           f == IF e = j THEN j + 1 ELSE j
           l == t.node[L[j]]
           r == t.node[L[j + 1]]
<1>1. /\ x \in Pages /\ d \in Pages /\ x # d /\ x # top /\ d # top
      /\ x \in t.ids /\ d \in t.ids /\ top \in t.ids /\ top \in Pages
      /\ e \in 1..Len(L) /\ f \in 1..Len(L) /\ e # f
      /\ {e, f} = {j, j + 1} /\ j \in 1..Len(L) /\ j + 1 \in 1..Len(L)
      /\ x = L[f] /\ d = L[e]
  BY MergePages
<1>2. /\ Sound(t) /\ ~t.node[top].leaf /\ j \in 1..Len(S) /\ e \in {j, j + 1} /\ (e = j => j = 1)
      /\ JoinedLeaf(m, l, r, r.next) /\ Full(m) /\ OthersFull(t, {j, j + 1})
  BY DEF Merges
<1>3. /\ Arranged(t.node, L, S) /\ L \in Seq(Pages) /\ S \in Seq(Keys)
      /\ \A a, b \in 1..Len(L) : L[a] = L[b] => a = b
      /\ \A a \in 1..Len(L) : L[a] \in Pages
  BY <1>2, ViewIs DEF Sound
<1>4. \A a \in 1..Len(L) : L[a] # top /\ L[a] \in t.ids
  BY <1>2, LeafPage
<1>5. LeafSound(l, S, j) /\ LeafSound(r, S, j + 1)
  BY <1>1, <1>2, LeafPage
<1>6. /\ u \in Trees /\ Accounted(u) /\ u.node[x] = m /\ u.node[d] = Blank
      /\ \A z \in Pages : z # x /\ z # d /\ z # top => u.node[z] = t.node[z]
      /\ \/ u.root = top /\ u.ids = t.ids \ {d} /\ u.node[top] \in InnerNodes
         \/ u.root = x /\ u.ids = t.ids \ {d, top} /\ u.node[top] = Blank
  BY DEF MergedTo, Within
<1>7. CutOut(L2, L, e) /\ CutOut(S2, S, j)
  OBVIOUS
<1>20. /\ \A p \in Pages : p \in t.ids <=> p = top \/ \E c \in 1..Len(L) : p = L[c]
       /\ \A p \in Pages : p \notin t.ids => t.node[p] = Blank
  BY <1>2 DEF Sound, Rooted
<1>21. t.node[top] \in InnerNodes
  <2>1. t.node[top] \in LeafNodes \cup InnerNodes
    BY <1>2, ViewIs, TreeShape
  <2> QED BY <1>2, <2>1, LeafShape
<1> HIDE DEF L, S, l, r
<1>8. /\ m \in LeafNodes /\ Len(m.vals) = Len(m.keys) /\ Joined(m, l, r) /\ m.next = r.next
  BY <1>2 DEF JoinedLeaf
<1>9. Spans(m, S, j, j + 1)
  <2>1. Increasing(S)
    BY <1>3 DEF Arranged
  <2> QED BY <1>2, <1>3, <1>5, <1>8, <2>1, JoinedSpans, Zenon
<1>10. Kept(u.node, t.node, L, {j, j + 1})
  <2> SUFFICES ASSUME NEW c \in 1..Len(L), c \notin {j, j + 1} PROVE u.node[L[c]] = t.node[L[c]]
    BY DEF Kept
  <2>1. c # e /\ c # f
    BY <1>1
  <2> HIDE DEF f
  <2>2. L[c] # x /\ L[c] # d /\ L[c] # top /\ L[c] \in Pages
    BY <1>1, <1>3, <1>4, <2>1
  <2> QED BY <1>6, <2>2
<1>11. Arranged(u.node, L2, S2)
  <2>1. u.node[L[IF e = j THEN j + 1 ELSE j]] = m /\ m.next = t.node[L[j + 1]].next
    BY <1>1, <1>6, <1>8 DEF r
  <2>2. j \in 1..Len(S) /\ e \in {j, j + 1} /\ (e = j => j = 1) /\ Arranged(t.node, L, S)
    BY <1>2, <1>3
  <2> HIDE DEF f, top
  <2> QED BY <1>7, <1>9, <1>10, <2>1, <2>2, MergeArranged
<1>12. HoldsBut(L2, L, e)
  BY <1>1, <1>3, <1>7, CutHolds, Zenon
<1>13. ASSUME NEW p PROVE (\E a \in 1..Len(L2) : L2[a] = p) <=> p # d /\ \E b \in 1..Len(L) : L[b] = p
  <2>1. (\E a \in 1..Len(L2) : L2[a] = p) <=> \E b \in 1..Len(L) : b # e /\ L[b] = p
    BY <1>12 DEF HoldsBut
  <2>2. \A b \in 1..Len(L) : b # e <=> L[b] # d
    BY <1>1, <1>3
  <2> QED BY <2>1, <2>2
<1> HIDE DEF f
<1>14. Owns(u, L2)
  <2>1. ASSUME NEW p \in Pages PROVE p \in u.ids <=> p = u.root \/ \E a \in 1..Len(L2) : L2[a] = p
    <3>1. (\E a \in 1..Len(L2) : L2[a] = p) <=> p # d /\ \E b \in 1..Len(L) : L[b] = p
      BY <1>13
    <3>2. p \in t.ids <=> p = top \/ \E b \in 1..Len(L) : L[b] = p
      BY <1>20
    <3>3. (\E b \in 1..Len(L) : L[b] = p) => p # top
      BY <1>4
    <3>4. p = x => \E b \in 1..Len(L) : L[b] = p
      BY <1>1
    <3> DEFINE h == \E b \in 1..Len(L) : L[b] = p
               h2 == \E a \in 1..Len(L2) : L2[a] = p
    <3>5. (h2 <=> p # d /\ h) /\ (p \in t.ids <=> p = top \/ h) /\ (h => p # top) /\ (p = x => h)
      BY <3>1, <3>2, <3>3, <3>4
    <3> HIDE DEF h, h2
    <3>6. p \in u.ids <=> p = u.root \/ h2
      BY <1>1, <1>6, <3>5
    <3> QED BY <3>6 DEF h2
  <2>2. ASSUME NEW p \in Pages, p \notin u.ids PROVE u.node[p] = Blank
    <3>1. CASE p = d \/ p = top
      BY <1>1, <1>6, <2>2, <3>1
    <3>2. CASE p # d /\ p # top
      BY <1>1, <1>6, <1>20, <2>2, <3>2
    <3> QED BY <3>1, <3>2
  <2> QED BY <2>1, <2>2 DEF Owns
<1>15. Sound(u) /\ Leaves(u) = L2 /\ Seps(u) = S2
  BY <1>6, <1>11, <1>14, Assembled, Zenon
<1>16. Sized(u)
  <2>1. ASSUME NEW a \in 1..Len(L2) PROVE Full(u.node[L2[a]])
    <3>1. PICK b \in 1..Len(L) : b # e /\ L[b] = L2[a]
      BY <1>12 DEF HoldsBut
    <3>2. CASE b = f
      BY <1>1, <1>2, <1>6, <3>1, <3>2
    <3>3. CASE b # f
      <4>1. b \notin {j, j + 1}
        BY <1>1, <3>1, <3>3
      <4>2. u.node[L[b]] = t.node[L[b]] /\ Full(t.node[L[b]])
        BY <1>2, <1>10, <4>1 DEF Kept, OthersFull, L
      <4> QED BY <3>1, <4>2
    <3> QED BY <3>2, <3>3
  <2>2. AllFull(u, L2)
    BY <2>1 DEF AllFull
  <2> QED BY <1>15, <2>2, FullSized, Zenon
<1>17. SameBinds(t, u)
  <2> DEFINE C == {x, d, top}
  <2>1. Within(t, u, C)
    BY DEF MergedTo
  <2>2. C \in SUBSET Pages
    BY <1>1
  <2>3. BindsBoth(m, l, r)
    <3>1. l \in LeafNodes /\ Len(l.vals) = Len(l.keys) /\ r \in LeafNodes /\ Len(r.vals) = Len(r.keys)
      BY <1>5 DEF LeafSound
    <3> QED BY <1>8, <3>1, JoinedHas, Zenon
  <2>4. (t.node[x] = l /\ t.node[d] = r) \/ (t.node[x] = r /\ t.node[d] = l)
    BY <1>1, <1>2 DEF l, r, f
  <2>5. ASSUME NEW k, NEW v
        PROVE (\E z \in C : Has(u.node[z], k, v)) <=> (\E z \in C : Has(t.node[z], k, v))
    <3>1. ~Has(t.node[top], k, v) /\ ~Has(u.node[top], k, v) /\ ~Has(u.node[d], k, v)
      BY <1>6, <1>21, HasNothing
    <3>2. Has(m, k, v) <=> Has(l, k, v) \/ Has(r, k, v)
      BY <2>3 DEF BindsBoth
    <3>3. Has(m, k, v) <=> Has(t.node[x], k, v) \/ Has(t.node[d], k, v)
      BY <2>4, <3>2
    <3> HIDE DEF top
    <3> QED BY <1>6, <3>1, <3>3
  <2>6. BindAlike(t, u, C)
    BY <2>5 DEF BindAlike
  <2> HIDE DEF C
  <2> QED BY <2>1, <2>2, <2>6, SameBindsBy, Zenon
<1>18. Len(Leaves(u)) <= Len(Leaves(t))
  <2>1. Len(L2) = Len(L) - 1 /\ Len(L) \in Nat
    BY <1>3, <1>7 DEF CutOut
  <2> QED BY <1>15, <2>1 DEF L
<1> QED BY <1>15, <1>16, <1>17, <1>18 DEF Settled, Rebalanced

\* The end of both merges: the page of the leaf at place e is given back and
\* the root loses its entry, or goes itself when one leaf is left.
LEMMA DropChildIs ==
    ASSUME NEW t, NEW j, NEW e, NEW x, NEW d, NEW m, Merges(t, j, e, x, d, m),
           NEW u, u = DropChild(Write(t, x, m), t.root, e, j)
    PROVE  Rebalanced(t, u)
<1> DEFINE L == Leaves(t)
           S == Seps(t)
           top == t.root
           a == Write(t, x, m)
           b == Freed(a, d)
           S2 == RemoveAt(S, j)
           L2 == RemoveAt(L, e)
           up == Internal(S2, L2)
           c == Write(b, top, up)
<1>1. /\ x \in Pages /\ d \in Pages /\ x # d /\ x # top /\ d # top
      /\ x \in t.ids /\ d \in t.ids /\ top \in t.ids /\ top \in Pages
      /\ e \in 1..Len(L) /\ d = L[e]
  BY MergePages
<1>2. /\ Sound(t) /\ ~t.node[top].leaf /\ j \in 1..Len(S) /\ (e = j \/ e = j + 1)
      /\ x = L[IF e = j THEN j + 1 ELSE j]
      /\ m \in LeafNodes
  BY DEF Merges, JoinedLeaf
<1>3. /\ L \in Seq(Pages) /\ S \in Seq(Keys) /\ t \in Trees /\ Accounted(t) /\ Len(L) = Len(S) + 1
  BY <1>2, ViewIs DEF Sound
<1>4. L = t.node[top].kids /\ S = t.node[top].keys
  BY <1>2 DEF Leaves, Seps
<1>5. Wrote(a, t, x, m)
  BY <1>1, <1>2, <1>3, WriteIs
<1>6. a.node[top] = t.node[top]
  BY <1>1, <1>5 DEF Wrote
<1>7. u = ShrinkRoot(c, top)
  <2>1. L = a.node[top].kids /\ S = a.node[top].keys
    BY <1>4, <1>6
  <2> HIDE DEF a, L, S
  <2>2. DropChild(a, top, e, j) = ShrinkRoot(Write(Freed(a, L[e]), top,
                       Internal(RemoveAt(S, j), RemoveAt(L, e))), top)
    BY <2>1 DEF DropChild
  <2>3. u = DropChild(a, top, e, j)
    BY DEF a
  <2> QED BY <1>1, <2>2, <2>3
<1>8. L2 \in Seq(Pages) /\ CutOut(L2, L, e)
  BY <1>1, <1>3, RemoveAtIs, Zenon
<1>9. S2 \in Seq(Keys) /\ CutOut(S2, S, j)
  BY <1>2, <1>3, RemoveAtIs, Zenon
<1> HIDE DEF L2, S2
<1>10. up \in InnerNodes /\ up.leaf = FALSE /\ up.keys = S2 /\ up.kids = L2
  <2>1. S2 \in Seq(Keys) /\ L2 \in Seq(Pages)
    BY <1>8, <1>9
  <2> QED BY <2>1 DEF Internal, InnerNodes
<1> HIDE DEF a, b, up, c, L, S
<1>11. a \in Trees /\ Accounted(a)
  <2>1. a \in Trees /\ a.ids = t.ids /\ a.free = t.free /\ a.count = t.count
    BY <1>5 DEF Wrote
  <2> QED BY <1>3, <2>1, SameAccount, Zenon
<1>12. d \in a.ids
  BY <1>1, <1>5 DEF Wrote
<1>13. /\ b \in Trees /\ Accounted(b)
       /\ b.node = [a.node EXCEPT ![d] = Blank] /\ b.root = a.root /\ b.ids = a.ids \ {d}
  BY <1>1, <1>11, <1>12, FreedIs DEF b
<1>14. Wrote(c, b, top, up)
  BY <1>1, <1>10, <1>13, WriteIs DEF c
<1>15. c \in Trees /\ Accounted(c)
  <2>1. c \in Trees /\ c.ids = b.ids /\ c.free = b.free /\ c.count = b.count
    BY <1>14 DEF Wrote
  <2>2. Accounted(b)
    BY <1>13
  <2> QED BY <2>1, <2>2, SameAccount, Zenon
<1>16. c.root = top /\ c.ids = t.ids \ {d}
  BY <1>5, <1>13, <1>14 DEF Wrote
<1>17. /\ c.node[x] = m /\ c.node[d] = Blank /\ c.node[top] = up
       /\ \A z \in Pages : z # x /\ z # d /\ z # top => c.node[z] = t.node[z]
  <2>1. a.node[x] = m /\ \A z \in Pages : z # x => a.node[z] = t.node[z]
    BY <1>5 DEF Wrote
  <2>2. b.node[d] = Blank /\ \A z \in Pages : z # d => b.node[z] = a.node[z]
    <3>1. a.node \in [Pages -> LeafNodes \cup InnerNodes]
      BY <1>11, TreeShape
    <3> QED BY <1>1, <1>13, <3>1
  <2>3. c.node[top] = up /\ \A z \in Pages : z # top => c.node[z] = b.node[z]
    BY <1>14 DEF Wrote
  <2> HIDE DEF top
  <2> QED BY <1>1, <2>1, <2>2, <2>3
<1>18. Len(S2) = Len(S) - 1 /\ Len(L2) = Len(S) /\ Len(S) \in Nat /\ j \in Int
  <2>1. Len(S) \in Nat
    BY <1>3
  <2>2. Len(L) - 1 = Len(S)
    BY <1>3, <2>1
  <2>3. Len(S2) = Len(S) - 1 /\ Len(L2) = Len(L) - 1
    BY <1>8, <1>9 DEF CutOut
  <2>4. j \in Int
    BY <1>2
  <2> QED BY <2>1, <2>2, <2>3, <2>4
<1>19. CASE Len(S) > 1
  <2>1. S2 # <<>> /\ Len(S2) > 0
    BY <1>18, <1>19
  <2>2. u = c
    BY <1>7, <1>10, <1>17, <2>1 DEF ShrinkRoot
  <2>3. MergedTo(t, u, x, d, m)
    BY <1>10, <1>15, <1>16, <1>17, <2>2 DEF MergedTo, Within
  <2>4. Topped(u, L2, S2)
    BY <1>10, <1>16, <1>17, <2>1, <2>2 DEF Topped
  <2> QED BY <1>8, <1>9, <2>3, <2>4, MergeOutcome, Zenon DEF L, S
<1>20. CASE Len(S) = 1
  <2>1. S2 = <<>> /\ Len(L2) = 1
    BY <1>9, <1>18, <1>20
  <2>2. L2 = <<x>>
    <3>1. j = 1
      BY <1>2, <1>20
    <3>2. L2[1] = IF 1 < e THEN L[1] ELSE L[1 + 1]
      <4>1. 1 \in 1..(Len(L) - 1)
        BY <1>3, <1>18, <1>20
      <4> QED BY <1>8, <4>1 DEF CutOut
    <3>3. L2[1] = x
      BY <1>2, <3>1, <3>2
    <3> QED BY <1>8, <2>1, <3>3
  <2> DEFINE g == Freed(c, top)
  <2>3. L2 # <<>> /\ L2[1] = x
    BY <2>2
  <2>4. u = [g EXCEPT !.root = x]
    BY <1>7, <1>10, <1>16, <1>17, <2>1, <2>3 DEF ShrinkRoot
  <2>5. top \in c.ids
    BY <1>1, <1>16
  <2> HIDE DEF g
  <2>6. /\ g \in Trees /\ Accounted(g)
        /\ g.node = [c.node EXCEPT ![top] = Blank] /\ g.root = c.root /\ g.ids = c.ids \ {top}
    BY <1>1, <1>15, <2>5, FreedIs DEF g
  <2>7. /\ u \in Trees /\ u.node = g.node /\ u.root = x /\ u.ids = g.ids /\ u.free = g.free
        /\ u.count = g.count
    <3>1. g \in Trees
      BY <2>6
    <3> QED BY <1>1, <2>4, <3>1 DEF Trees
  <2>8. Accounted(u)
    BY <2>6, <2>7, SameAccount, Zenon
  <2>9. u.node[top] = Blank /\ \A z \in Pages : z # top => u.node[z] = c.node[z]
    <3>1. c.node \in [Pages -> LeafNodes \cup InnerNodes]
      BY <1>15, TreeShape
    <3> QED BY <1>1, <2>6, <2>7, <3>1
  <2>10. u.ids = t.ids \ {d, top}
    BY <1>16, <2>6, <2>7
  <2>11. MergedTo(t, u, x, d, m)
    <3>1. u.node[x] = m /\ u.node[d] = Blank /\ Within(t, u, {x, d, top})
      BY <1>1, <1>17, <2>9 DEF Within
    <3> QED BY <2>7, <2>8, <2>9, <2>10, <3>1 DEF MergedTo
  <2>12. Topped(u, L2, S2)
    BY <2>1, <2>2, <2>7 DEF Topped
  <2> QED BY <1>8, <1>9, <2>11, <2>12, MergeOutcome, Zenon DEF L, S
<1>21. Len(S) > 1 \/ Len(S) = 1
  BY <1>2, <1>18
<1> QED BY <1>19, <1>20, <1>21

\* A leaf one key short and a leaf with the fewest keys fit into one leaf together.
LEMMA ShortAndFull ==
    ASSUME NEW k \in Nat, NEW a, NEW b, NEW c \in Nat, k >= 1, k - 1 + k <= c,
           (a = k - 1 /\ b = k) \/ (a = k /\ b = k - 1)
    PROVE  k <= a + b /\ a + b <= c
<1>1. CASE a = k - 1 /\ b = k
  BY <1>1
<1>2. CASE a = k /\ b = k - 1
  BY <1>2
<1> QED BY <1>1, <1>2

\* A short leaf and a neighbour with no key to spare make one full leaf.
LEMMA JoinFull ==
    ASSUME NEW m, NEW l, NEW r, NEW nx, JoinedLeaf(m, l, r, nx), NEW a, NEW b,
           a = Len(l.keys), b = Len(r.keys),
           (a = MinKeys - 1 /\ b = MinKeys) \/ (a = MinKeys /\ b = MinKeys - 1)
    PROVE  Full(m)
<1>1. Len(m.keys) = a + b
  BY DEF JoinedLeaf
<1>2. MinKeys <= a + b /\ a + b <= Order
  BY MinKeysIs, ShortAndFull, Zenon
<1> QED BY <1>1, <1>2 DEF Full

\* _merge_with_left
LEMMA MergeIntoLeftIs ==
    ASSUME NEW t, NEW i, Underfull(t, i), i > 1,
           ~(Len(t.node[Leaves(t)[i - 1]].keys) > MinKeys), NEW u, u = MergeIntoLeft(t, t.root, i)
    PROVE  Rebalanced(t, u)
<1> DEFINE L == Leaves(t)
           S == Seps(t)
           j == i - 1
           x == L[j]
           y == L[i]
           l == t.node[x]
           n == t.node[y]
           m == Leaf(l.keys \o n.keys, l.vals \o n.vals, n.next)
<1>1. Sound(t) /\ i \in 1..Len(L) /\ Len(n.keys) = MinKeys - 1 /\ OthersFull(t, {i})
      /\ ~t.node[t.root].leaf
  BY DEF Underfull
<1>2. L \in Seq(Pages) /\ S \in Seq(Keys) /\ Len(L) = Len(S) + 1 /\ Len(S) \in Nat
  BY <1>1, ViewIs
<1>3. j \in 1..Len(S) /\ j \in 1..Len(L) /\ j + 1 = i /\ j # i
  BY <1>1, <1>2
<1>4. LeafSound(l, S, j) /\ LeafSound(n, S, i) /\ n.leaf = TRUE
  BY <1>1, <1>3, LeafPage
<1>5. L = t.node[t.root].kids /\ S = t.node[t.root].keys
  BY <1>1 DEF Leaves, Seps
<1>6. u = DropChild(Write(t, x, m), t.root, i, j)
  BY <1>4, <1>5 DEF MergeIntoLeft
<1>7. Len(l.keys) \in Nat /\ n.next \in 0..MaxPages
  BY <1>4, SoundLeafShape
<1>8. Full(l) /\ OthersFull(t, {j, j + 1})
  BY <1>1, <1>3 DEF OthersFull
<1>9. Len(l.keys) = MinKeys
  <2>1. ~(Len(l.keys) > MinKeys) /\ MinKeys <= Len(l.keys)
    BY <1>8 DEF Full
  <2> HIDE DEF MinKeys, l
  <2> QED BY <1>7, <2>1, MinKeysIs
<1>10. m = Leaf(l.keys \o n.keys, l.vals \o n.vals, n.next)
  OBVIOUS
<1>11. x = Leaves(t)[j] /\ y = Leaves(t)[i] /\ l = t.node[x] /\ n = t.node[y]
  OBVIOUS
<1> HIDE DEF m, L, S, l, n, x, y, j
<1>12. JoinedLeaf(m, l, n, n.next)
  BY <1>4, <1>7, <1>10, JoinIs, Zenon
<1>13. Full(m)
  BY <1>1, <1>9, <1>12, JoinFull
<1>14. Merges(t, j, i, x, y, m)
  <2>1. (IF i = j THEN j + 1 ELSE j) = j /\ i \in {j, j + 1} /\ ~(i = j) /\ j + 1 = i
    BY <1>3
  <2>2. j \in 1..Len(Seps(t)) /\ l = t.node[Leaves(t)[j]] /\ n = t.node[Leaves(t)[j + 1]]
    BY <1>3, <1>11 DEF S
  <2> QED BY <1>1, <1>8, <1>11, <1>12, <1>13, <2>1, <2>2 DEF Merges
<1> QED BY <1>6, <1>14, DropChildIs, Zenon

\* _merge_with_right, which only the leftmost leaf calls.
LEMMA MergeIntoRightIs ==
    ASSUME NEW t, NEW i, Underfull(t, i), i = 1, i < Len(Leaves(t)),
           ~(Len(t.node[Leaves(t)[i + 1]].keys) > MinKeys), NEW u, u = MergeIntoRight(t, t.root, i)
    PROVE  Rebalanced(t, u)
<1> DEFINE L == Leaves(t)
           S == Seps(t)
           x == L[i]
           y == L[i + 1]
           n == t.node[x]
           r == t.node[y]
           m == Leaf(n.keys \o r.keys, n.vals \o r.vals, r.next)
<1>1. Sound(t) /\ i \in 1..Len(L) /\ Len(n.keys) = MinKeys - 1 /\ OthersFull(t, {i})
      /\ ~t.node[t.root].leaf
  BY DEF Underfull
<1>2. L \in Seq(Pages) /\ S \in Seq(Keys) /\ Len(L) = Len(S) + 1 /\ Len(S) \in Nat
  BY <1>1, ViewIs
<1>3. i \in 1..Len(S) /\ i + 1 \in 1..Len(L) /\ i + 1 # i
  BY <1>1, <1>2
<1>4. LeafSound(n, S, i) /\ LeafSound(r, S, i + 1) /\ n.leaf = TRUE
  BY <1>1, <1>3, LeafPage
<1>5. L = t.node[t.root].kids /\ S = t.node[t.root].keys
  BY <1>1 DEF Leaves, Seps
<1>6. u = DropChild(Write(t, y, m), t.root, i, i)
  BY <1>4, <1>5 DEF MergeIntoRight
<1>7. Len(r.keys) \in Nat /\ r.next \in 0..MaxPages
  BY <1>4, SoundLeafShape
<1>8. Full(r) /\ OthersFull(t, {i, i + 1})
  BY <1>1, <1>3 DEF OthersFull
<1>9. Len(r.keys) = MinKeys
  <2>1. ~(Len(r.keys) > MinKeys) /\ MinKeys <= Len(r.keys)
    BY <1>8 DEF Full
  <2> HIDE DEF MinKeys, r
  <2> QED BY <1>7, <2>1, MinKeysIs
<1>10. m = Leaf(n.keys \o r.keys, n.vals \o r.vals, r.next)
  OBVIOUS
<1>11. x = Leaves(t)[i] /\ y = Leaves(t)[i + 1] /\ n = t.node[x] /\ r = t.node[y]
  OBVIOUS
<1> HIDE DEF m, L, S, r, n, x, y
<1>12. JoinedLeaf(m, n, r, r.next)
  BY <1>4, <1>7, <1>10, JoinIs, Zenon
<1>13. Full(m)
  BY <1>1, <1>9, <1>12, JoinFull
<1>14. Merges(t, i, i, y, x, m)
  <2>1. i \in 1..Len(Seps(t)) /\ n = t.node[Leaves(t)[i]] /\ r = t.node[Leaves(t)[i + 1]]
    BY <1>3, <1>11 DEF S
  <2> QED BY <1>1, <1>8, <1>11, <1>12, <1>13, <2>1 DEF Merges
<1> QED BY <1>6, <1>14, DropChildIs, Zenon

\* _rebalance brings a tree with one short leaf back within its bounds.
LEMMA RebalanceIs ==
    ASSUME NEW t, NEW i, Underfull(t, i), NEW path, path = <<<<t.root, i>>>>,
           NEW u, u = Rebalance(t, path)
    PROVE  Rebalanced(t, u)
<1> DEFINE L == Leaves(t)
           kids == t.node[t.root].kids
           Spare(j) == Len(t.node[kids[j]].keys) > MinKeys
<1>1. Sound(t) /\ i \in 1..Len(L) /\ Len(t.node[L[i]].keys) = MinKeys - 1 /\ ~t.node[t.root].leaf
  BY DEF Underfull
<1>2. kids = L /\ L = t.node[t.root].kids
  BY <1>1 DEF Leaves
<1>3. path # <<>> /\ Last(path)[1] = t.root /\ Last(path)[2] = i
  BY DEF Last
<1>4. PathEnd(t, path) = L[i]
  BY <1>2, <1>3 DEF PathEnd
<1>5. ~(Len(t.node[PathEnd(t, path)].keys) >= MinKeys)
  BY <1>1, <1>4, MinKeysIs
<1>6. u = IF i > 1
            THEN IF Spare(i - 1) THEN BorrowLeft(t, t.root, i) ELSE MergeIntoLeft(t, t.root, i)
          ELSE IF i < Len(kids)
            THEN IF Spare(i + 1) THEN BorrowRight(t, t.root, i) ELSE MergeIntoRight(t, t.root, i)
          ELSE t
  BY <1>3, <1>5 DEF Rebalance
<1>7. Len(L) = Len(Seps(t)) + 1 /\ Len(Seps(t)) \in Nat /\ Len(Seps(t)) > 0
  BY <1>1, ViewIs DEF Sound, Rooted
<1>8. CASE i > 1
  <2>1. CASE Spare(i - 1)
    <3>1. u = BorrowLeft(t, t.root, i)
      BY <1>6, <1>8, <2>1
    <3> QED BY <1>2, <1>8, <2>1, <3>1, BorrowLeftIs
  <2>2. CASE ~Spare(i - 1)
    <3>1. u = MergeIntoLeft(t, t.root, i)
      BY <1>6, <1>8, <2>2
    <3> QED BY <1>2, <1>8, <2>2, <3>1, MergeIntoLeftIs
  <2> QED BY <2>1, <2>2
<1>9. CASE ~(i > 1)
  <2>0. i = 1 /\ i < Len(L) /\ i < Len(kids)
    BY <1>1, <1>2, <1>7, <1>9
  <2>1. CASE Spare(i + 1)
    <3>1. u = BorrowRight(t, t.root, i)
      BY <1>6, <1>9, <2>0, <2>1
    <3> QED BY <1>2, <2>0, <2>1, <3>1, BorrowRightIs
  <2>2. CASE ~Spare(i + 1)
    <3>1. u = MergeIntoRight(t, t.root, i)
      BY <1>6, <1>9, <2>0, <2>2
    <3> QED BY <1>2, <2>0, <2>2, <3>1, MergeIntoRightIs
  <2> QED BY <2>1, <2>2
<1> QED BY <1>8, <1>9

-----------------------------------------------------------------------------
(* insert and delete                                                       *)

\* The node m binds what n binds, but for the key k.
SameElsewhere(m, n, k) == \A k2, r2 : k2 # k => (Has(m, k2, r2) <=> Has(n, k2, r2))

\* The tree u binds what t binds, but for the key k.
BindsElsewhere(t, u, k) == \A k2, r2 : k2 # k => (Binds(u, k2, r2) <=> Binds(t, k2, r2))

\* The tree u binds k as the leaf m does.
BindsAs(u, m, k) == \A r2 : Binds(u, k, r2) <=> Has(m, k, r2)

\* Rewriting the leaf a key belongs to changes what the tree binds to that key
\* and to no other.
LEMMA LeafRewritten ==
    ASSUME NEW t, Sound(t), NEW k \in Keys, NEW q, q = Leaves(t)[ChildIndex(Seps(t), k)],
           NEW m, SameElsewhere(m, t.node[q], k), q \in Pages,
           NEW u, u.node = [t.node EXCEPT ![q] = m]
    PROVE  BindsElsewhere(t, u, k) /\ BindsAs(u, m, k)
<1>1. t \in Trees
  BY DEF Sound
<1>2. \A k2, r2 : Binds(u, k2, r2) <=> Has(m, k2, r2) \/ \E p \in Pages \ {q} : Has(t.node[p], k2, r2)
  BY <1>1, BindsWritten
<1>3. BindsElsewhere(t, u, k)
  <2> SUFFICES ASSUME NEW k2, NEW r2, k2 # k PROVE Binds(u, k2, r2) <=> Binds(t, k2, r2)
    BY DEF BindsElsewhere
  <2>1. Has(m, k2, r2) <=> Has(t.node[q], k2, r2)
    BY DEF SameElsewhere
  <2> QED BY <1>2, <2>1 DEF Binds
<1>4. ASSUME NEW p \in Pages \ {q}, NEW r2 PROVE ~Has(t.node[p], k, r2)
  BY HolderIs DEF Has
<1>5. BindsAs(u, m, k)
  BY <1>2, <1>4 DEF BindsAs
<1> QED BY <1>3, <1>5

\* Every leaf but the one at place j has as many keys as it should.
LEMMA SizedOthers ==
    ASSUME NEW t, Sound(t), Sized(t), NEW j \in 1..Len(Leaves(t)), NEW u,
           Leaves(u) = Leaves(t), Within(t, u, {Leaves(t)[j]}), ~t.node[t.root].leaf
    PROVE  OthersFull(u, {j})
<1> DEFINE L == Leaves(t)
<1>1. Len(L) > 1
  <2>1. Len(L) = Len(Seps(t)) + 1 /\ Len(Seps(t)) \in Nat /\ Len(Seps(t)) > 0
    BY ViewIs DEF Sound, Rooted
  <2> QED BY <2>1
<1>2. \A a \in 1..Len(L) : Full(t.node[L[a]])
  BY <1>1 DEF Sized, Full
<1>3. \A a \in 1..Len(L) : a # j => u.node[L[a]] = t.node[L[a]]
  BY ViewIs DEF Within
<1> QED BY <1>2, <1>3 DEF OthersFull

\* With a root that is a leaf there is no other.
LEMMA OneLeaf ==
    ASSUME NEW t, t.node[t.root].leaf
    PROVE  Leaves(t) = <<t.root>> /\ Len(Leaves(t)) = 1
BY DEF Leaves

\* The leaf at place j rewritten with m: the tree is u.
Rewrote(t, u, j, m) ==
    /\ Sound(u) /\ Leaves(u) = Leaves(t) /\ Seps(u) = Seps(t)
    /\ u.node[Leaves(t)[j]] = m /\ Within(t, u, {Leaves(t)[j]})
    /\ u.root = t.root /\ u.free = t.free /\ u.count = t.count
    /\ u.node[u.root].leaf = t.node[t.root].leaf

\* Rewriting the leaf of a key, so that it differs at that key only, changes no other binding.
LEMMA RewriteIs ==
    ASSUME NEW t, Sound(t), NEW k \in Keys, NEW j, j = ChildIndex(Seps(t), k),
           NEW q, q = Leaves(t)[j],
           NEW m, LeafSound(m, Seps(t), j), m.next = t.node[q].next,
           SameElsewhere(m, t.node[q], k), NEW u, u = Write(t, q, m)
    PROVE  Rewrote(t, u, j, m) /\ BindsElsewhere(t, u, k) /\ BindsAs(u, m, k)
<1>1. j \in 1..Len(Leaves(t))
  BY FindLeafIs
<1>2. q \in Pages /\ (q = t.root <=> t.node[t.root].leaf)
  BY <1>1, LeafPage
<1>3. /\ Sound(u) /\ Leaves(u) = Leaves(t) /\ Seps(u) = Seps(t)
      /\ u.node = [t.node EXCEPT ![q] = m]
      /\ u.root = t.root /\ u.free = t.free /\ u.count = t.count
  BY <1>1, InPlace
<1>4. BindsElsewhere(t, u, k) /\ BindsAs(u, m, k)
  <2>1. q = Leaves(t)[ChildIndex(Seps(t), k)] /\ q \in Pages /\ u.node = [t.node EXCEPT ![q] = m]
    BY <1>2, <1>3
  <2> QED BY <2>1, LeafRewritten
<1>5. t.node \in [Pages -> LeafNodes \cup InnerNodes] /\ t.root \in Pages
  BY ViewIs, TreeShape
<1>6. u.node[q] = m /\ Within(t, u, {q})
  BY <1>2, <1>3, <1>5 DEF Within
<1>7. m.leaf = TRUE
  BY LeafShape DEF LeafSound
<1>8. u.node[u.root].leaf = t.node[t.root].leaf
  <2>1. CASE q = t.root
    <3>1. t.node[t.root].leaf = TRUE
      BY <1>1, <2>1, LeafPage
    <3> QED BY <1>3, <1>6, <1>7, <2>1, <3>1
  <2>2. CASE q # t.root
    BY <1>3, <1>5, <1>6, <2>2 DEF Within
  <2> QED BY <2>1, <2>2
<1> QED BY <1>3, <1>4, <1>6, <1>8 DEF Rewrote

\* The sizes of the leaves after a rewrite that leaves the leaf a right size.
LEMMA RewriteSized ==
    ASSUME NEW t, Sound(t), Sized(t), NEW j \in 1..Len(Leaves(t)), NEW u, NEW m,
           Rewrote(t, u, j, m), Len(m.keys) <= Order,
           ~t.node[t.root].leaf => Len(m.keys) >= MinKeys
    PROVE  Sized(u)
<1>1. /\ Leaves(u) = Leaves(t) /\ u.node[Leaves(t)[j]] = m /\ Within(t, u, {Leaves(t)[j]})
  BY DEF Rewrote
<1>2. CASE t.node[t.root].leaf
  <2>1. Len(Leaves(u)) = 1
    BY <1>1, <1>2, OneLeaf
  <2>2. \A a \in 1..Len(Leaves(u)) : a = j
    BY <1>1, <2>1
  <2>3. ~(Len(Leaves(u)) > 1)
    BY <2>1
  <2> QED BY <1>1, <2>2, <2>3 DEF Sized
<1>3. CASE ~t.node[t.root].leaf
  <2>1. OthersFull(u, {j})
    BY <1>1, <1>3, SizedOthers
  <2>2. Full(m)
    BY <1>3 DEF Full
  <2>3. AllFull(u, Leaves(u))
    BY <1>1, <2>1, <2>2 DEF OthersFull, AllFull
  <2> QED BY <2>3, FullSized
<1> QED BY <1>2, <1>3

\* What an insert and a delete leave bound.
BoundTo(t, u, k, r) == BindsElsewhere(t, u, k) /\ \A r2 : Binds(u, k, r2) <=> r2 = r

Unbound(t, u, k) == BindsElsewhere(t, u, k) /\ \A r2 : ~Binds(u, k, r2)

\* What a split or a rebalancing settles keeps the effect of the insert or delete before it.
LEMMA SettledBound ==
    ASSUME NEW t, NEW u, NEW w, NEW k, Settled(u, w)
    PROVE  /\ \A r : BoundTo(t, u, k, r) => BoundTo(t, w, k, r)
           /\ Unbound(t, u, k) => Unbound(t, w, k)
BY DEF Settled, SameBinds, BoundTo, Unbound, BindsElsewhere

\* The leaf in which a key belongs, and whether it is there.
LEMMA PositionIs ==
    ASSUME NEW n, NEW S, NEW j, LeafSound(n, S, j), NEW k, NEW at, at = Position(n.keys, k)
    PROVE  /\ \A i \in at : i \in 1..Len(n.keys) /\ n.keys[i] = k
           /\ at = {} => /\ \A a \in 1..Len(n.keys) : n.keys[a] # k
                         /\ \A r : ~Has(n, k, r)
<1>1. n.keys \in Seq(Keys) /\ Len(n.vals) = Len(n.keys)
  BY SoundLeafShape
<1>2. DOMAIN n.keys = 1..Len(n.keys)
  BY <1>1
<1> QED BY <1>1, <1>2 DEF Position, Has

\* insert: the key is bound to the row id, in place or with a split.
LEMMA InsertedIs ==
    ASSUME NEW t, Sound(t), Sized(t), HasTwoPages(t), NEW k \in Keys, NEW r \in RowIds,
           NEW u, u = Inserted(t, k, r)
    PROVE  Sound(u) /\ Sized(u) /\ BoundTo(t, u, k, r)
<1> DEFINE S == Seps(t)
           j == ChildIndex(S, k)
           q == Leaves(t)[j]
           n == t.node[q]
           at == Position(n.keys, k)
           i == ChildIndex(n.keys, k)
           path == Path(t, k)
           m == Leaf(InsertAt(n.keys, i, k), InsertAt(n.vals, i, r), n.next)
           grown == Write(t, q, m)
<1>1. /\ j \in 1..Len(Leaves(t)) /\ PathEnd(t, path) = q
      /\ (j > 1 => S[j - 1] <= k) /\ (j <= Len(S) => k < S[j])
  BY FindLeafIs
<1>2. LeafSound(n, S, j) /\ (q = t.root <=> t.node[t.root].leaf)
  BY <1>1, LeafPage
<1>3. path = IF t.node[t.root].leaf THEN <<>> ELSE <<<<t.root, j>>>>
  BY PathIs
<1>4. u = IF at # {} THEN Write(t, q, [n EXCEPT !.vals[CHOOSE x \in at : TRUE] = r])
          ELSE IF Len(n.keys) + 1 > Order THEN SplitAndPropagate(grown, path)
          ELSE grown
  BY <1>1 DEF Inserted
<1>5. Len(n.keys) \in Nat /\ Len(n.keys) <= Order
      /\ (~t.node[t.root].leaf => Len(n.keys) >= MinKeys)
  <2>1. Len(n.keys) \in Nat
    BY <1>2, SoundLeafShape
  <2>2. ~t.node[t.root].leaf => Len(Leaves(t)) > 1
    <3>1. Len(Leaves(t)) = Len(Seps(t)) + 1 /\ Len(Seps(t)) \in Nat
          /\ (~t.node[t.root].leaf => Len(Seps(t)) > 0)
      BY ViewIs DEF Sound, Rooted
    <3> QED BY <3>1
  <2> QED BY <1>1, <2>1, <2>2 DEF Sized
<1>6. /\ \A x \in at : x \in 1..Len(n.keys) /\ n.keys[x] = k
      /\ at = {} => \A a \in 1..Len(n.keys) : n.keys[a] # k
      /\ at = {} => \A r2 : ~Has(n, k, r2)
  <2>1. LeafSound(n, S, j) /\ at = Position(n.keys, k)
    BY <1>2
  <2> HIDE DEF n, at, S, j
  <2> QED BY <2>1, PositionIs
<1>7. CASE at # {}
  <2> DEFINE x == CHOOSE x \in at : TRUE
             m2 == [n EXCEPT !.vals[x] = r]
  <2>1. x \in 1..Len(n.keys) /\ n.keys[x] = k
    BY <1>6, <1>7
  <2>2. u = Write(t, q, m2)
    BY <1>4, <1>7
  <2> HIDE DEF x, at, n
  <2>3. /\ LeafSound(m2, S, j) /\ m2.next = n.next /\ Len(m2.keys) = Len(n.keys)
        /\ \A k2, r2 : Has(m2, k2, r2)
              <=> (k2 # n.keys[x] /\ Has(n, k2, r2)) \/ (k2 = n.keys[x] /\ r2 = r)
    BY <1>2, <2>1, ReboundLeaf
  <2> HIDE DEF m2
  <2>4. SameElsewhere(m2, n, k) /\ \A r2 : Has(m2, k, r2) <=> r2 = r
    BY <2>1, <2>3 DEF SameElsewhere
  <2>5. Rewrote(t, u, j, m2) /\ BindsElsewhere(t, u, k) /\ BindsAs(u, m2, k)
    <3>1. LeafSound(m2, Seps(t), j) /\ m2.next = t.node[q].next /\ SameElsewhere(m2, t.node[q], k)
      BY <2>3, <2>4 DEF n
    <3> QED BY <2>2, <3>1, RewriteIs, Zenon
  <2>6. Sized(u)
    <3>1. Len(m2.keys) <= Order /\ (~t.node[t.root].leaf => Len(m2.keys) >= MinKeys)
      BY <1>5, <2>3
    <3> QED BY <1>1, <2>5, <3>1, RewriteSized, Zenon
  <2>7. BoundTo(t, u, k, r)
    BY <2>4, <2>5 DEF BoundTo, BindsAs
  <2> QED BY <2>5, <2>6, <2>7 DEF Rewrote
<1>8. CASE at = {}
  <2>1. /\ LeafSound(m, S, j) /\ m.next = n.next /\ Len(m.keys) = Len(n.keys) + 1
        /\ \A k2, r2 : Has(m, k2, r2) <=> Has(n, k2, r2) \/ (k2 = k /\ r2 = r)
    BY <1>1, <1>2, <1>6, <1>8, InsertedLeaf
  <2>2. grown = Write(t, q, m)
    OBVIOUS
  <2> HIDE DEF m, at, grown, n
  <2>3. SameElsewhere(m, n, k) /\ \A r2 : Has(m, k, r2) <=> r2 = r
    BY <1>6, <1>8, <2>1 DEF SameElsewhere
  <2>4. Rewrote(t, grown, j, m) /\ BindsElsewhere(t, grown, k) /\ BindsAs(grown, m, k)
    <3>1. LeafSound(m, Seps(t), j) /\ m.next = t.node[q].next /\ SameElsewhere(m, t.node[q], k)
      BY <2>1, <2>3 DEF n
    <3> QED BY <2>2, <3>1, RewriteIs, Zenon
  <2>5. BoundTo(t, grown, k, r)
    BY <2>3, <2>4 DEF BoundTo, BindsAs
  <2>6. CASE Len(n.keys) + 1 > Order
    <3>1. u = SplitAndPropagate(grown, path)
      BY <1>4, <1>8, <2>6 DEF n, grown, m, at
    <3>2. Len(m.keys) = Order + 1
      BY <1>5, <2>1, <2>6, OrderAssumption
    <3>3. Overfull(grown, j)
      <4>1. /\ Sound(grown) /\ Leaves(grown) = Leaves(t) /\ grown.node[Leaves(t)[j]] = m
            /\ grown.free = t.free /\ grown.count = t.count /\ Within(t, grown, {Leaves(t)[j]})
        BY <2>4 DEF Rewrote
      <4>2. HasTwoPages(grown)
        BY <4>1 DEF HasTwoPages
      <4>3. \A a \in 1..Len(Leaves(grown)) : a # j => Full(grown.node[Leaves(grown)[a]])
        <5>1. CASE t.node[t.root].leaf
          <6>1. Len(Leaves(t)) = 1
            BY <5>1, OneLeaf
          <6>2. \A a \in 1..Len(Leaves(t)) : a = j
            BY <1>1, <6>1
          <6> QED BY <4>1, <6>2
        <5>2. CASE ~t.node[t.root].leaf
          <6>1. OthersFull(grown, {j})
            BY <1>1, <4>1, <5>2, SizedOthers
          <6> QED BY <6>1 DEF OthersFull
        <5> QED BY <5>1, <5>2
      <4> QED BY <1>1, <3>2, <4>1, <4>2, <4>3 DEF Overfull
    <3>4. path = IF grown.node[grown.root].leaf THEN <<>> ELSE <<<<grown.root, j>>>>
      <4>1. grown.root = t.root /\ grown.node[grown.root].leaf = t.node[t.root].leaf
        BY <2>4 DEF Rewrote
      <4> QED BY <1>3, <4>1
    <3> HIDE DEF path
    <3>5. Settled(grown, u)
      BY <3>1, <3>3, <3>4, SplitAndPropagateIs
    <3> QED BY <2>5, <3>5, SettledBound DEF Settled
  <2>7. CASE ~(Len(n.keys) + 1 > Order)
    <3>1. u = grown
      BY <1>4, <1>8, <2>7 DEF n, grown, m, at
    <3>2. Len(m.keys) <= Order /\ (~t.node[t.root].leaf => Len(m.keys) >= MinKeys)
      <4>1. Order \in Nat /\ MinKeys \in Nat
        BY MinKeysIs
      <4> QED BY <1>5, <2>1, <2>7, <4>1
    <3>3. Sized(u)
      BY <1>1, <2>4, <3>1, <3>2, RewriteSized, Zenon
    <3> QED BY <2>4, <2>5, <3>1, <3>3 DEF Rewrote
  <2> QED BY <2>6, <2>7
<1> QED BY <1>7, <1>8

\* delete: the key is bound to nothing, in place, or with a borrow or a merge.
LEMMA DeletedIs ==
    ASSUME NEW t, Sound(t), Sized(t), NEW k \in Keys, NEW u, u = Deleted(t, k)
    PROVE  Sound(u) /\ Sized(u) /\ Unbound(t, u, k) /\ Len(Leaves(u)) <= Len(Leaves(t))
<1> DEFINE S == Seps(t)
           j == ChildIndex(S, k)
           q == Leaves(t)[j]
           n == t.node[q]
           at == Position(n.keys, k)
           i == CHOOSE x \in at : TRUE
           path == Path(t, k)
           m == Leaf(RemoveAt(n.keys, i), RemoveAt(n.vals, i), n.next)
           cut == Write(t, q, m)
<1>1. j \in 1..Len(Leaves(t)) /\ PathEnd(t, path) = q
  BY FindLeafIs
<1>2. LeafSound(n, S, j) /\ (q = t.root <=> t.node[t.root].leaf)
  BY <1>1, LeafPage
<1>3. path = IF t.node[t.root].leaf THEN <<>> ELSE <<<<t.root, j>>>>
  BY PathIs
<1>4. u = IF at = {} THEN t
          ELSE IF Len(n.keys) - 1 < MinKeys /\ q # t.root THEN Rebalance(cut, path)
          ELSE cut
  BY <1>1 DEF Deleted
<1>5. Len(n.keys) \in Nat /\ Len(n.keys) <= Order
      /\ (~t.node[t.root].leaf => Len(n.keys) >= MinKeys)
  <2>1. Len(n.keys) \in Nat
    BY <1>2, SoundLeafShape
  <2>2. ~t.node[t.root].leaf => Len(Leaves(t)) > 1
    <3>1. Len(Leaves(t)) = Len(Seps(t)) + 1 /\ Len(Seps(t)) \in Nat
          /\ (~t.node[t.root].leaf => Len(Seps(t)) > 0)
      BY ViewIs DEF Sound, Rooted
    <3> QED BY <3>1
  <2> QED BY <1>1, <2>1, <2>2 DEF Sized
<1>6. /\ \A x \in at : x \in 1..Len(n.keys) /\ n.keys[x] = k
      /\ at = {} => \A r2 : ~Has(n, k, r2)
  <2>1. LeafSound(n, S, j) /\ at = Position(n.keys, k)
    BY <1>2
  <2> HIDE DEF n, at, S, j
  <2> QED BY <2>1, PositionIs
<1>7. CASE at = {}
  <2>1. u = t
    BY <1>4, <1>7
  <2>2. ASSUME NEW p \in Pages, NEW r2 PROVE ~Has(t.node[p], k, r2)
    <3>1. CASE p = q
      BY <1>6, <1>7, <3>1
    <3>2. CASE p # q
      BY <3>2, HolderIs DEF Has
    <3> QED BY <3>1, <3>2
  <2>3. Unbound(t, u, k)
    BY <2>1, <2>2 DEF Unbound, BindsElsewhere, Binds
  <2>4. Len(Leaves(t)) \in Nat
    BY ViewIs
  <2> QED BY <2>1, <2>3, <2>4
<1>8. CASE at # {}
  <2>0. i \in 1..Len(n.keys) /\ n.keys[i] = k
    BY <1>6, <1>8
  <2> HIDE DEF i
  <2>1. /\ LeafSound(m, S, j) /\ m.next = n.next /\ Len(m.keys) = Len(n.keys) - 1
        /\ \A k2, r2 : Has(m, k2, r2) <=> Has(n, k2, r2) /\ k2 # n.keys[i]
    <3>1. m = Leaf(RemoveAt(n.keys, i), RemoveAt(n.vals, i), n.next)
      OBVIOUS
    <3> HIDE DEF n, S, j, m
    <3> QED BY <1>2, <2>0, <3>1, RemovedLeaf
  <2>2. cut = Write(t, q, m)
    OBVIOUS
  <2> HIDE DEF m, at, cut, n
  <2>3. SameElsewhere(m, n, k) /\ \A r2 : ~Has(m, k, r2)
    BY <2>0, <2>1 DEF SameElsewhere
  <2>4. Rewrote(t, cut, j, m) /\ BindsElsewhere(t, cut, k) /\ BindsAs(cut, m, k)
    <3>1. LeafSound(m, Seps(t), j) /\ m.next = t.node[q].next /\ SameElsewhere(m, t.node[q], k)
      BY <2>1, <2>3 DEF n
    <3> QED BY <2>2, <3>1, RewriteIs, Zenon
  <2>5. Unbound(t, cut, k)
    BY <2>3, <2>4 DEF Unbound, BindsAs
  <2>6. CASE Len(n.keys) - 1 < MinKeys /\ q # t.root
    <3>1. u = Rebalance(cut, path)
      BY <1>4, <1>8, <2>6 DEF n, cut, m, at, i
    <3>2. ~t.node[t.root].leaf
      BY <1>2, <2>6
    <3>3. Len(m.keys) = MinKeys - 1
      <4>1. Len(n.keys) >= MinKeys /\ Len(n.keys) - 1 < MinKeys /\ Len(n.keys) \in Nat
        BY <1>5, <2>6, <3>2
      <4>2. MinKeys \in Nat
        BY MinKeysIs
      <4>3. Len(n.keys) = MinKeys
        BY <4>1, <4>2
      <4> QED BY <2>1, <4>3
    <3>4. Underfull(cut, j)
      <4>1. /\ Sound(cut) /\ Leaves(cut) = Leaves(t) /\ cut.node[Leaves(t)[j]] = m
            /\ Within(t, cut, {Leaves(t)[j]}) /\ cut.node[cut.root].leaf = t.node[t.root].leaf
        BY <2>4 DEF Rewrote
      <4>2. OthersFull(cut, {j})
        BY <1>1, <3>2, <4>1, SizedOthers
      <4> QED BY <1>1, <3>2, <3>3, <4>1, <4>2 DEF Underfull
    <3>5. path = <<<<cut.root, j>>>>
      <4>1. cut.root = t.root
        BY <2>4 DEF Rewrote
      <4> QED BY <1>3, <3>2, <4>1
    <3> HIDE DEF path
    <3>6. Settled(cut, u) /\ Len(Leaves(u)) <= Len(Leaves(cut))
      BY <3>1, <3>4, <3>5, RebalanceIs DEF Rebalanced
    <3>7. Leaves(cut) = Leaves(t)
      BY <2>4 DEF Rewrote
    <3> QED BY <2>5, <3>6, <3>7, SettledBound DEF Settled
  <2>7. CASE ~(Len(n.keys) - 1 < MinKeys /\ q # t.root)
    <3>1. u = cut
      BY <1>4, <1>8, <2>7 DEF n, cut, m, at, i
    <3>2. Len(m.keys) <= Order /\ (~t.node[t.root].leaf => Len(m.keys) >= MinKeys)
      <4>1. Order \in Nat /\ MinKeys \in Nat
        BY MinKeysIs
      <4>2. ~t.node[t.root].leaf => ~(Len(n.keys) - 1 < MinKeys)
        BY <1>2, <2>7
      <4> QED BY <1>5, <2>1, <4>1, <4>2
    <3>3. Sized(u)
      BY <1>1, <2>4, <3>1, <3>2, RewriteSized, Zenon
    <3>4. Leaves(u) = Leaves(t) /\ Len(Leaves(t)) \in Nat
      BY <2>4, <3>1, ViewIs DEF Rewrote
    <3> QED BY <2>4, <2>5, <3>1, <3>3, <3>4 DEF Rewrote
  <2> QED BY <2>6, <2>7
<1> QED BY <1>7, <1>8

-----------------------------------------------------------------------------
(* The invariant and what follows from it                                  *)

\* The empty tree is a single leaf without keys.
LEMMA EmptyIs == Sound(Empty) /\ Sized(Empty) /\ \A k \in Keys : Seek(Empty, k) = 0
<1> DEFINE t == Empty
           N == [p \in Pages |-> Blank]
<1>1. /\ t.node = N /\ t.root = 1 /\ t.ids = {1} /\ t.free = <<>> /\ t.count = 2
  BY DEF Empty, Pages, Blank
<1>2. Pages \subseteq Nat /\ 1 \in Pages /\ (\A p \in Pages : p >= 1) /\ MaxPages \in Nat
  BY PagesAssumption DEF Pages
<1>3. t \in Trees
  <2>1. N \in [Pages -> LeafNodes \cup InnerNodes]
    BY BlankIs
  <2>2. t = [node |-> N, root |-> 1, ids |-> {1}, free |-> <<>>, count |-> 2]
    BY DEF Empty, Pages, Blank
  <2> HIDE DEF N, t
  <2>3. <<>> \in Seq(Pages) /\ {1} \in SUBSET Pages
    BY <1>2
  <2> QED BY <1>2, <2>1, <2>2, <2>3 DEF Trees
<1>4. \A p \in Pages : t.node[p] = Blank
  BY <1>1
<1> HIDE DEF t, N
<1>5. Leaves(t) = <<1>> /\ Seps(t) = <<>> /\ t.node[t.root].leaf = TRUE
  <2>1. t.node[t.root] = Blank
    BY <1>1, <1>2, <1>4
  <2>2. t.node[t.root].leaf = TRUE
    BY <2>1, BlankIs, LeafShape
  <2> QED BY <1>1, <2>2 DEF Leaves, Seps
<1>6. Accounted(t)
  <2>1. 2 \in 2..(MaxPages + 1) /\ {1} \subseteq 1..(2 - 1)
    BY <1>2, PagesAssumption
  <2>2. Len(t.free) = 0
    BY <1>1
  <2>3. \A p \in Pages : ~(p < 2 /\ p \notin {1})
    BY <1>2
  <2>4. 1..0 = {}
    OBVIOUS
  <2> QED BY <1>1, <2>1, <2>2, <2>3, <2>4 DEF Accounted
<1>7. LeafSound(Blank, <<>>, 1) /\ Blank.next = 0 /\ Len(Blank.keys) = 0
  <2>1. Blank \in LeafNodes /\ Len(Blank.vals) = 0 /\ Len(Blank.keys) = 0 /\ Blank.next = 0
    BY BlankIs
  <2>2. 1..0 = {}
    OBVIOUS
  <2> QED BY <2>1, <2>2 DEF LeafSound, Increasing, Between
<1>8. \A j \in 1..1 : j = 1 /\ ~(j < 1)
  OBVIOUS
<1>9. Len(<<1>>) = 1 /\ <<1>>[1] = 1 /\ <<1>> \in Seq(Pages) /\ <<>> \in Seq(Keys) /\ Len(<<>>) = 0
  BY <1>2
<1>10. Arranged(t.node, <<1>>, <<>>)
  <2>1. Increasing(<<>>)
    BY DEF Increasing
  <2>2. t.node[1] = Blank
    BY <1>2, <1>4
  <2>3. \A j \in 1..1 : /\ LeafSound(t.node[<<1>>[j]], <<>>, j)
                        /\ t.node[<<1>>[j]].next = IF j < 1 THEN <<1>>[j + 1] ELSE 0
    BY <1>7, <1>8, <1>9, <2>2
  <2>4. \A a, b \in 1..1 : a = b
    BY <1>8
  <2> QED BY <1>9, <2>1, <2>3, <2>4 DEF Arranged
<1>11. Topped(t, <<1>>, <<>>) /\ Owns(t, <<1>>)
  <2>1. \A p : (\E j \in 1..1 : <<1>>[j] = p) <=> p = 1
    BY <1>8, <1>9
  <2> QED BY <1>1, <1>4, <1>9, <2>1 DEF Topped, Owns
<1>12. Sound(t)
  BY <1>3, <1>6, <1>10, <1>11, Assembled, Zenon
<1>13. Sized(t)
  <2>1. t.node[Leaves(t)[1]] = Blank /\ Len(Leaves(t)) = 1
    BY <1>2, <1>4, <1>5
  <2>2. 0 <= Order /\ ~(1 > 1)
    BY OrderAssumption
  <2> QED BY <1>7, <1>8, <2>1, <2>2 DEF Sized
<1>14. ASSUME NEW k \in Keys PROVE Seek(t, k) = 0
  <2>1. \A r : ~Binds(t, k, r)
    BY <1>4, HasNothing DEF Binds
  <2> QED BY <1>12, <2>1, SeekIs
<1> QED BY <1>12, <1>13, <1>14 DEF t

\* What seek answers after an insert and after a delete.
LEMMA SeekAfter ==
    ASSUME NEW t, Sound(t), NEW u, Sound(u), NEW k \in Keys
    PROVE  /\ \A r : BoundTo(t, u, k, r) =>
                 \A k2 \in Keys : Seek(u, k2) = IF k2 = k THEN r ELSE Seek(t, k2)
           /\ Unbound(t, u, k) =>
                 \A k2 \in Keys : Seek(u, k2) = IF k2 = k THEN 0 ELSE Seek(t, k2)
<1>1. ASSUME BindsElsewhere(t, u, k), NEW k2 \in Keys, k2 # k PROVE Seek(u, k2) = Seek(t, k2)
  <2>1. \A r2 : Binds(u, k2, r2) <=> Binds(t, k2, r2)
    BY <1>1 DEF BindsElsewhere
  <2>2. CASE \E r2 : Binds(t, k2, r2)
    <3>1. PICK r2 : Binds(t, k2, r2)
      BY <2>2
    <3>2. Seek(t, k2) = r2
      BY <3>1, SeekIs
    <3>3. Seek(u, k2) = r2
      BY <2>1, <3>1, SeekIs
    <3> QED BY <3>2, <3>3
  <2>3. CASE \A r2 : ~Binds(t, k2, r2)
    <3>1. Seek(t, k2) = 0
      BY <2>3, SeekIs
    <3>2. Seek(u, k2) = 0
      BY <2>1, <2>3, SeekIs
    <3> QED BY <3>1, <3>2
  <2> QED BY <2>2, <2>3
<1>2. ASSUME NEW r, BoundTo(t, u, k, r) PROVE Seek(u, k) = r /\ BindsElsewhere(t, u, k)
  <2>1. Binds(u, k, r)
    BY <1>2 DEF BoundTo
  <2> QED BY <1>2, <2>1, SeekIs DEF BoundTo
<1>3. ASSUME Unbound(t, u, k) PROVE Seek(u, k) = 0 /\ BindsElsewhere(t, u, k)
  BY <1>3, SeekIs DEF Unbound
<1> QED BY <1>1, <1>2, <1>3

\* What the cut of a node keeps: the node itself when it fits its page.  A sound
\* tree has one internal node, so only its root can be cut.
LEMMA StoredIs ==
    ASSUME NEW t, Sound(t), NEW s, s = Stored(t)
    PROVE  /\ s.root = t.root /\ s.ids = t.ids /\ s.free = t.free /\ s.count = t.count
           /\ \A p \in Pages : s.node[p] = IF Fits(t.node[p]) THEN t.node[p] ELSE Torn
           /\ Fits(t.node[t.root]) => s = t
           /\ ~Fits(t.node[t.root]) => ~Intact(s) /\ Len(Leaves(t)) > Fanout
           /\ Intact(t)
<1> DEFINE N == t.node
           M == [p \in DOMAIN N |-> IF Fits(N[p]) THEN N[p] ELSE Torn]
<1>1. t \in Trees /\ N \in [Pages -> LeafNodes \cup InnerNodes] /\ DOMAIN N = Pages /\ t.root \in Pages
  BY ViewIs, TreeShape
<1>2. s = [t EXCEPT !.node = M]
  BY DEF Stored
<1>3. \A p \in Pages : M[p] = IF Fits(N[p]) THEN N[p] ELSE Torn
  BY <1>1
<1> HIDE DEF M
<1>4. s.node = M /\ s.root = t.root /\ s.ids = t.ids /\ s.free = t.free /\ s.count = t.count
  BY <1>1, <1>2 DEF Trees
<1>5. ASSUME NEW p \in Pages, p # t.root PROVE Fits(N[p])
  <2>1. N[p].leaf = TRUE
    BY <1>5, OnlyRootInner, LeafShape
  <2> QED BY <2>1 DEF Fits
<1>6. ASSUME Fits(N[t.root]) PROVE s = t
  <2>1. \A p \in Pages : M[p] = N[p]
    BY <1>3, <1>5, <1>6
  <2>2. M = N
    <3> HIDE DEF N
    <3>1. DOMAIN M = Pages /\ M = [p \in Pages |-> M[p]]
      BY <1>1 DEF M
    <3> QED BY <1>1, <2>1, <3>1
  <2> QED BY <1>1, <1>2, <2>2 DEF Trees
<1>7. Intact(t)
  <2>1. CASE N[t.root].leaf
    <3>1. Torn.leaf = FALSE
      BY DEF Torn, Internal
    <3> QED BY <2>1, <3>1 DEF Intact
  <2>2. CASE ~N[t.root].leaf
    <3>1. Len(N[t.root].keys) > 0
      BY <2>2 DEF Sound, Rooted, Seps
    <3>2. Torn.keys = <<>> /\ Len(<<>>) = 0
      BY DEF Torn, Internal
    <3> QED BY <3>1, <3>2 DEF Intact
  <2> QED BY <2>1, <2>2
<1>8. ASSUME ~Fits(N[t.root]) PROVE ~Intact(s) /\ Len(Leaves(t)) > Fanout
  <2>1. s.node[s.root] = Torn
    BY <1>1, <1>3, <1>4, <1>8
  <2>2. ~N[t.root].leaf /\ ~(Len(N[t.root].kids) <= Fanout)
    BY <1>8 DEF Fits
  <2>3. Len(Leaves(t)) \in Nat /\ Leaves(t) = N[t.root].kids
    BY <2>2, ViewIs DEF Leaves
  <2> QED BY <2>1, <2>2, <2>3, FanoutAssumption DEF Intact
<1> QED BY <1>3, <1>4, <1>6, <1>7, <1>8

\* As long as the root can be read, the file holds a sound tree.
LEMMA IntactIs ==
    ASSUME Inv, Intact(tree)
    PROVE  Sound(tree) /\ Sized(tree) /\ Fits(tree.node[tree.root])
<1>1. PICK t : Sound(t) /\ Sized(t) /\ tree = Stored(t)
  BY DEF Inv
<1>2. Fits(t.node[t.root]) /\ tree = t
  BY <1>1, StoredIs
<1> QED BY <1>1, <1>2

\* The trees the operations work out from a tree that can be read.
LEMMA InsertedSound ==
    ASSUME Inv, NEW k \in Keys, NEW r \in RowIds, Insert(k, r)
    PROVE  /\ Sound(tree) /\ Intact(tree)
           /\ \E u : Sound(u) /\ Sized(u) /\ BoundTo(tree, u, k, r) /\ tree' = Stored(u)
<1>1. Intact(tree) /\ HasTwoPages(tree) /\ tree' = Stored(Inserted(tree, k, r))
  BY DEF Insert, Room, HasTwoPages
<1>2. Sound(tree) /\ Sized(tree)
  BY <1>1, IntactIs
<1> QED BY <1>1, <1>2, InsertedIs

\* A delete leaves a root that fits its page, as no leaf is added.
LEMMA DeletedSound ==
    ASSUME Inv, NEW k \in Keys, Delete(k)
    PROVE  /\ Sound(tree) /\ Intact(tree)
           /\ Sound(tree') /\ Sized(tree') /\ Unbound(tree, tree', k) /\ tree' = Stored(tree')
<1> DEFINE u == Deleted(tree, k)
<1>1. Intact(tree) /\ tree' = Stored(u)
  BY DEF Delete
<1>2. Sound(tree) /\ Sized(tree) /\ Fits(tree.node[tree.root])
  BY <1>1, IntactIs
<1>3. Sound(u) /\ Sized(u) /\ Unbound(tree, u, k) /\ Len(Leaves(u)) <= Len(Leaves(tree))
  BY <1>2, DeletedIs
<1> HIDE DEF u
<1>4. Len(Leaves(tree)) <= Fanout
  <2>1. CASE tree.node[tree.root].leaf
    <3>1. Leaves(tree) = <<tree.root>>
      BY <2>1 DEF Leaves
    <3>2. Len(Leaves(tree)) = 1
      BY <3>1
    <3> QED BY <3>2, FanoutAssumption, OrderAssumption
  <2>2. CASE ~tree.node[tree.root].leaf
    BY <1>2, <2>2 DEF Leaves, Fits
  <2> QED BY <2>1, <2>2
<1>5. Fits(u.node[u.root])
  <2>1. ~Fits(u.node[u.root]) => Len(Leaves(u)) > Fanout
    BY <1>3, StoredIs
  <2>2. Len(Leaves(u)) \in Nat /\ Len(Leaves(tree)) \in Nat
    BY <1>2, <1>3, ViewIs
  <2> QED BY <1>3, <1>4, <2>1, <2>2, FanoutAssumption
<1>6. tree' = u
  BY <1>1, <1>3, <1>5, StoredIs
<1> QED BY <1>1, <1>2, <1>3, <1>6

\* Every file the operations write holds a sound tree or a root that was cut.
THEOREM TreeInvariant == Spec => []Inv
<1>1. Init => Inv
  <2>1. Stored(Empty) = Empty
    <3>1. Fits(Empty.node[Empty.root])
      <4>1. Empty.node[Empty.root] = Blank /\ Blank.leaf = TRUE
        BY PagesAssumption DEF Empty, Blank, Leaf
      <4> QED BY <4>1 DEF Fits
    <3> QED BY <3>1, EmptyIs, StoredIs
  <2> QED BY <2>1, EmptyIs DEF Init, Inv
<1>2. Inv /\ [Next]_tree => Inv'
  <2> SUFFICES ASSUME Inv, [Next]_tree PROVE Inv'
    OBVIOUS
  <2>1. CASE UNCHANGED tree
    BY <2>1 DEF Inv
  <2>2. ASSUME NEW k \in Keys, Delete(k) PROVE Inv'
    <3>1. Sound(tree') /\ Sized(tree') /\ tree' = Stored(tree')
      BY <2>2, DeletedSound
    <3> QED BY <3>1 DEF Inv
  <2>3. ASSUME NEW k \in Keys, NEW r \in RowIds, Insert(k, r) PROVE Inv'
    <3>1. \E u : Sound(u) /\ Sized(u) /\ tree' = Stored(u)
      BY <2>3, InsertedSound
    <3> QED BY <3>1 DEF Inv
  <2> QED BY <2>1, <2>2, <2>3 DEF Next, Raise
<1> QED BY <1>1, <1>2, PTL DEF Spec

\* The pages reachable from the root are the ones the tree owns.
LEMMA ReachableIs ==
    ASSUME Sound(tree)
    PROVE  /\ Reachable = tree.ids
           /\ \A p \in Reachable : p = tree.root \/ \E j \in 1..Len(Leaves(tree)) : p = Leaves(tree)[j]
<1> DEFINE N == tree.node
           Body(f, p) == {p} \cup UNION {f[N[p].kids[i]] : i \in DOMAIN N[p].kids}
           Is(f) == f = [p \in DOMAIN N |-> Body(f, p)]
           f0 == CHOOSE f : Is(f)
           kids(p) == {N[p].kids[i] : i \in DOMAIN N[p].kids}
           g == [p \in Pages |-> {p} \cup kids(p)]
<1>1. Reachable = f0[tree.root]
  BY DEF Reachable
<1>2. DOMAIN N = Pages /\ tree.root \in Pages
  BY ViewIs, TreeShape
<1>3. ASSUME NEW p \in Pages, N[p] \in LeafNodes PROVE N[p].kids = <<>> /\ kids(p) = {}
  <2>1. N[p].kids = <<>>
    BY <1>3, LeafShape
  <2> HIDE DEF N
  <2> QED BY <2>1
<1>4. ASSUME NEW i \in DOMAIN N[tree.root].kids
      PROVE  N[tree.root].kids[i] \in Pages /\ N[N[tree.root].kids[i]] \in LeafNodes
  <2>1. N[tree.root] \in LeafNodes \cup InnerNodes
    BY ViewIs, TreeShape
  <2>2. N[tree.root].leaf = FALSE
    <3>1. N[tree.root] \notin LeafNodes
      <4>1. DOMAIN <<>> = {}
        OBVIOUS
      <4> QED BY <1>2, <1>3, <1>4, <4>1
    <3> QED BY <2>1, <3>1, InnerShape
  <2>3. N[tree.root].kids = Leaves(tree) /\ Leaves(tree) \in Seq(Pages)
    BY <2>2, ViewIs DEF Leaves
  <2>4. i \in 1..Len(Leaves(tree))
    BY <1>4, <2>3
  <2> QED BY <2>3, <2>4, LeafPage DEF LeafSound
<1>5. \A p \in Pages : p # tree.root => N[p] \in LeafNodes
  BY OnlyRootInner
<1>6. \A i : \A p \in Pages : i \in DOMAIN N[p].kids =>
          N[p].kids[i] \in Pages /\ kids(N[p].kids[i]) = {}
  <2> SUFFICES ASSUME NEW p \in Pages, NEW i \in DOMAIN N[p].kids
               PROVE  N[p].kids[i] \in Pages /\ kids(N[p].kids[i]) = {}
    OBVIOUS
  <2>1. p = tree.root
    <3>1. DOMAIN <<>> = {}
      OBVIOUS
    <3> QED BY <1>3, <1>5, <3>1
  <2>2. N[p].kids[i] \in Pages /\ N[N[p].kids[i]] \in LeafNodes
    BY <1>4, <2>1
  <2> HIDE DEF kids, N
  <2> QED BY <1>3, <2>2
<1>7. Is(g)
  <2>1. ASSUME NEW p \in Pages PROVE {p} \cup kids(p) = Body(g, p)
    <3>1. \A i \in DOMAIN N[p].kids : g[N[p].kids[i]] = {N[p].kids[i]}
      <4> HIDE DEF kids, N
      <4> QED BY <1>6
    <3> HIDE DEF g, N
    <3> QED BY <3>1
  <2> HIDE DEF Body, kids, N
  <2> QED BY <1>2, <2>1
<1>8. Is(f0)
  <2> HIDE DEF Is
  <2> QED BY <1>7
<1>9. \A p \in Pages : f0[p] = Body(f0, p)
  <2> HIDE DEF f0, Body, N
  <2> QED BY <1>2, <1>8
<1> HIDE DEF f0
<1>10. ASSUME NEW p \in Pages, kids(p) = {} PROVE f0[p] = {p}
  <2>1. DOMAIN N[p].kids = {}
    <3> HIDE DEF N
    <3> QED BY <1>10
  <2> HIDE DEF N
  <2> QED BY <1>9, <2>1
<1>11. f0[tree.root] = {tree.root} \cup kids(tree.root)
  <2>1. \A i \in DOMAIN N[tree.root].kids : f0[N[tree.root].kids[i]] = {N[tree.root].kids[i]}
    <3> HIDE DEF kids, N
    <3> QED BY <1>2, <1>6, <1>10
  <2>2. f0[tree.root] = Body(f0, tree.root)
    BY <1>2, <1>9
  <2> HIDE DEF N
  <2> QED BY <2>1, <2>2
<1>12. ASSUME NEW p
       PROVE p \in kids(tree.root) => \E j \in 1..Len(Leaves(tree)) : p = Leaves(tree)[j]
  <2>1. CASE N[tree.root].leaf
    <3>1. N[tree.root] \in LeafNodes
      <4>1. N[tree.root] \in LeafNodes \cup InnerNodes
        BY ViewIs, TreeShape
      <4> QED BY <2>1, <4>1, InnerShape
    <3>2. kids(tree.root) = {}
      BY <1>2, <1>3, <3>1
    <3> HIDE DEF kids
    <3> QED BY <3>2
  <2>2. CASE ~N[tree.root].leaf
    <3>1. N[tree.root].kids = Leaves(tree) /\ Leaves(tree) \in Seq(Pages)
      BY <2>2, ViewIs DEF Leaves
    <3>2. DOMAIN N[tree.root].kids = 1..Len(Leaves(tree))
      BY <3>1
    <3> HIDE DEF N
    <3> QED BY <3>1, <3>2
  <2> QED BY <2>1, <2>2
<1>13. ASSUME NEW j \in 1..Len(Leaves(tree))
       PROVE  Leaves(tree)[j] = tree.root \/ Leaves(tree)[j] \in kids(tree.root)
  <2>1. CASE N[tree.root].leaf
    <3>1. Leaves(tree)[j] = tree.root
      BY <2>1, LeafPage
    <3> QED BY <3>1
  <2>2. CASE ~N[tree.root].leaf
    <3>1. N[tree.root].kids = Leaves(tree) /\ Leaves(tree) \in Seq(Pages)
      BY <2>2, ViewIs DEF Leaves
    <3>2. j \in DOMAIN N[tree.root].kids
      BY <3>1
    <3> HIDE DEF N
    <3> QED BY <3>1, <3>2
  <2> QED BY <2>1, <2>2
<1> HIDE DEF kids, N, g
<1>14. \A p : p \in Reachable <=> p = tree.root \/ \E j \in 1..Len(Leaves(tree)) : p = Leaves(tree)[j]
  BY <1>1, <1>11, <1>12, <1>13
<1>15. /\ \A p \in Pages : p \in tree.ids <=> p = tree.root
                                              \/ \E j \in 1..Len(Leaves(tree)) : p = Leaves(tree)[j]
       /\ tree.ids \subseteq Pages /\ \A j \in 1..Len(Leaves(tree)) : Leaves(tree)[j] \in Pages
  BY ViewIs, TreeShape DEF Sound, Rooted
<1>16. \A p : p \in Reachable <=> p \in tree.ids
  BY <1>2, <1>14, <1>15
<1> QED BY <1>14, <1>16

\* The pages of a sound tree have the shapes the code reads and writes.
LEMMA NodesAre ==
    ASSUME NEW t, Sound(t), NEW p \in Pages
    PROVE  /\ t.node[p].leaf \in BOOLEAN
           /\ IF t.node[p].leaf
                THEN Len(t.node[p].vals) = Len(t.node[p].keys)
                ELSE Len(t.node[p].kids) = Len(t.node[p].keys) + 1
<1>0. t.node \in [Pages -> LeafNodes \cup InnerNodes]
  BY TreeShape DEF Sound
<1>1. CASE t.node[p] = Blank
  BY <1>1, BlankIs, LeafShape
<1>2. CASE \E j \in 1..Len(Leaves(t)) : p = Leaves(t)[j]
  <2>1. PICK j \in 1..Len(Leaves(t)) : p = Leaves(t)[j]
    BY <1>2
  <2>2. LeafSound(t.node[p], Seps(t), j) /\ t.node[p].leaf = TRUE
    BY <2>1, LeafPage
  <2> QED BY <2>2 DEF LeafSound
<1>3. CASE p = t.root /\ ~\E j \in 1..Len(Leaves(t)) : p = Leaves(t)[j]
  <2>1. ~t.node[p].leaf
    <3> SUFFICES ASSUME t.node[p].leaf PROVE FALSE
      OBVIOUS
    <3>1. Leaves(t) = <<p>>
      BY <1>3 DEF Leaves
    <3>2. 1 \in 1..Len(Leaves(t)) /\ Leaves(t)[1] = p
      BY <3>1
    <3> QED BY <1>3, <3>2
  <2>2. t.node[p].leaf = FALSE
    BY <1>0, <2>1, LeafShape, InnerShape
  <2>3. Leaves(t) = t.node[p].kids /\ Seps(t) = t.node[p].keys
    BY <1>3, <2>1 DEF Leaves, Seps
  <2> QED BY <2>2, <2>3, ViewIs
<1> QED BY <1>1, <1>2, <1>3 DEF Sound, Rooted

\* The tree and its pages have the shapes the code reads and writes.
THEOREM TypeCorrect == Spec => []TypeOK
<1>1. Inv => TypeOK
  <2> SUFFICES ASSUME NEW t, Sound(t), tree = Stored(t) PROVE TypeOK
    BY DEF Inv
  <2>1. /\ tree.root = t.root /\ tree.ids = t.ids /\ tree.count = t.count
        /\ \A p \in Pages : tree.node[p] = IF Fits(t.node[p]) THEN t.node[p] ELSE Torn
    BY StoredIs
  <2>2. tree.root \in Pages /\ tree.ids \in SUBSET Pages /\ tree.count \in 2..(MaxPages + 1)
    BY <2>1, TreeShape DEF Sound, Accounted
  <2>3. ASSUME NEW p \in Pages
        PROVE  /\ tree.node[p].leaf \in BOOLEAN
               /\ IF tree.node[p].leaf
                    THEN Len(tree.node[p].vals) = Len(tree.node[p].keys)
                    ELSE tree.node[p] # Torn => Len(tree.node[p].kids) = Len(tree.node[p].keys) + 1
    <3>1. CASE tree.node[p] = t.node[p]
      BY <3>1, NodesAre
    <3>2. CASE tree.node[p] = Torn
      <4>1. Torn.leaf = FALSE
        BY DEF Torn, Internal
      <4> QED BY <3>2, <4>1
    <3> QED BY <2>1, <3>1, <3>2
  <2> QED BY <2>2, <2>3 DEF TypeOK, Pages
<1> QED BY <1>1, TreeInvariant, PTL

\* No leaf grows past Order or, unless it is the root, shrinks below MinKeys,
\* and its keys stay in order.
THEOREM LeavesBounded == Spec => []LeavesWithinBounds
<1>1. Inv => LeavesWithinBounds
  <2> SUFFICES ASSUME Sound(tree), Sized(tree), Intact(tree), NEW p \in Reachable, tree.node[p].leaf
               PROVE  /\ Len(tree.node[p].keys) <= Order
                      /\ p # tree.root => Len(tree.node[p].keys) >= MinKeys
                      /\ \A i \in 1..(Len(tree.node[p].keys) - 1) :
                            tree.node[p].keys[i] < tree.node[p].keys[i + 1]
    BY IntactIs DEF LeavesWithinBounds
  <2> DEFINE L == Leaves(tree)
  <2>1. PICK j \in 1..Len(L) : p = L[j]
    <3>1. CASE p = tree.root
      <4>1. L = <<p>>
        BY <3>1 DEF Leaves
      <4>2. 1 \in 1..Len(L) /\ L[1] = p
        BY <4>1
      <4> QED BY <4>2
    <3> QED BY <3>1, ReachableIs
  <2>2. LeafSound(tree.node[p], Seps(tree), j) /\ (p = tree.root <=> tree.node[tree.root].leaf)
    BY <2>1, LeafPage
  <2>3. Len(tree.node[p].keys) <= Order
    BY <2>1 DEF Sized
  <2>4. p # tree.root => Len(tree.node[p].keys) >= MinKeys
    <3> SUFFICES ASSUME p # tree.root PROVE Len(tree.node[p].keys) >= MinKeys
      OBVIOUS
    <3>1. Len(L) = Len(Seps(tree)) + 1 /\ Len(Seps(tree)) \in Nat /\ Len(Seps(tree)) > 0
      BY <2>2, ViewIs DEF Sound, Rooted
    <3>2. Len(L) > 1
      BY <3>1
    <3> QED BY <2>1, <3>2 DEF Sized
  <2>5. ASSUME NEW i \in 1..(Len(tree.node[p].keys) - 1)
        PROVE  tree.node[p].keys[i] < tree.node[p].keys[i + 1]
    <3> DEFINE ks == tree.node[p].keys
    <3>1. Len(ks) \in Nat /\ Increasing(ks)
      BY <2>2, SoundLeafShape DEF LeafSound
    <3> HIDE DEF ks
    <3>2. i \in 1..(Len(ks) - 1)
      BY DEF ks
    <3>3. i \in 1..Len(ks) /\ i + 1 \in 1..Len(ks) /\ i < i + 1
      BY <3>1, <3>2
    <3>4. ks[i] < ks[i + 1]
      BY <3>1, <3>3 DEF Increasing
    <3> QED BY <3>4 DEF ks
  <2> QED BY <2>3, <2>4, <2>5
<1> QED BY <1>1, TreeInvariant, PTL

\* The pages below the root are the ones the tree owns; the free list holds
\* every other page of the file once.
THEOREM PagesKept == Spec => []PagesAccounted
<1>1. Inv => PagesAccounted
  <2> SUFFICES ASSUME Inv, NEW t, Sound(t), tree = Stored(t) PROVE PagesAccounted
    BY DEF Inv
  <2> DEFINE f == tree.free
             c == tree.count
  <2>1. Intact(tree) => Reachable = tree.ids
    BY IntactIs, ReachableIs
  <2>2. f = t.free /\ c = t.count /\ tree.ids = t.ids
    BY StoredIs
  <2>3. /\ f \in Seq(Pages) /\ c \in Nat /\ c \in 2..(MaxPages + 1)
        /\ \A a, b \in 1..Len(f) : f[a] = f[b] => a = b
        /\ \A p \in Pages : (\E a \in 1..Len(f) : f[a] = p) <=> p < c /\ p \notin tree.ids
    BY <2>2, TreeShape DEF Sound, Accounted
  <2>4. DOMAIN f = 1..Len(f) /\ \A a \in 1..Len(f) : f[a] \in Pages
    BY <2>3
  <2>5. \A p : p \in 1..(c - 1) <=> p \in Pages /\ p < c
    BY <2>3, PagesAssumption DEF Pages
  <2> HIDE DEF f, c
  <2>6. {f[i] : i \in DOMAIN f} = (1..(c - 1)) \ tree.ids
    BY <2>3, <2>4, <2>5
  <2>7. IsInjective(f)
    BY <2>3, <2>4 DEF IsInjective
  <2> QED BY <2>1, <2>6, <2>7 DEF PagesAccounted, f, c
<1> QED BY <1>1, TreeInvariant, PTL

-----------------------------------------------------------------------------
(* Scans                                                                   *)

\* Induction over the numbers up to c, for a set of them.
LEMMA CountUp ==
    ASSUME NEW c \in Nat, NEW G, 0 \in G, \A d \in 0..(c - 1) : d \in G => d + 1 \in G
    PROVE  \A d \in 0..c : d \in G
<1> SUFFICES ASSUME NEW e \in 0..c, e \notin G PROVE FALSE
  OBVIOUS
<1> DEFINE Bad == {d \in 0..c : d \notin G}
<1>1. Bad \in SUBSET Nat /\ Bad # {}
  OBVIOUS
<1>2. PICK m \in Bad : \A d \in Bad : m <= d
  BY <1>1, LeastNumber
<1>3. m \in 0..c /\ m \notin G /\ m # 0
  BY <1>2
<1>4. m - 1 \in 0..(c - 1) /\ m - 1 + 1 = m /\ ~(m <= m - 1) /\ m - 1 \in 0..c
  BY <1>3
<1>5. m - 1 \in G
  BY <1>2, <1>4
<1> QED BY <1>3, <1>4, <1>5

Rids == RowIds \cup {0}

\* The sequence ks is the numbers of K in order.
Orders(ks, K) ==
    /\ ks \in Seq(Int) /\ Increasing(ks)
    /\ \A i \in 1..Len(ks) : ks[i] \in K
    /\ \A k \in K : \E i \in 1..Len(ks) : ks[i] = k

\* The places ks of s, in order, are the ones in K, and r holds what s has there.
Via(ks, r, s, K) == Orders(ks, K) /\ Len(ks) = Len(r) /\ \A i \in 1..Len(ks) : r[i] = s[ks[i]]

Selects(r, s, K) == r \in Seq(Rids) /\ \E ks : Via(ks, r, s, K)

\* Increasing sequences of the same numbers agree, as far as the first goes.
LEMMA SameAsFar ==
    ASSUME NEW ks, NEW ls, NEW K, Orders(ks, K), Orders(ls, K)
    PROVE  \A i \in 1..Len(ks) : i \in 1..Len(ls) /\ ks[i] = ls[i]
<1> DEFINE c == Len(ks)
           d == Len(ls)
           Bad == {i \in 1..c : ~(i \in 1..d /\ ks[i] = ls[i])}
<1>1. /\ c \in Nat /\ d \in Nat
      /\ (\A i \in 1..c : ks[i] \in Int) /\ (\A i \in 1..d : ls[i] \in Int)
      /\ (\A a, b \in 1..c : a < b => ks[a] < ks[b]) /\ (\A a, b \in 1..d : a < b => ls[a] < ls[b])
      /\ (\A i \in 1..c : ks[i] \in K) /\ (\A k \in K : \E i \in 1..c : ks[i] = k)
      /\ (\A i \in 1..d : ls[i] \in K) /\ (\A k \in K : \E i \in 1..d : ls[i] = k)
  <2>1. ks \in Seq(Int) /\ ls \in Seq(Int) /\ Increasing(ks) /\ Increasing(ls)
    BY DEF Orders
  <2>2. /\ (\A i \in 1..c : ks[i] \in K) /\ (\A k \in K : \E i \in 1..c : ks[i] = k)
        /\ (\A i \in 1..d : ls[i] \in K) /\ (\A k \in K : \E i \in 1..d : ls[i] = k)
    BY DEF Orders
  <2>3. c \in Nat /\ d \in Nat /\ (\A i \in 1..c : ks[i] \in Int) /\ (\A i \in 1..d : ls[i] \in Int)
    BY <2>1
  <2>4. (\A a, b \in 1..c : a < b => ks[a] < ks[b]) /\ (\A a, b \in 1..d : a < b => ls[a] < ls[b])
    BY <2>1 DEF Increasing
  <2> QED BY <2>2, <2>3, <2>4
<1> SUFFICES ASSUME Bad # {} PROVE FALSE
  OBVIOUS
<1> HIDE DEF c, d
<1>2. PICK i \in Bad : \A j \in Bad : i <= j
  <2>1. Bad \in SUBSET Nat
    BY <1>1
  <2> QED BY <2>1, LeastNumber
<1>3. i \in 1..c /\ ~(i \in 1..d /\ ks[i] = ls[i])
  BY <1>2
<1>4. ASSUME NEW j \in 1..c, j < i PROVE j \in 1..d /\ ks[j] = ls[j]
  <2>1. i \in Int /\ j \in Int /\ ~(i <= j)
    BY <1>1, <1>3, <1>4
  <2>2. j \notin Bad
    BY <1>2, <2>1
  <2> QED BY <2>2
<1> HIDE DEF Bad
<1>5. PICK a \in 1..d : ls[a] = ks[i]
  BY <1>1, <1>3
<1>6. ~(a < i)
  <2> SUFFICES ASSUME a < i PROVE FALSE
    OBVIOUS
  <2>1. a \in 1..c
    BY <1>1, <1>3
  <2>2. ks[a] = ks[i] /\ ks[a] < ks[i] /\ ks[i] \in Int
    BY <1>1, <1>3, <1>4, <1>5, <2>1
  <2> QED BY <2>2
<1>7. i \in 1..d
  BY <1>1, <1>3, <1>6
<1>8. PICK b \in 1..c : ks[b] = ls[i]
  BY <1>1, <1>7
<1>9. ~(b < i)
  <2> SUFFICES ASSUME b < i PROVE FALSE
    OBVIOUS
  <2>1. b \in 1..d /\ ls[b] = ls[i]
    BY <1>4, <1>8
  <2>2. ls[b] < ls[i] /\ ls[i] \in Int
    BY <1>1, <1>7, <2>1
  <2> QED BY <2>1, <2>2
<1>10. ls[i] <= ls[a]
  <2>1. i = a \/ i < a
    BY <1>1, <1>6, <1>7
  <2>2. ls[i] \in Int /\ (i < a => ls[i] < ls[a]) /\ ls[a] \in Int
    BY <1>1, <1>7
  <2> QED BY <2>1, <2>2
<1>11. ks[i] <= ks[b]
  <2>1. i = b \/ i < b
    BY <1>1, <1>3, <1>9
  <2>2. ks[i] \in Int /\ (i < b => ks[i] < ks[b]) /\ ks[b] \in Int
    BY <1>1, <1>3
  <2> QED BY <2>1, <2>2
<1>12. ks[i] \in Int /\ ls[i] \in Int
  BY <1>1, <1>3, <1>7
<1>13. ks[i] = ls[i]
  BY <1>5, <1>8, <1>10, <1>11, <1>12
<1> QED BY <1>3, <1>7, <1>13

\* There is one sequence that holds what s has at the places in K, in order.
LEMMA SelectsOne ==
    ASSUME NEW r, NEW q, NEW s, NEW K, Selects(r, s, K), Selects(q, s, K)
    PROVE  r = q
<1>1. PICK ks : Via(ks, r, s, K)
  BY DEF Selects
<1>2. PICK ls : Via(ls, q, s, K)
  BY DEF Selects
<1>3. Orders(ks, K) /\ Len(ks) = Len(r) /\ \A i \in 1..Len(ks) : r[i] = s[ks[i]]
  BY <1>1 DEF Via
<1>4. Orders(ls, K) /\ Len(ls) = Len(q) /\ \A i \in 1..Len(ls) : q[i] = s[ls[i]]
  BY <1>2 DEF Via
<1>5. \A i \in 1..Len(ks) : i \in 1..Len(ls) /\ ks[i] = ls[i]
  BY <1>3, <1>4, SameAsFar
<1>6. \A i \in 1..Len(ls) : i \in 1..Len(ks) /\ ls[i] = ks[i]
  BY <1>3, <1>4, SameAsFar
<1>7. Len(ks) = Len(ls)
  <2>1. Len(ks) \in Nat /\ Len(ls) \in Nat
    BY <1>3, <1>4 DEF Orders
  <2>2. \A i \in 1..Len(ks) : i \in 1..Len(ls)
    BY <1>5
  <2>3. \A i \in 1..Len(ls) : i \in 1..Len(ks)
    BY <1>6
  <2> DEFINE a == Len(ks)
             b == Len(ls)
  <2> HIDE DEF a, b
  <2>4. a \in Nat /\ b \in Nat /\ (\A i \in 1..a : i \in 1..b) /\ (\A i \in 1..b : i \in 1..a)
    BY <2>1, <2>2, <2>3 DEF a, b
  <2>5. (a > 0 => a \in 1..b) /\ (b > 0 => b \in 1..a)
    BY <2>4
  <2>6. a = b
    BY <2>4, <2>5
  <2> QED BY <2>6 DEF a, b
<1>8. r \in Seq(Rids) /\ q \in Seq(Rids) /\ Len(r) = Len(q)
  BY <1>3, <1>4, <1>7 DEF Selects
<1>9. ASSUME NEW i \in 1..Len(r) PROVE r[i] = q[i]
  <2>1. i \in 1..Len(ks) /\ i \in 1..Len(ls) /\ ks[i] = ls[i]
    BY <1>3, <1>5
  <2>2. r[i] = s[ks[i]]
    BY <1>3, <2>1
  <2>3. q[i] = s[ls[i]]
    BY <1>4, <2>1
  <2> QED BY <2>1, <2>2, <2>3
<1> QED BY <1>8, <1>9, SeqEqual

\* Nothing is selected from no place.
LEMMA SelectsNone ==
    ASSUME NEW s PROVE Selects(<<>>, s, {})
<1>1. <<>> \in Seq(Rids) /\ <<>> \in Seq(Int) /\ Len(<<>>) = 0 /\ 1..0 = {}
  OBVIOUS
<1>2. Increasing(<<>>)
  BY <1>1 DEF Increasing
<1>3. Via(<<>>, <<>>, s, {})
  BY <1>1, <1>2 DEF Via, Orders
<1> QED BY <1>1, <1>3 DEF Selects

\* What is selected at the places in K and then at the greater ones in M.
LEMMA SelectsBoth ==
    ASSUME NEW r, NEW q, NEW s, NEW K, NEW M, Selects(r, s, K), Selects(q, s, M),
           \A k \in K, m \in M : k < m, NEW u, u = r \o q
    PROVE  Selects(u, s, K \cup M)
<1>1. PICK ks : Via(ks, r, s, K)
  BY DEF Selects
<1>2. PICK ls : Via(ls, q, s, M)
  BY DEF Selects
<1>3. r \in Seq(Rids) /\ q \in Seq(Rids)
  BY DEF Selects
<1>4. /\ ks \in Seq(Int) /\ Len(ks) = Len(r) /\ Increasing(ks)
      /\ \A i \in 1..Len(ks) : ks[i] \in K /\ r[i] = s[ks[i]]
      /\ \A k \in K : \E i \in 1..Len(ks) : ks[i] = k
  BY <1>1 DEF Via, Orders
<1>5. /\ ls \in Seq(Int) /\ Len(ls) = Len(q) /\ Increasing(ls)
      /\ \A i \in 1..Len(ls) : ls[i] \in M /\ q[i] = s[ls[i]]
      /\ \A k \in M : \E i \in 1..Len(ls) : ls[i] = k
  BY <1>2 DEF Via, Orders
<1> DEFINE js == ks \o ls
           c == Len(ks)
           d == Len(ls)
<1>6. c \in Nat /\ d \in Nat
  BY <1>4, <1>5
<1>7. js \in Seq(Int) /\ Concat(js, ks, ls)
  BY <1>4, <1>5, ConcatSeq, Zenon
<1>8. u \in Seq(Rids) /\ Concat(u, r, q)
  BY <1>3, ConcatSeq, Zenon
<1> HIDE DEF js
<1>9. /\ Len(js) = c + d /\ Len(u) = c + d
      /\ \A i \in 1..c : js[i] = ks[i] /\ u[i] = r[i]
      /\ \A i \in 1..d : js[c + i] = ls[i] /\ u[c + i] = q[i]
  BY <1>4, <1>5, <1>7, <1>8 DEF Concat
<1>10. /\ \A i \in 1..c : ks[i] \in K /\ r[i] = s[ks[i]]
       /\ \A i \in 1..d : ls[i] \in M /\ q[i] = s[ls[i]]
       /\ (\A a, b \in 1..c : a < b => ks[a] < ks[b]) /\ (\A a, b \in 1..d : a < b => ls[a] < ls[b])
       /\ (\A k \in K : \E i \in 1..c : ks[i] = k) /\ (\A k \in M : \E i \in 1..d : ls[i] = k)
  BY <1>4, <1>5 DEF Increasing
<1> HIDE DEF c, d
<1>11. \A i \in 1..(c + d) : i \in 1..c \/ (i - c \in 1..d /\ i = c + (i - c))
  BY <1>6
<1>12. Increasing(js)
  <2> SUFFICES ASSUME NEW a \in 1..(c + d), NEW b \in 1..(c + d), a < b PROVE js[a] < js[b]
    BY <1>9 DEF Increasing
  <2>1. CASE a \in 1..c /\ b \in 1..c
    BY <1>9, <1>10, <2>1
  <2>2. CASE a \in 1..c /\ b - c \in 1..d
    <3>1. js[b] = ls[b - c] /\ ls[b - c] \in M
      <4>1. b = c + (b - c)
        BY <1>6, <2>2
      <4> QED BY <1>9, <1>10, <2>2, <4>1
    <3> QED BY <1>9, <1>10, <2>2, <3>1
  <2>3. CASE a - c \in 1..d /\ b - c \in 1..d
    <3>1. a = c + (a - c) /\ b = c + (b - c) /\ a - c < b - c
      BY <1>6, <2>3
    <3>2. js[a] = ls[a - c] /\ js[b] = ls[b - c]
      BY <1>9, <2>3, <3>1
    <3> QED BY <1>10, <2>3, <3>1, <3>2
  <2>4. ~(a - c \in 1..d /\ b \in 1..c)
    BY <1>6
  <2> QED BY <1>11, <2>1, <2>2, <2>3, <2>4
<1>13. ASSUME NEW i \in 1..(c + d) PROVE js[i] \in K \cup M /\ u[i] = s[js[i]]
  <2>1. CASE i \in 1..c
    BY <1>9, <1>10, <2>1
  <2>2. CASE i - c \in 1..d /\ i = c + (i - c)
    <3>1. js[i] = ls[i - c] /\ u[i] = q[i - c]
      BY <1>9, <2>2
    <3> QED BY <1>10, <2>2, <3>1
  <2> QED BY <1>11, <2>1, <2>2
<1>14. ASSUME NEW k \in K \cup M PROVE \E i \in 1..(c + d) : js[i] = k
  <2>1. CASE k \in K
    <3>1. PICK i \in 1..c : ks[i] = k
      BY <1>10, <2>1
    <3>2. i \in 1..(c + d)
      BY <1>6
    <3> QED BY <1>9, <3>1, <3>2
  <2>2. CASE k \in M
    <3>1. PICK i \in 1..d : ls[i] = k
      BY <1>10, <2>2
    <3>2. c + i \in 1..(c + d)
      BY <1>6
    <3> QED BY <1>9, <3>1, <3>2
  <2> QED BY <2>1, <2>2
<1>15. Via(js, u, s, K \cup M)
  BY <1>7, <1>9, <1>12, <1>13, <1>14 DEF Via, Orders
<1> QED BY <1>8, <1>15 DEF Selects

\* One place selected.
LEMMA SelectsSingle ==
    ASSUME NEW s, NEW k \in Int, s[k] \in Rids PROVE Selects(<<s[k]>>, s, {k})
<1> DEFINE e == s[k]
<1>1. <<e>> \in Seq(Rids) /\ Len(<<e>>) = 1 /\ <<e>>[1] = e /\ <<k>> \in Seq(Int)
      /\ Len(<<k>>) = 1 /\ <<k>>[1] = k /\ \A i \in 1..1 : i = 1 /\ ~(i < i)
  <2>1. e \in Rids
    OBVIOUS
  <2> HIDE DEF e
  <2> QED BY <2>1
<1>2. Increasing(<<k>>)
  BY <1>1 DEF Increasing
<1>3. Via(<<k>>, <<e>>, s, {k})
  BY <1>1, <1>2 DEF Via, Orders
<1> QED BY <1>1, <1>3 DEF Selects

\* What Picked computes: the elements of s at the places in the set, in order.
LEMMA PickedIs ==
    ASSUME NEW s \in Seq(Rids), NEW at
    PROVE  Selects(Picked(s, at), s, at \cap 1..Len(s))
<1> DEFINE c == Len(s)
           Body(f, n) == IF n = 0 THEN <<>>
                         ELSE IF n \in at THEN Append(f[n - 1], s[n]) ELSE f[n - 1]
           Is(f) == f = [n \in 0..c |-> Body(f, n)]
           f0 == CHOOSE f : Is(f)
<1>1. Picked(s, at) = f0[c]
  BY DEF Picked
<1>2. c \in Nat /\ \A k \in 1..c : s[k] \in Rids /\ k \in Int
  OBVIOUS
<1> HIDE DEF c
<1>3. \E f : \A n \in 0..c : f[n] = Body(f, n)
  <2> DEFINE G == {d \in 0..c : \E f : \A n \in 0..d : f[n] = Body(f, n)}
  <2>1. 0 \in G
    <3> DEFINE f == [n \in 0..0 |-> <<>>]
    <3>1. \A n \in 0..0 : n = 0
      OBVIOUS
    <3>2. \A n \in 0..0 : f[n] = Body(f, n)
      BY <3>1
    <3> HIDE DEF f, Body
    <3>3. 0 \in 0..c
      BY <1>2
    <3> QED BY <3>2, <3>3
  <2>2. ASSUME NEW d \in 0..(c - 1), d \in G PROVE d + 1 \in G
    <3>1. PICK f : \A n \in 0..d : f[n] = Body(f, n)
      BY <2>2
    <3> DEFINE g == [n \in 0..(d + 1) |-> IF n <= d THEN f[n] ELSE Body(f, n)]
    <3>2. ASSUME NEW n \in 0..(d + 1) PROVE g[n] = Body(g, n)
      <4>1. n # 0 => n - 1 \in 0..(d + 1) /\ n - 1 <= d
        BY <1>2
      <4>2. n # 0 => g[n - 1] = f[n - 1]
        <5> HIDE DEF Body
        <5> QED BY <4>1
      <4>3. Body(g, n) = Body(f, n)
        <5> HIDE DEF g
        <5> QED BY <4>2
      <4>4. g[n] = Body(f, n)
        <5> HIDE DEF Body
        <5>1. n <= d => n \in 0..d
          BY <1>2
        <5> QED BY <3>1, <5>1
      <4> QED BY <4>3, <4>4
    <3>3. d + 1 \in 0..c
      BY <1>2
    <3> HIDE DEF g, Body
    <3> QED BY <3>2, <3>3
  <2> HIDE DEF G
  <2>3. \A d \in 0..c : d \in G
    BY <1>2, <2>1, <2>2, CountUp
  <2>4. c \in G
    BY <1>2, <2>3
  <2> QED BY <2>4 DEF G
<1>4. \E f : Is(f)
  <2>1. PICK f : \A n \in 0..c : f[n] = Body(f, n)
    BY <1>3
  <2> DEFINE g == [n \in 0..c |-> f[n]]
  <2>2. ASSUME NEW n \in 0..c PROVE f[n] = Body(g, n)
    <3>1. n # 0 => n - 1 \in 0..c
      BY <1>2
    <3>2. n # 0 => g[n - 1] = f[n - 1]
      BY <3>1
    <3>3. Body(g, n) = Body(f, n)
      <4> HIDE DEF g
      <4> QED BY <3>2
    <3> HIDE DEF g, Body
    <3> QED BY <2>1, <3>3
  <2>3. Is(g)
    <3> HIDE DEF Body
    <3> QED BY <2>2
  <2> QED BY <2>3
<1>5. Is(f0)
  <2> HIDE DEF Is
  <2> QED BY <1>4
<1>6. \A n \in 0..c : f0[n] = Body(f0, n)
  <2> HIDE DEF f0, Body
  <2> QED BY <1>5
<1> HIDE DEF f0
<1> DEFINE H == {d \in 0..c : Selects(f0[d], s, at \cap 1..d)}
<1>7. 0 \in H
  <2>1. f0[0] = <<>> /\ at \cap 1..0 = {} /\ 0 \in 0..c
    BY <1>2, <1>6
  <2> HIDE DEF Body
  <2> QED BY <2>1, SelectsNone
<1>8. ASSUME NEW d \in 0..(c - 1), d \in H PROVE d + 1 \in H
  <2>1. d + 1 \in 0..c /\ d + 1 # 0 /\ d + 1 - 1 = d /\ d + 1 \in 1..c /\ d \in Nat
    BY <1>2
  <2>2. f0[d + 1] = IF d + 1 \in at THEN Append(f0[d], s[d + 1]) ELSE f0[d]
    BY <1>6, <2>1
  <2>3. Selects(f0[d], s, at \cap 1..d)
    BY <1>8
  <2>4. CASE d + 1 \notin at
    <3>1. at \cap 1..(d + 1) = at \cap 1..d
      BY <2>1, <2>4
    <3> HIDE DEF Body
    <3> QED BY <2>1, <2>2, <2>3, <2>4, <3>1
  <2>5. CASE d + 1 \in at
    <3> DEFINE e == d + 1
    <3>1. Selects(<<s[e]>>, s, {e})
      BY <1>2, <2>1, SelectsSingle
    <3>2. f0[d] \in Seq(Rids) /\ s[e] \in Rids
      BY <1>2, <2>1, <2>3 DEF Selects
    <3>3. f0[e] = f0[d] \o <<s[e]>>
      <4>1. f0[e] = Append(f0[d], s[e])
        BY <2>2, <2>5
      <4> DEFINE x == f0[d]
                 y == s[e]
      <4>2. x \in Seq(Rids) /\ y \in Rids
        BY <3>2
      <4> HIDE DEF x, y
      <4>3. Append(x, y) = x \o <<y>>
        BY <4>2
      <4> QED BY <4>1, <4>3 DEF x, y
    <3>4. \A k \in at \cap 1..d, m \in {e} : k < m
      BY <2>1
    <3>5. at \cap 1..e = (at \cap 1..d) \cup {e}
      BY <2>1, <2>5
    <3> HIDE DEF e, Body
    <3>6. Selects(f0[e], s, (at \cap 1..d) \cup {e})
      BY <2>3, <3>1, <3>3, <3>4, SelectsBoth
    <3>7. Selects(f0[e], s, at \cap 1..e)
      BY <3>5, <3>6
    <3> QED BY <2>1, <3>7 DEF e
  <2> QED BY <2>4, <2>5
<1> HIDE DEF H
<1>9. \A d \in 0..c : d \in H
  BY <1>2, <1>7, <1>8, CountUp
<1>10. Selects(f0[c], s, at \cap 1..c)
  <2>1. c \in 0..c
    BY <1>2
  <2>2. c \in H
    BY <1>9, <2>1
  <2> HIDE DEF Body
  <2> QED BY <2>2 DEF H
<1> QED BY <1>1, <1>10 DEF c

\* The keys a node holds.
Held(n) == {n.keys[i] : i \in 1..Len(n.keys)}

\* The function B answers as the leaf n does for the keys of n.
Agrees(B, n) == \A i \in 1..Len(n.keys) : B[n.keys[i]] = n.vals[i]

\* A sequence of row ids is one of answers of seek.
LEMMA RidSeq == ASSUME NEW s \in Seq(RowIds) PROVE s \in Seq(Rids)
BY DEF Rids

\* What is selected from the row ids of a leaf is selected from the map at its keys.
LEMMA LeafSelects ==
    ASSUME NEW n, NEW S, NEW j, LeafSound(n, S, j), NEW B, Agrees(B, n),
           NEW at \in SUBSET (1..Len(n.keys)), NEW r, Selects(r, n.vals, at),
           NEW K, K = {n.keys[i] : i \in at}
    PROVE  Selects(r, B, K)
<1>1. PICK is : Via(is, r, n.vals, at)
  BY DEF Selects
<1>2. r \in Seq(Rids)
  BY DEF Selects
<1>3. /\ is \in Seq(Int) /\ Increasing(is)
      /\ \A i \in 1..Len(is) : is[i] \in at
      /\ \A k \in at : \E i \in 1..Len(is) : is[i] = k
      /\ Len(is) = Len(r) /\ \A i \in 1..Len(is) : r[i] = n.vals[is[i]]
  BY <1>1 DEF Via, Orders
<1> DEFINE c == Len(is)
           ks == n.keys
           js == [i \in 1..c |-> ks[is[i]]]
<1>4. /\ c \in Nat /\ \A i \in 1..Len(ks) : ks[i] \in Int
      /\ \A a, b \in 1..Len(ks) : a < b => ks[a] < ks[b]
  <2>1. c \in Nat
    BY <1>3
  <2> HIDE DEF c
  <2> QED BY <2>1, SoundLeafShape DEF LeafSound, Increasing
<1>5. \A i \in 1..c : is[i] \in 1..Len(ks)
  BY <1>3
<1>6. js \in Seq(Int) /\ Len(js) = c /\ \A i \in 1..c : js[i] = ks[is[i]]
  <2>1. \A i \in 1..c : ks[is[i]] \in Int
    BY <1>4, <1>5
  <2> HIDE DEF c, ks
  <2> QED BY <1>4, <2>1
<1> HIDE DEF js
<1>7. \A a, b \in 1..c : a < b => is[a] < is[b]
  BY <1>3 DEF Increasing
<1>8. Increasing(js)
  <2> SUFFICES ASSUME NEW a \in 1..c, NEW b \in 1..c, a < b PROVE js[a] < js[b]
    BY <1>6 DEF Increasing
  <2>1. is[a] < is[b] /\ is[a] \in 1..Len(ks) /\ is[b] \in 1..Len(ks)
    BY <1>5, <1>7
  <2> QED BY <1>4, <1>6, <2>1
<1>9. Orders(js, K)
  <2>1. \A i \in 1..c : js[i] \in K
    BY <1>3, <1>6
  <2>2. ASSUME NEW k \in K PROVE \E i \in 1..c : js[i] = k
    <3>1. PICK a \in at : k = ks[a]
      OBVIOUS
    <3>2. PICK i \in 1..c : is[i] = a
      BY <1>3
    <3> QED BY <1>6, <3>1, <3>2
  <2> HIDE DEF c
  <2> QED BY <1>6, <1>8, <2>1, <2>2 DEF Orders
<1>10. ASSUME NEW i \in 1..c PROVE r[i] = B[js[i]]
  <2>1. r[i] = n.vals[is[i]] /\ is[i] \in 1..Len(ks)
    BY <1>3, <1>5
  <2>2. B[ks[is[i]]] = n.vals[is[i]]
    BY <2>1 DEF Agrees
  <2> QED BY <1>6, <2>1, <2>2
<1>11. Via(js, r, B, K)
  BY <1>3, <1>6, <1>9, <1>10 DEF Via
<1> QED BY <1>2, <1>11 DEF Selects

\* The chain: a page that is not a leaf of the tree, and the last leaf, have no
\* next page; the next page of another leaf is the leaf after it.
LEMMA NextIs ==
    ASSUME NEW t, Sound(t), NEW p \in Pages, t.node[p].next # 0
    PROVE  \E j \in 1..(Len(Leaves(t)) - 1) : p = Leaves(t)[j] /\ t.node[p].next = Leaves(t)[j + 1]
<1> DEFINE L == Leaves(t)
<1>1. t.node[p] # Blank /\ t.node[p] \notin InnerNodes
  BY BlankIs, InnerShape
<1>2. t.node[p] \in LeafNodes
  BY <1>1, ViewIs, TreeShape
<1>3. p \in t.ids
  BY <1>1 DEF Sound, Rooted
<1>4. PICK j \in 1..Len(L) : p = L[j]
  <2>1. CASE p = t.root
    <3>1. t.node[t.root].leaf
      BY <1>2, <2>1, LeafShape
    <3>2. L = <<p>>
      BY <2>1, <3>1 DEF Leaves
    <3>3. 1 \in 1..Len(L) /\ p = L[1]
      BY <3>2
    <3> QED BY <3>3
  <2>2. CASE p # t.root
    BY <1>3, <2>2 DEF Sound, Rooted
  <2> QED BY <2>1, <2>2
<1>5. t.node[p].next = IF j < Len(L) THEN L[j + 1] ELSE 0
  BY <1>4, ViewIs
<1>6. Len(L) \in Nat
  BY ViewIs
<1>7. j < Len(L) /\ t.node[p].next = L[j + 1]
  BY <1>5
<1>8. j \in 1..(Len(L) - 1)
  BY <1>6, <1>7
<1> QED BY <1>4, <1>7, <1>8

\* A walk along the chain that takes W[p] at each page p and stops after the pages of E.
Onward(t, E, g, p) == IF p \in E \/ t.node[p].next = 0 THEN <<>> ELSE g[t.node[p].next]

Walks(g, t, W, E) == \A p \in Pages : g[p] = W[p] \o Onward(t, E, g, p)

\* A walk as a function of the pages, the form the recursive definitions have.
WalkFcn(g, t, W, E) == g = [p \in Pages |-> W[p] \o Onward(t, E, g, p)]

\* The recursive definitions of range and full_scan define a function.
LEMMA WalkExists ==
    ASSUME NEW t, Sound(t), NEW W, NEW E
    PROVE  \E g : WalkFcn(g, t, W, E)
<1> DEFINE L == Leaves(t)
           c == Len(L)
           next(p) == t.node[p].next
           Late(d) == {p \in Pages : \A j \in 1..c : p = L[j] => j > c - d}
           Good(g, d) == \A p \in Late(d) : g[p] = W[p] \o Onward(t, E, g, p)
           G == {d \in 0..c : \E g : DOMAIN g = Pages /\ Good(g, d)}
<1>1. /\ c \in Nat /\ (\A a, b \in 1..c : L[a] = L[b] => a = b) /\ (\A a \in 1..c : L[a] \in Pages)
  BY ViewIs
<1>2. \A p \in Pages : next(p) # 0 => \E j \in 1..(c - 1) : p = L[j] /\ next(p) = L[j + 1]
  BY NextIs
<1> HIDE DEF L, c, next
<1>3. \A p \in Late(0) : next(p) = 0
  BY <1>1, <1>2
<1>4. ASSUME NEW d \in 0..(c - 1), NEW p \in Late(d + 1), next(p) # 0 PROVE next(p) \in Late(d)
  <2>1. PICK j \in 1..(c - 1) : p = L[j] /\ next(p) = L[j + 1]
    BY <1>2, <1>4
  <2>2. j \in 1..c /\ j + 1 \in 1..c
    BY <1>1
  <2>3. j > c - (d + 1)
    BY <1>4, <2>1, <2>2
  <2>4. j + 1 > c - d
    BY <1>1, <2>2, <2>3
  <2>5. \A b \in 1..c : L[j + 1] = L[b] => b = j + 1
    BY <1>1, <2>2
  <2>6. L[j + 1] \in Pages
    BY <1>1, <2>2
  <2> QED BY <2>1, <2>4, <2>5, <2>6
<1>5. Late(c) = Pages
  BY <1>1
<1>6. \A d \in 0..(c - 1) : Late(d) \subseteq Late(d + 1) /\ d + 1 \in 0..c
  BY <1>1
<1>7. 0 \in G
  <2> DEFINE g == [p \in Pages |-> W[p] \o <<>>]
  <2>1. ASSUME NEW p \in Late(0) PROVE g[p] = W[p] \o Onward(t, E, g, p)
    <3>1. next(p) = 0 /\ p \in Pages
      BY <1>3, <2>1
    <3>2. Onward(t, E, g, p) = <<>>
      BY <3>1 DEF Onward, next
    <3> QED BY <3>1, <3>2
  <2>2. DOMAIN g = Pages /\ Good(g, 0)
    BY <2>1
  <2>3. 0 \in 0..c
    BY <1>1
  <2> HIDE DEF Good, g
  <2> QED BY <2>2, <2>3
<1>8. ASSUME NEW d \in 0..(c - 1), d \in G PROVE d + 1 \in G
  <2>1. PICK g : DOMAIN g = Pages /\ Good(g, d)
    BY <1>8
  <2> HIDE DEF Late
  <2> DEFINE h == [p \in Pages |-> IF p \in Late(d) THEN g[p] ELSE W[p] \o Onward(t, E, g, p)]
  <2>0. Late(d) \subseteq Pages /\ Late(d + 1) \subseteq Pages
    BY DEF Late
  <2>2. ASSUME NEW p \in Late(d + 1) PROVE h[p] = W[p] \o Onward(t, E, h, p)
    <3>1. Onward(t, E, h, p) = Onward(t, E, g, p)
      <4>1. CASE next(p) = 0
        BY <4>1 DEF Onward, next
      <4>2. CASE next(p) # 0
        <5>1. next(p) \in Late(d)
          BY <1>4, <2>2, <4>2
        <5>2. h[next(p)] = g[next(p)]
          BY <2>0, <5>1
        <5> HIDE DEF h
        <5> QED BY <5>2 DEF Onward, next
      <4> QED BY <4>1, <4>2
    <3>2. h[p] = W[p] \o Onward(t, E, g, p)
      <4>1. p \in Pages
        BY <2>0
      <4>2. p \in Late(d) => g[p] = W[p] \o Onward(t, E, g, p)
        BY <2>1
      <4> QED BY <4>1, <4>2
    <3> QED BY <3>1, <3>2
  <2>3. DOMAIN h = Pages /\ Good(h, d + 1)
    BY <2>2
  <2> HIDE DEF Good, h
  <2> QED BY <1>6, <2>3
<1> HIDE DEF G
<1>9. \A d \in 0..c : d \in G
  BY <1>1, <1>7, <1>8, CountUp
<1>10. c \in G
  BY <1>1, <1>9
<1>11. PICK g : DOMAIN g = Pages /\ Good(g, c)
  BY <1>10 DEF G
<1>12. \A p \in Pages : g[p] = W[p] \o Onward(t, E, g, p)
  <2> HIDE DEF Late
  <2> QED BY <1>5, <1>11
<1> DEFINE h == [p \in Pages |-> g[p]]
<1>13. ASSUME NEW p \in Pages PROVE g[p] = W[p] \o Onward(t, E, h, p)
  <2>1. next(p) = 0 \/ next(p) \in Pages
    <3>1. ASSUME NEW j \in 1..(c - 1) PROVE L[j + 1] \in Pages
      <4>1. j + 1 \in 1..c
        BY <1>1
      <4> QED BY <1>1, <4>1
    <3> QED BY <1>2, <3>1
  <2>2. next(p) \in Pages => h[next(p)] = g[next(p)]
    OBVIOUS
  <2> HIDE DEF h
  <2>3. Onward(t, E, h, p) = Onward(t, E, g, p)
    BY <2>1, <2>2 DEF Onward, next
  <2> QED BY <1>12, <2>3
<1>14. WalkFcn(h, t, W, E)
  BY <1>13 DEF WalkFcn
<1> QED BY <1>14

\* A walk in that form is a walk.
LEMMA WalkFcnIs == ASSUME NEW g, NEW t, NEW W, NEW E, WalkFcn(g, t, W, E) PROVE Walks(g, t, W, E)
<1> SUFFICES ASSUME NEW p \in Pages PROVE g[p] = W[p] \o Onward(t, E, g, p)
  BY DEF Walks
<1> DEFINE V(q) == W[q] \o Onward(t, E, g, q)
<1>1. g = [q \in Pages |-> V(q)]
  BY DEF WalkFcn
<1> HIDE DEF V
<1>2. g[p] = V(p)
  BY <1>1
<1> QED BY <1>2 DEF V

\* The keys of a leaf come before the keys of the leaves after it.
LEMMA KeysApart ==
    ASSUME NEW t, Sound(t), NEW a \in 1..Len(Leaves(t)), NEW b \in 1..Len(Leaves(t)), a < b,
           NEW x \in Held(t.node[Leaves(t)[a]]), NEW y \in Held(t.node[Leaves(t)[b]])
    PROVE  x < y
<1> DEFINE L == Leaves(t)
           S == Seps(t)
           m == t.node[L[a]]
           n == t.node[L[b]]
<1>1. LeafSound(m, S, a) /\ LeafSound(n, S, b)
  BY LeafPage
<1>2. /\ Len(S) \in Nat /\ Len(L) = Len(S) + 1
      /\ \A i \in 1..Len(S) : S[i] \in Int
      /\ \A i, j \in 1..Len(S) : i < j => S[i] < S[j]
  <2>1. Arranged(t.node, L, S)
    BY DEF Sound
  <2> QED BY <2>1, ArrangedIs, Zenon
<1>3. PICK i \in 1..Len(m.keys) : x = m.keys[i]
  BY DEF Held
<1>4. PICK j \in 1..Len(n.keys) : y = n.keys[j]
  BY DEF Held
<1>5. x \in Int /\ y \in Int
  <2>1. x \in Int
    BY <1>1, <1>3, SoundLeafShape
  <2>2. y \in Int
    BY <1>1, <1>4, SoundLeafShape
  <2> QED BY <2>1, <2>2
<1>6. a \in 1..Len(S) /\ b - 1 \in 1..Len(S) /\ a <= Len(S) /\ b > 1 /\ (a = b - 1 \/ a < b - 1)
  BY <1>2
<1>7. x < S[a]
  BY <1>1, <1>3, <1>6 DEF LeafSound, Between
<1>8. S[b - 1] <= y
  BY <1>1, <1>4, <1>6 DEF LeafSound, Between
<1>9. S[a] \in Int /\ S[b - 1] \in Int /\ (S[a] = S[b - 1] \/ S[a] < S[b - 1])
  BY <1>2, <1>6
<1> HIDE DEF S
<1> QED BY <1>5, <1>7, <1>8, <1>9

\* The keys of the leaves from place j on.
HeldFrom(t, j) == UNION {Held(t.node[Leaves(t)[a]]) : a \in j..Len(Leaves(t))}

\* What the walk takes at each leaf, and where it stops.
Takes(t, W, B, K) ==
    \A j \in 1..Len(Leaves(t)) : Selects(W[Leaves(t)[j]], B, K \cap Held(t.node[Leaves(t)[j]]))

StopsInTime(t, E, K) ==
    \A j, a \in 1..Len(Leaves(t)) :
        Leaves(t)[j] \in E /\ j < a => K \cap Held(t.node[Leaves(t)[a]]) = {}

\* A walk from the leaf at place j selects the keys of K from there on.
LEMMA WalkSelects ==
    ASSUME NEW t, Sound(t), NEW W, NEW E, NEW g, Walks(g, t, W, E), NEW B, NEW K,
           Takes(t, W, B, K), StopsInTime(t, E, K)
    PROVE  \A j \in 1..Len(Leaves(t)) : Selects(g[Leaves(t)[j]], B, K \cap HeldFrom(t, j))
<1> DEFINE L == Leaves(t)
           c == Len(L)
           H(a) == K \cap Held(t.node[L[a]])
           F(a) == K \cap HeldFrom(t, a)
           G == {d \in 0..c : d < c => Selects(g[L[c - d]], B, F(c - d))}
<1>1. /\ c \in Nat /\ c >= 1 /\ (\A a \in 1..c : L[a] \in Pages)
      /\ \A a \in 1..c : t.node[L[a]].next = IF a < c THEN L[a + 1] ELSE 0
  BY ViewIs
<1>2. \A a \in 1..c : Selects(W[L[a]], B, H(a))
  BY DEF Takes
<1>3. \A a, b \in 1..c : L[a] \in E /\ a < b => H(b) = {}
  BY DEF StopsInTime
<1>4. \A a, b \in 1..c : a < b => \A x \in H(a), y \in H(b) : x < y
  BY KeysApart
<1>5. \A k : \A a \in 1..c : k \in F(a) <=> \E b \in a..c : k \in H(b)
  BY DEF HeldFrom
<1>6. \A a \in 1..c : L[a + 1] \in Pages \/ a = c
  BY <1>1
<1>7. \A a \in 1..c : g[L[a]] = W[L[a]] \o Onward(t, E, g, L[a])
  BY <1>1 DEF Walks
<1>8. \A a \in 1..c : \A k \in F(a) : a < c \/ k \in H(a)
  BY <1>1, <1>5
<1> HIDE DEF L, H, F, c
<1>9. \A a \in 1..c : a < c => F(a) = H(a) \cup F(a + 1)
  <2> SUFFICES ASSUME NEW a \in 1..c, a < c, NEW k PROVE k \in F(a) <=> k \in H(a) \/ k \in F(a + 1)
    OBVIOUS
  <2>1. a + 1 \in 1..c
    BY <1>1
  <2>2. \A b : b \in a..c <=> b = a \/ b \in (a + 1)..c
    BY <1>1
  <2> QED BY <1>5, <2>1, <2>2
<1>10. ASSUME NEW a \in 1..c, L[a] \in E \/ a = c PROVE F(a) = H(a) /\ g[L[a]] = W[L[a]] \o <<>>
  <2>1. \A b \in a..c : b = a \/ (b \in 1..c /\ a < b)
    BY <1>1
  <2>2. a \in a..c
    BY <1>1
  <2>3. a = c => \A b \in a..c : b = a
    BY <1>1
  <2>4. F(a) = H(a)
    BY <1>3, <1>5, <1>10, <2>1, <2>2, <2>3
  <2>5. L[a] \in E \/ t.node[L[a]].next = 0
    BY <1>1, <1>10
  <2>6. Onward(t, E, g, L[a]) = <<>>
    BY <2>5 DEF Onward
  <2> QED BY <1>7, <2>4, <2>6
<1>11. ASSUME NEW a \in 1..c, L[a] \notin E, a < c PROVE g[L[a]] = W[L[a]] \o g[L[a + 1]]
  <2>1. t.node[L[a]].next = L[a + 1] /\ L[a + 1] \in Pages
    BY <1>1, <1>6, <1>11
  <2>2. L[a + 1] # 0
    BY <2>1, PagesAssumption DEF Pages
  <2>3. Onward(t, E, g, L[a]) = g[L[a + 1]]
    BY <1>11, <2>1, <2>2 DEF Onward
  <2> QED BY <1>7, <2>3
<1>12. ASSUME NEW a \in 1..c, L[a] \in E \/ a = c PROVE Selects(g[L[a]], B, F(a))
  <2>1. Selects(W[L[a]], B, H(a))
    BY <1>2
  <2>2. W[L[a]] \in Seq(Rids)
    BY <2>1 DEF Selects
  <2> DEFINE w == W[L[a]]
  <2>3. w \o <<>> = w
    <3>1. w \in Seq(Rids)
      BY <2>2
    <3> HIDE DEF w
    <3> QED BY <3>1
  <2> QED BY <1>10, <1>12, <2>1, <2>3
<1>13. ASSUME NEW a \in 1..c, a < c, Selects(g[L[a + 1]], B, F(a + 1))
       PROVE  Selects(g[L[a]], B, F(a))
  <2>1. CASE L[a] \in E
    BY <1>12, <2>1
  <2>2. CASE L[a] \notin E
    <3>1. g[L[a]] = W[L[a]] \o g[L[a + 1]]
      BY <1>11, <1>13, <2>2
    <3>2. \A x \in H(a), y \in F(a + 1) : x < y
      <4>1. a + 1 \in 1..c /\ \A b \in (a + 1)..c : b \in 1..c /\ a < b
        BY <1>1, <1>13
      <4> QED BY <1>4, <1>5, <4>1
    <3>3. Selects(W[L[a]], B, H(a))
      BY <1>2
    <3>4. Selects(g[L[a]], B, H(a) \cup F(a + 1))
      BY <1>13, <3>1, <3>2, <3>3, SelectsBoth
    <3> QED BY <1>9, <1>13, <3>4
  <2> QED BY <2>1, <2>2
<1>14. 0 \in G
  <2>1. c - 0 = c /\ c \in 1..c /\ 0 \in 0..c
    BY <1>1
  <2> QED BY <1>12, <2>1
<1>15. ASSUME NEW d \in 0..(c - 1), d \in G PROVE d + 1 \in G
  <2>1. d + 1 \in 0..c
    BY <1>1
  <2>2. ASSUME d + 1 < c PROVE Selects(g[L[c - (d + 1)]], B, F(c - (d + 1)))
    <3> DEFINE a == c - (d + 1)
    <3>1. a \in 1..c /\ a < c /\ a + 1 = c - d /\ d < c
      BY <1>1, <2>2
    <3>2. Selects(g[L[a + 1]], B, F(a + 1))
      BY <1>15, <3>1
    <3> HIDE DEF a
    <3>3. Selects(g[L[a]], B, F(a))
      BY <1>13, <3>1, <3>2
    <3> QED BY <3>3 DEF a
  <2> QED BY <2>1, <2>2
<1> HIDE DEF G
<1>16. \A d \in 0..c : d \in G
  BY <1>1, <1>14, <1>15, CountUp
<1>17. ASSUME NEW j \in 1..c PROVE Selects(g[L[j]], B, F(j))
  <2> DEFINE d == c - j
  <2>1. d \in 0..c /\ d < c /\ c - d = j
    BY <1>1
  <2> HIDE DEF d
  <2>2. d < c => Selects(g[L[c - d]], B, F(c - d))
    BY <1>16, <2>1 DEF G
  <2> QED BY <2>1, <2>2
<1> QED BY <1>17 DEF L, c, F

\* full_scan starts at the first leaf.
LEMMA LeftmostIs ==
    ASSUME NEW t, Sound(t)
    PROVE  LeftmostLeaf(t) = Leaves(t)[1] /\ 1 \in 1..Len(Leaves(t))
<1> DEFINE N == t.node
           Body(f, p) == IF N[p].leaf THEN p ELSE f[N[p].kids[1]]
           Is(f) == f = [p \in DOMAIN N |-> Body(f, p)]
           f0 == CHOOSE f : Is(f)
           g == [p \in Pages |-> IF N[p].leaf THEN p ELSE N[p].kids[1]]
<1>1. LeftmostLeaf(t) = f0[t.root]
  BY DEF LeftmostLeaf
<1>2. DOMAIN N = Pages /\ t.root \in Pages
  BY ViewIs, TreeShape
<1>3. 1 \in 1..Len(Leaves(t))
  BY ViewIs
<1>4. \A p \in Pages : p # t.root => N[p].leaf
  BY OnlyRootInner, LeafShape
<1>5. ~N[t.root].leaf => N[t.root].kids = Leaves(t)
  BY DEF Leaves
<1>6. Leaves(t)[1] \in Pages /\ N[Leaves(t)[1]].leaf
  BY <1>3, LeafPage
<1>7. N[t.root].leaf => Leaves(t)[1] = t.root
  BY <1>3, LeafPage
<1> HIDE DEF N
<1>8. \A p \in Pages : ~N[p].leaf => N[p].kids[1] \in Pages /\ N[N[p].kids[1]].leaf
  BY <1>4, <1>5, <1>6
<1>9. Is(g)
  <2>1. ASSUME NEW p \in Pages PROVE g[p] = Body(g, p)
    BY <1>8
  <2> HIDE DEF Body
  <2> QED BY <1>2, <2>1
<1>10. Is(f0)
  <2> HIDE DEF Is
  <2> QED BY <1>9
<1>11. \A p \in Pages : f0[p] = Body(f0, p)
  <2> HIDE DEF f0, Body
  <2> QED BY <1>2, <1>10
<1> HIDE DEF f0
<1>12. \A p \in Pages : N[p].leaf => f0[p] = p
  BY <1>11
<1>13. f0[t.root] = Leaves(t)[1]
  <2>1. CASE N[t.root].leaf
    BY <1>2, <1>7, <1>12, <2>1
  <2>2. CASE ~N[t.root].leaf
    <3>1. f0[t.root] = f0[Leaves(t)[1]]
      BY <1>2, <1>5, <1>11, <2>2
    <3> QED BY <1>6, <1>12, <3>1
  <2> QED BY <2>1, <2>2
<1> QED BY <1>1, <1>3, <1>13

\* What seek answers for each key, and where the keys it finds are.
LEMMA AnswersAre ==
    ASSUME NEW t, Sound(t), NEW B, B = [k \in Keys |-> Seek(t, k)]
    PROVE  /\ B \in Seq(Rids) /\ 1..Len(B) = Keys
           /\ \A j \in 1..Len(Leaves(t)) : Agrees(B, t.node[Leaves(t)[j]])
           /\ HeldFrom(t, 1) \subseteq Keys
           /\ \A k \in Keys : k \in HeldFrom(t, 1) <=> B[k] # 0
<1> DEFINE L == Leaves(t)
           c == Cardinality(Keys)
<1>1. c \in Nat /\ Keys = 1..c
  BY KeysAssumption, FS_CardinalityType
<1>2. \A k \in Keys : B[k] \in Rids /\ B[k] = Seek(t, k)
  BY SeekIs DEF Rids
<1>3. B \in Seq(Rids) /\ 1..Len(B) = Keys
  <2>1. DOMAIN B = 1..c
    BY <1>1
  <2> HIDE DEF c
  <2>2. B \in [1..c -> Rids]
    BY <1>1, <1>2, <2>1
  <2> QED BY <1>1, <2>2
<1>4. ASSUME NEW j \in 1..Len(L), NEW i \in 1..Len(t.node[L[j]].keys)
      PROVE  /\ t.node[L[j]].keys[i] \in Keys /\ B[t.node[L[j]].keys[i]] = t.node[L[j]].vals[i]
             /\ B[t.node[L[j]].keys[i]] # 0
  <2> DEFINE n == t.node[L[j]]
             k == n.keys[i]
  <2>1. L[j] \in Pages /\ LeafSound(n, Seps(t), j)
    BY LeafPage
  <2>2. /\ n.keys \in Seq(Keys) /\ n.vals \in Seq(RowIds) /\ Len(n.vals) = Len(n.keys)
    BY <2>1, SoundLeafShape
  <2>3. k \in Keys /\ n.vals[i] \in RowIds /\ i \in 1..Len(n.vals)
    BY <2>2
  <2>4. Has(n, k, n.vals[i])
    BY <2>3 DEF Has
  <2>5. Binds(t, k, n.vals[i])
    BY <2>1, <2>4 DEF Binds
  <2>6. Seek(t, k) = n.vals[i]
    BY <2>3, <2>5, SeekIs
  <2> QED BY <1>2, <2>3, <2>6, KeysAreInts
<1>5. \A j \in 1..Len(L) : Agrees(B, t.node[L[j]])
  BY <1>4 DEF Agrees
<1>6. ASSUME NEW k
      PROVE  k \in HeldFrom(t, 1)
               <=> \E j \in 1..Len(L) : \E i \in 1..Len(t.node[L[j]].keys) : k = t.node[L[j]].keys[i]
  BY DEF HeldFrom, Held
<1>7. HeldFrom(t, 1) \subseteq Keys /\ \A k \in HeldFrom(t, 1) : B[k] # 0
  BY <1>4, <1>6
<1>8. ASSUME NEW k \in Keys, B[k] # 0 PROVE k \in HeldFrom(t, 1)
  <2>1. Binds(t, k, Seek(t, k))
    BY <1>2, <1>8, SeekIs
  <2>2. PICK p \in Pages : Has(t.node[p], k, Seek(t, k))
    BY <2>1 DEF Binds
  <2>3. PICK i \in 1..Len(t.node[p].vals) : t.node[p].keys[i] = k
    BY <2>2 DEF Has
  <2>4. Len(t.node[p].vals) \in Nat
    <3>1. t.node[p] \in LeafNodes \cup InnerNodes
      BY ViewIs, TreeShape
    <3>2. t.node[p].vals \in Seq(RowIds) \/ t.node[p].vals = <<>>
      BY <3>1, LeafShape, InnerShape
    <3>3. Len(<<>>) \in Nat
      OBVIOUS
    <3> QED BY <3>2, <3>3
  <2>5. Len(t.node[p].vals) > 0
    BY <2>3, <2>4
  <2>6. PICK j \in 1..Len(L) : p = L[j]
    BY <2>5, HolderIsLeaf
  <2>7. Len(t.node[p].vals) = Len(t.node[p].keys)
    BY <2>6, LeafPage DEF LeafSound
  <2> QED BY <1>6, <2>3, <2>6, <2>7
<1> QED BY <1>3, <1>5, <1>7, <1>8

\* All of a sequence is selected at all its places.
LEMMA SelectsAll == ASSUME NEW s \in Seq(Rids) PROVE Selects(s, s, 1..Len(s))
<1> DEFINE c == Len(s)
           ks == [i \in 1..c |-> i]
<1>1. c \in Nat
  OBVIOUS
<1>2. ks \in Seq(Int) /\ Len(ks) = c /\ \A i \in 1..c : ks[i] = i
  <2> HIDE DEF c
  <2> QED BY <1>1
<1> HIDE DEF ks
<1>3. Orders(ks, 1..c)
  BY <1>2 DEF Orders, Increasing
<1>4. Via(ks, s, s, 1..c)
  BY <1>2, <1>3 DEF Via
<1> QED BY <1>4 DEF Selects

\* full_scan selects every key the leaves hold.
LEMMA FullScanIs ==
    ASSUME NEW t, Sound(t), NEW B, B = [k \in Keys |-> Seek(t, k)]
    PROVE  Selects(FullScan(t), B, HeldFrom(t, 1))
<1> DEFINE L == Leaves(t)
           N == t.node
           W == [p \in Pages |-> N[p].vals]
           Body(f, p) == N[p].vals \o IF N[p].next = 0 THEN <<>> ELSE f[N[p].next]
           Is(f) == f = [p \in DOMAIN N |-> Body(f, p)]
           f0 == CHOOSE f : Is(f)
           K == HeldFrom(t, 1)
<1>1. FullScan(t) = f0[L[1]] /\ 1 \in 1..Len(L)
  BY LeftmostIs DEF FullScan
<1>2. DOMAIN N = Pages
  BY ViewIs, TreeShape
<1>3. \A f, p : p \in Pages => Body(f, p) = W[p] \o Onward(t, {}, f, p)
  BY DEF Onward
<1>4. \A f : Is(f) <=> WalkFcn(f, t, W, {})
  <2> HIDE DEF Body, W, N
  <2> QED BY <1>2, <1>3 DEF WalkFcn
<1>5. \E f : WalkFcn(f, t, W, {})
  <2> HIDE DEF W
  <2> QED BY WalkExists
<1>6. Is(f0)
  <2> HIDE DEF Is, W
  <2> QED BY <1>4, <1>5
<1>7. Walks(f0, t, W, {})
  <2>1. WalkFcn(f0, t, W, {})
    <3> HIDE DEF Is, W, f0
    <3> QED BY <1>4, <1>6
  <2> HIDE DEF f0, W
  <2> QED BY <2>1, WalkFcnIs, Zenon
<1> HIDE DEF f0
<1>8. Takes(t, W, B, K)
  <2> SUFFICES ASSUME NEW j \in 1..Len(L) PROVE Selects(W[L[j]], B, K \cap Held(N[L[j]]))
    BY DEF Takes
  <2> DEFINE n == N[L[j]]
             at == 1..Len(n.keys)
  <2>1. LeafSound(n, Seps(t), j) /\ L[j] \in Pages /\ Agrees(B, n)
    BY LeafPage, AnswersAre
  <2>2. n.vals \in Seq(Rids) /\ 1..Len(n.vals) = at
    BY <2>1, SoundLeafShape, RidSeq
  <2>3. Selects(n.vals, n.vals, at)
    <3>1. Selects(n.vals, n.vals, 1..Len(n.vals))
      BY <2>2, SelectsAll
    <3> QED BY <2>2, <3>1
  <2>4. K \cap Held(n) = {n.keys[i] : i \in at}
    <3>1. j \in 1..Len(L)
      OBVIOUS
    <3> QED BY <3>1 DEF HeldFrom, Held
  <2>5. at \in SUBSET (1..Len(n.keys)) /\ W[L[j]] = n.vals
    BY <2>1
  <2> HIDE DEF n, at, K
  <2>6. Selects(n.vals, B, K \cap Held(n))
    BY <2>1, <2>3, <2>4, <2>5, LeafSelects
  <2> QED BY <2>5, <2>6 DEF n
<1>9. StopsInTime(t, {}, K)
  BY DEF StopsInTime
<1>10. Selects(f0[L[1]], B, K \cap HeldFrom(t, 1))
  <2> HIDE DEF W, K
  <2>1. \A j \in 1..Len(Leaves(t)) : Selects(f0[Leaves(t)[j]], B, K \cap HeldFrom(t, j))
    BY <1>7, <1>8, <1>9, WalkSelects
  <2> QED BY <1>1, <2>1
<1>11. K \cap HeldFrom(t, 1) = HeldFrom(t, 1)
  OBVIOUS
<1> QED BY <1>1, <1>10, <1>11

\* The keys a range asks for.
Wanted(lo, hi, inclusive) ==
    {k \in Keys : IF inclusive THEN lo <= k /\ k <= hi ELSE lo < k /\ k < hi}

\* No key a range asks for is in a leaf before the leaf of its lower end.
LEMMA NoneBefore ==
    ASSUME NEW t, Sound(t), NEW lo \in Keys, NEW hi \in Keys, NEW inclusive \in BOOLEAN,
           NEW j, j = ChildIndex(Seps(t), lo), NEW a \in 1..Len(Leaves(t)), a < j,
           NEW k \in Wanted(lo, hi, inclusive)
    PROVE  k \notin Held(t.node[Leaves(t)[a]])
<1> DEFINE n == t.node[Leaves(t)[a]]
           S == Seps(t)
<1>1. LeafSound(n, S, a) /\ Seps(t) \in Seq(Keys)
  BY LeafPage, ViewIs
<1>2. j \in 1..(Len(S) + 1) /\ \A b \in 1..Len(S) : b < j => S[b] <= lo
  BY <1>1, ChildIndexIs
<1>3. Len(S) \in Nat /\ a \in Nat /\ a >= 1
  BY <1>1, ViewIs
<1>4. a \in 1..Len(S)
  BY <1>2, <1>3
<1>5. S[a] <= lo /\ S[a] \in Int /\ lo \in Int /\ k \in Int /\ lo <= k
  <2>1. S[a] \in Keys /\ k \in Keys /\ S[a] <= lo
    BY <1>1, <1>2, <1>4 DEF Wanted
  <2>2. S[a] \in Int /\ lo \in Int /\ k \in Int
    BY <2>1, KeysAreInts
  <2>3. lo <= k \/ lo < k
    BY DEF Wanted
  <2> HIDE DEF S
  <2> QED BY <2>1, <2>2, <2>3
<1>6. ASSUME NEW i \in 1..Len(n.keys), k = n.keys[i] PROVE FALSE
  <2>1. n.keys[i] < S[a]
    BY <1>1, <1>3, <1>4 DEF LeafSound, Between
  <2> HIDE DEF S
  <2> QED BY <1>5, <1>6, <2>1
<1> QED BY <1>6 DEF Held

\* range selects the keys it asks for that the leaves hold.
LEMMA RangeIs ==
    ASSUME NEW t, Sound(t), NEW B, B = [k \in Keys |-> Seek(t, k)],
           NEW lo \in Keys, NEW hi \in Keys, NEW inclusive \in BOOLEAN
    PROVE  Selects(Range2(t, lo, hi, inclusive), B, Wanted(lo, hi, inclusive) \cap HeldFrom(t, 1))
<1> DEFINE L == Leaves(t)
           N == t.node
           in(k) == IF inclusive THEN lo <= k /\ k <= hi ELSE lo < k /\ k < hi
           hits(p) == {i \in DOMAIN N[p].keys : in(N[p].keys[i])}
           above(p) == \E i \in DOMAIN N[p].keys : N[p].keys[i] > hi
           W == [p \in Pages |-> Picked(N[p].vals, hits(p))]
           E == {p \in Pages : above(p)}
           Body(f, p) == Picked(N[p].vals, hits(p))
                           \o IF above(p) \/ N[p].next = 0 THEN <<>> ELSE f[N[p].next]
           Is(f) == f = [p \in DOMAIN N |-> Body(f, p)]
           f0 == CHOOSE f : Is(f)
           K == Wanted(lo, hi, inclusive)
           j0 == ChildIndex(Seps(t), lo)
<1>1. Range2(t, lo, hi, inclusive) = f0[L[j0]] /\ j0 \in 1..Len(L)
  <2>1. Range2(t, lo, hi, inclusive) = f0[FindLeaf(t, lo)]
    BY DEF Range2
  <2>2. FindLeaf(t, lo) = L[j0] /\ j0 \in 1..Len(L)
    BY FindLeafIs DEF FindLeaf
  <2> HIDE DEF f0, j0
  <2> QED BY <2>1, <2>2
<1>2. DOMAIN N = Pages
  BY ViewIs, TreeShape
<1>3. \A f, p : p \in Pages => Body(f, p) = W[p] \o Onward(t, E, f, p)
  <2> HIDE DEF above, hits
  <2> QED BY DEF Onward
<1>4. \A f : Is(f) <=> WalkFcn(f, t, W, E)
  <2> HIDE DEF Body, W, N, E
  <2> QED BY <1>2, <1>3 DEF WalkFcn
<1>5. \E f : WalkFcn(f, t, W, E)
  <2> HIDE DEF W, E
  <2> QED BY WalkExists
<1>6. Is(f0)
  <2> HIDE DEF Is, W, E
  <2> QED BY <1>4, <1>5
<1>7. Walks(f0, t, W, E)
  <2>1. WalkFcn(f0, t, W, E)
    <3> HIDE DEF Is, W, f0, E
    <3> QED BY <1>4, <1>6
  <2> HIDE DEF f0, W, E
  <2> QED BY <2>1, WalkFcnIs, Zenon
<1> HIDE DEF f0
<1>8. Takes(t, W, B, K)
  <2> SUFFICES ASSUME NEW j \in 1..Len(L) PROVE Selects(W[L[j]], B, K \cap Held(N[L[j]]))
    BY DEF Takes
  <2> DEFINE n == N[L[j]]
             at == hits(L[j])
             r == Picked(n.vals, at)
  <2>1. LeafSound(n, Seps(t), j) /\ L[j] \in Pages /\ Agrees(B, n)
    BY LeafPage, AnswersAre
  <2>2. /\ n.vals \in Seq(Rids) /\ Len(n.vals) = Len(n.keys) /\ n.keys \in Seq(Keys)
        /\ DOMAIN n.keys = 1..Len(n.keys) /\ \A i \in 1..Len(n.keys) : n.keys[i] \in Keys
    <3>1. n.keys \in Seq(Keys) /\ n.vals \in Seq(RowIds) /\ Len(n.vals) = Len(n.keys)
      BY <2>1, SoundLeafShape
    <3>2. n.vals \in Seq(Rids)
      BY <3>1, RidSeq
    <3> HIDE DEF n
    <3> QED BY <3>1, <3>2
  <2>3. at \in SUBSET (1..Len(n.keys))
    <3> HIDE DEF in
    <3> QED BY <2>2
  <2>4. Selects(r, n.vals, at)
    <3> HIDE DEF at
    <3>1. Selects(r, n.vals, at \cap 1..Len(n.vals))
      BY <2>2, PickedIs
    <3>2. at \cap 1..Len(n.vals) = at
      BY <2>2, <2>3
    <3> QED BY <3>1, <3>2
  <2>5. K \cap Held(n) = {n.keys[i] : i \in at}
    <3>1. \A k : k \in K <=> k \in Keys /\ in(k)
      BY DEF Wanted
    <3> HIDE DEF in, K
    <3>2. \A i : i \in at <=> i \in 1..Len(n.keys) /\ in(n.keys[i])
      BY <2>2
    <3> HIDE DEF at, n
    <3> QED BY <2>2, <3>1, <3>2 DEF Held
  <2>6. W[L[j]] = r
    <3> HIDE DEF hits
    <3> QED BY <2>1
  <2> HIDE DEF n, at, K, W, r
  <2>7. Selects(r, B, K \cap Held(n))
    BY <2>1, <2>3, <2>4, <2>5, LeafSelects
  <2> QED BY <2>6, <2>7 DEF n
<1>9. StopsInTime(t, E, K)
  <2> SUFFICES ASSUME NEW j \in 1..Len(L), NEW a \in 1..Len(L), L[j] \in E, j < a,
                      NEW k \in K, k \in Held(N[L[a]])
               PROVE  FALSE
    <3> HIDE DEF E, K
    <3> QED BY DEF StopsInTime
  <2>1. PICK i \in DOMAIN N[L[j]].keys : N[L[j]].keys[i] > hi
    OBVIOUS
  <2>2. DOMAIN N[L[j]].keys = 1..Len(N[L[j]].keys) /\ \A b \in 1..Len(N[L[j]].keys) : N[L[j]].keys[b] \in Int
    <3>1. LeafSound(N[L[j]], Seps(t), j)
      BY LeafPage
    <3> DEFINE ks == N[L[j]].keys
    <3>2. ks \in Seq(Keys) /\ \A b \in 1..Len(ks) : ks[b] \in Int
      BY <3>1, SoundLeafShape
    <3> HIDE DEF ks
    <3>3. DOMAIN ks = 1..Len(ks)
      BY <3>2
    <3> QED BY <3>2, <3>3 DEF ks
  <2> DEFINE x == N[L[j]].keys[i]
  <2>3. x \in Held(N[L[j]]) /\ x \in Int /\ x > hi
    BY <2>1, <2>2 DEF Held
  <2> HIDE DEF x
  <2>4. x < k
    BY <2>3, KeysApart
  <2>5. k \in Int /\ hi \in Int /\ k <= hi
    BY KeysAreInts DEF Wanted
  <2> QED BY <2>3, <2>4, <2>5
<1>10. Selects(f0[L[j0]], B, K \cap HeldFrom(t, j0))
  <2> HIDE DEF W, K, E, j0
  <2>1. \A j \in 1..Len(Leaves(t)) : Selects(f0[Leaves(t)[j]], B, K \cap HeldFrom(t, j))
    BY <1>7, <1>8, <1>9, WalkSelects
  <2> QED BY <1>1, <2>1
<1>11. K \cap HeldFrom(t, 1) = K \cap HeldFrom(t, j0)
  <2> DEFINE c == Len(L)
             H(a) == Held(N[L[a]])
  <2>1. \A a \in 1..c, k \in K : a < j0 => k \notin H(a)
    BY NoneBefore
  <2>2. j0 \in 1..c /\ c \in Nat
    BY <1>1, ViewIs
  <2>3. \A k, a : k \in HeldFrom(t, a) <=> \E b \in a..c : k \in H(b)
    BY DEF HeldFrom
  <2> HIDE DEF H, K, j0, c, L
  <2>4. \A b \in 1..c : b < j0 \/ b \in j0..c
    BY <2>2
  <2>5. \A b \in j0..c : b \in 1..c
    BY <2>2
  <2> QED BY <2>1, <2>3, <2>4, <2>5
<1> HIDE DEF K, j0
<1>12. Selects(f0[L[j0]], B, K \cap HeldFrom(t, 1))
  BY <1>10, <1>11
<1> QED BY <1>1, <1>12 DEF K

\* What a scan has to return: the bindings of the keys of X, in order.
LEMMA InOrderIs ==
    ASSUME NEW t, Sound(t), NEW B, B = [k \in Keys |-> Seek(t, k)], NEW X,
           NEW r, Selects(r, B, X \cap Keys \cap HeldFrom(t, 1))
    PROVE  r = InOrder(B, X \cap Keys)
<1>1. /\ B \in Seq(Rids) /\ 1..Len(B) = Keys
      /\ \A k \in Keys : k \in HeldFrom(t, 1) <=> B[k] # 0
  BY AnswersAre
<1> DEFINE at == {k \in X \cap Keys : B[k] # 0}
<1>2. InOrder(B, X \cap Keys) = Picked(B, at)
  BY DEF InOrder
<1>3. at \cap 1..Len(B) = X \cap Keys \cap HeldFrom(t, 1)
  BY <1>1
<1> HIDE DEF at
<1>4. Selects(Picked(B, at), B, at \cap 1..Len(B))
  BY <1>1, PickedIs
<1>5. Selects(Picked(B, at), B, X \cap Keys \cap HeldFrom(t, 1))
  BY <1>3, <1>4
<1>6. r = Picked(B, at)
  BY <1>5, SelectsOne
<1> QED BY <1>2, <1>6

\* full_scan and range, which follow the chain of leaves, return what seek,
\* which descends from the root, finds for the keys they ask for, in key order.
THEOREM ScansCorrect == Spec => []ScansAgree
<1>1. Inv => ScansAgree
  <2> SUFFICES ASSUME Inv, Intact(tree) PROVE ScansAgree
    BY DEF ScansAgree
  <2> DEFINE B == Bindings
  <2>0. Sound(tree)
    BY IntactIs
  <2>1. B = [k \in Keys |-> Seek(tree, k)]
    BY DEF Bindings
  <2>2. Keys \cap Keys = Keys /\ HeldFrom(tree, 1) \subseteq Keys
    BY <2>0, <2>1, AnswersAre
  <2> HIDE DEF B
  <2>3. FullScan(tree) = InOrder(B, Keys)
    <3>1. Selects(FullScan(tree), B, HeldFrom(tree, 1))
      BY <2>0, <2>1, FullScanIs
    <3>2. Keys \cap Keys \cap HeldFrom(tree, 1) = HeldFrom(tree, 1)
      BY <2>2
    <3>3. Selects(FullScan(tree), B, Keys \cap Keys \cap HeldFrom(tree, 1))
      BY <3>1, <3>2
    <3>4. FullScan(tree) = InOrder(B, Keys \cap Keys)
      BY <2>0, <2>1, <3>3, InOrderIs
    <3> QED BY <2>2, <3>4
  <2>4. ASSUME NEW lo \in Keys, NEW hi \in Keys, NEW inclusive \in BOOLEAN, NEW X,
               X = Wanted(lo, hi, inclusive)
        PROVE  Range2(tree, lo, hi, inclusive) = InOrder(B, X)
    <3>1. X \cap Keys = X
      BY <2>4 DEF Wanted
    <3>2. Selects(Range2(tree, lo, hi, inclusive), B, X \cap HeldFrom(tree, 1))
      BY <2>0, <2>1, <2>4, RangeIs
    <3>3. Selects(Range2(tree, lo, hi, inclusive), B, X \cap Keys \cap HeldFrom(tree, 1))
      BY <3>1, <3>2
    <3>4. Range2(tree, lo, hi, inclusive) = InOrder(B, X \cap Keys)
      BY <2>0, <2>1, <3>3, InOrderIs
    <3> QED BY <3>1, <3>4
  <2>5. ASSUME NEW lo \in Keys, NEW hi \in Keys
        PROVE  lo..hi = Wanted(lo, hi, TRUE) /\ (lo + 1)..(hi - 1) = Wanted(lo, hi, FALSE)
    <3> DEFINE c == Cardinality(Keys)
    <3>1. c \in Nat /\ Keys = 1..c
      BY KeysAssumption, FS_CardinalityType
    <3> HIDE DEF c
    <3> QED BY <3>1 DEF Wanted
  <2>6. ASSUME NEW lo \in Keys, NEW hi \in Keys
        PROVE  /\ Range2(tree, lo, hi, TRUE) = InOrder(B, lo..hi)
               /\ Range2(tree, lo, hi, FALSE) = InOrder(B, (lo + 1)..(hi - 1))
    <3> DEFINE X == lo..hi
               Y == (lo + 1)..(hi - 1)
    <3>1. X = Wanted(lo, hi, TRUE) /\ Y = Wanted(lo, hi, FALSE)
      BY <2>5
    <3> HIDE DEF X, Y
    <3>2. Range2(tree, lo, hi, TRUE) = InOrder(B, X) /\ Range2(tree, lo, hi, FALSE) = InOrder(B, Y)
      BY <2>4, <3>1
    <3> QED BY <3>2 DEF X, Y
  <2> QED BY <2>3, <2>6 DEF ScansAgree, B
<1> QED BY <1>1, TreeInvariant, PTL

-----------------------------------------------------------------------------
(* The ordered map                                                         *)

\* Every leaf of a tree with several holds MinKeys keys that no other holds: the
\* keys of c leaves are MinKeys * c.
LEMMA ManyKeys ==
    ASSUME NEW t, Sound(t), Sized(t), NEW c \in Nat, c <= Len(Leaves(t)), Len(Leaves(t)) > 1,
           NEW H, H = {k \in Keys : Seek(t, k) # 0}
    PROVE  IsFiniteSet(H) /\ Cardinality(H) >= MinKeys * c
<1> DEFINE L == Leaves(t)
           A == 1..MinKeys
           C == 1..c
           key(i, a) == t.node[L[a]].keys[i]
           f == [x \in A \X C |-> key(x[1], x[2])]
<1>1. MinKeys \in Nat /\ Len(L) \in Nat
  BY MinKeysIs, ViewIs
<1>2. IsFiniteSet(H)
  <2>1. H \in SUBSET Keys
    OBVIOUS
  <2> QED BY <2>1, KeysAssumption, FS_Subset
<1>3. IsFiniteSet(A) /\ Cardinality(A) = MinKeys /\ IsFiniteSet(C) /\ Cardinality(C) = c
  <2>1. ASSUME NEW n \in Nat PROVE IsFiniteSet(1..n) /\ Cardinality(1..n) = n
    <3>1. 1 \in Int /\ n \in Int
      OBVIOUS
    <3>2. IsFiniteSet(1..n) /\ Cardinality(1..n) = IF 1 > n THEN 0 ELSE n - 1 + 1
      BY ONLY <3>1, FS_Interval, Zenon
    <3> QED BY <3>2
  <2> HIDE DEF MinKeys
  <2> QED BY <1>1, <2>1
<1>4. IsFiniteSet(A \X C) /\ Cardinality(A \X C) = MinKeys * c
  <2> HIDE DEF A, C
  <2> QED BY <1>3, FS_Product
<1>5. \A a \in C : a \in 1..Len(L)
  BY <1>1
<1>6. ASSUME NEW a \in C, NEW i \in A PROVE i \in 1..Len(t.node[L[a]].keys)
  <2>1. Len(t.node[L[a]].keys) >= MinKeys
    BY <1>5 DEF Sized
  <2>2. Len(t.node[L[a]].keys) \in Nat
    BY <1>5, LeafPage, SoundLeafShape
  <2> HIDE DEF MinKeys
  <2> QED BY <1>1, <2>1, <2>2
<1>7. ASSUME NEW a \in C, NEW i \in A PROVE key(i, a) \in Held(t.node[L[a]]) /\ key(i, a) \in Int
  <2>1. i \in 1..Len(t.node[L[a]].keys)
    BY <1>6
  <2>2. key(i, a) \in Int
    BY <1>5, <2>1, LeafPage, SoundLeafShape
  <2> HIDE DEF A, C
  <2> QED BY <2>1, <2>2 DEF Held
<1>8. ASSUME NEW a \in C, NEW i \in A PROVE key(i, a) \in H
  <2> DEFINE B == [k \in Keys |-> Seek(t, k)]
  <2>1. HeldFrom(t, 1) \subseteq Keys /\ \A k \in Keys : k \in HeldFrom(t, 1) <=> B[k] # 0
    BY AnswersAre
  <2>2. key(i, a) \in HeldFrom(t, 1)
    <3>1. key(i, a) \in Held(t.node[L[a]]) /\ a \in 1..Len(L)
      BY <1>5, <1>7
    <3> HIDE DEF key
    <3> QED BY <3>1 DEF HeldFrom
  <2> HIDE DEF key
  <2> QED BY <2>1, <2>2
<1>9. ASSUME NEW a \in C, NEW i \in A, NEW b \in C, NEW j \in A, key(i, a) = key(j, b)
      PROVE  a = b /\ i = j
  <2>1. key(i, a) \in Held(t.node[L[a]]) /\ key(j, b) \in Held(t.node[L[b]])
        /\ key(i, a) \in Int /\ key(j, b) \in Int
    BY <1>7
  <2>2. a \in 1..Len(L) /\ b \in 1..Len(L) /\ a \in Int /\ b \in Int
    BY <1>5
  <2>3. ~(a < b)
    <3>1. a < b => key(i, a) < key(j, b)
      <4> HIDE DEF key
      <4> QED BY <2>1, <2>2, KeysApart
    <3> HIDE DEF key
    <3> QED BY <1>9, <2>1, <3>1
  <2>4. ~(b < a)
    <3>1. b < a => key(j, b) < key(i, a)
      <4> HIDE DEF key
      <4> QED BY <2>1, <2>2, KeysApart
    <3> HIDE DEF key
    <3> QED BY <1>9, <2>1, <3>1
  <2>5. a = b
    BY <2>2, <2>3, <2>4
  <2> DEFINE ks == t.node[L[a]].keys
  <2>6. Increasing(ks) /\ i \in 1..Len(ks) /\ j \in 1..Len(ks) /\ ks[i] = ks[j] /\ ks[i] \in Int
    BY <1>6, <1>9, <2>1, <2>2, <2>5, LeafPage DEF LeafSound
  <2> HIDE DEF ks
  <2>7. i = j
    BY <2>6 DEF Increasing
  <2> QED BY <2>5, <2>7
<1> HIDE DEF A, C, key
<1>10. f \in Injection(A \X C, H)
  <2>1. f \in [A \X C -> H]
    BY <1>8
  <2>2. ASSUME NEW x \in A \X C, NEW y \in A \X C, f[x] = f[y] PROVE x = y
    <3>1. x[1] \in A /\ x[2] \in C /\ y[1] \in A /\ y[2] \in C /\ x = <<x[1], x[2]>> /\ y = <<y[1], y[2]>>
      OBVIOUS
    <3>2. key(x[1], x[2]) = key(y[1], y[2])
      BY <2>2
    <3>3. x[2] = y[2] /\ x[1] = y[1]
      BY <1>9, <3>1, <3>2
    <3> QED BY <3>1, <3>3
  <2> HIDE DEF f
  <2> QED BY <2>1, <2>2 DEF Injection, IsInjective
<1> HIDE DEF f
<1>11. Cardinality(A \X C) <= Cardinality(H)
  BY <1>2, <1>10, FS_Injection
<1>12. Cardinality(H) \in Nat /\ Cardinality(A \X C) \in Nat
  BY <1>2, <1>4, FS_CardinalityType
<1> QED BY <1>2, <1>4, <1>11, <1>12

\* What seek answers in a tree that can be read, and in one that cannot.
LEMMA BindingsAre ==
    ASSUME Intact(tree), Sound(tree), NEW k \in Keys
    PROVE  /\ Bindings = [k2 \in Keys |-> Seek(tree, k2)]
           /\ Bindings # Map!Lost
<1>1. Bindings = [k2 \in Keys |-> Seek(tree, k2)]
  BY DEF Bindings
<1>2. Seek(tree, k) \in RowIds \cup {0}
  BY SeekIs
<1>3. Seek(tree, k) # -1
  BY <1>2, RowIdsAssumption
<1>4. Bindings[k] # Map!Lost[k]
  BY <1>1, <1>3 DEF Map!Lost
<1> QED BY <1>1, <1>4

\* The map counts its keys as the tree does.
LEMMA MapCardinality == \A S : Map!Cardinality(S) = Cardinality(S)
BY DEF Cardinality, Map!Cardinality

\* An insert binds its key alone, or makes the tree unreadable, and then the
\* keys with the new one are at least Limit.
LEMMA InsertStep ==
    ASSUME Inv, NEW k \in Keys, NEW r \in RowIds, Insert(k, r)
    PROVE  Map!Insert(k, r) \/ Map!Overflow(k)
<1>1. PICK u : Sound(u) /\ Sized(u) /\ BoundTo(tree, u, k, r) /\ tree' = Stored(u)
  BY InsertedSound
<1>2. Sound(tree) /\ Intact(tree)
  BY InsertedSound
<1>3. \A k2 \in Keys : Seek(u, k2) = IF k2 = k THEN r ELSE Seek(tree, k2)
  BY <1>1, <1>2, SeekAfter
<1>4. Bindings = [k2 \in Keys |-> Seek(tree, k2)] /\ Bindings # Map!Lost
  BY <1>2, BindingsAre
<1>5. CASE Fits(u.node[u.root])
  <2>1. tree' = u /\ Intact(u)
    BY <1>1, <1>5, StoredIs
  <2>2. Bindings' = [k2 \in Keys |-> Seek(u, k2)]
    BY <2>1 DEF Bindings
  <2>3. Bindings' = [Bindings EXCEPT ![k] = r]
    BY <1>3, <1>4, <2>2
  <2> QED BY <1>4, <2>3 DEF Map!Insert
<1>6. CASE ~Fits(u.node[u.root])
  <2>1. ~Intact(tree') /\ Len(Leaves(u)) > Fanout
    BY <1>1, <1>6, StoredIs
  <2>2. Bindings' = Map!Lost
    BY <2>1 DEF Bindings, Map!Lost
  <2> DEFINE H == {k2 \in Keys : Seek(u, k2) # 0}
             G == {j \in Keys : Bindings[j] # 0} \cup {k}
  <2>3. IsFiniteSet(H) /\ Cardinality(H) >= MinKeys * (Fanout + 1)
    <3>1. Len(Leaves(u)) \in Nat /\ Fanout \in Nat /\ Fanout > 1
      BY <1>1, ViewIs, FanoutAssumption, OrderAssumption
    <3>2. Fanout + 1 \in Nat /\ Fanout + 1 <= Len(Leaves(u)) /\ Len(Leaves(u)) > 1
      BY <2>1, <3>1
    <3> QED BY <1>1, <3>2, ManyKeys
  <2>4. H \subseteq G /\ G \subseteq Keys
    BY <1>3, <1>4
  <2> HIDE DEF H, G
  <2>5. IsFiniteSet(G) /\ Cardinality(H) <= Cardinality(G)
    <3>1. IsFiniteSet(G)
      BY <2>4, KeysAssumption, FS_Subset
    <3> QED BY <2>4, <3>1, FS_Subset
  <2>6. Cardinality(G) >= Limit
    <3>1. Limit = MinKeys * (Fanout + 1) /\ Limit \in Int
      BY MinKeysIs, FanoutAssumption DEF Limit
    <3>2. Cardinality(G) \in Nat /\ Cardinality(H) \in Nat
      BY <2>3, <2>5, FS_CardinalityType
    <3>3. Cardinality(H) >= Limit
      BY <2>3, <3>1
    <3> HIDE DEF Limit
    <3> QED BY <2>5, <3>1, <3>2, <3>3
  <2>7. Cardinality({j \in Keys : Bindings[j] # 0} \cup {k}) >= Limit
    BY <2>6 DEF G
  <2>8. Map!Cardinality({j \in Keys : Bindings[j] # 0} \cup {k}) >= Limit
    BY <2>7, MapCardinality, Zenon
  <2> HIDE DEF Limit
  <2> QED BY <1>4, <2>2, <2>8, Zenon DEF Map!Overflow
<1> QED BY <1>5, <1>6

\* A delete unbinds its key alone.
LEMMA DeleteStep ==
    ASSUME Inv, NEW k \in Keys, Delete(k)
    PROVE  Map!Delete(k)
<1>1. Sound(tree) /\ Intact(tree) /\ Sound(tree') /\ Unbound(tree, tree', k)
  BY DeletedSound
<1>2. Intact(tree')
  BY <1>1, StoredIs
<1>3. \A k2 \in Keys : Seek(tree', k2) = IF k2 = k THEN 0 ELSE Seek(tree, k2)
  BY <1>1, SeekAfter
<1>4. Bindings = [k2 \in Keys |-> Seek(tree, k2)] /\ Bindings # Map!Lost
  BY <1>1, BindingsAre
<1>5. Bindings' = [k2 \in Keys |-> Seek(tree', k2)]
  BY <1>2 DEF Bindings
<1>6. Bindings' = [Bindings EXCEPT ![k] = 0]
  BY <1>3, <1>4, <1>5
<1> QED BY <1>4, <1>6 DEF Map!Delete

\* The index implements the ordered map: seen through seek, an insert binds its
\* key and a delete unbinds it, and neither touches another key, across splits,
\* borrowing, merges and a root that grows or shrinks; the root that is never
\* split is cut off, with the whole map, by no insert that leaves fewer than
\* Limit keys and by no delete.
THEOREM MapRefinement == Spec => ImplementsMap
<1>1. Init => Map!Init
  <2> SUFFICES ASSUME Init PROVE Bindings = [k \in Keys |-> 0]
    BY DEF Map!Init
  <2>1. Intact(Empty)
    BY EmptyIs, StoredIs
  <2> QED BY <2>1, EmptyIs DEF Init, Bindings
<1>2. Inv /\ [Next]_tree => [Map!Next]_Bindings
  <2> SUFFICES ASSUME Inv, [Next]_tree PROVE [Map!Next]_Bindings
    OBVIOUS
  <2>1. CASE UNCHANGED tree
    BY <2>1 DEF Bindings
  <2>2. ASSUME NEW k \in Keys, Delete(k) PROVE Map!Next
    BY <2>2, DeleteStep DEF Map!Next
  <2>3. ASSUME NEW k \in Keys, NEW r \in RowIds, Insert(k, r) PROVE Map!Next
    BY <2>3, InsertStep DEF Map!Next
  <2> QED BY <2>1, <2>2, <2>3 DEF Next, Raise
<1> QED BY <1>1, <1>2, TreeInvariant, PTL DEF Spec, ImplementsMap, Map!Spec
==============================================================================
