------------------------------ MODULE BPlusTree ------------------------------
(***************************************************************************)
(* The B+ tree index of tinydb/index.py.  A tree is one value:             *)
(*   node   the node stored in each page                                   *)
(*   root   _root_page_id                                                  *)
(*   ids    page_ids, the pages the tree believes it owns                  *)
(*   free   the store's free list, most recently freed first               *)
(*   count  the store's page_count                                         *)
(* Every operation of the class is an operator from trees to trees; path   *)
(* holds pairs <<page, child index>> from the root down, indices from 1.   *)
(***************************************************************************)
EXTENDS Integers, Sequences, SequencesExt

CONSTANTS Keys,      \* the keys 1..n
          RowIds,    \* positive row ids
          Order,     \* _order: the maximum number of keys of a node
          Fanout,    \* the children of an internal node whose page has no room for more
          MaxPages   \* bound: pages of the file

ASSUME KeysAssumption == IsFiniteSet(Keys) /\ Keys = 1..Cardinality(Keys)
ASSUME RowIdsAssumption == RowIds \subseteq Nat \ {0}
ASSUME OrderAssumption == Order \in Nat \ {0}
\* Keys have one width.  An entry of a leaf is four bytes longer than one of an
\* internal node: where the leaf about to be split fits, so do Order + 2 children.
ASSUME FanoutAssumption == Fanout \in Nat /\ Fanout > Order + 1
ASSUME PagesAssumption == MaxPages \in Nat \ {0}

MinKeys == IF Order \div 2 > 1 THEN Order \div 2 ELSE 1

VARIABLE tree

Leaf(keys, vals, next) ==
    [leaf |-> TRUE, keys |-> keys, vals |-> vals, kids |-> <<>>, next |-> next]

Internal(keys, kids) ==
    [leaf |-> FALSE, keys |-> keys, vals |-> <<>>, kids |-> kids, next |-> 0]

Write(t, p, node) == [t EXCEPT !.node[p] = node]

\* alloc_page: the page it returns, and the tree after the call.
NewPage(t) == IF t.free # <<>> THEN Head(t.free) ELSE t.count

Allocated(t) ==
    IF t.free # <<>>
      THEN [t EXCEPT !.free = Tail(@), !.ids = @ \cup {NewPage(t)}]
      ELSE [t EXCEPT !.count = @ + 1, !.ids = @ \cup {NewPage(t)}]

\* free_page, which overwrites the page, together with page_ids.discard.
Freed(t, p) ==
    [t EXCEPT !.free = <<p>> \o @, !.ids = @ \ {p}, !.node[p] = Leaf(<<>>, <<>>, 0)]

Empty == [node |-> [p \in 1..MaxPages |-> Leaf(<<>>, <<>>, 0)], root |-> 1,
          ids |-> {1}, free |-> <<>>, count |-> 2]

-----------------------------------------------------------------------------
(* Search                                                                  *)

\* _child_index: the first separator greater than the key.
ChildIndex(keys, k) ==
    LET above == {i \in DOMAIN keys : k < keys[i]} IN
      IF above = {} THEN Len(keys) + 1 ELSE CHOOSE i \in above : \A j \in above : i <= j

\* _find_leaf_with_path: the pages and child indices passed, then the leaf.
Path(t, k) ==
    LET from[p \in DOMAIN t.node] ==
          IF t.node[p].leaf THEN <<>>
          ELSE LET i == ChildIndex(t.node[p].keys, k)
               IN  <<<<p, i>>>> \o from[t.node[p].kids[i]]
    IN  from[t.root]

PathEnd(t, path) ==
    IF path = <<>> THEN t.root ELSE t.node[Last(path)[1]].kids[Last(path)[2]]

FindLeaf(t, k) == PathEnd(t, Path(t, k))

Position(keys, k) == {i \in DOMAIN keys : keys[i] = k}

\* seek, with 0 for the empty list.
Seek(t, k) ==
    LET n == t.node[FindLeaf(t, k)]
        at == Position(n.keys, k)
    IN  IF at = {} THEN 0 ELSE n.vals[CHOOSE i \in at : \A j \in at : i <= j]

\* The elements of a sequence at the given places, in order.
Picked(vals, at) ==
    LET first[n \in 0..Len(vals)] ==
          IF n = 0 THEN <<>>
          ELSE IF n \in at THEN Append(first[n - 1], vals[n]) ELSE first[n - 1]
    IN  first[Len(vals)]

\* range: follow the leaf chain from the leaf of lo, stop at a key above hi.
Range2(t, lo, hi, inclusive) ==
    LET in(k) == IF inclusive THEN lo <= k /\ k <= hi ELSE lo < k /\ k < hi
        from[p \in DOMAIN t.node] ==
          LET n == t.node[p]
              hits == {i \in DOMAIN n.keys : in(n.keys[i])}
              above == \E i \in DOMAIN n.keys : n.keys[i] > hi
          IN  Picked(n.vals, hits) \o IF above \/ n.next = 0 THEN <<>> ELSE from[n.next]
    IN  from[FindLeaf(t, lo)]

\* full_scan: the leftmost leaf, then the whole chain.
LeftmostLeaf(t) ==
    LET from[p \in DOMAIN t.node] ==
          IF t.node[p].leaf THEN p ELSE from[t.node[p].kids[1]]
    IN  from[t.root]

FullScan(t) ==
    LET chain[p \in DOMAIN t.node] ==
          t.node[p].vals \o IF t.node[p].next = 0 THEN <<>> ELSE chain[t.node[p].next]
    IN  chain[LeftmostLeaf(t)]

-----------------------------------------------------------------------------
(* Split                                                                   *)

\* The two halves of an overfull node, the right one in page q.
LeftHalf(n, mid, q) ==
    IF n.leaf THEN Leaf(SubSeq(n.keys, 1, mid), SubSeq(n.vals, 1, mid), q)
    ELSE Internal(SubSeq(n.keys, 1, mid), SubSeq(n.kids, 1, mid + 1))

\* Mutant of RightHalf: a leaf's middle key goes up and into neither half.
RightHalfDropping(n, mid) ==
    IF n.leaf
      THEN Leaf(SubSeq(n.keys, mid + 2, Len(n.keys)), SubSeq(n.vals, mid + 2, Len(n.vals)), n.next)
      ELSE Internal(SubSeq(n.keys, mid + 2, Len(n.keys)), SubSeq(n.kids, mid + 2, Len(n.kids)))

RightHalf(n, mid) ==
    IF n.leaf
      THEN Leaf(SubSeq(n.keys, mid + 1, Len(n.keys)), SubSeq(n.vals, mid + 1, Len(n.vals)), n.next)
      ELSE Internal(SubSeq(n.keys, mid + 2, Len(n.keys)), SubSeq(n.kids, mid + 2, Len(n.kids)))

\* Split the node in page p; q is the page of the right half.
SplitNode(t, p) ==
    LET n == t.node[p]
        mid == Len(n.keys) \div 2
        q == NewPage(t)
    IN  Write(Write(Allocated(t), p, LeftHalf(n, mid, q)), q, RightHalf(n, mid))

\* _split_and_propagate with an empty path: only a root that is a leaf grows
\* a new root above it.
SplitRoot(t) ==
    LET n == t.node[t.root]
        q == NewPage(t)
        s == SplitNode(t, t.root)
        r == NewPage(s)
    IN  IF ~n.leaf \/ Len(n.keys) <= Order THEN t
        ELSE [Write(Allocated(s), r,
                    Internal(<<n.keys[Len(n.keys) \div 2 + 1]>>, <<t.root, q>>))
              EXCEPT !.root = r]

\* One level of _split_and_propagate: the tree, and whether the parent is now overfull.
SplitChild(t, parent, i) ==
    LET child == t.node[parent].kids[i]
        keys == t.node[child].keys
        up == Internal(InsertAt(t.node[parent].keys, i, keys[Len(keys) \div 2 + 1]),
                       InsertAt(t.node[parent].kids, i + 1, NewPage(t)))
    IN  IF Len(keys) <= Order THEN [tree |-> t, more |-> FALSE]
        ELSE [tree |-> Write(SplitNode(t, child), parent, up), more |-> Len(up.keys) > Order]

\* _split_and_propagate, from the leaf up while a parent is overfull.
SplitAndPropagate(t, path) ==
    LET level(n) == path[Len(path) - n + 1]
        after[n \in 0..Len(path)] ==
          IF n = 0 THEN [tree |-> t, more |-> TRUE]
          ELSE IF after[n - 1].more THEN SplitChild(after[n - 1].tree, level(n)[1], level(n)[2])
          ELSE after[n - 1]
        top == after[Len(path)]
    IN  IF top.more THEN SplitRoot(top.tree) ELSE top.tree

\* Mutant of Inserted: a leaf is split one key too late.
InsertedLate(t, k, r) ==
    LET path == Path(t, k)
        p == PathEnd(t, path)
        n == t.node[p]
        at == Position(n.keys, k)
        i == ChildIndex(n.keys, k)
        grown == Write(t, p, Leaf(InsertAt(n.keys, i, k), InsertAt(n.vals, i, r), n.next))
    IN  IF at # {} THEN Write(t, p, [n EXCEPT !.vals[CHOOSE j \in at : TRUE] = r])
        ELSE IF Len(n.keys) > Order THEN SplitAndPropagate(grown, path)
        ELSE grown

\* insert
Inserted(t, k, r) ==
    LET path == Path(t, k)
        p == PathEnd(t, path)
        n == t.node[p]
        at == Position(n.keys, k)
        i == ChildIndex(n.keys, k)    \* _bisect_right finds the same place
        grown == Write(t, p, Leaf(InsertAt(n.keys, i, k), InsertAt(n.vals, i, r), n.next))
    IN  IF at # {} THEN Write(t, p, [n EXCEPT !.vals[CHOOSE j \in at : TRUE] = r])
        ELSE IF Len(n.keys) + 1 > Order THEN SplitAndPropagate(grown, path)
        ELSE grown

-----------------------------------------------------------------------------
(* Rebalance: i is the index of the short node, parent the page above it.  *)

BorrowLeft(t, parent, i) ==
    LET up == t.node[parent]
        l == up.kids[i - 1]
        p == up.kids[i]
        left == t.node[l]
        n == t.node[p]
        moved == IF n.leaf THEN Last(left.keys) ELSE up.keys[i - 1]
    IN  Write(Write(Write(t,
          l, [left EXCEPT !.keys = Front(@), !.vals = IF n.leaf THEN Front(@) ELSE @,
                          !.kids = IF n.leaf THEN @ ELSE Front(@)]),
          p, [n EXCEPT !.keys = <<moved>> \o @,
                       !.vals = IF n.leaf THEN <<Last(left.vals)>> \o @ ELSE @,
                       !.kids = IF n.leaf THEN @ ELSE <<Last(left.kids)>> \o @]),
          parent, [up EXCEPT !.keys[i - 1] = Last(left.keys)])

\* Mutant of BorrowRight: the separator becomes the key that moved.
BorrowRightStale(t, parent, i) ==
    LET up == t.node[parent]
        p == up.kids[i]
        r == up.kids[i + 1]
        n == t.node[p]
        right == t.node[r]
        moved == IF n.leaf THEN Head(right.keys) ELSE up.keys[i]
    IN  Write(Write(Write(t,
          p, [n EXCEPT !.keys = Append(@, moved),
                       !.vals = IF n.leaf THEN Append(@, Head(right.vals)) ELSE @,
                       !.kids = IF n.leaf THEN @ ELSE Append(@, Head(right.kids))]),
          r, [right EXCEPT !.keys = Tail(@), !.vals = IF n.leaf THEN Tail(@) ELSE @,
                           !.kids = IF n.leaf THEN @ ELSE Tail(@)]),
          parent, [up EXCEPT !.keys[i] = right.keys[1]])

BorrowRight(t, parent, i) ==
    LET up == t.node[parent]
        p == up.kids[i]
        r == up.kids[i + 1]
        n == t.node[p]
        right == t.node[r]
        moved == IF n.leaf THEN Head(right.keys) ELSE up.keys[i]
    IN  Write(Write(Write(t,
          p, [n EXCEPT !.keys = Append(@, moved),
                       !.vals = IF n.leaf THEN Append(@, Head(right.vals)) ELSE @,
                       !.kids = IF n.leaf THEN @ ELSE Append(@, Head(right.kids))]),
          r, [right EXCEPT !.keys = Tail(@), !.vals = IF n.leaf THEN Tail(@) ELSE @,
                           !.kids = IF n.leaf THEN @ ELSE Tail(@)]),
          parent, [up EXCEPT !.keys[i] = IF n.leaf THEN right.keys[2] ELSE right.keys[1]])

\* _maybe_shrink_root
ShrinkRoot(t, parent) ==
    LET up == t.node[parent] IN
      IF parent = t.root /\ up.keys = <<>> /\ up.kids # <<>>
        THEN [Freed(t, parent) EXCEPT !.root = up.kids[1]]
        ELSE t

\* Mutant of DropChild: the emptied page is not freed.
DropChildLeaking(t, parent, i, k) ==
    LET up == t.node[parent] IN
      ShrinkRoot(Write(t, parent, Internal(RemoveAt(up.keys, k), RemoveAt(up.kids, i))), parent)

\* Remove child i and separator k of the parent.  The trailing call
\* _rebalance([]) of both merges returns at once.
DropChild(t, parent, i, k) ==
    LET up == t.node[parent] IN
      ShrinkRoot(Write(Freed(t, up.kids[i]), parent,
                       Internal(RemoveAt(up.keys, k), RemoveAt(up.kids, i))), parent)

\* Mutant of MergeIntoLeft: the left leaf keeps pointing at the freed one.
MergeIntoLeftChained(t, parent, i) ==
    LET up == t.node[parent]
        l == up.kids[i - 1]
        left == t.node[l]
        n == t.node[up.kids[i]]
        joined == IF n.leaf THEN Leaf(left.keys \o n.keys, left.vals \o n.vals, left.next)
                  ELSE Internal(left.keys \o <<up.keys[i - 1]>> \o n.keys, left.kids \o n.kids)
    IN  DropChild(Write(t, l, joined), parent, i, i - 1)

MergeIntoLeft(t, parent, i) ==
    LET up == t.node[parent]
        l == up.kids[i - 1]
        left == t.node[l]
        n == t.node[up.kids[i]]
        joined == IF n.leaf THEN Leaf(left.keys \o n.keys, left.vals \o n.vals, n.next)
                  ELSE Internal(left.keys \o <<up.keys[i - 1]>> \o n.keys, left.kids \o n.kids)
    IN  DropChild(Write(t, l, joined), parent, i, i - 1)

MergeIntoRight(t, parent, i) ==
    LET up == t.node[parent]
        r == up.kids[i + 1]
        right == t.node[r]
        n == t.node[up.kids[i]]
        joined == IF n.leaf THEN Leaf(n.keys \o right.keys, n.vals \o right.vals, right.next)
                  ELSE Internal(<<up.keys[i]>> \o n.keys \o right.keys, n.kids \o right.kids)
    IN  DropChild(Write(t, r, joined), parent, i, i)

Rebalance(t, path) ==
    LET parent == Last(path)[1]
        i == Last(path)[2]
        kids == t.node[parent].kids
        Spare(j) == Len(t.node[kids[j]].keys) > MinKeys
    IN  IF path = <<>> \/ Len(t.node[PathEnd(t, path)].keys) >= MinKeys THEN t
        ELSE IF i > 1
          THEN IF Spare(i - 1) THEN BorrowLeft(t, parent, i) ELSE MergeIntoLeft(t, parent, i)
        ELSE IF i < Len(kids)
          THEN IF Spare(i + 1) THEN BorrowRight(t, parent, i) ELSE MergeIntoRight(t, parent, i)
        ELSE t

\* delete
Deleted(t, k) ==
    LET path == Path(t, k)
        p == PathEnd(t, path)
        n == t.node[p]
        at == Position(n.keys, k)
        i == CHOOSE j \in at : TRUE
        cut == Write(t, p, Leaf(RemoveAt(n.keys, i), RemoveAt(n.vals, i), n.next))
    IN  IF at = {} THEN t
        ELSE IF Len(n.keys) - 1 < MinKeys /\ p # t.root THEN Rebalance(cut, path)
        ELSE cut

-----------------------------------------------------------------------------
(* The file                                                                *)

\* What _write_node leaves of a node whose body is longer than a page:
\* write_page cuts off the end and _read_node raises on what is left.
Torn == Internal(<<>>, <<>>)

Fits(n) == n.leaf \/ Len(n.kids) <= Fanout

\* The tree as its pages hold it after an operation.
Stored(t) ==
    [t EXCEPT !.node = [p \in DOMAIN t.node |->
                          IF Fits(t.node[p]) THEN t.node[p] ELSE Torn]]

Intact(t) == t.node[t.root] # Torn

-----------------------------------------------------------------------------
Init == tree = Empty

\* A split takes at most two pages.
Room == tree.count + 2 <= MaxPages + 1 \/ Len(tree.free) >= 2

Insert(k, r) == Intact(tree) /\ Room /\ tree' = Stored(Inserted(tree, k, r))

Delete(k) == Intact(tree) /\ tree' = Stored(Deleted(tree, k))

\* Every operation reads the root first, and raises when it was cut.
Raise == ~Intact(tree) /\ UNCHANGED tree

Next == Raise \/ \E k \in Keys : Delete(k) \/ \E r \in RowIds : Insert(k, r)

Spec == Init /\ [][Next]_tree

-----------------------------------------------------------------------------
(* Properties                                                              *)

\* The pages of the tree, from the root down.
Reachable ==
    LET below[p \in DOMAIN tree.node] ==
          {p} \cup UNION {below[tree.node[p].kids[i]] : i \in DOMAIN tree.node[p].kids}
    IN  below[tree.root]

\* What seek answers, -1 when it raises.
Bindings == [k \in Keys |-> IF Intact(tree) THEN Seek(tree, k) ELSE -1]

\* A tree whose root does not fit its page has more than Fanout leaves, and each
\* of them has at least MinKeys keys.
Limit == MinKeys * (Fanout + 1)

\* The tree as seen through seek is an ordered map: an insert or delete changes
\* the answer for its own key and for no other, across splits, borrowing and
\* merges; and no insert that leaves fewer than Limit keys makes it unreadable.
Map == INSTANCE OrderedMap WITH map <- Bindings

ImplementsMap == Map!Spec

\* The row ids a map binds to the keys of a set, in key order.
InOrder(map, within) == Picked(map, {k \in within : map[k] # 0})

\* range and full_scan, which follow the leaf chain, return what seek, which
\* descends from the root, finds, as long as the root can be read: the chain
\* links every leaf once, in order.
ScansAgree ==
    LET found == Bindings IN
      Intact(tree) =>
        /\ FullScan(tree) = InOrder(found, Keys)
        /\ \A lo, hi \in Keys : lo <= hi =>
              /\ Range2(tree, lo, hi, TRUE) = InOrder(found, lo..hi)
              /\ Range2(tree, lo, hi, FALSE) = InOrder(found, (lo + 1)..(hi - 1))

\* As long as the root can be read, every leaf but a root keeps between MinKeys
\* and Order keys, in order.
LeavesWithinBounds ==
    Intact(tree) => \A p \in Reachable : tree.node[p].leaf =>
        /\ Len(tree.node[p].keys) <= Order
        /\ p # tree.root => Len(tree.node[p].keys) >= MinKeys
        /\ \A i \in 1..(Len(tree.node[p].keys) - 1) :
              tree.node[p].keys[i] < tree.node[p].keys[i + 1]

\* The pages the tree owns are those reachable from its root, and it neither
\* leaks a page nor hands one it still uses to the free list; a root that was
\* cut off reaches no page any more, but none of them becomes free.
PagesAccounted ==
    /\ Intact(tree) => Reachable = tree.ids
    /\ {tree.free[i] : i \in DOMAIN tree.free} = (1..(tree.count - 1)) \ tree.ids
    /\ IsInjective(tree.free)

\* A node with more than Order keys is split, leaf or internal: the root is not.
NoOverfullNode == \A p \in Reachable : Len(tree.node[p].keys) <= Order

\* Every node fits its page: the root that is never split outgrows it.
AlwaysReadable == Intact(tree)

TypeOK ==
    /\ tree.root \in 1..MaxPages
    /\ tree.ids \subseteq 1..MaxPages
    /\ tree.count \in 2..(MaxPages + 1)
    /\ \A p \in 1..MaxPages :
          /\ tree.node[p].leaf \in BOOLEAN
          /\ IF tree.node[p].leaf
               THEN Len(tree.node[p].vals) = Len(tree.node[p].keys)
               ELSE tree.node[p] # Torn => Len(tree.node[p].kids) = Len(tree.node[p].keys) + 1
==============================================================================
