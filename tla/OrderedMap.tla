------------------------------ MODULE OrderedMap ------------------------------
(***************************************************************************)
(* What an index promises: a finite map from keys to row ids.  Inserting a *)
(* key that is present replaces its row id; deleting an absent key does    *)
(* nothing.  An insert that brings the map to Limit keys may lose it: then *)
(* no operation succeeds any more.                                         *)
(***************************************************************************)
EXTENDS Integers, FiniteSets

CONSTANTS Keys, RowIds, Limit

VARIABLE map    \* map[k]: the row id of k, or 0

Lost == [k \in Keys |-> -1]

Init == map = [k \in Keys |-> 0]

Insert(k, r) == map' = [map EXCEPT ![k] = r] /\ map # Lost

Delete(k) == map' = [map EXCEPT ![k] = 0] /\ map # Lost

Overflow(k) ==
    /\ map' = Lost /\ map # Lost
    /\ Cardinality({j \in Keys : map[j] # 0} \cup {k}) >= Limit

Next == \E k \in Keys : Delete(k) \/ Overflow(k) \/ \E r \in RowIds : Insert(k, r)

Spec == Init /\ [][Next]_map
===============================================================================
