----------------------------- MODULE MCBPlusTree -----------------------------
(***************************************************************************)
(* Two trees, of which a behaviour builds one.  In the first, of order 1,  *)
(* five keys are enough to cut the root; the second, of order 4, is too    *)
(* small for that, but its leaves are merged and borrow with keys on both  *)
(* sides, which takes MinKeys > 1.                                         *)
(***************************************************************************)
EXTENDS BPlusTree

FiveKeys == 1..5
SixKeys == 1..6
SevenKeys == 1..7
OneRow == {1}

VARIABLE wide

Wide == INSTANCE BPlusTree WITH tree <- wide, Keys <- SevenKeys,
                                Order <- 4, Fanout <- 6, MaxPages <- 5

MCInit == Init /\ Wide!Init

MCNext ==
    \/ wide = Wide!Empty /\ Next /\ UNCHANGED wide
    \/ /\ tree = Empty /\ UNCHANGED tree
       /\ \E k \in SevenKeys : Wide!Delete(k) \/ \E r \in RowIds : Wide!Insert(k, r)

MCSpec == MCInit /\ [][MCNext]_<<tree, wide>>

\* The tree of order 4, as seen through seek, is an ordered map as well, when
\* separators change with the keys that leaves pass to each other; its leaves, pages
\* and chain are in order after every split, borrowing and merge.
WideTreeIsMap ==
    /\ Wide!ImplementsMap
    /\ [](Wide!LeavesWithinBounds /\ Wide!PagesAccounted /\ Wide!ScansAgree)
==============================================================================
