----------------------------- MODULE MCPageStore -----------------------------
EXTENDS PageStore, TLC

CONSTANTS t1, t2, t3

TwoTables == {t1, t2}
ThreeTables == {t1, t2, t3}

Symmetry == Permutations(Tables)

AllKinds == {"create", "drop", "insert"}
RowsOnly == {"insert"}
DropOnly == {"drop"}
NoKind == {}

\* A file whose free list is already damaged promises nothing more: its
\* states are checked, and not explored further.
Undamaged == Avoided({"stale_head", "undropped"})
==============================================================================
