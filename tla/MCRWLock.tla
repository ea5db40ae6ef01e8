------------------------------ MODULE MCRWLock ------------------------------
EXTENDS RWLock, TLC

CONSTANTS t1, t2, t3, t4

Three == {t1, t2, t3}
Four == {t1, t2, t3, t4}

Symmetry == Permutations(Threads)

Kinds == {"read", "write"}

AllTimed == Threads \X Kinds

\* t1 waits for the write lock as long as it takes.
OnePatientWriter == AllTimed \ {<<t1, "write">>}
=============================================================================
