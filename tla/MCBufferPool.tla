----------------------------- MODULE MCBufferPool -----------------------------
EXTENDS BufferPool

CONSTANTS c1, c2, a, b

TwoClients == {c1, c2}
ThreePages == 1..3
TwoValues == {a, b}
===============================================================================
