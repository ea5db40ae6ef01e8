----------------------------- MODULE MCHeapBytes -----------------------------
EXTENDS HeapBytes

ZeroAndOne == {0, 1}
TwoLengths == {1, 2}
All == {"insert", "update", "delete"}
==============================================================================
