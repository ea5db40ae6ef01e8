----------------------------- MODULE MCTableHeap -----------------------------
EXTENDS TableHeap

TwoKeys == {1, 2}
OneLength == {1}
TwoLengths == {1, 2}
All == {"insert", "update", "delete"}
NoUpdate == {"insert", "delete"}
==============================================================================
