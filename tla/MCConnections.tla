---------------------------- MODULE MCConnections ----------------------------
EXTENDS Connections

CONSTANTS c1, c2

TwoConns == {c1, c2}
TwoTables == 1..2
==============================================================================
