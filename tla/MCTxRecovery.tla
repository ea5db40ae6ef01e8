---------------------------- MODULE MCTxRecovery ----------------------------
EXTENDS TxRecovery

TwoPages == {1, 2}
TwoValues == {1, 2}

AllClients == {"api", "db"}
Api == {"api"}
Db == {"db"}

AllHabits == {"once", "checkpointOnOpen", "checkpointIdle"}
RepeatedWrites == {"checkpointOnOpen", "checkpointIdle"}
KeepsOldLog == {"once", "checkpointIdle"}
EagerCheckpoint == {"once", "checkpointOnOpen"}
=============================================================================
