--------------------------- MODULE MCRaftRestart ---------------------------
(* Small instances of RaftRestart for TLC. *)
EXTENDS RaftRestart, MCRaft

RestartSettledSpec == Settled /\ restarts = 0 /\ [][RestartNext]_restartVars
=============================================================================
