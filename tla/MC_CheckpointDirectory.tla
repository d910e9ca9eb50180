----------------------- MODULE MC_CheckpointDirectory -----------------------
(* The constants of a checkpoint directory are given by the .cfg files:     *)
(* three particles, worlds of up to three ranks, results x and y.           *)
EXTENDS CheckpointDirectory
==============================================================================
