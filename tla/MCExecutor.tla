------------------------------ MODULE MCExecutor ------------------------------
(* Small instances of Executor for TLC; see the cfg files.                   *)
EXTENDS Executor

CONSTANTS r1, r2, k1
==============================================================================
