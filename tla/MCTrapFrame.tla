------------------------------ MODULE MCTrapFrame ------------------------------
(* Small instances of TrapFrame for TLC; see the cfg files.                  *)
EXTENDS TrapFrame
================================================================================
