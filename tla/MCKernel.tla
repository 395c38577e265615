------------------------------- MODULE MCKernel -------------------------------
(* Small instances of Kernel for TLC; see the cfg files.                     *)
EXTENDS Kernel

CONSTANTS p0, serial
==============================================================================
