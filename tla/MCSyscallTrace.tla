---------------------------- MODULE MCSyscallTrace ----------------------------
(* Small instances of SyscallTrace for TLC; see the cfg files.               *)
EXTENDS SyscallTrace

CONSTANTS p0, serial
==============================================================================
