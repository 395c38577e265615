----------------------------- MODULE MCEchoSystem -----------------------------
(* Small instances of EchoSystem for TLC; see the cfg files.                 *)
EXTENDS EchoSystem

CONSTANT serial
==============================================================================
