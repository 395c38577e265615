--------------------------------- MODULE MCUart ---------------------------------
(* Small instances of Uart for TLC; see the cfg files.                       *)
EXTENDS Uart
================================================================================
