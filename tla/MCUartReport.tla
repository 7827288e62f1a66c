---------------------------- MODULE MCUartReport ----------------------------
(* The sizes of the code: 8 entries of 28 bytes, at most 20 in a pack.       *)
EXTENDS UartReport
=============================================================================
