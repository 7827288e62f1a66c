--------------------------- MODULE MCStoreForward ---------------------------
(* Four packets and a queue of two messages.                                 *)
EXTENDS StoreForward
=============================================================================
