--------------------------- MODULE MCCardTransmit ---------------------------
(* Two test cards and another standard card for a list of two, so that a     *)
(* mixed-up address can push an entry out; three receptions between two      *)
(* polls, so that one can come while another is handled and one fail after.  *)
EXTENDS CardTransmit
=============================================================================
