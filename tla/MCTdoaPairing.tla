---------------------------- MODULE MCTdoaPairing ----------------------------
(* Three standard cards for two slots and one test card; the radio's clock   *)
(* wraps every 8 ticks and sequence numbers every 4 polls.                   *)
EXTENDS TdoaPairing, TLC

CONSTANTS c1, c2, c3, t1
Symmetry == Permutations(StdCards)
=============================================================================
