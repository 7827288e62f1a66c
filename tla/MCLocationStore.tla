--------------------------- MODULE MCLocationStore ---------------------------
(* Three blocks that hold at most two to four packets each.                  *)
EXTENDS LocationStore
=============================================================================
