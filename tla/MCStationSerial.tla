--------------------------- MODULE MCStationSerial ---------------------------
(* Three frames through a ring for three bytes, read two at a time.  One     *)
(* payload looks like the start of a frame and is as long as can be, the      *)
(* other is answered locally.                                                *)
EXTENDS StationSerial

MCPayloads == {<<6, 5>>, <<2>>}
MCLocal == {<<2>>}
=============================================================================
