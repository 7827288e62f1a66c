--------------------------- MODULE MCAnchorEvents ---------------------------
(* Four frames, so that a frame can meet each buffer full, empty or half     *)
(* copied and there is one more after it.                                    *)
EXTENDS AnchorEvents
=============================================================================
