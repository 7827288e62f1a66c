--------------------------- MODULE MCBetterSelect ---------------------------
(* Four standard cards for three slots, so that a new card meets a full      *)
(* table, and two cards may be silent at once beside the sender; two test    *)
(* cards for a table of two, so that relations give way.  The counters wrap  *)
(* at 4, which is 1 more than a round, as 256 is 1 more than 51 rounds.      *)
(* Every pair of cards has a strength of its own.                            *)
EXTENDS BetterSelect

MCStd == 1 .. 4
MCTest == {11, 12}
MCJunk == 99
MCLevel == [s \in MCStd |-> [t \in MCTest |-> {- (10 * s + t)}]]

Heard(s, t) == [test |-> t, rssi |-> - (10 * s + t)]

\* Card 1 hears both and also sends a frame that only carries a count; the
\* others come and go
MCFrames ==
    << {<<Heard(1, 11), Heard(1, 12)>>, <<[test |-> MCJunk, rssi |-> 0]>>},
       {<<Heard(2, 11)>>, <<Heard(2, 12)>>},
       {<<Heard(3, 12), Heard(3, 11)>>, <<Heard(3, 11)>>},
       {<<Heard(4, 12)>>} >>
=============================================================================
