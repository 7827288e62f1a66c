---------------------------- MODULE MCTimerEvent ----------------------------
(* Two timed events with different intervals and one immediate event,  *)
(* on a clock that wraps every 10 ticks: every deadline, the mark 0 among    *)
(* them, is reached from every phase of the clock.                           *)
EXTENDS TimerEvent, TLC

MCInterval == 0 :> 2 @@ 1 :> 3 @@ 2 :> 0
=============================================================================
