----------------------------- MODULE MCWatchdog -----------------------------
(* The times of the station, in seconds.                                     *)
EXTENDS Watchdog
=============================================================================
