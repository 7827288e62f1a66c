----------------------------- MODULE LossyQueue -----------------------------
(* What the station's store of unsent packets promises (location_data.c):    *)
(* first in, first out, each packet at most once, and when there is no room  *)
(* the OLDEST packets go.  The packets are numbered in the order they were   *)
(* put in; the queue holds the numbers lo .. hi - 1.  The promise ends with  *)
(* the first operation of the file system that fails.                        *)
EXTENDS Integers

CONSTANTS
    Nothing,  \* what a get from the empty queue returns
    Junk      \* what no put ever stored

VARIABLES
    lo,     \* the oldest packet still held, hi if there is none
    hi,     \* the next number
    got,    \* what the last get returned
    broken  \* an operation of the file system failed

vars == <<lo, hi, got, broken>>

Init == lo = 0 /\ hi = 0 /\ got = Nothing /\ broken = FALSE

\* the packet put in is never among those that make room
Put ==
    /\ hi' = hi + 1
    /\ lo' \in lo .. hi
    /\ UNCHANGED <<got, broken>>

Get ==
    /\ lo < hi
    /\ got' = lo
    /\ lo' = lo + 1
    /\ UNCHANGED <<hi, broken>>

GetNothing ==
    /\ lo = hi
    /\ got' = Nothing
    /\ UNCHANGED <<lo, hi, broken>>

\* a failure, and whatever follows it
Anything == broken'

Next == Put \/ Get \/ GetNothing \/ Anything

Spec == Init /\ [][Next]_vars
=============================================================================
