----------------------------- MODULE TimerEvent -----------------------------
(* The event/timer module of the small UWB firmware                          *)
(* (decave_uwb_tdoa_Modify/Application/timer_event.c).                       *)
(*                                                                           *)
(* An event is a bit of bits_events.  It is set by interrupt handlers        *)
(* (event_timer_set), by the main loop, or by event_timer_update when the    *)
(* software timer of that event expires; the main loop takes the events.     *)
(*                                                                           *)
(* event_timer_update reads the clock ONCE, outside any critical section,    *)
(* then visits the timers one critical section at a time: interrupts and     *)
(* clock ticks fall between two visits, so a pass is one action per timer.   *)
(* Timers are compared with unsigned W-valued arithmetic; tick = 0 means     *)
(* "started, deadline not computed yet" and is also a value a deadline takes *)
(* when the clock wraps.                                                     *)
EXTENDS Naturals, FiniteSets

CONSTANTS
    N,         \* EVENT_TIMER_MAX: the timers are 0 .. N-1
    W,         \* the clock and every tick are W-valued (2^32 in the code)
    Interval,  \* the interval each event is started with by its callers
    L          \* the longest time, in ticks, from one pass to the end of the next

Events == 0 .. N - 1

\* MAX_TIMER_TICK: half the range of the clock.
MaxTimerTick == (W - 1) \div 2

ASSUME NAssumption == N \in Nat
ASSUME WAssumption == W \in Nat /\ W > 2
ASSUME IntervalAssumption ==
    Interval \in [Events -> 0 .. W - 1]
ASSUME LAssumption == L \in 1 .. MaxTimerTick

VARIABLES
    tick,           \* tick[e]: the deadline, 0 when not computed yet
    remain_tick,    \* remain_tick[e]: the first interval, 0 = not running
    reload_tick,    \* reload_tick[e]: the interval of a restart
    reload_events,  \* the events whose timer restarts itself
    bits_events,    \* the pending events
    min_timer,      \* what event_timer_next_tick returns after a pass
    timer_cnt,      \* how many timers run (a uint_8)
    clock,          \* GetSysClock()
    currTick,       \* the local of event_timer_update: the clock at its start
    pos,            \* the timer the pass visits next; N when no pass is running
    age             \* ghost: ticks since the current period of a timer began

timers == <<tick, remain_tick, reload_tick>>
vars == <<tick, remain_tick, reload_tick, reload_events, bits_events, min_timer, timer_cnt,
          clock, currTick, pos, age>>

Idle == pos = N
Running(e) == remain_tick[e] # 0

-----------------------------------------------------------------------------
(* Defects a careless edit of the code would introduce (mutants).            *)
ExpiredEarly(now, t) == (now + W + 1 - t) % W < MaxTimerTick
RestartStops(e) == remain_tick' = [remain_tick EXCEPT ![e] = 0] /\ tick' = [tick EXCEPT ![e] = 0]
StartCountedTwice(e) == timer_cnt + 1
NearestLast(m, t) == (t + W - currTick) % W
DeadlineMoves(e) == (remain_tick[e] + currTick) % W
-----------------------------------------------------------------------------

(* Unsigned arithmetic of the code. *)
Later(t, d) == (t + d) % W
Elapsed(now, t) == (now + W - t) % W

(* elapseTick < MAX_TIMER_TICK *)
Expired(now, t) == Elapsed(now, t) < MaxTimerTick

(* if (!remain_tick) timer_cnt++ , and the opposite of event_timer_del *)
CountStart(e) == IF Running(e) THEN timer_cnt ELSE timer_cnt + 1
CountStop(e) == IF Running(e) THEN timer_cnt - 1 ELSE timer_cnt

(* min_timer = MIN(min_timer, tick - currTick) *)
Nearest(m, t) == IF Elapsed(t, currTick) < m THEN Elapsed(t, currTick) ELSE m

(* pos->tick = pos->reload_tick + currTick *)
Restart(e) ==
    /\ tick' = [tick EXCEPT ![e] = Later(reload_tick[e], currTick)]
    /\ UNCHANGED remain_tick

(* pos->tick = 0; pos->remain_tick = 0 *)
Stop(e) ==
    /\ tick' = [tick EXCEPT ![e] = 0]
    /\ remain_tick' = [remain_tick EXCEPT ![e] = 0]

-----------------------------------------------------------------------------
Init ==
    /\ tick = [e \in Events |-> 0]
    /\ remain_tick = [e \in Events |-> 0]
    /\ reload_tick = [e \in Events |-> 0]
    /\ reload_events = {}
    /\ bits_events = {}
    /\ min_timer = 0
    /\ timer_cnt = 0
    /\ clock \in 0 .. W - 1
    /\ currTick = clock
    /\ pos = N
    /\ age = [e \in Events |-> 0]

(* The environment ------------------------------------------------------- *)

\* Time passes.  The main loop starts a new pass within L ticks of the last.
Tick ==
    /\ Elapsed(clock, currTick) < L
    /\ clock' = Later(clock, 1)
    /\ age' = [e \in Events |-> IF Running(e) THEN age[e] + 1 ELSE 0]
    /\ UNCHANGED <<timers, reload_events, bits_events, min_timer, timer_cnt,
                   currTick, pos>>

\* event_timer_set, from an interrupt handler (any time) or from the main loop
SetEvent(e) ==
    /\ bits_events' = bits_events \cup {e}
    /\ UNCHANGED <<timers, reload_events, min_timer, timer_cnt, clock,
                   currTick, pos, age>>

(* The main loop, between two passes ------------------------------------- *)

\* event_timer_take when the bit is set, and event_timer_unset
UnsetEvent(e) ==
    /\ Idle
    /\ bits_events' = bits_events \ {e}
    /\ UNCHANGED <<timers, reload_events, min_timer, timer_cnt, clock,
                   currTick, pos, age>>

TakeAll ==
    /\ Idle
    /\ bits_events' = {}
    /\ UNCHANGED <<timers, reload_events, min_timer, timer_cnt, clock,
                   currTick, pos, age>>

\* event_timer_add(event, tick): a zero interval is an immediate event
Add(e) ==
    /\ Idle
    /\ Interval[e] # 0 /\ Interval[e] < MaxTimerTick
    /\ timer_cnt' = CountStart(e)
    /\ tick' = [tick EXCEPT ![e] = 0]
    /\ remain_tick' = [remain_tick EXCEPT ![e] = Interval[e]]
    /\ age' = [age EXCEPT ![e] = 0]
    /\ UNCHANGED <<reload_tick, reload_events, bits_events, min_timer, clock,
                   currTick, pos>>

AddImmediate(e) ==
    /\ Idle
    /\ Interval[e] = 0
    /\ SetEvent(e)

\* event_timer_add_reload(event, tick): a running timer keeps its deadline
AddReload(e) ==
    /\ Idle
    /\ Interval[e] # 0 /\ Interval[e] < MaxTimerTick
    /\ timer_cnt' = CountStart(e)
    /\ IF Running(e)
       THEN UNCHANGED <<tick, remain_tick, age>>
       ELSE /\ tick' = [tick EXCEPT ![e] = 0]
            /\ remain_tick' = [remain_tick EXCEPT ![e] = Interval[e]]
            /\ age' = [age EXCEPT ![e] = 0]
    /\ reload_tick' = [reload_tick EXCEPT ![e] = Interval[e]]
    /\ reload_events' = reload_events \cup {e}
    /\ UNCHANGED <<bits_events, min_timer, clock, currTick, pos>>

\* event_timer_del(event)
Del(e) ==
    /\ Idle
    /\ timer_cnt' = CountStop(e)
    /\ Stop(e)
    /\ reload_events' = reload_events \ {e}
    /\ bits_events' = bits_events \ {e}
    /\ age' = [age EXCEPT ![e] = 0]
    /\ UNCHANGED <<reload_tick, min_timer, clock, currTick, pos>>

(* event_timer_update ------------------------------------------------------ *)

\* The part before the loop: min_timer, and the only reading of the clock
UpdateStart ==
    /\ Idle
    /\ min_timer' = IF bits_events # {} THEN 0 ELSE W - 1
    /\ currTick' = clock
    /\ pos' = 0
    /\ UNCHANGED <<timers, reload_events, bits_events, timer_cnt, clock, age>>

\* if (!pos->remain_tick) continue
Skip(e) ==
    /\ ~Running(e)
    /\ UNCHANGED <<timers, bits_events, min_timer, timer_cnt, age>>

\* The deadline of e, computed now if it was not before
Deadline(e) == IF tick[e] = 0
               THEN Later(remain_tick[e], currTick)
               ELSE tick[e]

Fire(e) ==
    /\ Running(e)
    /\ Expired(currTick, Deadline(e))
    /\ min_timer' = 0
    /\ bits_events' = bits_events \cup {e}
    /\ IF e \in reload_events
       THEN /\ Restart(e)
            /\ age' = [age EXCEPT ![e] = Elapsed(clock, currTick)]
            /\ UNCHANGED timer_cnt
       ELSE /\ Stop(e)
            /\ age' = [age EXCEPT ![e] = 0]
            /\ timer_cnt' = IF timer_cnt > 0 THEN CountStop(e) ELSE 0
    /\ UNCHANGED reload_tick

Wait(e) ==
    /\ Running(e)
    /\ ~Expired(currTick, Deadline(e))
    /\ tick' = [tick EXCEPT ![e] = Deadline(e)]
    /\ UNCHANGED <<remain_tick, reload_tick>>
    /\ min_timer' = IF min_timer > 0 THEN Nearest(min_timer, Deadline(e)) ELSE 0
    /\ UNCHANGED <<bits_events, timer_cnt, age>>

\* One critical section of the loop
Visit(e) ==
    /\ pos = e
    /\ pos' = pos + 1
    /\ Skip(e) \/ Fire(e) \/ Wait(e)
    /\ UNCHANGED <<reload_events, clock, currTick>>

-----------------------------------------------------------------------------
Next ==
    \/ Tick
    \/ TakeAll
    \/ UpdateStart
    \/ \E e \in Events :
          \/ SetEvent(e) \/ UnsetEvent(e)
          \/ Add(e) \/ AddImmediate(e) \/ AddReload(e) \/ Del(e)
          \/ Visit(e)

Spec == Init /\ [][Next]_vars

-----------------------------------------------------------------------------
(* Properties                                                                *)

\* Every variable keeps its C type; a pass is over or at one of the timers.
TypeOK ==
    /\ tick \in [Events -> 0 .. W - 1]
    /\ remain_tick \in [Events -> 0 .. W - 1]
    /\ reload_tick \in [Events -> 0 .. W - 1]
    /\ reload_events \subseteq Events
    /\ bits_events \subseteq Events
    /\ min_timer \in 0 .. W - 1
    /\ timer_cnt \in Nat
    /\ clock \in 0 .. W - 1
    /\ currTick \in 0 .. W - 1
    /\ pos \in 0 .. N
    /\ age \in [Events -> Nat]

\* timer_cnt, kept by hand in add, add_reload, del and update, is the number
\* of running timers (so it never wraps below zero in event_timer_del).
CountMatches == timer_cnt = Cardinality({e \in Events : Running(e)})

\* A self-restarting timer never stops by itself: NEWSLOT of a tag and
\* UART_SEND of an anchor go on until event_timer_del.
PeriodicStaysArmed == \A e \in reload_events : Running(e)

\* An event is never signalled before its interval has passed, whatever the
\* clock does: wrap-around, and deadlines that compute to the mark 0.
NoEarlyFire ==
    [][\A e \in Events : (pos = e /\ Fire(e) /\ pos' # pos) => age[e] >= Interval[e]]_vars

\* A running timer fires at most 4L late: up to L until the first pass computes
\* its deadline, L more when the deadline is the mark 0 and is computed again,
\* L until a pass starts after it, and L until that pass visits it.  No timer is
\* ever lost on a wrapped clock.
BoundedLateness ==
    \A e \in Events : Running(e) => age[e] <= Interval[e] + 4 * L

\* A caller that sleeps for the time event_timer_next_tick returns after a pass
\* still serves every running timer within the bound of BoundedLateness.
NextTickNeverOversleeps ==
    [][(pos = N - 1 /\ pos' = N) =>
         \A e \in Events : Running(e)' => age'[e] + min_timer' <= Interval[e] + 3 * L]_vars

=============================================================================
