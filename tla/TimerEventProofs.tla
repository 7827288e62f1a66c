-------------------------- MODULE TimerEventProofs --------------------------
(* Proofs about the event/timer module, for every number of timers, width of *)
(* the clock, set of intervals and bound L on the time between two passes.   *)
EXTENDS TimerEvent, FiniteSetTheorems, TLAPS

-----------------------------------------------------------------------------
(* The inductive invariant.                                                  *)

Gap == Elapsed(clock, currTick)

\* What add and add_reload wrote is still there while the timer runs.
StartedWithInterval ==
    /\ \A e \in Events : Running(e) =>
          /\ remain_tick[e] = Interval[e]
          /\ Interval[e] \in 1 .. MaxTimerTick - 1
    /\ \A e \in reload_events : Running(e) /\ reload_tick[e] = Interval[e]

\* tick = 0, before the running pass visits e
FreshUnvisited(e) ==
    /\ age[e] \in Gap .. Gap + 2 * L
    /\ Later(Interval[e], currTick) = 0 => age[e] <= Gap + L

\* tick = 0, after the pass: started since, or its deadline computed to 0
FreshVisited(e) ==
    /\ age[e] <= Gap \/ (Later(Interval[e], currTick) = 0 /\ age[e] <= Gap + L)
    /\ pos # N => age[e] >= Gap

\* the deadline lies ahead of the reading of the clock the pass goes by
NotDue(e) ==
    /\ Elapsed(tick[e], currTick) \in 1 .. Interval[e]
    /\ age[e] + Elapsed(tick[e], currTick)
          \in Gap + Interval[e] .. Gap + Interval[e] + 2 * L

\* the deadline is past, and the pass has still to visit e
Due(e) ==
    /\ pos <= e
    /\ Elapsed(currTick, tick[e]) < L
    /\ age[e] \in Gap + Elapsed(currTick, tick[e]) + Interval[e] ..
                  Gap + Elapsed(currTick, tick[e]) + Interval[e] + 2 * L

OnTime(e) ==
    IF tick[e] = 0
    THEN IF pos <= e THEN FreshUnvisited(e) ELSE FreshVisited(e)
    ELSE age[e] >= Gap /\ (NotDue(e) \/ Due(e))

TimerInv ==
    /\ TypeOK
    /\ CountMatches
    /\ StartedWithInterval
    /\ Gap <= L
    /\ \A e \in Events : Running(e) => OnTime(e)

-----------------------------------------------------------------------------
(* Unsigned arithmetic as sums and differences.                              *)

LEMMA LaterIsSum ==
    \A t, d \in 0 .. W - 1 :
        /\ Later(t, d) = IF t + d < W THEN t + d ELSE t + d - W
        /\ Later(t, d) \in 0 .. W - 1
  BY WAssumption, Z3 DEF Later

LEMMA ElapsedIsDifference ==
    \A now, t \in 0 .. W - 1 :
        /\ Elapsed(now, t) = IF t <= now THEN now - t ELSE now + W - t
        /\ Elapsed(now, t) \in 0 .. W - 1
  BY WAssumption, Z3 DEF Elapsed

LEMMA HalfRange ==
    /\ MaxTimerTick \in Nat
    /\ 2 * MaxTimerTick < W
    /\ L \in Nat /\ 1 <= L /\ L <= MaxTimerTick
  BY WAssumption, LAssumption, Z3 DEF MaxTimerTick

-----------------------------------------------------------------------------
(* Type correctness.                                                         *)

LEMMA InitType == Init => TypeOK
  BY NAssumption, WAssumption DEF Init, TypeOK, Events

\* A running timer is counted by timer_cnt, so the counter of event_timer_del
\* and of update never goes below zero.
LEMMA CountPositive ==
    ASSUME NEW e \in Events, Running(e), CountMatches
    PROVE  timer_cnt \in Nat /\ timer_cnt > 0
  <1> DEFINE R == {x \in Events : Running(x)}
  <1>1. IsFiniteSet(Events)
    BY NAssumption, FS_Interval DEF Events
  <1>2. IsFiniteSet(R)
    BY <1>1, FS_Subset
  <1>3. R # {}
    OBVIOUS
  <1>4. Cardinality(R) \in Nat /\ Cardinality(R) # 0
    BY <1>2, <1>3, FS_CardinalityType, FS_EmptySet
  <1> QED
    BY <1>4 DEF CountMatches

LEMMA StepType ==
    ASSUME TypeOK, CountMatches, [Next]_vars
    PROVE  TypeOK'
  <1> USE NAssumption, WAssumption, IntervalAssumption DEF TypeOK
  <1>a. Events \subseteq Nat /\ N \notin Events /\ Events \subseteq 0 .. N
    BY DEF Events
  <1>1. CASE Tick
    <2>1. Later(clock, 1) \in 0 .. W - 1
      BY LaterIsSum
    <2>2. age' \in [Events -> Nat]
      BY <1>1 DEF Tick
    <2> QED
      BY <1>1, <2>1, <2>2 DEF Tick, timers
  <1>2. CASE TakeAll
    BY <1>2 DEF TakeAll, timers
  <1>3. CASE UpdateStart
    BY <1>3 DEF UpdateStart, timers
  <1>4. ASSUME NEW e \in Events, SetEvent(e) \/ UnsetEvent(e) \/ AddImmediate(e)
        PROVE  TypeOK'
    BY <1>4 DEF SetEvent, UnsetEvent, AddImmediate, timers
  <1>5. ASSUME NEW e \in Events, Add(e)
        PROVE  TypeOK'
    BY <1>5 DEF Add, CountStart
  <1>6. ASSUME NEW e \in Events, AddReload(e)
        PROVE  TypeOK'
    BY <1>6 DEF AddReload, CountStart
  <1>7. ASSUME NEW e \in Events, Del(e)
        PROVE  TypeOK'
    BY <1>7, CountPositive DEF Del, CountStop, Stop
  <1>8. ASSUME NEW e \in Events, Visit(e)
        PROVE  TypeOK'
    <2>1. pos' \in 0 .. N
      BY <1>8, <1>a DEF Visit, Events
    <2>2. Deadline(e) \in 0 .. W - 1
      BY LaterIsSum DEF Deadline
    <2>3. CASE Skip(e)
      BY <1>8, <2>1, <2>3 DEF Visit, Skip, timers
    <2>4. CASE Fire(e)
      <3>1. Later(reload_tick[e], currTick) \in 0 .. W - 1
        BY LaterIsSum
      <3>2. Elapsed(clock, currTick) \in 0 .. W - 1
        BY ElapsedIsDifference
      <3>3. timer_cnt' \in Nat
        BY <2>4 DEF Fire, CountStop
      <3> QED
        BY <1>8, <2>1, <2>4, <3>1, <3>2, <3>3 DEF Visit, Fire, Restart, Stop
    <2>5. CASE Wait(e)
      <3>1. Elapsed(Deadline(e), currTick) \in 0 .. W - 1
        BY <2>2, ElapsedIsDifference
      <3>2. min_timer' \in 0 .. W - 1
        BY <2>5, <3>1 DEF Wait, Nearest
      <3> QED
        BY <1>8, <2>1, <2>2, <2>5, <3>2 DEF Visit, Wait
    <2> QED
      BY <1>8, <2>3, <2>4, <2>5 DEF Visit
  <1>9. CASE UNCHANGED vars
    BY <1>9 DEF vars, timers
  <1> QED
    BY <1>1, <1>2, <1>3, <1>4, <1>5, <1>6, <1>7, <1>8, <1>9 DEF Next

-----------------------------------------------------------------------------
(* The counter of running timers.                                            *)

RunningSet == {e \in Events : Running(e)}

LEMMA RunningSetFinite == IsFiniteSet(RunningSet) /\ IsFiniteSet(RunningSet')
  <1>1. IsFiniteSet(Events)
    BY NAssumption, FS_Interval DEF Events
  <1>2. RunningSet \subseteq Events /\ RunningSet' \subseteq Events
    BY DEF RunningSet
  <1> QED
    BY <1>1, <1>2, FS_Subset

LEMMA CountUnchanged ==
    ASSUME CountMatches, RunningSet' = RunningSet, timer_cnt' = timer_cnt
    PROVE  CountMatches'
  BY DEF CountMatches, RunningSet

LEMMA CountStarted ==
    ASSUME CountMatches, NEW e \in Events,
           RunningSet' = RunningSet \cup {e}, timer_cnt' = CountStart(e)
    PROVE  CountMatches'
  <1>1. CASE Running(e)
    BY <1>1, CountUnchanged DEF CountStart, RunningSet
  <1>2. CASE ~Running(e)
    <2>1. e \notin RunningSet
      BY <1>2 DEF RunningSet
    <2>2. Cardinality(RunningSet \cup {e}) = Cardinality(RunningSet) + 1
      BY <2>1, RunningSetFinite, FS_AddElement
    <2> QED
      BY <1>2, <2>2 DEF CountStart, CountMatches, RunningSet
  <1> QED
    BY <1>1, <1>2

LEMMA CountStopped ==
    ASSUME CountMatches, NEW e \in Events,
           RunningSet' = RunningSet \ {e}, timer_cnt' = CountStop(e)
    PROVE  CountMatches'
  <1>1. CASE ~Running(e)
    BY <1>1, CountUnchanged DEF CountStop, RunningSet
  <1>2. CASE Running(e)
    <2>1. e \in RunningSet
      BY <1>2 DEF RunningSet
    <2>2. Cardinality(RunningSet \ {e}) = Cardinality(RunningSet) - 1
      BY <2>1, RunningSetFinite, FS_RemoveElement
    <2> QED
      BY <1>2, <2>2 DEF CountStop, CountMatches, RunningSet
  <1> QED
    BY <1>1, <1>2

LEMMA InitCount == Init => CountMatches
  <1> SUFFICES ASSUME Init PROVE CountMatches
    OBVIOUS
  <1>1. RunningSet = {}
    BY DEF Init, RunningSet, Running
  <1> QED
    BY <1>1, FS_EmptySet DEF Init, CountMatches, RunningSet

LEMMA StepCount ==
    ASSUME TypeOK, CountMatches, [Next]_vars
    PROVE  CountMatches'
  <1> USE DEF TypeOK
  <1>1. ASSUME remain_tick' = remain_tick, timer_cnt' = timer_cnt
        PROVE  CountMatches'
    BY <1>1, CountUnchanged DEF RunningSet, Running
  <1>2. CASE Tick \/ TakeAll \/ UpdateStart \/ UNCHANGED vars
    BY <1>1, <1>2 DEF Tick, TakeAll, UpdateStart, vars, timers
  <1>3. ASSUME NEW e \in Events, SetEvent(e) \/ UnsetEvent(e) \/ AddImmediate(e)
        PROVE  CountMatches'
    BY <1>1, <1>3 DEF SetEvent, UnsetEvent, AddImmediate, timers
  <1>4. ASSUME NEW e \in Events, Add(e)
        PROVE  CountMatches'
    <2>1. RunningSet' = RunningSet \cup {e}
      BY <1>4 DEF Add, RunningSet, Running
    <2> QED
      BY <1>4, <2>1, CountStarted DEF Add
  <1>5. ASSUME NEW e \in Events, AddReload(e)
        PROVE  CountMatches'
    <2>1. RunningSet' = RunningSet \cup {e}
      BY <1>5 DEF AddReload, RunningSet, Running
    <2> QED
      BY <1>5, <2>1, CountStarted DEF AddReload
  <1>6. ASSUME NEW e \in Events, Del(e)
        PROVE  CountMatches'
    <2>1. RunningSet' = RunningSet \ {e}
      BY <1>6 DEF Del, Stop, RunningSet, Running
    <2> QED
      BY <1>6, <2>1, CountStopped DEF Del
  <1>7. ASSUME NEW e \in Events, Visit(e)
        PROVE  CountMatches'
    <2>1. CASE Skip(e) \/ Wait(e)
      BY <1>1, <2>1 DEF Skip, Wait, timers
    <2>2. CASE Fire(e) /\ e \in reload_events
      BY <1>1, <2>2 DEF Fire, Restart
    <2>3. CASE Fire(e) /\ e \notin reload_events
      <3>1. RunningSet' = RunningSet \ {e}
        BY <2>3 DEF Fire, Stop, RunningSet, Running
      <3>2. timer_cnt' = CountStop(e)
        BY <2>3, CountPositive DEF Fire
      <3> QED
        BY <3>1, <3>2, CountStopped
    <2> QED
      BY <1>7, <2>1, <2>2, <2>3 DEF Visit
  <1> QED
    BY <1>2, <1>3, <1>4, <1>5, <1>6, <1>7 DEF Next

-----------------------------------------------------------------------------
(* The intervals of running timers, and self-restarting timers.              *)

LEMMA InitStarted == Init => StartedWithInterval
  BY DEF Init, StartedWithInterval, Running

LEMMA StepStarted ==
    ASSUME TypeOK, StartedWithInterval, [Next]_vars
    PROVE  StartedWithInterval'
  <1> USE HalfRange, IntervalAssumption DEF TypeOK, StartedWithInterval, Running
  <1>1. CASE Tick \/ TakeAll \/ UpdateStart \/ UNCHANGED vars
    BY <1>1 DEF Tick, TakeAll, UpdateStart, vars, timers
  <1>2. ASSUME NEW e \in Events, SetEvent(e) \/ UnsetEvent(e) \/ AddImmediate(e)
        PROVE  StartedWithInterval'
    BY <1>2 DEF SetEvent, UnsetEvent, AddImmediate, timers
  <1>3. ASSUME NEW e \in Events, Add(e)
        PROVE  StartedWithInterval'
    BY <1>3 DEF Add
  <1>4. ASSUME NEW e \in Events, AddReload(e)
        PROVE  StartedWithInterval'
    BY <1>4 DEF AddReload
  <1>5. ASSUME NEW e \in Events, Del(e)
        PROVE  StartedWithInterval'
    BY <1>5 DEF Del, Stop
  <1>6. ASSUME NEW e \in Events, Visit(e)
        PROVE  StartedWithInterval'
    BY <1>6 DEF Visit, Skip, Fire, Wait, Restart, Stop, timers
  <1> QED
    BY <1>1, <1>2, <1>3, <1>4, <1>5, <1>6 DEF Next

-----------------------------------------------------------------------------
(* Deadlines.  The steps that move the clock, start a pass or visit a timer. *)

LEMMA GapType == TypeOK => Gap \in 0 .. W - 1
  BY ElapsedIsDifference DEF TypeOK, Gap

LEMMA TickGap ==
    ASSUME TypeOK, Tick
    PROVE  Gap < L /\ Gap' = Gap + 1
  <1> USE WAssumption DEF TypeOK
  <1>1. Gap < L
    BY DEF Tick, Gap
  <1>2. clock' = IF clock + 1 < W THEN clock + 1 ELSE 0
    <2>1. Later(clock, 1) = IF clock + 1 < W THEN clock + 1 ELSE clock + 1 - W
      BY LaterIsSum
    <2> QED
      BY <2>1 DEF Tick
  <1>3. clock' \in 0 .. W - 1 /\ currTick' = currTick
    BY <1>2 DEF Tick
  <1>4. Gap = IF currTick <= clock THEN clock - currTick ELSE clock + W - currTick
    BY ElapsedIsDifference DEF Gap
  <1>5. Gap' = IF currTick <= clock' THEN clock' - currTick ELSE clock' + W - currTick
    BY <1>3, ElapsedIsDifference DEF Gap
  <1>6. Gap < W - 1
    BY <1>1, <1>4, HalfRange
  <1> QED
    BY <1>1, <1>2, <1>3, <1>4, <1>5, <1>6

LEMMA UpdateStartGap ==
    ASSUME TypeOK, UpdateStart
    PROVE  Gap' = 0
  BY ElapsedIsDifference DEF UpdateStart, Gap, TypeOK

LEMMA StepGap ==
    ASSUME TypeOK, Gap <= L, [Next]_vars
    PROVE  Gap' <= L
  <1>1. CASE Tick
    BY <1>1, TickGap, GapType, HalfRange
  <1>2. CASE UpdateStart
    BY <1>2, UpdateStartGap, HalfRange
  <1>3. CASE ~Tick /\ ~UpdateStart
    <2>1. clock' = clock /\ currTick' = currTick
      BY <1>3 DEF Next, TakeAll, SetEvent, UnsetEvent, Add, AddImmediate, AddReload,
                  Del, Visit, vars
    <2> QED
      BY <2>1 DEF Gap
  <1> QED
    BY <1>1, <1>2, <1>3

\* Steps that leave a timer and the running pass alone leave it on time.
LEMMA OnTimeUnchanged ==
    ASSUME NEW e \in Events, Running(e) => OnTime(e),
           UNCHANGED <<tick[e], remain_tick[e], age[e], clock, currTick>>,
           pos' = pos \/ (pos \in Events \ {e} /\ pos' = pos + 1),
           TypeOK
    PROVE  Running(e)' => OnTime(e)'
  <1>1. (pos' <= e <=> pos <= e) /\ (pos' # N => pos # N)
    <2>1. e \in Nat /\ e < N /\ N \in Nat /\ pos \in Nat
      BY NAssumption DEF TypeOK, Events
    <2>2. CASE pos' = pos
      BY <2>2
    <2>3. CASE pos < N /\ pos # e /\ pos' = pos + 1
      BY <2>1, <2>3
    <2> QED
      BY <2>2, <2>3 DEF Events
  <1>2. Gap' = Gap /\ Running(e)' = Running(e)
    BY DEF Gap, Running
  <1> QED
    BY <1>1, <1>2 DEF OnTime, FreshUnvisited, FreshVisited, NotDue, Due

LEMMA OnTimeTick ==
    ASSUME TypeOK, StartedWithInterval, Tick, NEW e \in Events, Running(e), OnTime(e)
    PROVE  OnTime(e)'
  <1>1. UNCHANGED <<tick[e], currTick, pos>> /\ age'[e] = age[e] + 1 /\ age[e] \in Nat
    BY DEF Tick, timers, TypeOK
  <1>2. Gap' = Gap + 1 /\ Gap \in 0 .. W - 1
    BY TickGap, GapType
  <1>3. /\ Interval[e] \in Nat /\ L \in Nat
        /\ Later(Interval[e], currTick) \in 0 .. W - 1
        /\ tick[e] \in 0 .. W - 1
        /\ Elapsed(tick[e], currTick) \in 0 .. W - 1
        /\ Elapsed(currTick, tick[e]) \in 0 .. W - 1
    BY IntervalAssumption, HalfRange, LaterIsSum, ElapsedIsDifference DEF TypeOK
  <1>4. CASE tick[e] = 0
    BY <1>1, <1>2, <1>3, <1>4, WAssumption DEF OnTime, FreshUnvisited, FreshVisited
  <1>5. CASE tick[e] # 0
    BY <1>1, <1>2, <1>3, <1>5, WAssumption DEF OnTime, NotDue, Due
  <1> QED
    BY <1>4, <1>5

LEMMA OnTimeUpdateStart ==
    ASSUME TypeOK, StartedWithInterval, Gap <= L, UpdateStart,
           NEW e \in Events, Running(e), OnTime(e)
    PROVE  OnTime(e)'
  <1> DEFINE I == Interval[e]
             t == tick[e]
  <1>1. /\ tick'[e] = t /\ age'[e] = age[e] /\ age[e] \in Nat
        /\ currTick' = clock /\ clock' = clock
        /\ pos = N /\ pos' = 0 /\ pos' <= e /\ ~(pos <= e)
    BY NAssumption DEF UpdateStart, Idle, timers, TypeOK, Events
  <1>2. Gap' = 0 /\ Gap \in 0 .. W - 1
    BY UpdateStartGap, GapType
  <1>3. /\ clock \in 0 .. W - 1 /\ currTick \in 0 .. W - 1 /\ t \in 0 .. W - 1
        /\ I \in 1 .. MaxTimerTick - 1 /\ I \in 0 .. W - 1
    BY IntervalAssumption DEF TypeOK, StartedWithInterval
  <1>4. Gap = IF currTick <= clock THEN clock - currTick ELSE clock + W - currTick
    BY <1>3, ElapsedIsDifference DEF Gap
  <1>5. CASE t = 0
    <2>1. FreshVisited(e)
      BY <1>1, <1>5 DEF OnTime
    <2>2. /\ Later(I, currTick) = IF I + currTick < W THEN I + currTick ELSE I + currTick - W
          /\ Later(I, clock) = IF I + clock < W THEN I + clock ELSE I + clock - W
      BY <1>3, LaterIsSum
    <2>3. Later(I, currTick) = 0 /\ Later(I, clock) = 0 => Gap = 0
      BY <1>3, <1>4, <2>2, WAssumption
    <2>4. age[e] <= 2 * L /\ (Later(I, clock) = 0 => age[e] <= L)
      BY <1>1, <1>2, <2>1, <2>3, HalfRange DEF FreshVisited
    <2> QED
      BY <1>1, <1>2, <1>5, <2>4, HalfRange DEF OnTime, FreshUnvisited
  <1>6. CASE t # 0
    <2>1. age[e] >= Gap /\ NotDue(e)
      BY <1>1, <1>6 DEF OnTime, Due
    <2> DEFINE x == Elapsed(t, currTick)
    <2>2. /\ x = IF currTick <= t THEN t - currTick ELSE t + W - currTick
          /\ Elapsed(t, clock) = IF clock <= t THEN t - clock ELSE t + W - clock
          /\ Elapsed(clock, t) = IF t <= clock THEN clock - t ELSE clock + W - t
      BY <1>3, ElapsedIsDifference
    <2>3. x \in 1 .. I /\ age[e] + x \in Gap + I .. Gap + I + 2 * L
      BY <2>1 DEF NotDue
    <2>4. CASE x > Gap
      <3>1. Elapsed(t, clock) = x - Gap
        BY <1>2, <1>3, <1>4, <2>2, <2>3, <2>4, HalfRange, WAssumption
      <3>2. /\ Elapsed(t, clock) \in 1 .. I
            /\ age[e] + Elapsed(t, clock) \in I .. I + 2 * L
        BY <1>1, <1>2, <1>3, <2>3, <2>4, <3>1, HalfRange
      <3>3. NotDue(e)'
        BY <1>1, <1>2, <1>3, <3>2, HalfRange DEF NotDue
      <3> QED
        BY <1>1, <1>2, <1>6, <3>3 DEF OnTime
    <2>5. CASE x <= Gap
      <3>1. Elapsed(clock, t) = Gap - x
        BY <1>2, <1>3, <1>4, <2>2, <2>3, <2>5, HalfRange, WAssumption
      <3>2. /\ Elapsed(clock, t) \in Nat /\ Elapsed(clock, t) < L
            /\ age[e] \in Elapsed(clock, t) + I .. Elapsed(clock, t) + I + 2 * L
        BY <1>1, <1>2, <1>3, <2>3, <2>5, <3>1, HalfRange
      <3>3. Due(e)'
        <4> HIDE DEF I, t, x
        <4>1. Gap' + Elapsed(clock, t) = Elapsed(clock, t)
          BY <1>2, <3>2
        <4> QED
          BY <1>1, <3>2, <4>1 DEF Due, I, t
      <3> QED
        BY <1>1, <1>2, <1>6, <3>3 DEF OnTime
    <2> QED
      BY <1>2, <2>3, <2>4, <2>5
  <1> QED
    BY <1>5, <1>6

\* A deadline d ticks ahead is d ticks ahead; the way back is the rest of W.
LEMMA ElapsedLater ==
    ASSUME NEW c \in 0 .. W - 1, NEW d \in 0 .. W - 1
    PROVE  Elapsed(Later(d, c), c) = d
  <1>1. Later(d, c) = (IF d + c < W THEN d + c ELSE d + c - W) /\ Later(d, c) \in 0 .. W - 1
    BY LaterIsSum
  <1>2. Elapsed(Later(d, c), c) = IF c <= Later(d, c) THEN Later(d, c) - c
                                  ELSE Later(d, c) + W - c
    BY <1>1, ElapsedIsDifference
  <1> QED
    BY <1>1, <1>2, WAssumption

LEMMA ElapsedBack ==
    ASSUME NEW c \in 0 .. W - 1, NEW t \in 0 .. W - 1, Elapsed(t, c) # 0
    PROVE  Elapsed(c, t) = W - Elapsed(t, c)
  <1>1. /\ Elapsed(t, c) = IF c <= t THEN t - c ELSE t + W - c
        /\ Elapsed(c, t) = IF t <= c THEN c - t ELSE c + W - t
    BY ElapsedIsDifference
  <1> QED
    BY <1>1, WAssumption

\* The visit of a running timer: it fires only when Due, which is only after its
\* interval, and it goes on with a new deadline that is ahead of the pass.
LEMMA OnTimeVisit ==
    ASSUME TypeOK, StartedWithInterval, Gap <= L, NEW e \in Events, Visit(e),
           Running(e), OnTime(e)
    PROVE  /\ Running(e)' => OnTime(e)'
           /\ Fire(e) => age[e] >= Interval[e]
  <1> DEFINE I == Interval[e]
             d == Later(I, currTick)
             x == Elapsed(tick[e], currTick)
             y == Elapsed(currTick, tick[e])
  <1>1. /\ pos = e /\ pos' = e + 1 /\ pos <= e /\ ~(pos' <= e) /\ pos # N
        /\ clock' = clock /\ currTick' = currTick
        /\ Gap' = Gap
    BY NAssumption DEF Visit, Events, Gap
  <1>2. /\ remain_tick[e] = I
        /\ I \in 1 .. MaxTimerTick - 1 /\ I \in 0 .. W - 1
        /\ e \in reload_events => reload_tick[e] = I
    BY IntervalAssumption DEF StartedWithInterval
  <1>3. /\ currTick \in 0 .. W - 1 /\ clock \in 0 .. W - 1 /\ tick[e] \in 0 .. W - 1
        /\ age[e] \in Nat /\ Gap \in 0 .. W - 1
    BY GapType DEF TypeOK
  <1>4. d \in 0 .. W - 1 /\ Elapsed(d, currTick) = I
    BY <1>2, <1>3, LaterIsSum, ElapsedLater
  <1>5. ~Skip(e) /\ (Fire(e) \/ Wait(e))
    BY DEF Visit, Skip
  <1>6. CASE tick[e] = 0
    <2>1. Deadline(e) = d
      BY <1>2, <1>6 DEF Deadline
    <2>2. Elapsed(currTick, d) = W - I
      BY <1>2, <1>3, <1>4, ElapsedBack
    <2>3. ~Fire(e) /\ Wait(e)
      BY <1>2, <1>5, <2>1, <2>2, HalfRange, WAssumption DEF Fire, Expired
    <2>4. tick'[e] = d /\ age' = age
      BY <2>1, <2>3 DEF Wait, TypeOK
    <2>5. FreshUnvisited(e)
      BY <1>1, <1>6 DEF OnTime
    <2>6. CASE d = 0
      <3>1. FreshVisited(e)'
        BY <1>1, <2>4, <2>5, <2>6, <1>3, HalfRange DEF FreshUnvisited, FreshVisited
      <3> QED
        BY <1>1, <2>3, <2>4, <2>6, <3>1 DEF OnTime
    <2>7. CASE d # 0
      <3>1. NotDue(e)'
        <4> HIDE DEF d, I
        <4>1. Elapsed(d, currTick) \in 1 .. I
          BY <1>2, <1>4
        <4>2. age[e] + I \in Gap + I .. Gap + I + 2 * L
          BY <1>2, <1>3, <2>5, HalfRange DEF FreshUnvisited
        <4> QED
          BY <1>1, <1>4, <2>4, <4>1, <4>2 DEF NotDue, I
      <3>2. age'[e] >= Gap'
        BY <1>1, <1>3, <2>4, <2>5, HalfRange DEF FreshUnvisited
      <3> QED
        BY <1>1, <2>3, <2>4, <2>7, <3>1, <3>2 DEF OnTime
    <2> QED
      BY <2>6, <2>7, <2>3
  <1>7. CASE tick[e] # 0 /\ NotDue(e)
    <2>1. x \in 1 .. I
      BY <1>7 DEF NotDue
    <2>2. y = W - x
      BY <1>3, <2>1, ElapsedBack
    <2>3. Deadline(e) = tick[e]
      BY <1>7 DEF Deadline
    <2>4. ~Fire(e) /\ Wait(e)
      BY <1>2, <1>5, <2>1, <2>2, <2>3, HalfRange, WAssumption DEF Fire, Expired
    <2>5. tick'[e] = tick[e] /\ age' = age
      BY <2>3, <2>4 DEF Wait, TypeOK
    <2>6. NotDue(e)' /\ age'[e] >= Gap'
      BY <1>1, <1>7, <2>5 DEF NotDue, OnTime
    <2> QED
      BY <1>7, <2>4, <2>5, <2>6 DEF OnTime
  <1>8. CASE tick[e] # 0 /\ ~NotDue(e)
    <2>1. y < L /\ age[e] \in Gap + y + I .. Gap + y + I + 2 * L
      BY <1>8 DEF OnTime, Due
    <2>2. y \in 0 .. W - 1
      BY <1>3, ElapsedIsDifference
    <2>3. Deadline(e) = tick[e]
      BY <1>8 DEF Deadline
    <2>4. ~Wait(e) /\ Fire(e)
      BY <1>5, <2>1, <2>2, <2>3, HalfRange DEF Wait, Expired
    <2>5. age[e] >= I
      BY <1>2, <1>3, <2>1, <2>2, HalfRange
    <2>6. CASE e \in reload_events
      <3>1. tick'[e] = d /\ age'[e] = Gap
        BY <1>2, <2>4, <2>6 DEF Fire, Restart, TypeOK, Gap
      <3>2. CASE d = 0
        <4>1. FreshVisited(e)'
          BY <1>1, <1>3, <3>1, <3>2 DEF FreshVisited
        <4> QED
          BY <1>1, <2>5, <3>1, <3>2, <4>1 DEF OnTime
      <3>3. CASE d # 0
        <4>1. NotDue(e)'
          <5> HIDE DEF d, I
          <5>1. Elapsed(d, currTick) \in 1 .. I
            BY <1>2, <1>4
          <5>2. Gap + I \in Gap + I .. Gap + I + 2 * L
            BY <1>2, <1>3, HalfRange
          <5> QED
            BY <1>1, <1>4, <3>1, <5>1, <5>2 DEF NotDue, I
        <4> QED
          BY <1>1, <1>3, <2>5, <3>1, <3>3, <4>1 DEF OnTime
      <3> QED
        BY <3>2, <3>3
    <2>7. CASE e \notin reload_events
      BY <2>4, <2>5, <2>7 DEF Fire, Stop, Running, TypeOK
    <2> QED
      BY <2>6, <2>7
  <1> QED
    BY <1>6, <1>7, <1>8

\* A timer started between two passes.
LEMMA OnTimeStarted ==
    ASSUME TypeOK, NEW e \in Events, Idle, tick'[e] = 0, age'[e] = 0, clock' = clock,
           currTick' = currTick, pos' = pos
    PROVE  OnTime(e)'
  <1>1. ~(pos' <= e) /\ pos' = N
    BY NAssumption DEF Idle, Events
  <1>2. 0 <= Gap'
    BY GapType DEF Gap
  <1> QED
    BY <1>1, <1>2 DEF OnTime, FreshVisited

LEMMA StepOnTime ==
    ASSUME TimerInv, [Next]_vars, NEW e \in Events, Running(e)'
    PROVE  OnTime(e)'
  <1> USE DEF TimerInv
  <1>1. ASSUME UNCHANGED <<tick[e], remain_tick[e], age[e], clock, currTick, pos>>
        PROVE  OnTime(e)'
    BY <1>1, OnTimeUnchanged
  <1>2. CASE Tick
    BY <1>2, OnTimeTick DEF Tick, timers, Running
  <1>3. CASE UpdateStart
    BY <1>3, OnTimeUpdateStart DEF UpdateStart, timers, Running
  <1>4. CASE TakeAll \/ UNCHANGED vars
    BY <1>1, <1>4 DEF TakeAll, vars, timers
  <1>5. ASSUME NEW f \in Events, SetEvent(f) \/ UnsetEvent(f) \/ AddImmediate(f)
        PROVE  OnTime(e)'
    BY <1>1, <1>5 DEF SetEvent, UnsetEvent, AddImmediate, timers
  <1>6. ASSUME NEW f \in Events, Add(f)
        PROVE  OnTime(e)'
    <2>1. CASE e = f
      BY <1>6, <2>1, OnTimeStarted DEF Add, TypeOK
    <2>2. CASE e # f
      BY <1>1, <1>6, <2>2 DEF Add, TypeOK
    <2> QED
      BY <2>1, <2>2
  <1>7. ASSUME NEW f \in Events, AddReload(f)
        PROVE  OnTime(e)'
    <2>1. CASE e = f /\ ~Running(f)
      BY <1>7, <2>1, OnTimeStarted DEF AddReload, TypeOK
    <2>2. CASE e # f \/ Running(f)
      BY <1>1, <1>7, <2>2 DEF AddReload, TypeOK
    <2> QED
      BY <2>1, <2>2
  <1>8. ASSUME NEW f \in Events, Del(f)
        PROVE  OnTime(e)'
    <2>1. e # f
      BY <1>8 DEF Del, Stop, Running, TypeOK
    <2> QED
      BY <1>1, <1>8, <2>1 DEF Del, Stop, TypeOK
  <1>9. ASSUME NEW f \in Events, Visit(f)
        PROVE  OnTime(e)'
    <2>1. CASE e = f /\ Running(e)
      BY <1>9, <2>1, OnTimeVisit
    <2>2. CASE e = f /\ ~Running(e)
      BY <1>9, <2>2 DEF Visit, Skip, Fire, Wait, Running, timers
    <2>3. CASE e # f
      <3>1. UNCHANGED <<tick[e], remain_tick[e], age[e], clock, currTick>>
        BY <1>9, <2>3 DEF Visit, Skip, Fire, Wait, Restart, Stop, timers, TypeOK
      <3>2. pos \in Events \ {e} /\ pos' = pos + 1
        BY <1>9, <2>3 DEF Visit
      <3> QED
        BY <3>1, <3>2, OnTimeUnchanged
    <2> QED
      BY <2>1, <2>2, <2>3
  <1> QED
    BY <1>2, <1>3, <1>4, <1>5, <1>6, <1>7, <1>8, <1>9 DEF Next

-----------------------------------------------------------------------------
(* The time event_timer_next_tick returns.                                   *)

\* min_timer of the running pass is no longer than the time left to any timer
\* the pass has visited.
MinCovers ==
    \A e \in Events : e < pos /\ Running(e) =>
        min_timer <= Elapsed(Deadline(e), currTick)

SleepInv == pos # N => MinCovers

LEMMA DeadlineUnchanged ==
    ASSUME TypeOK, MinCovers, NEW e \in Events, e < pos, Running(e)',
           UNCHANGED <<tick[e], remain_tick[e], currTick>>,
           min_timer' \in Nat, min_timer' <= min_timer
    PROVE  min_timer' <= Elapsed(Deadline(e), currTick)'
  <1>1. Running(e)
    BY DEF Running
  <1>2. Deadline(e)' = Deadline(e) /\ currTick' = currTick
    BY DEF Deadline
  <1>3. Deadline(e) \in 0 .. W - 1
    BY LaterIsSum DEF Deadline, TypeOK
  <1>4. Elapsed(Deadline(e), currTick) \in Nat
    BY <1>3, ElapsedIsDifference DEF TypeOK
  <1>5. min_timer \in Nat /\ min_timer <= Elapsed(Deadline(e), currTick)
    BY <1>1, WAssumption DEF MinCovers, TypeOK
  <1>6. Elapsed(Deadline(e), currTick)' = Elapsed(Deadline(e), currTick)
    BY <1>2 DEF Elapsed
  <1> QED
    BY <1>4, <1>5, <1>6

\* A visit lowers min_timer to the time left to the visited timer, or to 0.
LEMMA MinVisit ==
    ASSUME TypeOK, TypeOK', MinCovers, NEW f \in Events, Visit(f)
    PROVE  MinCovers'
  <1> SUFFICES ASSUME NEW e \in Events, e < pos', Running(e)'
               PROVE  min_timer' <= Elapsed(Deadline(e), currTick)'
    BY DEF MinCovers
  <1>1. pos = f /\ pos' = f + 1 /\ currTick' = currTick /\ Events \subseteq Nat
    BY DEF Visit, Events
  <1>2. Deadline(f) \in 0 .. W - 1
    BY LaterIsSum DEF Deadline, TypeOK
  <1>3. Elapsed(Deadline(f), currTick) \in Nat
    BY <1>2, ElapsedIsDifference DEF TypeOK
  <1>4. min_timer \in Nat /\ min_timer' \in Nat
    BY WAssumption DEF TypeOK
  <1>5. min_timer' <= min_timer
    BY <1>3, <1>4 DEF Visit, Skip, Fire, Wait, Nearest
  <1>6. CASE e # f
    <2>1. UNCHANGED <<tick[e], remain_tick[e]>>
      BY <1>6 DEF Visit, Skip, Fire, Wait, Restart, Stop, timers, TypeOK
    <2>2. e < pos
      BY <1>1, <1>6
    <2> QED
      BY <1>1, <1>4, <1>5, <2>1, <2>2, DeadlineUnchanged
  <1>7. CASE e = f
    <2>1. ~Skip(f)
      BY <1>7 DEF Skip, timers, Running
    <2>2. CASE Fire(f)
      <3>1. Deadline(e)' \in 0 .. W - 1 /\ currTick' \in 0 .. W - 1
        BY LaterIsSum DEF Deadline, TypeOK
      <3>2. Elapsed(Deadline(e)', currTick') \in Nat
        BY <3>1, ElapsedIsDifference
      <3>3. Elapsed(Deadline(e), currTick)' = Elapsed(Deadline(e)', currTick')
        BY DEF Elapsed
      <3> QED
        BY <2>2, <3>2, <3>3 DEF Fire
    <2>3. CASE Wait(f)
      <3>1. tick'[e] = Deadline(e) /\ remain_tick' = remain_tick
        BY <1>7, <2>3 DEF Wait, TypeOK
      <3>2. Deadline(e)' = Deadline(e)
        BY <1>1, <3>1 DEF Deadline
      <3>3. Elapsed(Deadline(e), currTick)' = Elapsed(Deadline(f), currTick)
        BY <1>1, <1>7, <3>2 DEF Elapsed
      <3>4. min_timer' <= Elapsed(Deadline(f), currTick)
        BY <1>3, <1>4, <2>3 DEF Wait, Nearest
      <3> QED
        BY <3>3, <3>4
    <2> QED
      BY <2>1, <2>2, <2>3 DEF Visit
  <1> QED
    BY <1>6, <1>7

LEMMA StepSleep ==
    ASSUME TimerInv, TimerInv', SleepInv, [Next]_vars
    PROVE  SleepInv'
  <1> SUFFICES ASSUME pos' # N PROVE MinCovers'
    BY DEF SleepInv
  <1> USE DEF TimerInv
  <1>1. ASSUME UNCHANGED <<timers, min_timer, currTick, pos>>
        PROVE  MinCovers'
    <2>1. MinCovers
      BY <1>1 DEF SleepInv
    <2> QED
      BY <1>1, <2>1 DEF MinCovers, timers, Running, Deadline, Elapsed, Later
  <1>2. CASE Tick \/ TakeAll \/ UNCHANGED vars
    <2>1. UNCHANGED <<timers, min_timer, currTick, pos>>
      BY <1>2 DEF Tick, TakeAll, vars, timers
    <2> QED
      BY <1>1, <2>1
  <1>3. CASE UpdateStart
    BY <1>3 DEF UpdateStart, MinCovers, Events
  <1>4. ASSUME NEW e \in Events,
               SetEvent(e) \/ UnsetEvent(e) \/ AddImmediate(e)
        PROVE  MinCovers'
    BY <1>1, <1>4 DEF SetEvent, UnsetEvent, AddImmediate
  <1>5. ASSUME NEW e \in Events, Add(e) \/ AddReload(e) \/ Del(e)
        PROVE  MinCovers'
    BY <1>5 DEF Add, AddReload, Del, Idle
  <1>6. ASSUME NEW e \in Events, Visit(e)
        PROVE  MinCovers'
    <2>1. pos # N
      BY <1>6, NAssumption DEF Visit, Events
    <2> QED
      BY <1>6, <2>1, MinVisit DEF SleepInv
  <1> QED
    BY <1>2, <1>3, <1>4, <1>5, <1>6 DEF Next

\* What is left to a timer the pass has visited bounds how late it can be.
LEMMA VisitedBound ==
    ASSUME TimerInv', NEW e \in Events, Running(e)', ~(pos' <= e)
    PROVE  /\ Elapsed(Deadline(e), currTick)' \in Nat
           /\ age'[e] + Elapsed(Deadline(e), currTick)' <= Interval[e] + 3 * L
  <1> DEFINE I == Interval[e]
             t == tick'[e]
             g == Gap'
             a == age'[e]
  <1>1. /\ OnTime(e)' /\ g <= L
        /\ currTick' \in 0 .. W - 1 /\ clock' \in 0 .. W - 1 /\ t \in 0 .. W - 1 /\ a \in Nat
        /\ I \in Nat /\ I \in 0 .. W - 1 /\ remain_tick'[e] = I
    BY IntervalAssumption DEF TimerInv, TypeOK, StartedWithInterval
  <1>2. g \in 0 .. W - 1
    BY <1>1, ElapsedIsDifference DEF Gap
  <1>3. CASE t = 0
    <2>1. Elapsed(Deadline(e), currTick)' = Elapsed(Later(I, currTick'), currTick')
      BY <1>1, <1>3 DEF Deadline, Elapsed, Later
    <2>2. Elapsed(Deadline(e), currTick)' = I
      BY <1>1, <2>1, ElapsedLater
    <2>3. FreshVisited(e)'
      BY <1>1, <1>3 DEF OnTime
    <2>4. a <= g \/ a <= g + L
      BY <2>3 DEF FreshVisited
    <2>5. a <= 2 * L
      <3> HIDE DEF a, g
      <3> QED
        BY <1>1, <1>2, <2>4, HalfRange
    <2>6. a + I <= I + 3 * L
      <3> HIDE DEF a, I
      <3> QED
        BY <1>1, <2>5, HalfRange
    <2> QED
      BY <1>1, <2>2, <2>6
  <1>4. CASE t # 0
    <2>1. NotDue(e)'
      BY <1>1, <1>4 DEF OnTime, Due
    <2> DEFINE x == Elapsed(tick[e], currTick)'
    <2>2. Elapsed(Deadline(e), currTick)' = x
      BY <1>4 DEF Deadline, Elapsed
    <2>3. x \in 1 .. I /\ a + x \in g + I .. g + I + 2 * L
      BY <2>1 DEF NotDue
    <2>4. x \in Nat /\ a + x <= I + 3 * L
      <3> HIDE DEF a, x, I, g
      <3> QED
        BY <1>1, <1>2, <2>3, HalfRange
    <2> QED
      BY <2>2, <2>4
  <1> QED
    BY <1>3, <1>4

-----------------------------------------------------------------------------
(* Theorems.                                                                 *)

LEMMA InitInv == Init => TimerInv
  <1> SUFFICES ASSUME Init PROVE TimerInv
    OBVIOUS
  <1>1. Gap = 0
    BY ElapsedIsDifference, WAssumption DEF Init, Gap
  <1>2. \A e \in Events : ~Running(e)
    BY DEF Init, Running
  <1> QED
    BY <1>1, <1>2, InitType, InitCount, InitStarted, HalfRange DEF TimerInv

LEMMA StepInv == TimerInv /\ [Next]_vars => TimerInv'
  <1> SUFFICES ASSUME TimerInv, [Next]_vars PROVE TimerInv'
    OBVIOUS
  <1>1. TypeOK' /\ CountMatches' /\ StartedWithInterval' /\ (Gap <= L)'
    BY StepType, StepCount, StepStarted, StepGap DEF TimerInv
  <1>2. \A e \in Events : Running(e)' => OnTime(e)'
    BY StepOnTime
  <1> QED
    BY <1>1, <1>2 DEF TimerInv

\* A timer that is on time has been running for its interval and 4L at most.
LEMMA OnTimeBound ==
    ASSUME TimerInv, NEW e \in Events, Running(e)
    PROVE  age[e] <= Interval[e] + 4 * L
  <1> DEFINE x == Elapsed(tick[e], currTick)
             y == Elapsed(currTick, tick[e])
  <1>1. /\ x \in 0 .. W - 1 /\ y \in 0 .. W - 1 /\ Gap \in 0 .. W - 1 /\ Gap <= L
    BY ElapsedIsDifference, GapType DEF TimerInv, TypeOK
  <1>2. age[e] \in Nat /\ Interval[e] \in Nat /\ OnTime(e)
    BY IntervalAssumption DEF TimerInv, TypeOK
  <1>3. CASE tick[e] = 0
    BY <1>1, <1>2, <1>3, HalfRange DEF OnTime, FreshUnvisited, FreshVisited
  <1>4. CASE tick[e] # 0 /\ NotDue(e)
    BY <1>1, <1>2, <1>4, HalfRange DEF NotDue
  <1>5. CASE tick[e] # 0 /\ Due(e)
    BY <1>1, <1>2, <1>5, HalfRange DEF Due
  <1> QED
    BY <1>2, <1>3, <1>4, <1>5 DEF OnTime

\* Every reachable state is well typed, for every clock width and timer count.
THEOREM TypeCorrect == Spec => []TypeOK
  BY InitInv, StepInv, PTL DEF Spec, TimerInv

\* The hand-kept counter of running timers is exact.
THEOREM CounterExact == Spec => []CountMatches
  BY InitInv, StepInv, PTL DEF Spec, TimerInv

\* A self-restarting timer runs until it is deleted.
THEOREM PeriodicForEver == Spec => []PeriodicStaysArmed
  <1>1. TimerInv => PeriodicStaysArmed
    BY DEF TimerInv, StartedWithInterval, PeriodicStaysArmed
  <1> QED
    BY <1>1, InitInv, StepInv, PTL DEF Spec

\* No timer fires early, whatever the clock wraps around.
THEOREM NeverEarly == Spec => NoEarlyFire
  <1>1. TimerInv /\ [Next]_vars =>
          [\A e \in Events : (pos = e /\ Fire(e) /\ pos' # pos) => age[e] >= Interval[e]]_vars
    <2> SUFFICES ASSUME TimerInv, Next, NEW e \in Events, pos = e, Fire(e), pos' # pos
                 PROVE  age[e] >= Interval[e]
      OBVIOUS
    <2>1. Visit(e) /\ Running(e)
      <3>1. Running(e) /\ pos # N
        BY NAssumption DEF Fire, Events
      <3>2. \E f \in Events : Visit(f)
        BY <3>1 DEF Next, Tick, TakeAll, UpdateStart, Idle, SetEvent, UnsetEvent, Add,
                    AddImmediate, AddReload, Del
      <3> QED
        BY <3>1, <3>2 DEF Visit
    <2> QED
      BY <2>1, OnTimeVisit DEF TimerInv
  <1> QED
    BY <1>1, InitInv, StepInv, PTL DEF Spec, NoEarlyFire

\* No timer is ever lost or late by more than four passes.
THEOREM NeverLost == Spec => []BoundedLateness
  <1>1. TimerInv => BoundedLateness
    BY OnTimeBound DEF BoundedLateness
  <1> QED
    BY <1>1, InitInv, StepInv, PTL DEF Spec

\* The caller of event_timer_next_tick never sleeps past a timer.
THEOREM SleepsInTime == Spec => NextTickNeverOversleeps
  <1> DEFINE A == (pos = N - 1 /\ pos' = N) =>
                    \A e \in Events : Running(e)' => age'[e] + min_timer' <= Interval[e] + 3 * L
  <1>1. Init => SleepInv
    BY DEF Init, SleepInv
  <1>2. TimerInv /\ TimerInv' /\ SleepInv /\ [Next]_vars => SleepInv' /\ [A]_vars
    <2> SUFFICES ASSUME TimerInv, TimerInv', SleepInv, Next, pos = N - 1, pos' = N,
                        NEW e \in Events, Running(e)'
                 PROVE  age'[e] + min_timer' <= Interval[e] + 3 * L
      BY StepSleep
    <2>1. PICK f \in Events : Visit(f)
      BY NAssumption DEF Next, Tick, TakeAll, UpdateStart, Idle, SetEvent, UnsetEvent, Add,
                  AddImmediate, AddReload, Del
    <2>2. pos # N /\ ~(pos' <= e) /\ e < pos'
      BY NAssumption DEF Events
    <2>3. MinCovers'
      BY <2>1, <2>2, MinVisit DEF SleepInv, TimerInv
    <2>4. min_timer' <= Elapsed(Deadline(e), currTick)'
      BY <2>2, <2>3 DEF MinCovers
    <2> DEFINE x == Elapsed(Deadline(e), currTick)'
    <2>5. x \in Nat /\ age'[e] + x <= Interval[e] + 3 * L
      BY <2>2, VisitedBound
    <2>6. min_timer' \in Nat /\ age'[e] \in Nat /\ Interval[e] \in Nat /\ L \in Nat
      BY WAssumption, IntervalAssumption, HalfRange DEF TimerInv, TypeOK
    <2> HIDE DEF x
    <2> QED
      BY <2>4, <2>5, <2>6 DEF x
  <1>3. Init => TimerInv
    BY InitInv
  <1>4. TimerInv /\ [Next]_vars => TimerInv'
    BY StepInv
  <1> QED
    BY <1>1, <1>2, <1>3, <1>4, PTL DEF Spec, NextTickNeverOversleeps

=============================================================================
