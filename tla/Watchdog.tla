------------------------------ MODULE Watchdog ------------------------------
(* The station's watchdog and what it watches (3g_watchdog.c, net_app.c).    *)
(*                                                                           *)
(* The hardware restarts the station IwdgTime after the last feeding.  Until *)
(* the network starts the bsmac thread feeds, then the wait for an address,  *)
(* then a timer that looks at the flags of the two network threads: it feeds *)
(* when both have reported since it last looked, and for a few turns when    *)
(* they have not.  The receive thread connects with the socket's mutex held; *)
(* the send thread looks at net_IsOk, then takes the mutex.                  *)
(*                                                                           *)
(* Time passes in units.  A thread that can run does so before the unit ends *)
(* and one that sleeps less than a unit sleeps to its end.                   *)
EXTENDS Integers

CONSTANTS
    IwdgTime,     \* WATCHDOG_MS_INTERVAL
    Period,       \* of the feeding timer
    Tries,        \* what cnt starts from
    ConnectTime,  \* connect gives up after this time
    RetrySleep,   \* between two tries to connect
    Sends         \* packets the send thread may send in one round

ASSUME TimesAssumption ==
    /\ {IwdgTime, Period, Tries, RetrySleep} \subseteq Nat \ {0}
    /\ {ConnectTime, Sends} \subseteq Nat
    /\ 2 <= Period /\ Period < IwdgTime /\ IwdgTime <= 2 * Period
    /\ ConnectTime + RetrySleep < Tries * Period

VARIABLES
    stage,      \* "bsmac", "address" or "net": who feeds
    iwdg,       \* time left to the restart
    phase,      \* time since the timer's handler ran
    cnt,
    net_recv_fine_flag, net_send_fine_flag,
    net_IsOk,
    rpc,        \* where the receive thread is; it holds the mutex while "connecting"
    rwait,      \* how long it has been connecting or sleeping before the next try
    spc,        \* where the send thread is; it holds the mutex while "sending"
    sent,       \* packets it has sent in this round
    hung,       \* ghost: the threads that never run again
    silence     \* ghost: time since the first of them hung, as far as it matters

feedVars == <<stage, iwdg, phase, cnt>>
flags == <<net_recv_fine_flag, net_send_fine_flag>>
recvVars == <<rpc, rwait>>
sendVars == <<spc, sent>>
ghosts == <<hung, silence>>
vars == <<feedVars, flags, net_IsOk, recvVars, sendVars, ghosts>>

Threads == {"recv", "send"}

\* power-up, or a restart by the watchdog
Init ==
    /\ stage = "bsmac" /\ iwdg = IwdgTime /\ phase = 0 /\ cnt = Tries
    /\ net_recv_fine_flag = FALSE /\ net_send_fine_flag = FALSE
    /\ net_IsOk = FALSE
    /\ rpc = "top" /\ rwait = 0
    /\ spc = "top" /\ sent = 0
    /\ hung = {} /\ silence = 0

Running(t) == stage = "net" /\ t \notin hung

-----------------------------------------------------------------------------
(* Defects a careless edit of the code would introduce (mutants).            *)
EitherFine == net_recv_fine_flag \/ net_send_fine_flag
SilentTry == UNCHANGED flags
FlagsStay == UNCHANGED flags
AtOnce == "top"
-----------------------------------------------------------------------------
(* Feeding.                                                                  *)

\* bsmac_thread_entry and _dhcp_work feed every time round
LoopFeeds ==
    /\ stage \in {"bsmac", "address"}
    /\ iwdg' = IwdgTime
    /\ UNCHANGED <<stage, phase, cnt, flags, net_IsOk, recvVars, sendVars, ghosts>>

\* start_net_work, to the wait for an address
StartNet ==
    /\ stage = "bsmac" /\ stage' = "address"
    /\ iwdg' = IwdgTime
    /\ UNCHANGED <<phase, cnt, flags, net_IsOk, recvVars, sendVars, ghosts>>

\* the rest of it: the threads and the timer start
StartThreads ==
    /\ stage = "address" /\ stage' = "net"
    /\ iwdg' = IwdgTime /\ phase' = 0
    /\ UNCHANGED <<cnt, flags, net_IsOk, recvVars, sendVars, ghosts>>

Fine == net_recv_fine_flag /\ net_send_fine_flag

Cleared == net_recv_fine_flag' = FALSE /\ net_send_fine_flag' = FALSE

Patient(fine) == fine \/ cnt' > 0

\* _iwdg_feeding_timer_handler
Handler ==
    /\ stage = "net" /\ phase = Period
    /\ phase' = 0
    /\ cnt' = IF Fine THEN Tries ELSE cnt - 1
    /\ Cleared
    /\ iwdg' = IF Patient(Fine) THEN IwdgTime ELSE iwdg
    /\ UNCHANGED <<stage, net_IsOk, recvVars, sendVars, ghosts>>

-----------------------------------------------------------------------------
(* The receive thread.                                                       *)

\* the start of a try to connect, with the mutex
Try ==
    /\ net_recv_fine_flag' = TRUE /\ UNCHANGED net_send_fine_flag

BeginTry ==
    /\ Running("recv") /\ spc # "sending"
    /\ \/ rpc = "top" /\ ~net_IsOk
       \/ rpc = "retry" /\ rwait = RetrySleep
    /\ Try
    /\ rpc' = "connecting" /\ rwait' = 0
    /\ UNCHANGED <<feedVars, net_IsOk, sendVars, ghosts>>

Connected ==
    /\ Running("recv") /\ rpc = "connecting"
    /\ net_IsOk' = TRUE /\ rpc' = "top" /\ rwait' = 0
    /\ UNCHANGED <<feedVars, flags, sendVars, ghosts>>

\* no socket, or no answer of the server
TryFails ==
    /\ Running("recv") /\ rpc = "connecting"
    /\ rpc' = "retry" /\ rwait' = 0
    /\ UNCHANGED <<feedVars, flags, net_IsOk, sendVars, ghosts>>

\* where the thread is after it has polled: it sleeps, whatever it found
AfterPoll == "nap"

\* _net_recv_data: nothing there, data, or an error that closes the socket
Poll ==
    /\ Running("recv") /\ rpc = "top" /\ net_IsOk /\ spc # "sending"
    /\ net_recv_fine_flag' = TRUE
    /\ net_IsOk' \in BOOLEAN
    /\ rpc' = AfterPoll
    /\ UNCHANGED <<feedVars, net_send_fine_flag, rwait, sendVars, ghosts>>

-----------------------------------------------------------------------------
(* The send thread.                                                          *)

\* _net_send_data finds the connection up
Look ==
    /\ Running("send") /\ spc = "top" /\ sent < Sends /\ net_IsOk
    /\ spc' = "want" /\ sent' = sent + 1
    /\ UNCHANGED <<feedVars, flags, net_IsOk, recvVars, ghosts>>

TakeMutex ==
    /\ Running("send") /\ spc = "want" /\ rpc # "connecting"
    /\ spc' = "sending"
    /\ UNCHANGED <<feedVars, flags, net_IsOk, recvVars, sent, ghosts>>

\* sent or not, a send does not wait
Sent ==
    /\ Running("send") /\ spc = "sending" /\ spc' = "top"
    /\ UNCHANGED <<feedVars, flags, net_IsOk, recvVars, sent, ghosts>>

\* the end of a round, with or without packets
Report ==
    /\ Running("send") /\ spc = "top"
    /\ net_send_fine_flag' = TRUE
    /\ spc' = "nap" /\ sent' = 0
    /\ UNCHANGED <<feedVars, net_recv_fine_flag, net_IsOk, recvVars, ghosts>>

-----------------------------------------------------------------------------
(* Time and faults.                                                          *)

\* a thread waits for what never comes, perhaps with the mutex
Hang(t) ==
    /\ Running(t)
    /\ hung' = hung \cup {t}
    /\ UNCHANGED <<feedVars, flags, net_IsOk, recvVars, sendVars, silence>>

RecvReady ==
    /\ Running("recv")
    /\ \/ rpc = "top" /\ spc # "sending"
       \/ rpc = "connecting" /\ rwait = ConnectTime
       \/ rpc = "retry" /\ rwait = RetrySleep /\ spc # "sending"

SendReady ==
    /\ Running("send")
    /\ \/ spc \in {"top", "sending"}
       \/ spc = "want" /\ rpc # "connecting"

Waits == Running("recv") /\ (rpc = "connecting" \/ (rpc = "retry" /\ rwait < RetrySleep))

\* within this time the watchdog restarts a station that hangs
Limit == Tries * Period + IwdgTime

WakeUp(t, pc) == IF Running(t) /\ pc = "nap" THEN "top" ELSE pc

Tick ==
    /\ stage = "net" => phase < Period
    /\ stage # "net" => iwdg = IwdgTime
    /\ ~RecvReady /\ ~SendReady
    /\ iwdg' = iwdg - 1
    /\ phase' = IF stage = "net" THEN phase + 1 ELSE phase
    /\ rwait' = IF Waits THEN rwait + 1 ELSE rwait
    /\ rpc' = WakeUp("recv", rpc) /\ spc' = WakeUp("send", spc)
    /\ silence' = IF hung # {} /\ silence <= Limit THEN silence + 1 ELSE silence
    /\ UNCHANGED <<stage, cnt, flags, net_IsOk, sent, hung>>

\* the hardware; nothing of all this outlives a restart
Restart ==
    /\ iwdg = 0
    /\ stage' = "bsmac" /\ iwdg' = IwdgTime /\ phase' = 0 /\ cnt' = Tries
    /\ net_recv_fine_flag' = FALSE /\ net_send_fine_flag' = FALSE
    /\ net_IsOk' = FALSE
    /\ rpc' = "top" /\ rwait' = 0
    /\ spc' = "top" /\ sent' = 0
    /\ hung' = {} /\ silence' = 0

Step ==
    \/ LoopFeeds \/ StartNet \/ StartThreads \/ Handler
    \/ BeginTry \/ Connected \/ TryFails \/ Poll
    \/ Look \/ TakeMutex \/ Sent \/ Report
    \/ Tick \/ \E t \in Threads : Hang(t)

Next == (iwdg > 0 /\ Step) \/ Restart

\* Time and the threads that can run go on.
Spec == Init /\ [][Next]_vars /\ WF_vars(Next)

-----------------------------------------------------------------------------
(* Properties.                                                               *)

\* The timer counts down to 0 and never below it; nobody waits too long.
TypeOK ==
    /\ stage \in {"bsmac", "address", "net"}
    /\ iwdg \in 0 .. IwdgTime /\ phase \in 0 .. Period /\ cnt \in 0 .. Tries
    /\ net_recv_fine_flag \in BOOLEAN /\ net_send_fine_flag \in BOOLEAN /\ net_IsOk \in BOOLEAN
    /\ rpc \in {"top", "connecting", "retry", "nap"}
    /\ rwait \in Nat
    /\ rpc = "connecting" => rwait <= ConnectTime
    /\ rpc = "retry" => rwait <= RetrySleep
    /\ spc \in {"top", "want", "sending", "nap"} /\ sent \in 0 .. Sends
    /\ hung \subseteq Threads /\ silence \in Nat

(* The watchdog restarts no station whose threads work: not while the server *)
(* does not answer, when the receive thread reports only once in a try and   *)
(* both reports must fall between two turns of the timer, and not while one  *)
(* feeder takes over from the other.                                         *)
NoFalseAlarm == iwdg = 0 => hung # {}

(* The send thread does not wait through a connect: the receive thread       *)
(* sleeps after it has closed the connection, before it takes the mutex to   *)
(* connect, so a send thread that had found the connection up comes first.   *)
NeverBehindConnect == Running("send") /\ spc = "want" => rpc # "connecting"

(* A thread that hangs is not covered up by the other one, whatever socket   *)
(* or mutex it holds: the station restarts within a fixed time ...           *)
HangIsSeen == silence <= Limit

\* ... it does restart, and all threads run again.
HangEnds == (hung # {}) ~> (hung = {})
=============================================================================
