--------------------------- MODULE WatchdogProofs ---------------------------
(* Proofs about Watchdog, for any times its assumption allows.               *)
EXTENDS Watchdog, TLAPS

-----------------------------------------------------------------------------
(* The inductive invariant.                                                  *)

\* Before the network starts nothing has been counted.
Quiet ==
    stage # "net" =>
        /\ iwdg >= IwdgTime - 1 /\ phase = 0 /\ cnt = Tries /\ hung = {}
        /\ rpc = "top" /\ rwait = 0 /\ spc = "top" /\ sent = 0
        /\ net_recv_fine_flag = FALSE /\ net_send_fine_flag = FALSE /\ net_IsOk = FALSE

\* The timer feeds at each turn but the one at which cnt comes to 0.
FedOK == stage = "net" => iwdg = IwdgTime - phase - (IF cnt = 0 THEN Period ELSE 0)

\* A send thread that has found the connection up comes before the next connect.
LookOK ==
    /\ rpc \in {"connecting", "retry"} => net_IsOk = FALSE
    /\ Running("send") /\ spc = "want" => net_IsOk = TRUE \/ rpc = "nap"

\* The send thread reports in every unit.
SendOK ==
    Running("send") =>
        /\ phase >= 2 => net_send_fine_flag = TRUE
        /\ phase = 1 /\ spc = "nap" => net_send_fine_flag = TRUE

\* the time all turns take, and the time covered by the turns that missed a report
Total == Tries * Period

Spent(c) == (Tries - c) * Period

Used == Spent(cnt)

\* how long ago the receive thread reported, at most
Age ==
    IF rpc = "connecting" THEN rwait
    ELSE IF rpc = "retry" THEN ConnectTime + rwait
    ELSE IF rpc = "nap" THEN 0
    ELSE ConnectTime + RetrySleep

\* While both threads work, the turns that missed a report do so for the receive
\* thread, whose last report is not that old.
RecvOK ==
    hung = {} => /\ cnt > 0
                 /\ net_recv_fine_flag = FALSE => Used + phase <= Age

\* a thread that hangs is noticed
Missed ==
    \/ "recv" \in hung /\ net_recv_fine_flag = FALSE
    \/ "send" \in hung /\ net_send_fine_flag = FALSE

HungOK ==
    /\ hung = {} => silence = 0
    /\ hung # {} /\ ~Missed => silence <= phase
    /\ Missed => /\ silence + iwdg <= Limit
                 /\ cnt > 0 => silence <= Period + Used + phase

IInv == TypeOK /\ Quiet /\ FedOK /\ LookOK /\ SendOK /\ RecvOK /\ HungOK

-----------------------------------------------------------------------------
(* Arithmetic.                                                               *)

LEMMA Constants ==
    /\ IwdgTime \in Nat /\ Period \in Nat /\ Tries \in Nat /\ RetrySleep \in Nat
    /\ ConnectTime \in Nat /\ Sends \in Nat
    /\ 0 < Tries /\ 0 < RetrySleep
    /\ 2 <= Period /\ Period < IwdgTime /\ IwdgTime <= 2 * Period
    /\ ConnectTime + RetrySleep < Total
    /\ Total \in Nat /\ Period <= Total
    /\ Limit \in Nat /\ Limit = Total + IwdgTime
<1>1. /\ IwdgTime \in Nat /\ Period \in Nat /\ Tries \in Nat /\ RetrySleep \in Nat
      /\ ConnectTime \in Nat /\ Sends \in Nat
      /\ 0 < Tries /\ 0 < RetrySleep
      /\ 2 <= Period /\ Period < IwdgTime /\ IwdgTime <= 2 * Period
      /\ ConnectTime + RetrySleep < Total
  BY TimesAssumption DEF Total
<1>2. Total \in Nat /\ Period <= Total
  BY <1>1 DEF Total
<1> QED
  BY <1>1, <1>2 DEF Limit, Total

LEMMA Turns ==
    ASSUME NEW c \in 0 .. Tries
    PROVE  /\ Spent(c) \in Nat
           /\ c = Tries => Spent(c) = 0
           /\ c >= 1 => Spent(c) <= Total - Period /\ Spent(c - 1) = Spent(c) + Period
           /\ c = 1 => Spent(c) + Period = Total
<1>1. Tries \in Nat /\ Period \in Nat /\ c \in Nat /\ c <= Tries /\ Tries - c \in Nat
  BY Constants
<1>2. Spent(c) \in Nat
  BY <1>1 DEF Spent
<1>3. Spent(c - 1) = Spent(c) + Period
  BY <1>1 DEF Spent
<1>4. ASSUME c >= 1 PROVE Spent(c) <= Total - Period
  <2>1. Total = Spent(c) + c * Period /\ c * Period = Period + (c - 1) * Period
    BY <1>1 DEF Spent, Total
  <2>2. (c - 1) * Period \in Nat
    BY <1>1, <1>4
  <2> QED
    BY <1>1, <1>2, <2>1, <2>2
<1>5. c = Tries => Spent(c) = 0
  BY <1>1 DEF Spent
<1>6. c = 1 => Spent(c) + Period = Total
  BY <1>1 DEF Spent, Total
<1> QED
  BY <1>2, <1>3, <1>4, <1>5, <1>6

-----------------------------------------------------------------------------
(* The actions.                                                              *)

\* Steps of a working thread leave the feeding alone, and the flags of the
\* threads that hang.
LEMMA ThreadStep ==
    ASSUME IInv, stage = "net", UNCHANGED <<feedVars, ghosts>>,
           "recv" \in hung => net_recv_fine_flag' = net_recv_fine_flag,
           "send" \in hung => net_send_fine_flag' = net_send_fine_flag
    PROVE  Quiet' /\ FedOK' /\ HungOK'
<1> USE DEF feedVars, ghosts
<1>1. Quiet' /\ FedOK'
  BY DEF IInv, Quiet, FedOK
<1>2. Missed' <=> Missed
  BY DEF Missed
<1>3. Used' = Used
  BY DEF Used
<1> QED
  BY <1>1, <1>2, <1>3 DEF IInv, HungOK

LEMMA StartSteps ==
    ASSUME IInv, LoopFeeds \/ StartNet \/ StartThreads
    PROVE  IInv'
<1> USE DEF flags, recvVars, sendVars, ghosts
<1>1. /\ stage # "net" /\ stage' \in {"bsmac", "address", "net"}
      /\ iwdg' = IwdgTime /\ phase = 0 /\ phase' = 0 /\ cnt' = cnt
      /\ UNCHANGED <<net_recv_fine_flag, net_send_fine_flag, net_IsOk, rpc, rwait, spc, sent, hung, silence>>
  BY DEF LoopFeeds, StartNet, StartThreads, IInv, Quiet
<1>2. /\ cnt = Tries /\ hung = {} /\ rpc = "top" /\ rwait = 0 /\ spc = "top" /\ sent = 0 /\ silence = 0
      /\ net_recv_fine_flag = FALSE /\ net_send_fine_flag = FALSE /\ net_IsOk = FALSE
  BY <1>1 DEF IInv, Quiet, HungOK
<1>3. TypeOK'
  BY <1>1, <1>2, Constants DEF IInv, TypeOK
<1>4. Quiet' /\ FedOK' /\ LookOK' /\ SendOK'
  BY <1>1, <1>2, Constants DEF Quiet, FedOK, LookOK, SendOK
<1>5. Used' = 0
  BY <1>1, <1>2, Constants, Turns DEF Used
<1>6. RecvOK'
  BY <1>1, <1>2, <1>5, Constants DEF RecvOK, Age
<1>7. HungOK'
  BY <1>1, <1>2 DEF HungOK, Missed
<1> QED
  BY <1>3, <1>4, <1>6, <1>7 DEF IInv

LEMMA BeginTryStep ==
    ASSUME IInv, BeginTry
    PROVE  IInv'
<1> USE DEF feedVars, sendVars, ghosts
<1>1. /\ stage = "net" /\ "recv" \notin hung /\ spc # "sending"
      /\ net_recv_fine_flag' = TRUE /\ rpc' = "connecting" /\ rwait' = 0
      /\ UNCHANGED <<stage, iwdg, phase, cnt, net_send_fine_flag, net_IsOk, spc, sent, hung, silence>>
  BY DEF BeginTry, Try, Running
<1>2. net_IsOk = FALSE /\ rpc # "nap"
  BY DEF BeginTry, IInv, LookOK, TypeOK
<1>3. TypeOK'
  BY <1>1, Constants DEF IInv, TypeOK
<1>4. Quiet' /\ FedOK' /\ HungOK'
  BY <1>1, ThreadStep
<1>5. LookOK'
  BY <1>1, <1>2 DEF IInv, LookOK, Running
<1>6. SendOK' /\ RecvOK'
  BY <1>1 DEF IInv, SendOK, RecvOK, Running
<1> QED
  BY <1>3, <1>4, <1>5, <1>6 DEF IInv

LEMMA ConnectSteps ==
    ASSUME IInv, Connected \/ TryFails
    PROVE  IInv'
<1> USE DEF feedVars, sendVars, ghosts, flags
<1>1. /\ stage = "net" /\ rpc = "connecting" /\ rpc' \in {"top", "retry"} /\ rwait' = 0
      /\ rpc' = "top" => net_IsOk' = TRUE
      /\ rpc' = "retry" => net_IsOk' = net_IsOk
      /\ net_IsOk' \in BOOLEAN
      /\ UNCHANGED <<stage, iwdg, phase, cnt, net_recv_fine_flag, net_send_fine_flag, spc, sent, hung, silence>>
  BY DEF Connected, TryFails, Running, IInv, TypeOK
<1>2. rwait \in Nat /\ rwait <= ConnectTime
  BY <1>1 DEF IInv, TypeOK
<1>3. TypeOK'
  BY <1>1, Constants DEF IInv, TypeOK
<1>4. Quiet' /\ FedOK' /\ HungOK'
  BY <1>1, ThreadStep
<1>5. LookOK'
  BY <1>1 DEF IInv, LookOK, Running
<1>6. SendOK'
  BY <1>1 DEF IInv, SendOK, Running
<1>7. RecvOK'
  <2>1. Age = rwait /\ Age' >= ConnectTime /\ Age' \in Nat
    BY <1>1, Constants DEF Age
  <2>2. Used' = Used /\ Used \in Nat /\ phase \in Nat
    BY <1>1, Turns DEF Used, IInv, TypeOK
  <2> QED
    BY <1>1, <1>2, <2>1, <2>2, Constants DEF IInv, RecvOK
<1> QED
  BY <1>3, <1>4, <1>5, <1>6, <1>7 DEF IInv

LEMMA PollStep ==
    ASSUME IInv, Poll
    PROVE  IInv'
<1> USE DEF feedVars, sendVars, ghosts
<1>1. /\ stage = "net" /\ "recv" \notin hung
      /\ net_recv_fine_flag' = TRUE /\ rpc' = "nap" /\ rwait' = rwait /\ net_IsOk' \in BOOLEAN
      /\ UNCHANGED <<stage, iwdg, phase, cnt, net_send_fine_flag, spc, sent, hung, silence>>
  BY DEF Poll, AfterPoll, Running
<1>2. TypeOK'
  BY <1>1 DEF IInv, TypeOK
<1>3. Quiet' /\ FedOK' /\ HungOK'
  BY <1>1, ThreadStep
<1>4. LookOK' /\ SendOK' /\ RecvOK'
  BY <1>1 DEF IInv, LookOK, SendOK, RecvOK, Running
<1> QED
  BY <1>2, <1>3, <1>4 DEF IInv

LEMMA SendSteps ==
    ASSUME IInv, Look \/ TakeMutex \/ Sent
    PROVE  IInv'
<1> USE DEF feedVars, recvVars, ghosts, flags
<1>1. /\ stage = "net" /\ "send" \notin hung
      /\ spc # "nap" /\ spc' \in {"top", "want", "sending"}
      /\ spc' = "want" => net_IsOk = TRUE
      /\ UNCHANGED <<stage, iwdg, phase, cnt, net_recv_fine_flag, net_send_fine_flag, net_IsOk, rpc, rwait,
                     hung, silence>>
  BY DEF Look, TakeMutex, Sent, Running, IInv, TypeOK
<1>2. sent' \in 0 .. Sends
  BY Constants DEF Look, TakeMutex, Sent, IInv, TypeOK
<1>3. TypeOK'
  BY <1>1, <1>2 DEF IInv, TypeOK
<1>4. Quiet' /\ FedOK' /\ HungOK'
  BY <1>1, ThreadStep
<1>5. LookOK' /\ SendOK'
  BY <1>1 DEF IInv, LookOK, SendOK, Running
<1>6. RecvOK'
  BY <1>1 DEF IInv, RecvOK, Used, Age
<1> QED
  BY <1>3, <1>4, <1>5, <1>6 DEF IInv

LEMMA ReportStep ==
    ASSUME IInv, Report
    PROVE  IInv'
<1> USE DEF feedVars, recvVars, ghosts
<1>1. /\ stage = "net" /\ "send" \notin hung
      /\ net_send_fine_flag' = TRUE /\ spc' = "nap" /\ sent' = 0
      /\ UNCHANGED <<stage, iwdg, phase, cnt, net_recv_fine_flag, net_IsOk, rpc, rwait, hung, silence>>
  BY DEF Report, Running
<1>2. TypeOK'
  BY <1>1, Constants DEF IInv, TypeOK
<1>3. Quiet' /\ FedOK' /\ HungOK'
  BY <1>1, ThreadStep
<1>4. LookOK' /\ SendOK'
  BY <1>1 DEF IInv, LookOK, SendOK, Running
<1>5. RecvOK'
  BY <1>1 DEF IInv, RecvOK, Used, Age
<1> QED
  BY <1>2, <1>3, <1>4, <1>5 DEF IInv

\* What the handler leaves of the time to a restart.
LEMMA InTime ==
    ASSUME NEW s \in Nat, NEW i \in 0 .. IwdgTime, NEW u \in Nat
    PROVE  /\ s <= Period => s + i <= Limit /\ s <= Period + u
           /\ s <= Period + u /\ u <= Total - Period => s + i <= Limit
BY Constants

LEMMA Ages ==
    ASSUME TypeOK
    PROVE  Age \in Nat /\ Age <= ConnectTime + RetrySleep
BY Constants DEF TypeOK, Age

LEMMA HandlerStep ==
    ASSUME IInv, iwdg > 0, Handler
    PROVE  IInv'
<1> USE DEF flags, recvVars, sendVars, ghosts
<1>1. /\ stage = "net" /\ phase = Period /\ phase' = 0
      /\ cnt' = (IF Fine THEN Tries ELSE cnt - 1)
      /\ net_recv_fine_flag' = FALSE /\ net_send_fine_flag' = FALSE
      /\ iwdg' = (IF Fine \/ cnt' > 0 THEN IwdgTime ELSE iwdg)
      /\ UNCHANGED <<stage, net_IsOk, rpc, rwait, spc, sent, hung, silence>>
  BY DEF Handler, Cleared, Patient
<1>2. /\ cnt \in 0 .. Tries /\ iwdg \in 0 .. IwdgTime /\ silence \in Nat /\ hung \subseteq Threads
      /\ net_recv_fine_flag \in BOOLEAN /\ net_send_fine_flag \in BOOLEAN
  BY DEF IInv, TypeOK
<1>3. cnt >= 1
  BY <1>1, <1>2, Constants DEF IInv, FedOK
<1>4. cnt' \in 0 .. Tries /\ iwdg' \in 0 .. IwdgTime
  BY <1>1, <1>2, <1>3, Constants
<1>5. TypeOK'
  <2>1. phase' \in 0 .. Period
    BY <1>1, Constants
  <2>2. net_recv_fine_flag' \in BOOLEAN /\ net_send_fine_flag' \in BOOLEAN
    BY <1>1
  <2>3. UNCHANGED <<stage, net_IsOk, rpc, rwait, spc, sent, hung, silence>>
    BY <1>1
  <2> QED
    BY <1>4, <2>1, <2>2, <2>3 DEF IInv, TypeOK
<1>6. Quiet' /\ LookOK' /\ SendOK'
  BY <1>1, Constants DEF IInv, Quiet, LookOK, SendOK, Running
<1>7. FedOK'
  BY <1>1, <1>2, <1>3, Constants DEF IInv, FedOK
<1>8. /\ Used \in Nat /\ Used <= Total - Period
      /\ Used' \in Nat
      /\ Fine => Used' = 0
      /\ ~Fine => Used' = Used + Period
      /\ cnt' >= 1 => Used' <= Total - Period
  <2>1. Used \in Nat /\ Used <= Total - Period /\ Spent(cnt - 1) = Used + Period
    BY <1>2, <1>3, Turns DEF Used
  <2>2. Used' \in Nat /\ (cnt' = Tries => Used' = 0) /\ (cnt' >= 1 => Used' <= Total - Period)
    BY <1>4, Turns DEF Used
  <2>3. ~Fine => Used' = Used + Period
    BY <1>1, <2>1 DEF Used
  <2> QED
    BY <1>1, <2>1, <2>2, <2>3
<1>9. RecvOK'
  <2>1. SUFFICES ASSUME hung = {}
                 PROVE  cnt' > 0 /\ Used' + phase' <= Age'
    BY <1>1 DEF RecvOK
  <2>2. Age' = Age /\ Age \in Nat /\ Age <= ConnectTime + RetrySleep
    BY <1>1, Ages DEF Age, IInv
  <2>3. net_send_fine_flag = TRUE
    BY <1>1, <2>1, Constants DEF IInv, SendOK, Running
  <2>4. CASE Fine
    BY <1>1, <1>8, <2>2, <2>4, Constants
  <2>5. CASE ~Fine
    <3>1. Used + Period <= Age
      BY <1>1, <1>2, <2>1, <2>3, <2>5 DEF IInv, RecvOK, Fine
    <3>2. cnt # 1
      <4>1. SUFFICES ASSUME cnt = 1 PROVE FALSE
        OBVIOUS
      <4>2. Total = Used + Period
        BY <1>2, <4>1, Turns DEF Used
      <4> QED
        BY <1>8, <2>2, <3>1, <4>2, Constants
    <3> QED
      BY <1>1, <1>2, <1>3, <1>8, <2>2, <2>5, <3>1, <3>2, Constants
  <2> QED
    BY <2>4, <2>5
<1>10. HungOK'
  <2>1. CASE hung = {}
    BY <1>1, <2>1 DEF IInv, HungOK, Missed
  <2>2. CASE hung # {}
    <3>1. Missed'
      BY <1>1, <1>2, <2>2 DEF Missed, Threads
    <3>2. SUFFICES silence + iwdg' <= Limit /\ (cnt' > 0 => silence <= Period + Used')
      BY <1>1, <1>8, <2>2, <3>1, Constants DEF HungOK
    <3>3. CASE ~Missed
      <4>1. silence <= Period
        BY <1>1, <2>2, <3>3 DEF IInv, HungOK
      <4> QED
        BY <1>2, <1>4, <1>8, <4>1, InTime
    <3>4. CASE Missed
      <4>1. ~Fine
        BY <3>4 DEF Missed, Fine
      <4>2. silence + iwdg <= Limit /\ silence <= Period + Used + Period
        BY <1>1, <1>2, <1>3, <3>4 DEF IInv, HungOK
      <4>3. Used' = Used + Period
        BY <1>8, <4>1
      <4>4. silence <= Period + Used'
        BY <1>2, <1>8, <4>2, <4>3, Constants
      <4>5. CASE cnt' > 0
        <5>1. iwdg' = IwdgTime /\ Used' <= Total - Period
          BY <1>1, <1>4, <1>8, <4>5
        <5> QED
          BY <1>2, <1>4, <1>8, <4>4, <5>1, InTime
      <4>6. CASE ~(cnt' > 0)
        BY <1>1, <4>1, <4>2, <4>4, <4>6
      <4> QED
        BY <4>5, <4>6
    <3> QED
      BY <3>3, <3>4
  <2> QED
    BY <2>1, <2>2
<1> QED
  BY <1>5, <1>6, <1>7, <1>9, <1>10 DEF IInv

LEMMA TickStep ==
    ASSUME IInv, iwdg > 0, Tick
    PROVE  IInv'
<1> USE DEF flags
<1>1. /\ stage = "net" => phase < Period
      /\ stage # "net" => iwdg = IwdgTime
      /\ ~RecvReady /\ ~SendReady
      /\ iwdg' = iwdg - 1
      /\ phase' = (IF stage = "net" THEN phase + 1 ELSE phase)
      /\ rwait' = (IF Waits THEN rwait + 1 ELSE rwait)
      /\ rpc' = (IF Running("recv") /\ rpc = "nap" THEN "top" ELSE rpc)
      /\ spc' = (IF Running("send") /\ spc = "nap" THEN "top" ELSE spc)
      /\ silence' = (IF hung # {} /\ silence <= Limit THEN silence + 1 ELSE silence)
      /\ UNCHANGED <<stage, cnt, net_recv_fine_flag, net_send_fine_flag, net_IsOk, sent, hung>>
  BY DEF Tick, WakeUp
<1>2. /\ stage \in {"bsmac", "address", "net"}
      /\ iwdg \in 0 .. IwdgTime /\ phase \in 0 .. Period /\ cnt \in 0 .. Tries
      /\ rpc \in {"top", "connecting", "retry", "nap"} /\ rwait \in Nat
      /\ rpc = "connecting" => rwait <= ConnectTime
      /\ rpc = "retry" => rwait <= RetrySleep
      /\ spc \in {"top", "want", "sending", "nap"} /\ silence \in Nat
  BY DEF IInv, TypeOK
<1>3. iwdg' \in 0 .. IwdgTime /\ phase' \in 0 .. Period
  BY <1>1, <1>2, Constants
<1>4. Running("send") => spc = "nap"
  BY <1>1, <1>2 DEF SendReady, IInv, LookOK
<1>5. ASSUME Running("recv")
      PROVE  /\ rpc # "top" \/ spc = "sending"
             /\ rpc = "connecting" => rwait < ConnectTime /\ rwait' = rwait + 1
             /\ rpc = "retry" => (rwait < RetrySleep /\ rwait' = rwait + 1) \/ spc = "sending"
             /\ rpc = "nap" => rpc' = "top" /\ rwait' = rwait
  BY <1>1, <1>2, <1>5, Constants DEF RecvReady, Waits
<1>6. /\ rwait' \in Nat /\ rpc' \in {"top", "connecting", "retry", "nap"}
      /\ rpc' = "connecting" => rwait' <= ConnectTime
      /\ rpc' = "retry" => rwait' <= RetrySleep
  BY <1>1, <1>2, <1>5, Constants DEF Waits
<1>7. TypeOK'
  <2>1. silence' \in Nat /\ spc' \in {"top", "want", "sending", "nap"}
    BY <1>1, <1>2
  <2> QED
    BY <1>1, <1>3, <1>6, <2>1 DEF IInv, TypeOK
<1>8. Quiet'
  BY <1>1, <1>2, Constants DEF IInv, Quiet, Running, Waits
<1>9. FedOK'
  BY <1>1, <1>2, Constants DEF IInv, FedOK
<1>10. LookOK'
  BY <1>1, <1>4 DEF IInv, LookOK, Running
<1>11. SendOK'
  <2>1. SUFFICES ASSUME Running("send") PROVE phase' >= 2 => net_send_fine_flag = TRUE
    BY <1>1, <1>4 DEF SendOK, Running
  <2>2. stage = "net" /\ spc = "nap"
    BY <1>4, <2>1 DEF Running
  <2>3. phase' = phase + 1 /\ phase \in Nat
    BY <1>1, <1>2, <2>2
  <2>4. phase >= 1 => phase = 1 \/ phase >= 2
    BY <2>3
  <2>5. phase >= 1 => net_send_fine_flag = TRUE
    BY <2>1, <2>2, <2>4 DEF IInv, SendOK
  <2> QED
    BY <2>3, <2>5
<1>12. Used' = Used /\ Used \in Nat
  BY <1>1, <1>2, Turns DEF Used
<1>13. RecvOK'
  <2>1. SUFFICES ASSUME hung = {} PROVE cnt > 0 /\ (net_recv_fine_flag = FALSE => Used + phase' <= Age')
    BY <1>1, <1>12 DEF RecvOK
  <2>2. cnt > 0 /\ (net_recv_fine_flag = FALSE => Used + phase <= Age)
    BY <2>1 DEF IInv, RecvOK
  <2>3. CASE stage # "net"
    <3>1. Used = 0 /\ phase' = 0 /\ rpc' = "top"
      BY <1>1, <1>2, <2>3, Turns DEF IInv, Quiet, Used, Running
    <3> QED
      BY <2>2, <3>1, Constants DEF Age
  <2>4. CASE stage = "net"
    <3>1. Running("recv") /\ Running("send") /\ spc = "nap" /\ phase' = phase + 1
      BY <1>1, <1>4, <2>1, <2>4 DEF Running
    <3>2. CASE rpc = "connecting"
      <4>1. Age = rwait /\ Age' = rwait + 1
        BY <1>1, <1>5, <3>1, <3>2 DEF Age
      <4> QED
        BY <1>2, <1>12, <2>2, <3>1, <4>1
    <3>3. CASE rpc = "retry"
      <4>1. Age = ConnectTime + rwait /\ Age' = ConnectTime + (rwait + 1)
        BY <1>1, <1>5, <3>1, <3>3 DEF Age
      <4> QED
        BY <1>2, <1>12, <2>2, <3>1, <4>1, Constants
    <3>4. CASE rpc = "nap"
      <4>1. Age = 0 /\ Age' = ConnectTime + RetrySleep
        BY <1>1, <3>1, <3>4 DEF Age
      <4> QED
        BY <1>2, <1>12, <2>2, <3>1, <4>1, Constants
    <3> QED
      BY <1>2, <1>5, <3>1, <3>2, <3>3, <3>4
  <2> QED
    BY <2>3, <2>4
<1>14. HungOK'
  <2>1. Missed' <=> Missed
    BY <1>1 DEF Missed
  <2>2. CASE hung = {}
    BY <1>1, <2>2 DEF IInv, HungOK, Missed
  <2>3. CASE hung # {}
    <3>1. stage = "net" /\ phase' = phase + 1
      BY <1>1, <2>3 DEF IInv, Quiet
    <3>2. CASE ~Missed
      <4>1. silence <= phase
        BY <2>3, <3>2 DEF IInv, HungOK
      <4>2. silence' <= phase'
        BY <1>1, <1>2, <3>1, <4>1
      <4> QED
        BY <1>1, <2>1, <2>3, <3>2, <4>2 DEF HungOK
    <3>3. CASE Missed
      <4>1. silence + iwdg <= Limit /\ (cnt > 0 => silence <= Period + Used + phase)
        BY <3>3 DEF IInv, HungOK
      <4>2. silence' = silence + 1
        BY <1>1, <1>2, <2>3, <4>1, Constants
      <4>3. silence' + iwdg' <= Limit
        BY <1>1, <1>2, <4>1, <4>2, Constants
      <4>4. cnt' > 0 => silence' <= Period + Used' + phase'
        BY <1>1, <1>2, <1>12, <3>1, <4>1, <4>2, Constants
      <4> QED
        BY <1>1, <2>1, <2>3, <3>3, <4>3, <4>4 DEF HungOK
    <3> QED
      BY <3>2, <3>3
  <2> QED
    BY <2>2, <2>3
<1> QED
  BY <1>7, <1>8, <1>9, <1>10, <1>11, <1>13, <1>14 DEF IInv

LEMMA HangStep ==
    ASSUME IInv, NEW t \in Threads, Hang(t)
    PROVE  IInv'
<1> USE DEF feedVars, flags, recvVars, sendVars
<1>1. /\ stage = "net" /\ t \notin hung /\ hung' = hung \cup {t}
      /\ UNCHANGED <<stage, iwdg, phase, cnt, net_recv_fine_flag, net_send_fine_flag, net_IsOk,
                     rpc, rwait, spc, sent, silence>>
  BY DEF Hang, Running
<1>2. /\ hung' # {} /\ \A u \in Threads : u \in hung => u \in hung'
      /\ "send" \notin hung' => "send" \notin hung
  BY <1>1
<1>3. TypeOK'
  BY <1>1 DEF IInv, TypeOK, Threads
<1>4. Quiet' /\ FedOK'
  BY <1>1 DEF IInv, Quiet, FedOK
<1>5. LookOK' /\ SendOK'
  BY <1>1, <1>2 DEF IInv, LookOK, SendOK, Running
<1>6. RecvOK'
  BY <1>2 DEF RecvOK
<1>7. HungOK'
  <2>1. Used' = Used /\ Used \in Nat
    BY <1>1, Turns DEF Used, IInv, TypeOK
  <2>2. /\ silence \in Nat /\ phase \in 0 .. Period /\ iwdg \in 0 .. IwdgTime
    BY DEF IInv, TypeOK
  <2>3. CASE Missed
    BY <1>1, <2>1, <2>3 DEF IInv, HungOK, Missed
  <2>4. CASE ~Missed
    <3>1. silence <= phase
      BY <2>2, <2>4 DEF IInv, HungOK
    <3>2. silence + iwdg <= Limit /\ silence <= Period + Used + phase
      BY <2>1, <2>2, <3>1, Constants
    <3> QED
      BY <1>1, <1>2, <2>1, <3>1, <3>2 DEF HungOK
  <2> QED
    BY <2>3, <2>4
<1> QED
  BY <1>3, <1>4, <1>5, <1>6, <1>7 DEF IInv

-----------------------------------------------------------------------------
(* The specification.                                                        *)

\* what holds after power-up holds after a restart, too
LEMMA Fresh ==
    ASSUME Init
    PROVE  IInv
<1> USE DEF Init
<1>1. TypeOK
  <2>1. IwdgTime \in 0 .. IwdgTime /\ 0 \in 0 .. Period /\ Tries \in 0 .. Tries /\ 0 \in 0 .. Sends /\ 0 \in Nat
    BY Constants
  <2> QED
    BY <2>1 DEF TypeOK
<1>2. Quiet /\ FedOK /\ LookOK /\ SendOK
  BY Constants DEF Quiet, FedOK, LookOK, SendOK, Running
<1>3. Used = 0
  BY Constants, Turns DEF Used
<1>4. RecvOK
  BY <1>3, Constants DEF RecvOK, Age
<1>5. HungOK
  BY DEF HungOK, Missed
<1> QED
  BY <1>1, <1>2, <1>4, <1>5 DEF IInv

LEMMA RestartStep ==
    ASSUME Restart
    PROVE  IInv'
<1> USE DEF Restart
<1>1. TypeOK'
  <2>1. IwdgTime \in 0 .. IwdgTime /\ 0 \in 0 .. Period /\ Tries \in 0 .. Tries /\ 0 \in 0 .. Sends /\ 0 \in Nat
    BY Constants
  <2> QED
    BY <2>1 DEF TypeOK
<1>2. Quiet' /\ FedOK' /\ LookOK' /\ SendOK'
  BY Constants DEF Quiet, FedOK, LookOK, SendOK, Running
<1>3. Used' = 0
  BY Constants, Turns DEF Used
<1>4. RecvOK'
  BY <1>3, Constants DEF RecvOK, Age
<1>5. HungOK'
  BY DEF HungOK, Missed
<1> QED
  BY <1>1, <1>2, <1>4, <1>5 DEF IInv

LEMMA NextStep ==
    ASSUME IInv, [Next]_vars
    PROVE  IInv'
<1>1. CASE UNCHANGED vars
  <2>1. UNCHANGED <<stage, iwdg, phase, cnt, net_recv_fine_flag, net_send_fine_flag, net_IsOk,
                    rpc, rwait, spc, sent, hung, silence>>
    BY <1>1 DEF vars, feedVars, flags, recvVars, sendVars, ghosts
  <2> QED
    BY <2>1 DEF IInv, TypeOK, Quiet, FedOK, LookOK, SendOK, RecvOK, HungOK, Missed, Used, Age, Running
<1>2. CASE Restart
  BY <1>2, RestartStep
<1>3. CASE iwdg > 0 /\ Step
  BY <1>3, StartSteps, HandlerStep, BeginTryStep, ConnectSteps, PollStep, SendSteps, ReportStep,
     TickStep, HangStep DEF Step
<1> QED
  BY <1>1, <1>2, <1>3 DEF Next

LEMMA Invariance == Spec => []IInv
<1>1. Init => IInv
  BY Fresh
<1>2. IInv /\ [Next]_vars => IInv'
  BY NextStep
<1> QED
  BY <1>1, <1>2, PTL DEF Spec

(* Watchdog: the count of missed turns does not pass 0, and no thread        *)
(* connects or sleeps for longer than it should.                             *)
THEOREM Typing == Spec => []TypeOK
<1>1. IInv => TypeOK
  BY DEF IInv
<1> QED
  BY <1>1, Invariance, PTL

(* The feeding timer: a station whose threads work is not restarted, for     *)
(* any times for which a try to connect fits into the turns of the timer.    *)
THEOREM Alarm == Spec => []NoFalseAlarm
<1>1. ASSUME IInv PROVE NoFalseAlarm
  <2>1. SUFFICES ASSUME hung = {} PROVE iwdg # 0
    BY DEF NoFalseAlarm
  <2>2. phase \in 0 .. Period /\ cnt \in 0 .. Tries /\ iwdg \in 0 .. IwdgTime
    BY <1>1 DEF IInv, TypeOK
  <2>3. CASE stage = "net"
    <3>1. cnt > 0
      BY <1>1, <2>1 DEF IInv, RecvOK
    <3>2. iwdg = IwdgTime - phase
      BY <1>1, <2>2, <2>3, <3>1, Constants DEF IInv, FedOK
    <3> QED
      BY <2>2, <3>2, Constants
  <2>4. CASE stage # "net"
    BY <1>1, <2>2, <2>4, Constants DEF IInv, Quiet
  <2> QED
    BY <2>3, <2>4
<1> QED
  BY <1>1, Invariance, PTL

(* _net_send_data: a send thread that has found the connection up takes the  *)
(* mutex before the receive thread takes it to connect.                      *)
THEOREM Behind == Spec => []NeverBehindConnect
<1>1. IInv => NeverBehindConnect
  BY DEF IInv, LookOK, NeverBehindConnect
<1> QED
  BY <1>1, Invariance, PTL

(* The feeding timer: when a thread hangs, the turns left and the last       *)
(* feeding's time end within the limit, whatever the other thread reports.   *)
THEOREM Seen == Spec => []HangIsSeen
<1>1. ASSUME IInv PROVE HangIsSeen
  <2>1. silence \in Nat /\ phase \in 0 .. Period /\ iwdg \in 0 .. IwdgTime
    BY <1>1 DEF IInv, TypeOK
  <2>2. CASE hung = {}
    BY <1>1, <2>2, Constants DEF IInv, HungOK, HangIsSeen
  <2>3. CASE hung # {} /\ ~Missed
    BY <1>1, <2>1, <2>3, Constants DEF IInv, HungOK, HangIsSeen
  <2>4. CASE Missed
    BY <1>1, <2>1, <2>4, Constants DEF IInv, HungOK, HangIsSeen
  <2> QED
    BY <2>2, <2>3, <2>4
<1> QED
  BY <1>1, Invariance, PTL
=============================================================================
