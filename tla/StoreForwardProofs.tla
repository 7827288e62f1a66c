------------------------- MODULE StoreForwardProofs -------------------------
(* Proofs about StoreForward, for any number of packets and any queue.       *)
EXTENDS StoreForward, TLAPS

-----------------------------------------------------------------------------
(* The inductive invariant.                                                  *)

\* A packet in the hand of the send thread is either from the queue or replayed.
LiveHand == IF pc \in {"live", "live_send"} THEN {send_buf} \cap Packets ELSE {}
StoredHand == IF pc \in {"stored", "stored_send"} THEN {send_buf} ELSE {}

Dumped == Range(dumps)
Sent == Range(wire)

\* the packets that have left the store
Past == {Stored(i) : i \in 0 .. lo - 1}

Below(S, T) == \A p \in S, q \in T : p < q

\* the packets in s are in the order in which they were made
Sorted(s) == \A i, j \in DOMAIN s : i < j /\ s[i] \in Packets /\ s[j] \in Packets => s[i] < s[j]

\* What was dumped or sent is older than what is in the hand, and that is older
\* than what is in the queue.
FlowOK ==
    /\ Sorted(net_mq) /\ Sorted(dumps)
    /\ Below(LiveHand, InQueue)
    /\ Below(Dumped \cup Sent, LiveHand \cup InQueue)

\* Every packet made is in exactly one of these ...
FirstPlace ==
    /\ InQueue \cup LiveHand \cup Dumped \cup Sent \cup refused = 1 .. made
    /\ refused \cap (InQueue \cup LiveHand \cup Dumped \cup Sent) = {}

\* ... and what has left the store in exactly one of those.
SecondPlace ==
    /\ Past = StoredHand \cup (Sent \cap Dumped) \cup discarded \cup lost
    /\ StoredHand \cap (discarded \cup lost \cup Sent) = {}
    /\ discarded \cap lost = {} /\ (discarded \cup lost) \cap Sent = {}

\* The packet being replayed is younger than all that were.
WireOK ==
    /\ IsInjective(wire) /\ OrderKept
    /\ Below(Sent \cap Dumped, StoredHand)

IInv == TypeOK /\ FlowOK /\ FirstPlace /\ SecondPlace /\ WireOK

-----------------------------------------------------------------------------
(* Sequences.                                                                *)

Messages == Packets \cup {Status}

LEMMA Kinds ==
    /\ Packets \subseteq Nat \ {0} /\ Status \notin Packets /\ Nothing \notin Packets
    /\ Nothing # Status /\ Packets \subseteq Messages /\ Messages \ {Status} = Packets
BY BoundsAssumption DEF Packets, Messages

LEMMA Appended ==
    ASSUME NEW S, NEW s \in Seq(S), NEW x \in S
    PROVE  /\ Append(s, x) \in Seq(S)
           /\ Range(Append(s, x)) = Range(s) \cup {x}
<1> DEFINE a == Append(s, x)
<1>1. /\ a \in Seq(S) /\ DOMAIN a = 1 .. Len(s) + 1 /\ a[Len(s) + 1] = x
      /\ \A i \in 1 .. Len(s) : a[i] = s[i]
      /\ DOMAIN s = 1 .. Len(s) /\ Len(s) \in Nat
  OBVIOUS
<1> HIDE DEF a
<1>2. Range(a) \subseteq Range(s) \cup {x}
  <2> SUFFICES ASSUME NEW i \in DOMAIN a
               PROVE  a[i] \in Range(s) \cup {x}
    BY DEF Range
  <2>1. i \in 1 .. Len(s) \/ i = Len(s) + 1
    BY <1>1
  <2> QED
    BY <1>1, <2>1 DEF Range
<1>3. Range(s) \subseteq Range(a)
  <2> SUFFICES ASSUME NEW i \in DOMAIN s
               PROVE  s[i] \in Range(a)
    BY DEF Range
  <2>1. i \in DOMAIN a /\ a[i] = s[i]
    BY <1>1
  <2> QED
    BY <2>1 DEF Range
<1>4. x \in Range(a)
  <2>1. Len(s) + 1 \in DOMAIN a
    BY <1>1
  <2> QED
    BY <1>1, <2>1 DEF Range
<1> QED
  BY <1>1, <1>2, <1>3, <1>4 DEF a

LEMMA SortedAppend ==
    ASSUME NEW S, NEW s \in Seq(S), NEW x \in S,
           Sorted(s), Below(Range(s) \cap Packets, {x} \cap Packets)
    PROVE  Sorted(Append(s, x))
<1> DEFINE a == Append(s, x)
<1>1. /\ DOMAIN a = 1 .. Len(s) + 1 /\ a[Len(s) + 1] = x /\ Len(s) \in Nat
      /\ \A i \in 1 .. Len(s) : a[i] = s[i]
      /\ DOMAIN s = 1 .. Len(s)
  OBVIOUS
<1> HIDE DEF a
<1> SUFFICES ASSUME NEW i \in DOMAIN a, NEW j \in DOMAIN a, i < j, a[i] \in Packets, a[j] \in Packets
             PROVE  a[i] < a[j]
  BY DEF Sorted, a
<1>2. i \in 1 .. Len(s) /\ i \in DOMAIN s /\ a[i] = s[i]
  BY <1>1
<1>3. CASE j \in 1 .. Len(s)
  BY <1>1, <1>2, <1>3 DEF Sorted
<1>4. CASE j = Len(s) + 1
  <2>1. a[i] \in Range(s) \cap Packets /\ a[j] \in {x} \cap Packets
    BY <1>1, <1>2, <1>4 DEF Range
  <2> QED
    BY <2>1 DEF Below
<1> QED
  BY <1>1, <1>3, <1>4

LEMMA HeadTail ==
    ASSUME NEW S, NEW s \in Seq(S), s # <<>>, Sorted(s)
    PROVE  /\ Head(s) \in S /\ Tail(s) \in Seq(S) /\ Len(Tail(s)) = Len(s) - 1
           /\ Range(s) = {Head(s)} \cup Range(Tail(s))
           /\ Sorted(Tail(s))
           /\ Below({Head(s)} \cap Packets, Range(Tail(s)) \cap Packets)
<1> DEFINE t == Tail(s)
<1>1. /\ t \in Seq(S) /\ Len(t) = Len(s) - 1 /\ DOMAIN t = 1 .. Len(s) - 1
      /\ \A i \in 1 .. Len(s) - 1 : t[i] = s[i + 1]
      /\ DOMAIN s = 1 .. Len(s) /\ Len(s) \in Nat \ {0} /\ Head(s) = s[1] /\ s[1] \in S
  OBVIOUS
<1> HIDE DEF t
<1>2. Range(s) \subseteq {Head(s)} \cup Range(t)
  <2> SUFFICES ASSUME NEW i \in DOMAIN s
               PROVE  s[i] \in {Head(s)} \cup Range(t)
    BY DEF Range
  <2>1. CASE i = 1
    BY <1>1, <2>1
  <2>2. CASE i # 1
    <3>1. i - 1 \in DOMAIN t /\ t[i - 1] = s[i]
      BY <1>1, <2>2
    <3> QED
      BY <3>1 DEF Range
  <2> QED
    BY <2>1, <2>2
<1>3. Range(t) \subseteq Range(s)
  <2> SUFFICES ASSUME NEW i \in DOMAIN t
               PROVE  t[i] \in Range(s)
    BY DEF Range
  <2>1. i + 1 \in DOMAIN s /\ t[i] = s[i + 1]
    BY <1>1
  <2> QED
    BY <2>1 DEF Range
<1>4. Head(s) \in Range(s)
  <2>1. 1 \in DOMAIN s
    BY <1>1
  <2> QED
    BY <1>1, <2>1 DEF Range
<1>5. Sorted(t)
  <2> SUFFICES ASSUME NEW i \in DOMAIN t, NEW j \in DOMAIN t, i < j, t[i] \in Packets, t[j] \in Packets
               PROVE  t[i] < t[j]
    BY DEF Sorted
  <2>1. i + 1 \in DOMAIN s /\ j + 1 \in DOMAIN s /\ i + 1 < j + 1 /\ t[i] = s[i + 1] /\ t[j] = s[j + 1]
    BY <1>1
  <2> QED
    BY <2>1 DEF Sorted
<1>6. Below({Head(s)} \cap Packets, Range(t) \cap Packets)
  <2> SUFFICES ASSUME Head(s) \in Packets, NEW q \in Range(t), q \in Packets
               PROVE  Head(s) < q
    BY DEF Below
  <2>1. PICK i \in DOMAIN t : q = t[i]
    BY DEF Range
  <2>2. 1 \in DOMAIN s /\ i + 1 \in DOMAIN s /\ 1 < i + 1 /\ q = s[i + 1]
    BY <1>1, <2>1
  <2> QED
    BY <1>1, <2>2 DEF Sorted
<1> QED
  BY <1>1, <1>2, <1>3, <1>4, <1>5, <1>6 DEF t

\* The order of the wire, for any wire.
Ordered(w, S) == \A i, j \in DOMAIN w : i < j /\ {w[i], w[j]} \subseteq S => w[i] < w[j]

LEMMA OrderedAppend ==
    ASSUME NEW w \in Seq(Nat), NEW x \in Nat, NEW S, Ordered(w, S),
           x \in S => Below(Range(w) \cap S, {x})
    PROVE  Ordered(Append(w, x), S)
<1> DEFINE a == Append(w, x)
<1>1. /\ DOMAIN a = 1 .. Len(w) + 1 /\ a[Len(w) + 1] = x /\ Len(w) \in Nat
      /\ \A i \in 1 .. Len(w) : a[i] = w[i]
      /\ DOMAIN w = 1 .. Len(w)
  OBVIOUS
<1> HIDE DEF a
<1> SUFFICES ASSUME NEW i \in DOMAIN a, NEW j \in DOMAIN a, i < j, a[i] \in S, a[j] \in S
             PROVE  a[i] < a[j]
  BY DEF Ordered, a
<1>2. i \in DOMAIN w /\ a[i] = w[i] /\ a[i] \in Range(w)
  BY <1>1 DEF Range
<1>3. CASE j \in 1 .. Len(w)
  BY <1>1, <1>2, <1>3 DEF Ordered
<1>4. CASE j = Len(w) + 1
  BY <1>1, <1>2, <1>4 DEF Below
<1> QED
  BY <1>1, <1>3, <1>4

LEMMA OrderedWithin ==
    ASSUME NEW w, NEW S, NEW T, Ordered(w, S), Range(w) \cap T \subseteq S
    PROVE  Ordered(w, T)
BY DEF Ordered, Range

LEMMA InjectiveAppend ==
    ASSUME NEW w \in Seq(Nat), NEW x \in Nat, IsInjective(w), x \notin Range(w)
    PROVE  IsInjective(Append(w, x))
<1> DEFINE a == Append(w, x)
<1>1. /\ DOMAIN a = 1 .. Len(w) + 1 /\ a[Len(w) + 1] = x /\ Len(w) \in Nat
      /\ \A i \in 1 .. Len(w) : a[i] = w[i] /\ a[i] \in Range(w)
      /\ DOMAIN w = 1 .. Len(w)
  BY DEF Range
<1> HIDE DEF a
<1> SUFFICES ASSUME NEW i \in DOMAIN a, NEW j \in DOMAIN a, a[i] = a[j]
             PROVE  i = j
  BY DEF IsInjective, a
<1>2. i \in 1 .. Len(w) \/ i = Len(w) + 1
  BY <1>1
<1>3. j \in 1 .. Len(w) \/ j = Len(w) + 1
  BY <1>1
<1> QED
  BY <1>1, <1>2, <1>3 DEF IsInjective

LEMMA Within ==
    ASSUME NEW a \in Nat, NEW b \in Nat, NEW c \in Nat, b <= c
    PROVE  \A i \in a .. b - 1 : i \in a .. c - 1
OBVIOUS

LEMMA WiderSeq ==
    ASSUME NEW S, NEW T, S \subseteq T, NEW s \in Seq(S)
    PROVE  s \in Seq(T)
OBVIOUS

-----------------------------------------------------------------------------
(* The actions.                                                              *)

LEMMA Shapes ==
    ASSUME IInv
    PROVE  /\ made \in Nat /\ MaxPackets \in Nat /\ 1 .. made \subseteq Packets
           /\ lo \in Nat /\ hi \in Nat /\ lo <= hi /\ hi = Len(dumps)
           /\ net_mq \in Seq(Messages) /\ dumps \in Seq(Packets) /\ wire \in Seq(Packets)
           /\ dumps \in Seq(Nat) /\ wire \in Seq(Nat)
           /\ InQueue \cup LiveHand \cup Dumped \cup Sent \subseteq 1 .. made
           /\ Past \subseteq Dumped
<1>1. made \in Nat /\ MaxPackets \in Nat /\ 1 .. made \subseteq Packets
  BY BoundsAssumption DEF IInv, TypeOK, Packets
<1>2. /\ dumps \in Seq(1 .. made) /\ wire \in Seq(1 .. made)
      /\ lo \in 0 .. hi /\ hi = Len(dumps) /\ net_mq \in Seq(Messages)
  BY DEF IInv, TypeOK, Messages
<1>3. lo \in Nat /\ hi \in Nat /\ lo <= hi
  BY <1>2
<1>4. dumps \in Seq(Packets) /\ wire \in Seq(Packets) /\ dumps \in Seq(Nat) /\ wire \in Seq(Nat)
  BY <1>1, <1>2, Kinds, WiderSeq
<1>5. Past \subseteq Dumped
  <2> SUFFICES ASSUME NEW i \in 0 .. lo - 1
               PROVE  Stored(i) \in Dumped
    BY DEF Past
  <2>1. i + 1 \in DOMAIN dumps
    BY <1>2, <1>3
  <2> QED
    BY <2>1 DEF Stored, Dumped, Range
<1> QED
  BY <1>1, <1>2, <1>3, <1>4, <1>5 DEF IInv, FirstPlace

LEMMA Posted ==
    ASSUME IInv
    PROVE  /\ Post(Status) \in Seq(Messages) /\ Len(Post(Status)) <= MqSize
           /\ Range(Post(Status)) \cap Packets = InQueue
           /\ Sorted(Post(Status))
<1>1. /\ net_mq \in Seq(Messages) /\ Len(net_mq) <= MqSize /\ MqSize \in Nat
      /\ Sorted(net_mq) /\ Status \in Messages /\ Status \notin Packets
  BY Kinds, BoundsAssumption DEF IInv, TypeOK, FlowOK, Messages
<1>2. CASE ~(Len(net_mq) < MqSize)
  BY <1>1, <1>2 DEF Post, InQueue
<1>3. CASE Len(net_mq) < MqSize
  <2>1. Post(Status) = Append(net_mq, Status)
    BY <1>3 DEF Post
  <2>2. /\ Append(net_mq, Status) \in Seq(Messages)
        /\ Range(Append(net_mq, Status)) = Range(net_mq) \cup {Status}
    BY <1>1, Appended
  <2>3. Len(Append(net_mq, Status)) = Len(net_mq) + 1
    BY <1>1
  <2>4. Len(Append(net_mq, Status)) <= MqSize
    BY <1>1, <1>3, <2>3
  <2>5. Below(Range(net_mq) \cap Packets, {Status} \cap Packets)
    BY <1>1 DEF Below
  <2>6. Sorted(Append(net_mq, Status))
    BY <1>1, <2>5, SortedAppend
  <2> QED
    BY <1>1, <2>1, <2>2, <2>4, <2>6 DEF InQueue
<1> QED
  BY <1>2, <1>3

\* Steps that move no packet.
LEMMA Quiet ==
    ASSUME IInv, TypeOK', InQueue' = InQueue, Sorted(net_mq'),
           LiveHand' = LiveHand, StoredHand' = StoredHand,
           UNCHANGED <<lo, hi, dumps, discarded, made, wire, refused, lost>>
    PROVE  IInv'
<1>1. Dumped' = Dumped /\ Sent' = Sent /\ Past' = Past
  BY DEF Dumped, Sent, Past, Stored
<1>2. OrderKept'
  BY DEF IInv, WireOK, OrderKept, InOrder
<1>3. FlowOK'
  BY <1>1 DEF IInv, FlowOK, Sorted
<1>4. FirstPlace' /\ SecondPlace'
  BY <1>1 DEF IInv, FirstPlace, SecondPlace
<1>5. WireOK'
  BY <1>1, <1>2 DEF IInv, WireOK
<1> QED
  BY <1>3, <1>4, <1>5 DEF IInv

\* A step that leaves the queue alone or puts a Status into it.
LEMMA QuietStep ==
    ASSUME IInv, TypeOK', net_mq' \in {net_mq, Post(Status)},
           LiveHand' = LiveHand, StoredHand' = StoredHand,
           UNCHANGED <<lo, hi, dumps, discarded, made, wire, refused, lost>>
    PROVE  IInv'
<1>1. InQueue' = InQueue /\ Sorted(net_mq')
  BY Posted DEF IInv, FlowOK, InQueue
<1> QED
  BY <1>1, Quiet

LEMMA OtherThreads ==
    ASSUME IInv, HourPasses \/ Alarm \/ Connect \/ Greet \/ Close
    PROVE  IInv'
<1> USE DEF store, ends, socket
<1>1. /\ net_mq' \in {net_mq, Post(Status)}
      /\ UNCHANGED <<pc, send_buf, lo, hi, broken, dumps, discarded, made, wire, refused, lost>>
      /\ send_err_flag' = send_err_flag
  BY DEF HourPasses, Alarm, Connect, Greet, Close
<1>2. LiveHand' = LiveHand /\ StoredHand' = StoredHand
  BY <1>1 DEF LiveHand, StoredHand
<1>3. /\ net_IsOk' \in BOOLEAN /\ greeting' \in BOOLEAN /\ (greeting' => net_IsOk')
      /\ due' \in BOOLEAN
  <2>1. net_IsOk \in BOOLEAN /\ greeting \in BOOLEAN /\ (greeting => net_IsOk) /\ due \in BOOLEAN
    BY DEF IInv, TypeOK
  <2>2. CASE HourPasses
    BY <2>1, <2>2, Zenon DEF HourPasses
  <2>3. CASE Alarm
    BY <2>1, <2>3, Zenon DEF Alarm
  <2>4. CASE Connect
    BY <2>1, <2>4, Zenon DEF Connect
  <2>5. CASE Greet
    BY <2>1, <2>5, Zenon DEF Greet
  <2>6. CASE Close
    BY <2>1, <2>6, Zenon DEF Close
  <2> QED
    BY <2>2, <2>3, <2>4, <2>5, <2>6
<1>4. net_mq' \in Seq(Packets \cup {Status}) /\ Len(net_mq') <= MqSize
  BY <1>1, Posted DEF IInv, TypeOK, Messages
<1>5. TypeOK'
  BY <1>1, <1>3, <1>4 DEF IInv, TypeOK
<1> QED
  BY <1>1, <1>2, <1>5, QuietStep

\* Steps of the send thread that move no packet.
LEMMA IdleSteps ==
    ASSUME IInv, CheckLive \/ NoReplay \/ CheckStored \/ Report
    PROVE  IInv'
<1> USE DEF store, ends, socket
<1>1. /\ net_mq' \in {net_mq, Post(Status)}
      /\ UNCHANGED <<net_IsOk, greeting, send_err_flag, send_buf, lo, hi, broken,
                     dumps, discarded, made, wire, refused, lost>>
      /\ due' \in {due, FALSE}
  BY DEF CheckLive, NoReplay, CheckStored, Check, Report, Reported
<1>2. \/ pc = "live" /\ pc' = "live_send"
      \/ pc = "replay" /\ pc' = "report"
      \/ pc = "stored" /\ pc' = "stored_send"
      \/ pc = "report" /\ pc' = "idle"
  BY DEF CheckLive, NoReplay, CheckStored, Check, Report
<1>3. LiveHand' = LiveHand /\ StoredHand' = StoredHand
  BY <1>1, <1>2 DEF LiveHand, StoredHand
<1>4. net_mq' \in Seq(Packets \cup {Status}) /\ Len(net_mq') <= MqSize
  BY <1>1, Posted DEF IInv, TypeOK, Messages
<1>5. TypeOK'
  <2>1. due' \in BOOLEAN
    BY <1>1 DEF IInv, TypeOK
  <2>2. /\ pc' \in {"idle", "live", "live_send", "replay", "stored", "stored_send", "report"}
        /\ (send_buf' = Nothing) = (pc' \in {"idle", "replay", "report"})
    BY <1>1, <1>2 DEF IInv, TypeOK
  <2> QED
    BY <1>1, <1>4, <2>1, <2>2 DEF IInv, TypeOK
<1> QED
  BY <1>1, <1>3, <1>5, QuietStep

LEMMA TakeStep ==
    ASSUME IInv, Take
    PROVE  IInv'
<1> USE DEF store, ends, socket
<1>1. /\ pc = "idle" /\ LiveHand = {} /\ StoredHand = {}
      /\ UNCHANGED <<net_IsOk, greeting, send_err_flag, due, lo, hi, broken,
                     dumps, discarded, made, wire, refused, lost>>
  BY DEF Take, LiveHand, StoredHand
<1>2. CASE net_mq = <<>>
  <2>1. /\ pc' = "replay" /\ send_buf' = send_buf /\ net_mq' = net_mq
    BY <1>2 DEF Take
  <2>2. LiveHand' = LiveHand /\ StoredHand' = StoredHand
    BY <1>1, <2>1 DEF LiveHand, StoredHand
  <2>3. TypeOK'
    BY <1>1, <2>1 DEF IInv, TypeOK
  <2> QED
    BY <1>1, <2>1, <2>2, <2>3, QuietStep
<1>3. CASE net_mq # <<>>
  <2>1. send_buf' = Head(net_mq) /\ net_mq' = Tail(net_mq) /\ pc' = "live"
    BY <1>3 DEF Take
  <2>2. /\ Head(net_mq) \in Messages /\ Tail(net_mq) \in Seq(Messages)
        /\ Len(Tail(net_mq)) = Len(net_mq) - 1
        /\ Range(net_mq) = {Head(net_mq)} \cup Range(Tail(net_mq))
        /\ Sorted(Tail(net_mq))
        /\ Below({Head(net_mq)} \cap Packets, Range(Tail(net_mq)) \cap Packets)
    <3>1. net_mq \in Seq(Messages) /\ Sorted(net_mq)
      BY Shapes DEF IInv, FlowOK
    <3> QED
      BY <1>3, <3>1, HeadTail
  <2>3. Len(net_mq) - 1 <= MqSize
    <3>1. Len(net_mq) \in Nat /\ Len(net_mq) <= MqSize
      BY DEF IInv, TypeOK
    <3> QED
      BY <3>1, BoundsAssumption
  <2>4. TypeOK'
    BY <1>1, <2>1, <2>2, <2>3, Kinds DEF IInv, TypeOK, Messages
  <2>5. /\ LiveHand' = {Head(net_mq)} \cap Packets /\ StoredHand' = {}
        /\ InQueue' = Range(Tail(net_mq)) \cap Packets
        /\ InQueue = LiveHand' \cup InQueue'
        /\ Dumped' = Dumped /\ Sent' = Sent /\ Past' = Past
    BY <1>1, <2>1, <2>2 DEF LiveHand, StoredHand, InQueue, Dumped, Sent, Past, Stored
  <2>6. FlowOK'
    <3>1. Sorted(net_mq)' /\ Sorted(dumps)'
      BY <1>1, <2>1, <2>2 DEF IInv, FlowOK, Sorted
    <3>2. Below(LiveHand, InQueue)'
      BY <2>2, <2>5 DEF Below
    <3>3. Below(Dumped \cup Sent, LiveHand \cup InQueue)'
      BY <1>1, <2>5 DEF IInv, FlowOK, Below
    <3> QED
      BY <3>1, <3>2, <3>3 DEF FlowOK
  <2>7. FirstPlace'
    BY <1>1, <2>5 DEF IInv, FirstPlace
  <2>8. SecondPlace'
    BY <1>1, <2>5 DEF IInv, SecondPlace
  <2>9. WireOK'
    BY <1>1, <2>5 DEF IInv, WireOK, OrderKept, InOrder
  <2> QED
    BY <2>4, <2>6, <2>7, <2>8, <2>9 DEF IInv
<1> QED
  BY <1>2, <1>3

LEMMA MakeStep ==
    ASSUME IInv, Make
    PROVE  IInv'
<1> USE DEF store, ends, socket
<1>1. /\ made < MaxPackets /\ made' = made + 1 /\ net_mq' = Post(made')
      /\ UNCHANGED <<net_IsOk, greeting, send_err_flag, pc, send_buf, due, lo, hi, broken,
                     dumps, discarded, wire, lost>>
      /\ refused' = IF Len(net_mq) < MqSize THEN refused ELSE refused \cup {made'}
  BY DEF Make
<1>2. /\ Dumped' = Dumped /\ Sent' = Sent /\ Past' = Past
      /\ LiveHand' = LiveHand /\ StoredHand' = StoredHand
  BY <1>1 DEF Dumped, Sent, Past, Stored, LiveHand, StoredHand
<1>3. /\ made' \in Packets /\ made' \in Messages /\ made' \in Nat /\ 1 .. made' = 1 .. made \cup {made'}
      /\ \A p \in 1 .. made : p < made'
  BY <1>1, Shapes DEF Packets, Messages
<1>4. /\ net_mq' \in Seq(Messages) /\ Len(net_mq') <= MqSize
      /\ InQueue' = IF Len(net_mq) < MqSize THEN InQueue \cup {made'} ELSE InQueue
      /\ Sorted(net_mq')
  <2>1. CASE ~(Len(net_mq) < MqSize)
    BY <1>1, <2>1, Shapes DEF Post, IInv, TypeOK, InQueue, FlowOK
  <2>2. CASE Len(net_mq) < MqSize
    <3>1. net_mq' = Append(net_mq, made') /\ net_mq \in Seq(Messages) /\ Sorted(net_mq)
      BY <1>1, <2>2, Shapes DEF Post, IInv, FlowOK
    <3>2. net_mq' \in Seq(Messages) /\ Range(net_mq') = Range(net_mq) \cup {made'}
      BY <1>3, <3>1, Appended
    <3>3. Len(net_mq') <= MqSize
      BY <2>2, <3>1, BoundsAssumption
    <3>4. Below(Range(net_mq) \cap Packets, {made'} \cap Packets)
      BY <1>3, Shapes DEF Below, InQueue
    <3>5. Sorted(net_mq')
      BY <1>3, <3>1, <3>4, SortedAppend
    <3> QED
      BY <1>3, <2>2, <3>2, <3>3, <3>5 DEF InQueue
  <2> QED
    BY <2>1, <2>2
<1>5. TypeOK'
  <2>1. dumps' \in Seq(1 .. made') /\ wire' \in Seq(1 .. made')
    <3>1. dumps \in Seq(1 .. made) /\ wire \in Seq(1 .. made) /\ 1 .. made \subseteq 1 .. made'
      BY <1>3 DEF IInv, TypeOK
    <3> QED
      BY <1>1, <3>1, WiderSeq
  <2>2. made' \in 0 .. MaxPackets
    BY <1>1, Shapes
  <2> QED
    BY <1>1, <1>4, <2>1, <2>2 DEF IInv, TypeOK, Messages
<1>6. FlowOK'
  <2>1. Sorted(net_mq)' /\ Sorted(dumps)'
    BY <1>1, <1>4 DEF IInv, FlowOK, Sorted
  <2>2. Below(LiveHand, InQueue)' /\ Below(Dumped \cup Sent, LiveHand \cup InQueue)'
    BY <1>2, <1>3, <1>4, Shapes DEF IInv, FlowOK, Below
  <2> QED
    BY <2>1, <2>2 DEF FlowOK
<1>7. FirstPlace'
  <2>1. made' \notin 1 .. made /\ refused \subseteq 1 .. made
    BY <1>3 DEF IInv, FirstPlace
  <2> QED
    BY <1>1, <1>2, <1>3, <1>4, <2>1, Shapes DEF IInv, FirstPlace
<1>8. SecondPlace'
  BY <1>1, <1>2 DEF IInv, SecondPlace
<1>9. WireOK'
  BY <1>1, <1>2 DEF IInv, WireOK, OrderKept, InOrder
<1> QED
  BY <1>5, <1>6, <1>7, <1>8, <1>9 DEF IInv

LEMMA WireAppend ==
    ASSUME IInv, NEW p \in Packets, p \notin Sent,
           p \in Dumped => Below(Sent \cap Dumped, {p}),
           p \notin Dumped => Below(Sent, {p}),
           wire' = Append(wire, p), dumps' = dumps
    PROVE  IsInjective(wire') /\ OrderKept' /\ Sent' = Sent \cup {p}
<1>1. /\ wire \in Seq(Packets) /\ wire \in Seq(Nat) /\ p \in Nat
      /\ IsInjective(wire) /\ Ordered(wire, Dumped) /\ Ordered(wire, Packets \ Dumped)
  BY Shapes, Kinds DEF IInv, WireOK, OrderKept, InOrder, Ordered, Dumped
<1>2. IsInjective(wire')
  BY <1>1, InjectiveAppend DEF Sent
<1>3. Sent' = Sent \cup {p}
  BY <1>1, Appended DEF Sent
<1>4. Ordered(wire', Dumped)
  BY <1>1, OrderedAppend DEF Sent
<1>5. p \in Packets \ Dumped => Below(Range(wire) \cap (Packets \ Dumped), {p})
  BY DEF Sent, Below
<1>6. Ordered(wire', Packets \ Dumped)
  BY <1>1, <1>5, OrderedAppend
<1>7. OrderKept'
  BY <1>4, <1>6 DEF OrderKept, InOrder, Ordered, Dumped
<1> QED
  BY <1>2, <1>3, <1>7

LEMMA SendLiveStep ==
    ASSUME IInv, SendLive
    PROVE  IInv'
<1> USE DEF store, ends, socket
<1>1. /\ pc = "live_send" /\ pc' = "replay" /\ send_buf' = Nothing /\ send_err_flag' = FALSE
      /\ wire' = IF IsLocation(send_buf) THEN Append(wire, send_buf) ELSE wire
      /\ UNCHANGED <<net_mq, net_IsOk, greeting, due, lo, hi, broken,
                     dumps, discarded, made, refused, lost>>
  BY DEF SendLive, Accepted
<1>2. /\ LiveHand = {send_buf} \cap Packets /\ LiveHand' = {}
      /\ StoredHand = {} /\ StoredHand' = {}
      /\ InQueue' = InQueue /\ Dumped' = Dumped /\ Past' = Past
  BY <1>1 DEF LiveHand, StoredHand, InQueue, Dumped, Past, Stored
<1>3. \A p \in LiveHand : p \notin Sent /\ p \notin Dumped /\ p \in 1 .. made
  BY Shapes DEF IInv, FlowOK, Below
<1>4. /\ Sent' = Sent \cup LiveHand /\ IsInjective(wire') /\ OrderKept'
      /\ wire' \in Seq(1 .. made)
  <2>1. CASE send_buf \in Packets
    <3>1. wire' = Append(wire, send_buf) /\ LiveHand = {send_buf}
      BY <1>1, <1>2, <2>1 DEF IsLocation
    <3>2. send_buf \notin Sent /\ send_buf \notin Dumped /\ Below(Sent, {send_buf})
      BY <1>3, <3>1 DEF IInv, FlowOK, Below
    <3>3. Sent' = Sent \cup {send_buf} /\ IsInjective(wire') /\ OrderKept'
      BY <1>1, <2>1, <3>1, <3>2, WireAppend
    <3>4. wire \in Seq(1 .. made) /\ send_buf \in 1 .. made
      BY <1>3, <3>1 DEF IInv, TypeOK
    <3>5. wire' \in Seq(1 .. made)
      BY <3>1, <3>4
    <3> QED
      BY <3>1, <3>3, <3>5
  <2>2. CASE send_buf \notin Packets
    BY <1>1, <1>2, <2>2 DEF IsLocation, IInv, TypeOK, WireOK, OrderKept, InOrder, Sent
  <2> QED
    BY <2>1, <2>2
<1>5. TypeOK'
  BY <1>1, <1>4 DEF IInv, TypeOK
<1>6. FlowOK'
  <2>1. Sorted(net_mq)' /\ Sorted(dumps)'
    BY <1>1 DEF IInv, FlowOK, Sorted
  <2>2. Below(LiveHand, InQueue)' /\ Below(Dumped \cup Sent, LiveHand \cup InQueue)'
    BY <1>2, <1>4 DEF IInv, FlowOK, Below
  <2> QED
    BY <2>1, <2>2 DEF FlowOK
<1>7. FirstPlace'
  BY <1>1, <1>2, <1>4 DEF IInv, FirstPlace
<1>8. SecondPlace'
  <2>1. discarded \cup lost \subseteq Dumped
    BY Shapes DEF IInv, SecondPlace
  <2> QED
    BY <1>1, <1>2, <1>3, <1>4, <2>1 DEF IInv, SecondPlace
<1>9. WireOK'
  BY <1>2, <1>4 DEF WireOK, Below
<1> QED
  BY <1>5, <1>6, <1>7, <1>8, <1>9 DEF IInv

\* The store holds the packets in the order in which they were made.
LEMMA StoreSorted ==
    ASSUME IInv
    PROVE  /\ \A i, j \in 0 .. hi - 1 : i < j => Stored(i) < Stored(j)
           /\ \A i \in 0 .. hi - 1 : Stored(i) \in Dumped
           /\ Below(Past, InStore)
           /\ Dumped = Past \cup InStore
<1>1. dumps \in Seq(Packets) /\ hi = Len(dumps) /\ hi \in Nat /\ lo \in Nat /\ lo <= hi
  BY Shapes
<1>2. DOMAIN dumps = 1 .. hi /\ Sorted(dumps) /\ \A i \in 1 .. hi : dumps[i] \in Packets
  BY <1>1 DEF IInv, FlowOK
<1>3. ASSUME NEW i \in 0 .. hi - 1, NEW j \in 0 .. hi - 1, i < j
      PROVE  Stored(i) < Stored(j)
  <2>1. i + 1 \in DOMAIN dumps /\ j + 1 \in DOMAIN dumps /\ i + 1 < j + 1
    BY <1>1, <1>2, <1>3
  <2>2. dumps[i + 1] \in Packets /\ dumps[j + 1] \in Packets
    BY <1>2, <2>1
  <2> QED
    BY <1>2, <2>1, <2>2 DEF Stored, Sorted
<1>4. \A i \in 0 .. hi - 1 : Stored(i) \in Dumped
  <2> SUFFICES ASSUME NEW i \in 0 .. hi - 1
               PROVE  Stored(i) \in Dumped
    OBVIOUS
  <2>1. i + 1 \in DOMAIN dumps
    BY <1>1, <1>2
  <2> QED
    BY <2>1 DEF Stored, Dumped, Range
<1>5. Below(Past, InStore)
  BY <1>1, <1>3 DEF Below, Past, InStore
<1>6. Dumped \subseteq Past \cup InStore
  <2> SUFFICES ASSUME NEW p \in Dumped
               PROVE  p \in Past \cup InStore
    OBVIOUS
  <2>1. PICK k \in DOMAIN dumps : p = dumps[k]
    BY DEF Dumped, Range
  <2>2. k - 1 \in 0 .. hi - 1 /\ p = Stored(k - 1)
    BY <1>1, <1>2, <2>1 DEF Stored
  <2>3. k - 1 \in 0 .. lo - 1 \/ k - 1 \in lo .. hi - 1
    BY <1>1, <2>2
  <2> QED
    BY <2>2, <2>3 DEF Past, InStore
<1>7. InStore \subseteq Dumped
  BY <1>1, <1>4 DEF InStore
<1> QED
  BY <1>3, <1>4, <1>5, <1>6, <1>7, Shapes

LEMMA LoadStep ==
    ASSUME IInv, Load
    PROVE  IInv'
<1> USE DEF store, ends, socket
<1>1. /\ pc = "replay" /\ LiveHand = {} /\ StoredHand = {}
      /\ UNCHANGED <<net_mq, net_IsOk, greeting, send_err_flag, due, dumps, discarded,
                     made, wire, refused, lost>>
  BY DEF Load, LiveHand, StoredHand
<1>2. CASE Store!GetNothing /\ pc' = "report" /\ UNCHANGED send_buf
  <2>1. UNCHANGED <<lo, hi, broken>>
    BY <1>2 DEF Store!GetNothing
  <2>2. LiveHand' = LiveHand /\ StoredHand' = StoredHand
    BY <1>1, <1>2 DEF LiveHand, StoredHand
  <2>3. TypeOK'
    BY <1>1, <1>2, <2>1 DEF IInv, TypeOK
  <2> QED
    BY <1>1, <2>1, <2>2, <2>3, QuietStep
<1>3. CASE Store!Get /\ send_buf' = Stored(got') /\ pc' = "stored"
  <2>1. /\ lo < hi /\ lo' = lo + 1 /\ UNCHANGED <<hi, broken>>
        /\ send_buf' = Stored(lo) /\ pc' = "stored"
    BY <1>3 DEF Store!Get
  <2>2. /\ lo \in 0 .. hi - 1 /\ Stored(lo) \in Dumped /\ Stored(lo) \in InStore
        /\ Below(Past, InStore) /\ \A p \in Past : p < p => FALSE
    BY <2>1, Shapes, StoreSorted, Kinds DEF InStore
  <2>3. Stored(lo) \in Packets /\ Stored(lo) # Nothing
    BY <2>2, Shapes, Kinds
  <2>4. /\ LiveHand' = {} /\ StoredHand' = {Stored(lo)}
        /\ InQueue' = InQueue /\ Dumped' = Dumped /\ Sent' = Sent
    BY <1>1, <2>1 DEF LiveHand, StoredHand, InQueue, Dumped, Sent
  <2>5. Past' = Past \cup {Stored(lo)}
    <3>1. 0 .. lo' - 1 = (0 .. lo - 1) \cup {lo}
      BY SMTT(20), <2>1, Shapes
    <3> QED
      BY <1>1, <3>1 DEF Past, Stored
  <2>6. Stored(lo) \notin Past
    BY <2>2 DEF Below
  <2>7. TypeOK'
    <3>1. lo' \in 0 .. hi
      BY <2>1, Shapes
    <3> QED
      BY <1>1, <2>1, <2>3, <3>1 DEF IInv, TypeOK
  <2>8. FlowOK'
    BY <1>1, <2>4 DEF IInv, FlowOK, Sorted, Below
  <2>9. FirstPlace'
    BY <1>1, <2>4 DEF IInv, FirstPlace
  <2>10. SecondPlace'
    BY <1>1, <2>2, <2>4, <2>5, <2>6 DEF IInv, SecondPlace
  <2>11. WireOK'
    <3>1. Sent \cap Dumped \subseteq Past
      BY DEF IInv, SecondPlace
    <3>2. Below(Sent \cap Dumped, StoredHand)'
      BY <2>2, <2>4, <3>1 DEF Below
    <3>3. IsInjective(wire)' /\ OrderKept'
      BY <1>1 DEF IInv, WireOK, OrderKept, InOrder
    <3> QED
      BY <3>2, <3>3 DEF WireOK
  <2> QED
    BY <2>7, <2>8, <2>9, <2>10, <2>11 DEF IInv
<1> QED
  BY <1>2, <1>3 DEF Load

LEMMA SendStoredStep ==
    ASSUME IInv, SendStored
    PROVE  IInv'
<1> USE DEF store, ends, socket
<1>1. /\ pc = "stored_send" /\ pc' = "report" /\ send_buf' = Nothing
      /\ wire' = IF IsLocation(send_buf) THEN Append(wire, send_buf) ELSE wire
      /\ UNCHANGED <<net_mq, net_IsOk, greeting, send_err_flag, due, lo, hi, broken,
                     dumps, discarded, made, refused, lost>>
  BY DEF SendStored, Accepted
<1>2. /\ LiveHand = {} /\ LiveHand' = {} /\ StoredHand = {send_buf} /\ StoredHand' = {}
      /\ InQueue' = InQueue /\ Dumped' = Dumped /\ Past' = Past
  BY <1>1 DEF LiveHand, StoredHand, InQueue, Dumped, Past, Stored
<1>3. send_buf \in Past /\ send_buf \notin discarded \cup lost \cup Sent
  BY <1>2 DEF IInv, SecondPlace
<1>4. send_buf \in Dumped /\ send_buf \in Packets /\ send_buf \in 1 .. made
  BY <1>3, Shapes
<1>5. Below(Sent \cap Dumped, {send_buf})
  BY <1>2 DEF IInv, WireOK
<1>6. wire' = Append(wire, send_buf)
  BY <1>1, <1>4 DEF IsLocation
<1>7. IsInjective(wire') /\ OrderKept' /\ Sent' = Sent \cup {send_buf}
  BY <1>1, <1>3, <1>4, <1>5, <1>6, WireAppend
<1>8. TypeOK'
  <2>1. wire' \in Seq(1 .. made)
    BY <1>4, <1>6 DEF IInv, TypeOK
  <2> QED
    BY <1>1, <2>1 DEF IInv, TypeOK
<1>9. FlowOK'
  <2>1. Sorted(net_mq)' /\ Sorted(dumps)'
    BY <1>1 DEF IInv, FlowOK, Sorted
  <2>2. Below(LiveHand, InQueue)' /\ Below(Dumped \cup Sent, LiveHand \cup InQueue)'
    BY <1>2, <1>4, <1>7 DEF IInv, FlowOK, Below
  <2> QED
    BY <2>1, <2>2 DEF FlowOK
<1>10. FirstPlace'
  BY <1>1, <1>2, <1>4, <1>7 DEF IInv, FirstPlace
<1>11. SecondPlace'
  BY <1>1, <1>2, <1>3, <1>4, <1>7 DEF IInv, SecondPlace
<1>12. WireOK'
  BY <1>2, <1>7 DEF WireOK, Below
<1> QED
  BY <1>8, <1>9, <1>10, <1>11, <1>12 DEF IInv

LEMMA FailStoredStep ==
    ASSUME IInv, FailStored
    PROVE  IInv'
<1> USE DEF store, ends, socket
<1>1. /\ pc \in {"stored", "stored_send"} /\ pc' = "report" /\ send_buf' = Nothing
      /\ lost' = lost \cup {send_buf}
      /\ UNCHANGED <<net_mq, net_IsOk, greeting, send_err_flag, due, lo, hi, broken,
                     dumps, discarded, made, wire, refused>>
  BY DEF FailStored, Failed
<1>2. /\ LiveHand = {} /\ LiveHand' = {} /\ StoredHand = {send_buf} /\ StoredHand' = {}
      /\ InQueue' = InQueue /\ Dumped' = Dumped /\ Past' = Past /\ Sent' = Sent
  BY <1>1 DEF LiveHand, StoredHand, InQueue, Dumped, Past, Stored, Sent
<1>3. TypeOK'
  BY <1>1 DEF IInv, TypeOK
<1>4. FlowOK'
  BY <1>1, <1>2 DEF IInv, FlowOK, Sorted
<1>5. FirstPlace'
  BY <1>1, <1>2 DEF IInv, FirstPlace
<1>6. SecondPlace'
  BY <1>1, <1>2 DEF IInv, SecondPlace
<1>7. WireOK'
  BY <1>1, <1>2 DEF IInv, WireOK, OrderKept, InOrder, Below
<1> QED
  BY <1>3, <1>4, <1>5, <1>6, <1>7 DEF IInv

LEMMA FailLiveStep ==
    ASSUME IInv, FailLive
    PROVE  IInv'
<1> USE DEF store, ends, socket
<1>1. /\ pc \in {"live", "live_send"} /\ pc' = "report" /\ send_buf' = Nothing
      /\ send_err_flag' = TRUE
      /\ UNCHANGED <<net_mq, net_IsOk, greeting, due, made, wire, refused, lost>>
  BY DEF FailLive, Failed, Save
<1>2. /\ LiveHand = {send_buf} \cap Packets /\ LiveHand' = {}
      /\ StoredHand = {} /\ StoredHand' = {}
      /\ InQueue' = InQueue /\ Sent' = Sent
  BY <1>1 DEF LiveHand, StoredHand, InQueue, Sent
<1>3. CASE send_buf \notin Packets
  <2>1. UNCHANGED <<lo, hi, broken, dumps, discarded>>
    BY <1>3 DEF FailLive, Save, IsLocation
  <2>2. LiveHand' = LiveHand
    BY <1>2, <1>3
  <2>3. TypeOK'
    BY <1>1, <2>1 DEF IInv, TypeOK
  <2> QED
    BY <1>1, <1>2, <2>1, <2>2, <2>3, QuietStep
<1>4. CASE send_buf \in Packets
  <2> DEFINE gone == {Stored(i) : i \in lo .. lo' - 1}
  <2>1. /\ hi' = hi + 1 /\ lo' \in lo .. hi /\ UNCHANGED broken
        /\ dumps' = Append(dumps, send_buf) /\ discarded' = discarded \cup gone
    BY <1>4 DEF FailLive, Save, IsLocation, Store!Put
  <2>2. /\ LiveHand = {send_buf} /\ send_buf \in 1 .. made
        /\ send_buf \notin Dumped \cup Sent /\ Below(Dumped \cup Sent, {send_buf})
        /\ Below({send_buf}, InQueue)
    <3>1. LiveHand = {send_buf}
      BY <1>2, <1>4
    <3>2. send_buf \in 1 .. made
      BY <3>1, Shapes
    <3>3. Below(Dumped \cup Sent, {send_buf}) /\ Below({send_buf}, InQueue)
      BY <3>1 DEF IInv, FlowOK, Below
    <3>4. ~(send_buf < send_buf)
      BY <3>2
    <3>5. send_buf \notin Dumped \cup Sent
      BY <3>3, <3>4 DEF Below
    <3> QED
      BY <3>1, <3>2, <3>3, <3>5
  <2>3. Dumped' = Dumped \cup {send_buf}
    BY <1>4, <2>1, Shapes, Appended DEF Dumped
  <2>4. /\ gone \subseteq InStore /\ gone \subseteq Dumped
        /\ Past' = Past \cup gone
    <3>1. dumps \in Seq(Packets) /\ hi = Len(dumps)
      BY Shapes
    <3>0. hi \in Nat /\ lo \in Nat /\ lo' \in Nat /\ lo <= lo' /\ lo' <= hi
      BY <2>1, Shapes
    <3>2. \A i \in 0 .. hi - 1 : dumps'[i + 1] = Stored(i)
      BY <2>1, <3>0, <3>1, <1>4 DEF Stored
    <3>3. \A i : i \in 0 .. lo' - 1 <=> i \in 0 .. lo - 1 \/ i \in lo .. lo' - 1
      BY <3>0
    <3>4. Past' = {Stored(i) : i \in 0 .. lo' - 1}
      <4>1. \A i \in 0 .. lo' - 1 : dumps'[i + 1] = Stored(i)
        <5>1. \A i \in 0 .. lo' - 1 : i \in 0 .. hi - 1
          BY <3>0, Within
        <5> QED
          BY <3>2, <5>1
      <4>2. Past' = {dumps'[i + 1] : i \in 0 .. lo' - 1}
        BY DEF Past, Stored
      <4> QED
        BY <4>1, <4>2
    <3>5. Past' = Past \cup gone
      <4>1. Past = {Stored(i) : i \in 0 .. lo - 1}
        BY DEF Past
      <4> QED
        BY <3>3, <3>4, <4>1
    <3>6. \A i \in lo .. lo' - 1 : i \in lo .. hi - 1
      BY <3>0, Within
    <3>7. gone \subseteq InStore
      BY <3>6 DEF InStore
    <3> QED
      BY <3>5, <3>7, StoreSorted
  <2> HIDE DEF gone
  <2>5. gone \cap Past = {}
    <3>1. \A p \in Past : ~(p < p)
      BY Shapes
    <3> QED
      BY <2>4, <3>1, StoreSorted DEF Below
  <2>6. TypeOK'
    <3>1. lo' \in 0 .. hi'
      BY <2>1, Shapes
    <3>2. dumps' \in Seq(1 .. made) /\ Len(dumps') = hi'
      BY <2>1, <2>2, Shapes DEF IInv, TypeOK
    <3> QED
      BY <1>1, <2>1, <3>1, <3>2 DEF IInv, TypeOK
  <2>7. FlowOK'
    <3>1. Sorted(net_mq)'
      BY <1>1 DEF IInv, FlowOK, Sorted
    <3>2. Below(Range(dumps) \cap Packets, {send_buf} \cap Packets)
      BY <2>2 DEF Below, Dumped
    <3>3. Sorted(dumps')
      BY <1>4, <2>1, <3>2, SortedAppend, Shapes DEF IInv, FlowOK
    <3>4. Below(LiveHand, InQueue)' /\ Below(Dumped \cup Sent, LiveHand \cup InQueue)'
      BY <1>2, <2>2, <2>3 DEF IInv, FlowOK, Below
    <3> QED
      BY <3>1, <3>3, <3>4 DEF FlowOK, Sorted
  <2>8. FirstPlace'
    BY <1>1, <1>2, <2>2, <2>3 DEF IInv, FirstPlace
  <2>9. SecondPlace'
    <3>1. Sent' \cap Dumped' = Sent \cap Dumped
      BY <1>2, <2>2, <2>3
    <3>2. gone \cap lost = {} /\ gone \cap Sent = {}
      BY <2>4, <2>5 DEF IInv, SecondPlace
    <3> QED
      BY <1>1, <1>2, <2>1, <2>4, <3>1, <3>2 DEF IInv, SecondPlace
  <2>10. WireOK'
    <3>1. Ordered(wire, Dumped) /\ Ordered(wire, Packets \ Dumped)
      BY DEF IInv, WireOK, OrderKept, InOrder, Ordered, Dumped
    <3>2. Range(wire) \cap Dumped' \subseteq Dumped
      BY <2>2, <2>3 DEF Sent
    <3>3. Ordered(wire, Dumped')
      BY <3>1, <3>2, OrderedWithin
    <3>4. Range(wire) \cap (Packets \ Dumped') \subseteq Packets \ Dumped
      BY <2>3
    <3>5. Ordered(wire, Packets \ Dumped')
      BY <3>1, <3>4, OrderedWithin
    <3>6. OrderKept'
      BY <1>1, <3>3, <3>5 DEF OrderKept, InOrder, Ordered, Dumped
    <3>7. IsInjective(wire)' /\ Below(Sent \cap Dumped, StoredHand)'
      BY <1>1, <1>2 DEF IInv, WireOK, Below
    <3> QED
      BY <3>6, <3>7 DEF WireOK
  <2> QED
    BY <2>6, <2>7, <2>8, <2>9, <2>10 DEF IInv
<1> QED
  BY <1>3, <1>4

-----------------------------------------------------------------------------
(* The theorems.                                                             *)

LEMMA Initially == Init => IInv
<1> SUFFICES ASSUME Init PROVE IInv
  OBVIOUS
<1>1. /\ net_mq = <<>> /\ net_IsOk = FALSE /\ greeting = FALSE /\ send_err_flag = FALSE
      /\ pc = "idle" /\ send_buf = Nothing /\ due = FALSE
      /\ lo = 0 /\ hi = 0 /\ broken = FALSE /\ dumps = <<>> /\ made = 0
      /\ wire = <<>> /\ refused = {} /\ discarded = {} /\ lost = {}
  BY DEF Init, Store!Init
<1>2. /\ LiveHand = {} /\ StoredHand = {} /\ InQueue = {} /\ Dumped = {} /\ Sent = {}
      /\ Past = {} /\ 1 .. made = {}
  <2>1. DOMAIN <<>> = {} /\ 1 .. made = {} /\ 0 .. lo - 1 = {}
    BY <1>1
  <2>2. Range(net_mq) = {} /\ Range(dumps) = {} /\ Range(wire) = {} /\ Past = {}
    BY <1>1, <2>1 DEF Range, Past
  <2> QED
    BY <1>1, <2>1, <2>2 DEF LiveHand, StoredHand, InQueue, Dumped, Sent
<1>3. TypeOK
  <2>1. <<>> \in Seq(Packets \cup {Status}) /\ <<>> \in Seq(1 .. made) /\ Len(<<>>) = 0
    OBVIOUS
  <2>2. MqSize >= 0 /\ 0 \in 0 .. MaxPackets /\ 0 \in 0 .. hi
    BY <1>1, BoundsAssumption
  <2>3. (send_buf = Nothing) = (pc \in {"idle", "replay", "report"})
    BY <1>1
  <2> QED
    BY <1>1, <2>1, <2>2, <2>3 DEF TypeOK
<1>4. FlowOK
  BY <1>1, <1>2 DEF FlowOK, Sorted, Below
<1>5. FirstPlace /\ SecondPlace
  BY <1>1, <1>2 DEF FirstPlace, SecondPlace
<1>6. WireOK
  BY <1>1, <1>2 DEF WireOK, IsInjective, OrderKept, InOrder, Below
<1> QED
  BY <1>3, <1>4, <1>5, <1>6 DEF IInv

LEMMA Stutter ==
    ASSUME IInv, UNCHANGED vars
    PROVE  IInv'
<1> USE DEF vars, store, ends, socket
<1>1. LiveHand' = LiveHand /\ StoredHand' = StoredHand
  BY DEF LiveHand, StoredHand
<1>2. TypeOK'
  BY DEF IInv, TypeOK
<1> QED
  BY <1>1, <1>2, QuietStep

LEMMA Step == IInv /\ [Next]_vars => IInv'
<1> SUFFICES ASSUME IInv, [Next]_vars PROVE IInv'
  OBVIOUS
<1>1. CASE Make
  BY <1>1, MakeStep
<1>2. CASE HourPasses \/ Alarm \/ Connect \/ Greet \/ Close
  BY <1>2, OtherThreads
<1>3. CASE Take
  BY <1>3, TakeStep
<1>4. CASE CheckLive \/ NoReplay \/ CheckStored \/ Report
  BY <1>4, IdleSteps
<1>5. CASE SendLive
  BY <1>5, SendLiveStep
<1>6. CASE FailLive
  BY <1>6, FailLiveStep
<1>7. CASE Load
  BY <1>7, LoadStep
<1>8. CASE SendStored
  BY <1>8, SendStoredStep
<1>9. CASE FailStored
  BY <1>9, FailStoredStep
<1>10. CASE UNCHANGED vars
  BY <1>10, Stutter
<1> QED
  BY <1>1, <1>2, <1>3, <1>4, <1>5, <1>6, <1>7, <1>8, <1>9, <1>10 DEF Next, SendThread

LEMMA Invariance == Spec => []IInv
<1>1. Init => IInv
  BY Initially
<1>2. IInv /\ [Next]_vars => IInv'
  BY Step
<1> QED
  BY <1>1, <1>2, PTL DEF Spec

\* The variables of the two threads and of the store keep their types, whatever
\* the queue, the socket and the stack do (net_app.c).
THEOREM Typing == Spec => []TypeOK
<1>1. IInv => TypeOK
  BY DEF IInv
<1> QED
  BY <1>1, Invariance, PTL

LEMMA SortedInjective ==
    ASSUME NEW s \in Seq(Packets), Sorted(s)
    PROVE  IsInjective(s)
<1> SUFFICES ASSUME NEW i \in DOMAIN s, NEW j \in DOMAIN s, s[i] = s[j], i # j
             PROVE  FALSE
  BY DEF IsInjective
<1>1. DOMAIN s = 1 .. Len(s) /\ (i < j \/ j < i)
  OBVIOUS
<1>2. s[i] \in Packets /\ s[j] \in Packets
  OBVIOUS
<1>3. \A p \in Packets : ~(p < p)
  BY Kinds
<1> QED
  BY <1>1, <1>2, <1>3 DEF Sorted

LEMMA PlacesHold ==
    ASSUME IInv
    PROVE  OnePlace
<1> DEFINE places == <<InQueue, InHand, InStore, Sent, refused, discarded, lost>>
<1>1. InHand = LiveHand \cup StoredHand
  <2>1. StoredHand \subseteq Packets
    BY Shapes DEF IInv, SecondPlace
  <2>2. pc \notin {"live", "live_send", "stored", "stored_send"} => send_buf \notin Packets
    BY Kinds DEF IInv, TypeOK
  <2> QED
    BY <2>1, <2>2 DEF InHand, LiveHand, StoredHand
<1>2. /\ InQueue \cap (LiveHand \cup Dumped \cup Sent) = {}
      /\ LiveHand \cap (Dumped \cup Sent) = {}
  <2>1. \A p \in 1 .. made : ~(p < p)
    BY Shapes
  <2> QED
    BY <2>1, Shapes DEF IInv, FlowOK, Below
<1>3. Past \cap InStore = {} /\ Dumped = Past \cup InStore
  <2>1. \A p \in Past : ~(p < p)
    BY Shapes
  <2> QED
    BY <2>1, StoreSorted DEF Below
<1>4. /\ UNION {InQueue, InHand, InStore, Sent, refused, discarded, lost} = 1 .. made
  BY <1>1, <1>3 DEF IInv, FirstPlace, SecondPlace
<1>5. Sent \cap InStore = {}
  BY <1>3 DEF IInv, SecondPlace
<1>6. /\ InQueue \cap InHand = {} /\ InQueue \cap InStore = {} /\ InQueue \cap Sent = {}
      /\ InQueue \cap refused = {} /\ InQueue \cap discarded = {} /\ InQueue \cap lost = {}
  BY <1>1, <1>2, <1>3 DEF IInv, FirstPlace, SecondPlace
<1>7. /\ InHand \cap InStore = {} /\ InHand \cap Sent = {} /\ InHand \cap refused = {}
      /\ InHand \cap discarded = {} /\ InHand \cap lost = {}
  BY <1>1, <1>2, <1>3 DEF IInv, FirstPlace, SecondPlace
<1>8. /\ InStore \cap Sent = {} /\ InStore \cap refused = {}
      /\ InStore \cap discarded = {} /\ InStore \cap lost = {}
  BY <1>3, <1>5 DEF IInv, FirstPlace, SecondPlace
<1>9. /\ Sent \cap refused = {} /\ Sent \cap discarded = {} /\ Sent \cap lost = {}
      /\ refused \cap discarded = {} /\ refused \cap lost = {} /\ discarded \cap lost = {}
  BY <1>3 DEF IInv, FirstPlace, SecondPlace
<1>10. /\ DOMAIN places = 1 .. 7
       /\ places[1] = InQueue /\ places[2] = InHand /\ places[3] = InStore
       /\ places[4] = Sent /\ places[5] = refused /\ places[6] = discarded /\ places[7] = lost
  OBVIOUS
<1>11. Range(places) = {InQueue, InHand, InStore, Sent, refused, discarded, lost}
  BY <1>10 DEF Range
<1>12. \A i, j \in 1 .. 7 : i < j => places[i] \cap places[j] = {}
  <2> SUFFICES ASSUME NEW i \in 1 .. 7, NEW j \in 1 .. 7, i < j
               PROVE  places[i] \cap places[j] = {}
    OBVIOUS
  <2> HIDE DEF places
  <2>1. CASE i = 1
    BY <1>6, <1>10, <2>1
  <2>2. CASE i = 2
    BY <1>7, <1>10, <2>2
  <2>3. CASE i = 3
    BY <1>8, <1>10, <2>3
  <2>4. CASE i \in 4 .. 6
    BY <1>9, <1>10, <2>4
  <2> QED
    BY <2>1, <2>2, <2>3, <2>4
<1>13. \A i, j \in DOMAIN places : i # j => places[i] \cap places[j] = {}
  <2> SUFFICES ASSUME NEW i \in 1 .. 7, NEW j \in 1 .. 7, i # j
               PROVE  places[i] \cap places[j] = {}
    BY <1>10
  <2>1. i < j \/ j < i
    OBVIOUS
  <2> HIDE DEF places
  <2> QED
    BY <1>12, <2>1
<1>14. IsInjective(wire) /\ IsInjective(dumps)
  BY SortedInjective, Shapes DEF IInv, WireOK, FlowOK
<1> QED
  BY <1>4, <1>11, <1>13, <1>14 DEF OnePlace, Sent

\* No packet is forgotten or doubled, for any number of packets, any size of the
\* queue and any discarding by the store (_net_send_thread_entry, net_app.c).
THEOREM Places == Spec => []OnePlace
<1>1. IInv => OnePlace
  BY PlacesHold
<1> QED
  BY <1>1, Invariance, PTL

\* The live packets keep their order on the wire, and so do the replayed ones
\* (_net_send_thread_entry, net_app.c).
THEOREM Order == Spec => []OrderKept
<1>1. IInv => OrderKept
  BY DEF IInv, WireOK
<1> QED
  BY <1>1, Invariance, PTL
=============================================================================
