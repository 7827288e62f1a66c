---------------------------- MODULE StoreForward ----------------------------
(* The station's network threads and its store of unsent packets (net_app.c).*)
(*                                                                           *)
(* The receive thread connects, polls the connection and closes it.  The     *)
(* send thread takes one message from net_mq and sends it, or puts it into   *)
(* the store, then replays one packet of the store.  A mutex guards the      *)
(* socket; the send thread looks at net_IsOk before it takes the mutex.      *)
(*                                                                           *)
(* The store is the LossyQueue that LocationStore implements; the file       *)
(* system is taken to work.  A non-blocking send of the external lwIP takes  *)
(* all of a packet or nothing.  Location packets are numbered as they are    *)
(* made; the other messages in net_mq are all alike (Status).                *)
EXTENDS Integers, Sequences, FiniteSets, Functions

CONSTANTS
    MqSize,      \* messages net_mq holds
    MaxPackets,  \* bound of the model: how many location packets are made
    Nothing, Junk, Status

ASSUME BoundsAssumption ==
    /\ MqSize \in Nat \ {0} /\ MaxPackets \in Nat
    /\ Nothing \notin Nat /\ Junk \notin Nat /\ Status \notin Nat
    /\ Nothing # Status /\ Nothing # Junk

Packets == 1 .. MaxPackets

VARIABLES
    net_mq,         \* location packets and Status messages, oldest first
    net_IsOk,       \* connected; it changes together with net_sock
    greeting,       \* the receive thread has connected and still holds the mutex
    send_err_flag,
    pc,             \* where the send thread is
    send_buf,       \* the message it handles, or Nothing
    due,            \* an hour has passed since the last running-state message
    lo, hi, got, broken,  \* the store
    dumps,          \* ghost: the packets dumped, in order
    made,           \* ghost: the number of packets made
    wire,           \* ghost: the packets given to the stack, in order
    refused,        \* ghost: the packets that found net_mq full
    discarded,      \* ghost: the packets that made room in the store
    lost            \* ghost: the packets whose replay failed

store == <<lo, hi, got, broken, dumps, discarded>>
ends == <<wire, refused, lost>>
socket == <<net_IsOk, greeting>>
vars == <<net_mq, socket, send_err_flag, pc, send_buf, due, store, made, ends>>

Store == INSTANCE LossyQueue

Init ==
    /\ net_mq = <<>> /\ net_IsOk = FALSE /\ greeting = FALSE /\ send_err_flag = FALSE
    /\ pc = "idle" /\ send_buf = Nothing /\ due = FALSE
    /\ Store!Init /\ dumps = <<>> /\ made = 0
    /\ wire = <<>> /\ refused = {} /\ discarded = {} /\ lost = {}

IsLocation(m) == m \in Packets

\* the packet with number i of the store
Stored(i) == dumps[i + 1]

-----------------------------------------------------------------------------
(* Defects a careless edit of the code would introduce (mutants).            *)
Unbounded(m) == Append(net_mq, m)
DropIt == UNCHANGED <<store, net_mq>>
Requeue == net_mq' = Unbounded(send_buf) /\ UNCHANGED store
NoReport == net_mq
-----------------------------------------------------------------------------
(* The other threads.                                                        *)

\* rt_mq_send fails when the queue is full; the message is gone
Post(m) == IF Len(net_mq) < MqSize THEN Append(net_mq, m) ELSE net_mq

\* bsmac_parser.c passes a packet of the radio board on
Make ==
    /\ made < MaxPackets
    /\ made' = made + 1
    /\ net_mq' = Post(made')
    /\ refused' = IF Len(net_mq) < MqSize THEN refused ELSE refused \cup {made'}
    /\ UNCHANGED <<socket, send_err_flag, pc, send_buf, due, store, wire, lost>>

HourPasses ==
    /\ due' = TRUE
    /\ UNCHANGED <<net_mq, socket, send_err_flag, pc, send_buf, store, made, ends>>

\* bsmac_parser.c reports trouble with the radio board
Alarm ==
    /\ net_mq' = Post(Status)
    /\ UNCHANGED <<socket, send_err_flag, pc, send_buf, due, store, made, ends>>

\* the receive thread, with the mutex; a connect that fails changes nothing
Connect ==
    /\ ~net_IsOk /\ net_IsOk' = TRUE /\ greeting' = TRUE
    /\ UNCHANGED <<net_mq, send_err_flag, pc, send_buf, due, store, made, ends>>

\* it reports the connection and releases the mutex
Greet ==
    /\ greeting /\ greeting' = FALSE
    /\ net_mq' = Post(Status)
    /\ UNCHANGED <<net_IsOk, send_err_flag, pc, send_buf, due, store, made, ends>>

\* _close_socket, when a receive fails
Close ==
    /\ net_IsOk /\ ~greeting /\ net_IsOk' = FALSE
    /\ UNCHANGED <<net_mq, greeting, send_err_flag, pc, send_buf, due, store, made, ends>>

-----------------------------------------------------------------------------
(* The send thread.                                                          *)

\* rt_mq_recv, with a timeout of 10 ticks
Take ==
    /\ pc = "idle"
    /\ IF net_mq # <<>>
       THEN send_buf' = Head(net_mq) /\ net_mq' = Tail(net_mq) /\ pc' = "live"
       ELSE pc' = "replay" /\ UNCHANGED <<send_buf, net_mq>>
    /\ UNCHANGED <<socket, send_err_flag, due, store, made, ends>>

\* _net_send_data finds net_IsOk set and goes on to take the mutex
Check(from, to) ==
    /\ pc = from /\ net_IsOk /\ pc' = to
    /\ UNCHANGED <<net_mq, socket, send_err_flag, send_buf, due, store, made, ends>>

\* send has taken the packet
Accepted(from, to) ==
    /\ pc = from /\ net_IsOk /\ ~greeting /\ pc' = to
    /\ wire' = IF IsLocation(send_buf) THEN Append(wire, send_buf) ELSE wire
    /\ send_buf' = Nothing
    /\ UNCHANGED <<net_mq, socket, due, store, made, refused, lost>>

\* _net_send_data has returned -1: not connected, closed meanwhile, or no room
Failed(checking, sending) == (pc = sending /\ ~greeting) \/ (pc = checking /\ ~net_IsOk)

CheckLive == Check("live", "live_send")

SendLive == Accepted("live_send", "replay") /\ send_err_flag' = FALSE

\* dump_location_data
Save ==
    /\ UNCHANGED net_mq
    /\ IF IsLocation(send_buf)
       THEN /\ Store!Put
            /\ dumps' = Append(dumps, send_buf)
            /\ discarded' = discarded \cup {Stored(i) : i \in lo .. lo' - 1}
       ELSE UNCHANGED store

\* the packet is saved and the loop returns
FailLive ==
    /\ Failed("live", "live_send")
    /\ send_err_flag' = TRUE
    /\ Save
    /\ send_buf' = Nothing /\ pc' = "report"
    /\ UNCHANGED <<socket, due, made, ends>>

MayReplay == net_IsOk /\ ~send_err_flag

\* load_location_data
Load ==
    /\ pc = "replay" /\ MayReplay
    /\ \/ Store!Get /\ send_buf' = Stored(got') /\ pc' = "stored"
       \/ Store!GetNothing /\ pc' = "report" /\ UNCHANGED send_buf
    /\ UNCHANGED <<net_mq, socket, send_err_flag, due, dumps, discarded, made, ends>>

NoReplay ==
    /\ pc = "replay" /\ ~MayReplay /\ pc' = "report"
    /\ UNCHANGED <<net_mq, socket, send_err_flag, send_buf, due, store, made, ends>>

CheckStored == Check("stored", "stored_send")

SendStored == Accepted("stored_send", "report") /\ UNCHANGED send_err_flag

\* logged, and that is all
FailStored ==
    /\ Failed("stored", "stored_send")
    /\ lost' = lost \cup {send_buf}
    /\ send_buf' = Nothing /\ pc' = "report"
    /\ UNCHANGED <<net_mq, socket, send_err_flag, due, store, made, wire, refused>>

\* the queue after net_send_normal_running_msg
Reported == IF due THEN Post(Status) ELSE net_mq

Report ==
    /\ pc = "report" /\ pc' = "idle"
    /\ net_mq' = Reported
    /\ due' = FALSE
    /\ UNCHANGED <<socket, send_err_flag, send_buf, store, made, ends>>

SendThread ==
    Take \/ CheckLive \/ SendLive \/ FailLive \/ Load \/ NoReplay
      \/ CheckStored \/ SendStored \/ FailStored \/ Report

-----------------------------------------------------------------------------

Next == Make \/ HourPasses \/ Alarm \/ Connect \/ Greet \/ Close \/ SendThread

(* The threads run, the hours pass, and the stack does not refuse every      *)
(* packet for ever: it frees its buffer as the server acknowledges.          *)
Fairness ==
    WF_vars(SendThread) /\ WF_vars(Greet) /\ WF_vars(HourPasses) /\ SF_vars(SendLive)

Spec == Init /\ [][Next]_vars /\ Fairness

-----------------------------------------------------------------------------
(* Properties.                                                               *)

TypeOK ==
    /\ net_mq \in Seq(Packets \cup {Status}) /\ Len(net_mq) <= MqSize
    /\ net_IsOk \in BOOLEAN /\ greeting \in BOOLEAN /\ (greeting => net_IsOk)
    /\ send_err_flag \in BOOLEAN /\ due \in BOOLEAN
    /\ pc \in {"idle", "live", "live_send", "replay", "stored", "stored_send", "report"}
    /\ send_buf \in Packets \cup {Status, Nothing}
    /\ (send_buf = Nothing) = (pc \in {"idle", "replay", "report"})
    /\ lo \in 0 .. hi /\ hi = Len(dumps) /\ broken = FALSE
    /\ made \in 0 .. MaxPackets
    /\ dumps \in Seq(1 .. made) /\ wire \in Seq(1 .. made)

InStore == {Stored(i) : i \in lo .. hi - 1}
InHand == {send_buf} \cap Packets
InQueue == Range(net_mq) \cap Packets

(* No packet is forgotten or doubled: at any time each packet is in the      *)
(* queue, in the hand of the send thread, in the store or with the stack,    *)
(* once, or it is one of those the three ways of losing have lost.           *)
OnePlace ==
    LET places == <<InQueue, InHand, InStore, Range(wire), refused, discarded, lost>>
    IN  /\ UNION Range(places) = 1 .. made
        /\ \A i, j \in DOMAIN places : i # j => places[i] \cap places[j] = {}
        /\ IsInjective(wire) /\ IsInjective(dumps)

\* the packets of S are on the wire in the order in which they were made
InOrder(S) ==
    \A i, j \in DOMAIN wire : i < j /\ {wire[i], wire[j]} \subseteq S => wire[i] < wire[j]

(* The live packets reach the server in order, and so do the replayed ones,  *)
(* although the two mix, and whatever is saved or lost in between.           *)
OrderKept == InOrder(Range(dumps)) /\ InOrder(Packets \ Range(dumps))

(* A connection that stays up empties the store, also when no new location   *)
(* packet comes to clear send_err_flag: the hourly message clears it.        *)
StoreDrains == <>[]net_IsOk => <>[](lo = hi)

=============================================================================
