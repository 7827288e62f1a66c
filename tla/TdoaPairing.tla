----------------------------- MODULE TdoaPairing -----------------------------
(* How an anchor turns received polls into TDOA entries (Application/dotie.c *)
(* and TdoaRxCardMsgProc / TdoaMsgPackInsetUartBuff of instance.c).          *)
(*                                                                           *)
(* Standard cards ("quick" cards) poll often, test cards ("slow") seldom.    *)
(* The anchor keeps one slot per standard card with its last poll (Pre); a   *)
(* test card's poll is appended to the slot of the standard card chosen for  *)
(* it, with the time since Pre (SQ).  The next poll of that standard card    *)
(* closes the interval: every entry gets the length of the interval (QQ) and *)
(* the slot moves to the send pack.                                          *)
(*                                                                           *)
(* Time stamps are readings of the radio's clock, which wraps; sequence      *)
(* numbers wrap too, and a card starts again at 0 when it restarts.  Ghost   *)
(* fields (poll, at, epoch) keep the true poll count, time and power-up of   *)
(* each received poll, so that what the anchor reports can be compared with  *)
(* what happened.                                                            *)
EXTENDS Integers, Sequences

CONSTANTS
    StdCards, TestCards,   \* card numbers other than 0 (0 marks a free slot)
    NSlots,                \* TDOA_STANDCARD_MAX_NUM
    MaxMsgs,               \* TDOA_MSG_TESTCARD_MAX_NUM
    TickMax,               \* Tick_max of dotie.h; the radio's clock has one value more
    SeqMod,                \* 2^16: the sequence number is a uint16
    Period,                \* a standard card polls at least once in Period ticks
    Start,                 \* the time the anchor starts at (any phase of its clock)
    MaxNow, MaxEpoch       \* bounds of the environment

ASSUME CardsAssumption == 0 \notin StdCards \cup TestCards
ASSUME SizeAssumption == NSlots \in Nat /\ MaxMsgs \in Nat
ASSUME ClockAssumption ==
    /\ TickMax \in Nat /\ Period \in Nat \ {0} /\ 2 * Period < TickMax
    /\ SeqMod \in Nat /\ SeqMod > 2
    /\ Start \in Nat /\ MaxNow \in Nat /\ MaxEpoch \in Nat

VARIABLES
    now,     \* true time
    std,     \* [StdCards -> [poll, at, epoch]]: the last poll each card sent
    better,  \* [TestCards -> StdCards \cup {0}]: the better-select table
    slots,   \* gstTdoaMsgArray: [1 .. NSlots -> [pre, msgs, flag]]
    pack     \* the entries of the send pack

vars == <<now, std, better, slots, pack>>

SlotIds == 1 .. NSlots

(* Radio clock and sequence number. *)
TimeStamp(t) == t % (TickMax + 1)
SeqNum(p) == p % SeqMod

\* A received poll of a standard card; NoPoll is what memset leaves.
Poll(c, p, t, e) ==
    [card |-> c, ts |-> TimeStamp(t), seq |-> SeqNum(p), poll |-> p, at |-> t, epoch |-> e]
NoPoll == [card |-> 0, ts |-> 0, seq |-> 0, poll |-> 0, at |-> 0, epoch |-> 0]

FreeSlot == [pre |-> NoPoll, msgs |-> <<>>, flag |-> FALSE]

-----------------------------------------------------------------------------
(* Defects a careless edit of the code would introduce (mutants).            *)
TiesBackwards(rx, pre) == (pre - rx + TickMax) % TickMax
PairsAny(s, m) == TRUE
KeepMsgs(s) == [pre |-> s.pre, msgs |-> s.msgs, flag |-> FALSE]
KnownAfterFirst(c) == \E i \in SlotIds \ {1} : slots[i].pre.card = c
-----------------------------------------------------------------------------

\* (rx - pre + Tick_max) % Tick_max
Ties(rx, pre) == (rx - pre + TickMax) % TickMax

(* TdoaCardMsdBuildUnity, one operator per branch. ------------------------ *)

\* no test card recorded yet: the poll becomes Pre
RecordPre(s, m) == [pre |-> m, msgs |-> s.msgs, flag |-> s.flag]

\* a test card after a valid Pre, while there is room
Entry(s, t, time) ==
    [test |-> t, std |-> s.pre.card, SQ |-> Ties(TimeStamp(time), s.pre.ts), QQ |-> 0,
     status |-> 0, at |-> time, pre |-> s.pre, last |-> NoPoll]

RecordTest(s, t, time) ==
    IF s.pre.ts # 0 /\ Len(s.msgs) < MaxMsgs
    THEN [pre |-> s.pre, msgs |-> Append(s.msgs, Entry(s, t, time)), flag |-> s.flag]
    ELSE s

\* the sequence numbers, as plain integers, differ by 1 or 2
Pairs(s, m) == m.seq - s.pre.seq \in {1, 2}

Closed(x, s, m) ==
    [test |-> x.test, std |-> x.std, SQ |-> x.SQ, QQ |-> Ties(m.ts, s.pre.ts),
     status |-> m.seq - s.pre.seq, at |-> x.at, pre |-> x.pre, last |-> m]

\* TdoaClearMsgArray keeps Pre
ClearMsgs(s) == [pre |-> s.pre, msgs |-> <<>>, flag |-> FALSE]

Close(s, m) ==
    IF Pairs(s, m)
    THEN [pre |-> m, msgs |-> [j \in 1 .. Len(s.msgs) |-> Closed(s.msgs[j], s, m)],
          flag |-> TRUE]
    ELSE ClearMsgs([pre |-> m, msgs |-> s.msgs, flag |-> s.flag])

BuildQuick(s, m) == IF Len(s.msgs) = 0 THEN RecordPre(s, m) ELSE Close(s, m)

(* The end of TdoaRxCardMsgProc: every slot that may be sent goes to the     *)
(* pack, which TdoaMsgPackInsetUartBuff clears first.                        *)
Packed(s1, p) ==
    IF \E i \in SlotIds : s1[i].flag
    THEN s1[CHOOSE i \in SlotIds : s1[i].flag /\ \A j \in SlotIds : s1[j].flag => j <= i].msgs
    ELSE p

MoveToPack(s1) ==
    /\ pack' = Packed(s1, pack)
    /\ slots' = [i \in SlotIds |-> IF s1[i].flag THEN ClearMsgs(s1[i]) ELSE s1[i]]

(* The first slot of a card; the first free slot is the first of card 0. *)
FirstOf(c, i) == slots[i].pre.card = c /\ \A j \in SlotIds : slots[j].pre.card = c => i <= j
Known(c) == \E i \in SlotIds : slots[i].pre.card = c

-----------------------------------------------------------------------------
Init ==
    /\ now = Start
    /\ std = [c \in StdCards |-> [poll |-> 0, at |-> Start, epoch |-> 0]]
    /\ better = [t \in TestCards |-> 0]
    /\ slots = [i \in SlotIds |-> FreeSlot]
    /\ pack = <<>>

\* One thing happens per tick; no standard card is silent for more than Period.
Advance ==
    /\ now < MaxNow
    /\ now' = now + 1

InTime(c) == now + 1 - std[c].at < Period
OthersInTime(c) == \A d \in StdCards \ {c} : InTime(d)

\* Card c sends its next poll (TdoaSendTagPoll of the card).
Sends(c) == std' = [std EXCEPT ![c] = [poll |-> @.poll + 1, at |-> now + 1, epoch |-> @.epoch]]

SentPoll(c) == Poll(c, std[c].poll + 1, now + 1, std[c].epoch)

\* TdoaRxQuickCardMsgProc: a card without a slot takes the first free one
RxQuickNew(c) ==
    /\ Advance /\ OthersInTime(c) /\ Sends(c)
    /\ ~Known(c)
    /\ \E i \in SlotIds :
          /\ FirstOf(0, i)
          /\ MoveToPack([slots EXCEPT ![i] = BuildQuick(FreeSlot, SentPoll(c))])
    /\ UNCHANGED better

\* ... or is ignored when there is none
RxQuickFull(c) ==
    /\ Advance /\ OthersInTime(c) /\ Sends(c)
    /\ ~Known(c) /\ ~Known(0)
    /\ MoveToPack(slots)
    /\ UNCHANGED better

RxQuickKnown(c) ==
    /\ Advance /\ OthersInTime(c) /\ Sends(c)
    /\ \E i \in SlotIds :
          /\ FirstOf(c, i)
          /\ MoveToPack([slots EXCEPT ![i] = BuildQuick(@, SentPoll(c))])
    /\ UNCHANGED better

\* A poll the anchor does not hear.  Its sequence number must not come round
\* to that of the slot: a card is not silent for 2^16 polls and then heard.
LosePoll(c) ==
    /\ Advance /\ OthersInTime(c) /\ Sends(c)
    /\ \A i \in SlotIds : slots[i].pre.card = c /\ slots[i].pre.epoch = std[c].epoch
          => std[c].poll + 1 - slots[i].pre.poll < SeqMod
    /\ UNCHANGED <<better, slots, pack>>

\* A card loses power and starts again at sequence number 0.
Restart(c) ==
    /\ Advance /\ OthersInTime(c)
    /\ std[c].epoch < MaxEpoch
    /\ std' = [std EXCEPT ![c] = [poll |-> 0, at |-> now + 1, epoch |-> @.epoch + 1]]
    /\ UNCHANGED <<better, slots, pack>>

\* TdoaRxSlowCardMsgProc: the time stamp 0 means none; the first slot whose
\* card the better-select table names for t takes the entry
RxSlow(t) ==
    /\ Advance
    /\ \A c \in StdCards : InTime(c)
    /\ IF TimeStamp(now + 1) # 0 /\ better[t] # 0 /\ Known(better[t])
       THEN \E i \in SlotIds :
              /\ FirstOf(better[t], i)
              /\ MoveToPack([slots EXCEPT ![i] = RecordTest(@, t, now + 1)])
       ELSE MoveToPack(slots)
    /\ UNCHANGED <<std, better>>

\* Nothing is sent in this tick.
Quiet ==
    /\ Advance
    /\ \A c \in StdCards : InTime(c)
    /\ UNCHANGED <<std, better, slots, pack>>

\* The better-select table (instance.c 974-1366) changes as signal strengths do.
Reselect(t) ==
    /\ better' \in {[better EXCEPT ![t] = c] : c \in StdCards \cup {0}}
    /\ UNCHANGED <<now, std, slots, pack>>

Next ==
    \/ \E c \in StdCards : RxQuickNew(c) \/ RxQuickFull(c) \/ RxQuickKnown(c)
                           \/ LosePoll(c) \/ Restart(c)
    \/ \E t \in TestCards : RxSlow(t) \/ Reselect(t)
    \/ Quiet

Spec == Init /\ [][Next]_vars

-----------------------------------------------------------------------------
(* Properties                                                                *)

PollType ==
    [card : StdCards \cup {0}, ts : 0 .. TickMax, seq : 0 .. SeqMod - 1, poll : Nat,
     at : Nat, epoch : Nat]

EntryType ==
    [test : TestCards, std : StdCards \cup {0}, SQ : 0 .. TickMax - 1, QQ : 0 .. TickMax - 1,
     status : 0 .. 2, at : Nat, pre : PollType, last : PollType]

\* Every field stays in its range, and a slot never holds more than MaxMsgs.
TypeOK ==
    /\ now \in Nat
    /\ std \in [StdCards -> [poll : Nat, at : Nat, epoch : Nat]]
    /\ better \in [TestCards -> StdCards \cup {0}]
    /\ slots \in [SlotIds -> [pre : PollType, msgs : Seq(EntryType), flag : BOOLEAN]]
    /\ \A i \in SlotIds : Len(slots[i].msgs) <= MaxMsgs
    /\ pack \in Seq(EntryType)

\* No standard card has two slots, so every poll of it closes its interval.
OneSlotPerCard ==
    \A i, j \in SlotIds :
        slots[i].pre.card # 0 /\ slots[i].pre.card = slots[j].pre.card => i = j

\* The entries of a slot were all measured from the slot's present Pre: Pre is
\* never replaced under entries that were measured from an older one.
EntriesFollowPre ==
    \A i \in SlotIds : \A k \in 1 .. Len(slots[i].msgs) :
        /\ slots[i].msgs[k].pre = slots[i].pre
        /\ slots[i].msgs[k].std = slots[i].pre.card
        /\ slots[i].pre.at < slots[i].msgs[k].at

\* A reported entry lies between two polls of ONE standard card, its own, and
\* unless that card restarted in between those are as many polls apart as the
\* reported status says, 1 or 2.
ReportBracketed ==
    \A k \in 1 .. Len(pack) : LET x == pack[k] IN
        /\ x.pre.card = x.std /\ x.last.card = x.std /\ x.std # 0
        /\ x.pre.at < x.at /\ x.at < x.last.at
        /\ x.pre.epoch = x.last.epoch =>
              x.status = x.last.poll - x.pre.poll /\ x.status \in {1, 2}

\* Reported intervals are the true ones up to the tick that the modulus
\* Tick_max = 2^40 - 1 costs when the radio's clock wraps inside the interval.
WithinOneTick(d, true) == d = true \/ d = true - 1

ReportAccurate ==
    \A k \in 1 .. Len(pack) : LET x == pack[k] IN
        x.pre.epoch = x.last.epoch =>
            /\ WithinOneTick(x.SQ, x.at - x.pre.at)
            /\ WithinOneTick(x.QQ, x.last.at - x.pre.at)
            /\ x.SQ <= x.QQ

\* "The sequence numbers of the card differ by 1: pair" (dotie.c:371): when the
\* card's next poll is heard, the entries of its slot go to the pack.
ConsecutivePollsPaired ==
    [][\A i \in SlotIds :
          /\ slots[i].msgs # <<>> /\ slots'[i].pre.card = slots[i].pre.card
          /\ slots'[i].pre.epoch = slots[i].pre.epoch
          /\ slots'[i].pre.poll = slots[i].pre.poll + 1
          => /\ Len(pack') = Len(slots[i].msgs)
             /\ \A k \in 1 .. Len(pack') : pack'[k].at = slots[i].msgs[k].at]_vars

=============================================================================
