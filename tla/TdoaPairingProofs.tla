-------------------------- MODULE TdoaPairingProofs --------------------------
(* Proofs about the pairing of polls, for any sets of cards, any number of   *)
(* slots and entries, any width of the clock and of the sequence numbers.    *)
EXTENDS TdoaPairing, SequenceTheorems, TLAPS

-----------------------------------------------------------------------------
(* Wrapping arithmetic.                                                      *)

\* The remainder as the difference to a multiple.
LEMMA Remainder ==
    ASSUME NEW n \in Nat, NEW S \in Nat, S > 0
    PROVE  /\ n % S \in 0 .. S - 1
           /\ \E q \in Nat : n = S * q + (n % S)
  <1>1. n \div S \in Nat /\ n = S * (n \div S) + (n % S) /\ n % S \in 0 .. S - 1
    BY Z3
  <1> QED
    BY <1>1

\* A multiple of S strictly between -S and S is 0.
LEMMA SmallMultiple ==
    ASSUME NEW S \in Nat, NEW a \in Int, NEW b \in Int, S * a - S * b < S, S * b - S * a < S
    PROVE  a = b
  BY Z3

\* Sequence numbers that differ by 1 or 2 belong to polls that do, unless the
\* card polled more than SeqMod times in between.
LEMMA SeqDifference ==
    ASSUME NEW p \in Nat, NEW q \in Nat, q - p \in 1 .. SeqMod,
           SeqNum(q) - SeqNum(p) \in {1, 2}
    PROVE  q - p = SeqNum(q) - SeqNum(p)
  <1>0. SeqMod \in Nat /\ SeqMod > 0
    BY ClockAssumption
  <1>1. PICK a \in Nat : p = SeqMod * a + SeqNum(p)
    BY <1>0, Remainder, Zenon DEF SeqNum
  <1>2. PICK b \in Nat : q = SeqMod * b + SeqNum(q)
    BY <1>0, Remainder, Zenon DEF SeqNum
  <1>3. SeqNum(p) \in 0 .. SeqMod - 1 /\ SeqNum(q) \in 0 .. SeqMod - 1
    BY Remainder, ClockAssumption DEF SeqNum
  <1> DEFINE A == SeqMod * a
             B == SeqMod * b
  <1>4. A \in Int /\ B \in Int /\ p = A + SeqNum(p) /\ q = B + SeqNum(q)
    BY <1>1, <1>2, ClockAssumption
  <1>5. B - A < SeqMod /\ A - B < SeqMod
    <2> HIDE DEF A, B
    <2> QED
      BY <1>3, <1>4, ClockAssumption
  <1>6. a = b
    BY <1>5, SmallMultiple, ClockAssumption
  <1> QED
    BY <1>1, <1>2, <1>3, <1>6, ClockAssumption

\* The time between two stamps less than a round of the clock apart, up to the
\* tick lost by the modulus Tick_max = 2^40 - 1.
LEMMA TiesAccurate ==
    ASSUME NEW s \in Nat, NEW t \in Nat, t - s \in 0 .. TickMax - 1
    PROVE  WithinOneTick(Ties(TimeStamp(t), TimeStamp(s)), t - s)
  <1> DEFINE M == TickMax + 1
             u == TimeStamp(t) - TimeStamp(s)
  <1>0. M \in Nat /\ M > 0
    BY ClockAssumption
  <1>1. PICK a \in Nat : s = M * a + TimeStamp(s)
    BY <1>0, Remainder, Zenon DEF TimeStamp
  <1>2. PICK b \in Nat : t = M * b + TimeStamp(t)
    BY <1>0, Remainder, Zenon DEF TimeStamp
  <1>3. TimeStamp(s) \in 0 .. TickMax /\ TimeStamp(t) \in 0 .. TickMax
    BY Remainder, ClockAssumption DEF TimeStamp
  <1>4. u = t - s \/ u = t - s - M
    <2>1. CASE a = b
      BY <1>1, <1>2, <1>3, <2>1, ClockAssumption
    <2>2. CASE b = a + 1
      BY <1>1, <1>2, <1>3, <2>2, ClockAssumption
    <2>3. CASE b # a /\ b # a + 1
      BY <1>1, <1>2, <1>3, <2>3, ClockAssumption, Z3
    <2> QED
      BY <2>1, <2>2, <2>3
  <1>5. CASE u = t - s
    BY <1>3, <1>5, ClockAssumption DEF Ties, WithinOneTick
  <1>6. CASE u = t - s - M
    BY <1>3, <1>6, ClockAssumption DEF Ties, WithinOneTick
  <1> QED
    BY <1>4, <1>5, <1>6

-----------------------------------------------------------------------------
(* The inductive invariant.                                                  *)

SlotRec == [pre : PollType, msgs : Seq(EntryType), flag : BOOLEAN]

StdRec == [poll : Nat, at : Nat, epoch : Nat]

\* Every standard card polled, or started, less than Period ticks ago.
StdOK ==
    /\ now \in Nat
    /\ std \in [StdCards -> StdRec]
    /\ \A c \in StdCards : std[c].at <= now /\ now - std[c].at < Period

Genuine(p) ==
    /\ p \in PollType /\ p.card \in StdCards
    /\ p.ts = TimeStamp(p.at) /\ p.seq = SeqNum(p.poll)

\* p is q's last poll, or the one before, or one less than SeqMod polls older
Near(p, q) ==
    /\ q.poll - p.poll \in 0 .. SeqMod - 1
    /\ q.poll = p.poll => q.at = p.at
    /\ q.poll = p.poll + 1 => q.at - p.at <= Period

PreOK(p) ==
    p = NoPoll \/ /\ Genuine(p)
                  /\ p.at <= now
                  /\ p.epoch <= std[p.card].epoch
                  /\ p.epoch = std[p.card].epoch => Near(p, std[p.card])

\* an entry that waits for the interval to close
EntryOK(p, x) ==
    /\ x.pre = p /\ Genuine(p) /\ x.std = p.card
    /\ p.at < x.at /\ x.at <= now
    /\ x.SQ = Ties(TimeStamp(x.at), p.ts)

SlotOK(s) ==
    /\ s \in SlotRec /\ ~s.flag /\ Len(s.msgs) <= MaxMsgs
    /\ PreOK(s.pre)
    /\ \A k \in 1 .. Len(s.msgs) : EntryOK(s.pre, s.msgs[k])

\* an entry of the pack
ReportOK(x) ==
    /\ x \in EntryType /\ Genuine(x.pre) /\ Genuine(x.last)
    /\ x.pre.card = x.std /\ x.last.card = x.std
    /\ x.pre.at < x.at /\ x.at < x.last.at
    /\ x.SQ = Ties(TimeStamp(x.at), x.pre.ts) /\ x.QQ = Ties(x.last.ts, x.pre.ts)
    /\ x.pre.epoch = x.last.epoch =>
          /\ x.status = x.last.poll - x.pre.poll /\ x.status \in {1, 2}
          /\ x.last.at - x.pre.at < TickMax

PairInv ==
    /\ StdOK
    /\ better \in [TestCards -> StdCards \cup {0}]
    /\ slots \in [SlotIds -> SlotRec]
    /\ \A i \in SlotIds : SlotOK(slots[i])
    /\ OneSlotPerCard
    /\ pack \in Seq(EntryType) /\ \A k \in 1 .. Len(pack) : ReportOK(pack[k])

-----------------------------------------------------------------------------
(* Types of the operators.                                                   *)

LEMMA StampType ==
    ASSUME NEW t \in Nat
    PROVE  TimeStamp(t) \in 0 .. TickMax /\ SeqNum(t) \in 0 .. SeqMod - 1
  <1>1. TickMax + 1 \in Nat /\ TickMax + 1 > 0 /\ SeqMod \in Nat /\ SeqMod > 0
    BY ClockAssumption
  <1>2. t % (TickMax + 1) \in 0 .. (TickMax + 1) - 1
    BY <1>1, Remainder, Zenon
  <1>3. t % SeqMod \in 0 .. SeqMod - 1
    BY <1>1, Remainder, Zenon
  <1>4. (TickMax + 1) - 1 = TickMax
    BY ClockAssumption
  <1> QED
    BY <1>2, <1>3, <1>4 DEF TimeStamp, SeqNum

LEMMA TiesType ==
    ASSUME NEW a \in 0 .. TickMax, NEW b \in 0 .. TickMax
    PROVE  Ties(a, b) \in 0 .. TickMax - 1
  <1>1. a - b + TickMax \in Nat /\ TickMax \in Nat /\ TickMax > 0
    BY ClockAssumption
  <1> QED
    BY <1>1, Remainder DEF Ties

LEMMA NoPollType == NoPoll \in PollType /\ NoPoll.card = 0
  BY ClockAssumption DEF NoPoll, PollType

LEMMA GenuineFields ==
    ASSUME NEW p, Genuine(p)
    PROVE  /\ p.at \in Nat /\ p.poll \in Nat /\ p.epoch \in Nat
           /\ p.ts \in 0 .. TickMax /\ p.seq \in 0 .. SeqMod - 1 /\ p.card # 0
           /\ p # NoPoll
  BY CardsAssumption, NoPollType DEF Genuine, PollType

\* The poll card c sends next.
LEMMA SentPollOK ==
    ASSUME StdOK, NEW c \in StdCards
    PROVE  /\ Genuine(SentPoll(c))
           /\ SentPoll(c).card = c /\ SentPoll(c).at = now + 1
           /\ SentPoll(c).poll = std[c].poll + 1 /\ SentPoll(c).epoch = std[c].epoch
  <1>1. std[c] \in StdRec /\ now \in Nat
    BY DEF StdOK
  <1>2. /\ std[c].poll + 1 \in Nat /\ now + 1 \in Nat /\ std[c].epoch \in Nat
    BY <1>1 DEF StdRec
  <1>3. /\ TimeStamp(now + 1) \in 0 .. TickMax
        /\ SeqNum(std[c].poll + 1) \in 0 .. SeqMod - 1
    BY <1>2, StampType
  <1> QED
    BY <1>2, <1>3 DEF SentPoll, Poll, Genuine, PollType

-----------------------------------------------------------------------------
(* What the operators of dotie.c return.                                     *)

\* A closed entry: the sequence numbers differ by 1 or 2, so the polls do.
LEMMA ClosedOK ==
    ASSUME StdOK, NEW c \in StdCards, NEW s, PreOK(s.pre), s.pre.card = c,
           NEW x \in EntryType, EntryOK(s.pre, x), Pairs(s, SentPoll(c))
    PROVE  Closed(x, s, SentPoll(c)) \in EntryType /\ ReportOK(Closed(x, s, SentPoll(c)))
  <1> DEFINE m == SentPoll(c)
             y == Closed(x, s, m)
             p == s.pre
  <1>1. /\ Genuine(m) /\ m.card = c /\ m.at = now + 1
        /\ m.poll = std[c].poll + 1 /\ m.epoch = std[c].epoch
    BY SentPollOK
  <1>2. Genuine(p) /\ p.at < x.at /\ x.at <= now /\ x.std = c /\ x.pre = p
        /\ x.SQ = Ties(TimeStamp(x.at), p.ts)
    BY DEF EntryOK
  <1>3. /\ p.at \in Nat /\ p.poll \in Nat /\ p.ts \in 0 .. TickMax /\ p # NoPoll
        /\ m.at \in Nat /\ m.poll \in Nat /\ m.ts \in 0 .. TickMax
        /\ p.seq = SeqNum(p.poll) /\ m.seq = SeqNum(m.poll)
    BY <1>1, <1>2, GenuineFields DEF Genuine
  <1>4. now \in Nat /\ std[c].at \in Nat /\ std[c].poll \in Nat
        /\ std[c].at <= now /\ now - std[c].at < Period /\ x.at \in Nat
    BY DEF StdOK, StdRec, EntryType
  <1>5. y = [test |-> x.test, std |-> c, SQ |-> x.SQ, QQ |-> Ties(m.ts, p.ts),
             status |-> m.seq - p.seq, at |-> x.at, pre |-> p, last |-> m]
    BY <1>2 DEF Closed
  <1>6. m.seq - p.seq \in {1, 2}
    BY DEF Pairs
  <1>7. y \in EntryType
    <2>1. Ties(m.ts, p.ts) \in 0 .. TickMax - 1
      BY <1>3, TiesType
    <2>2. p \in PollType /\ m \in PollType
      BY <1>1, <1>2 DEF Genuine
    <2>3. x.test \in TestCards /\ x.SQ \in 0 .. TickMax - 1
      BY DEF EntryType
    <2>4. m.seq - p.seq \in 0 .. 2
      BY <1>6
    <2> HIDE DEF m, p, y
    <2> QED
      BY <1>4, <1>5, <2>1, <2>2, <2>3, <2>4 DEF EntryType
  <1>8. ASSUME p.epoch = m.epoch
        PROVE  m.seq - p.seq = m.poll - p.poll /\ m.at - p.at < TickMax
    <2>1. Near(p, std[c])
      BY <1>1, <1>3, <1>8 DEF PreOK
    <2>2. m.poll - p.poll \in 1 .. SeqMod
      BY <1>1, <1>3, <1>4, <2>1, ClockAssumption DEF Near
    <2>3. m.seq - p.seq = m.poll - p.poll
      BY <1>3, <1>6, <2>2, SeqDifference
    <2>4. m.poll = p.poll + 1 \/ m.poll = p.poll + 2
      <3> HIDE DEF m, p
      <3> QED
        BY <1>3, <1>6, <2>3
    <2>5. std[c].poll = p.poll \/ std[c].poll = p.poll + 1
      BY <1>1, <1>3, <1>4, <2>4
    <2>6. std[c].at - p.at <= Period
      BY <1>3, <1>4, <2>1, <2>5, ClockAssumption DEF Near
    <2>7. m.at - p.at < TickMax
      BY <1>1, <1>3, <1>4, <2>6, ClockAssumption
    <2> QED
      BY <2>3, <2>7
  <1>9. ReportOK(y)
    <2> HIDE DEF m, p, y
    <2>1. x.at < m.at
      BY <1>1, <1>2, <1>4
    <2>2. /\ y.std = c /\ y.SQ = x.SQ /\ y.QQ = Ties(m.ts, p.ts)
          /\ y.status = m.seq - p.seq /\ y.at = x.at /\ y.pre = p /\ y.last = m
      BY <1>5
    <2>3. p.card = c
      BY DEF p
    <2> QED
      BY <1>1, <1>2, <1>6, <1>7, <1>8, <2>1, <2>2, <2>3 DEF ReportOK
  <1> QED
    BY <1>7, <1>9

\* A poll of the slot's card becomes Pre; what it closes goes to the pack.
LEMMA BuildQuickOK ==
    ASSUME StdOK, NEW c \in StdCards, NEW s, SlotOK(s), s.pre.card = c \/ s = FreeSlot,
           NEW s1, s1 = BuildQuick(s, SentPoll(c))
    PROVE  /\ s1 \in SlotRec /\ s1.pre = SentPoll(c)
           /\ s1.flag => \A k \in 1 .. Len(s1.msgs) : ReportOK(s1.msgs[k])
           /\ ~s1.flag => s1.msgs = <<>>
  <1> DEFINE m == SentPoll(c)
  <1>1. m \in PollType
    BY SentPollOK DEF Genuine
  <1>2. s \in SlotRec /\ ~s.flag /\ s.msgs \in Seq(EntryType) /\ s.flag \in BOOLEAN
    BY DEF SlotOK, SlotRec
  <1>3. CASE Len(s.msgs) = 0
    <2>1. s.msgs = <<>>
      BY <1>2, <1>3, EmptySeq
    <2>2. s1 = [pre |-> m, msgs |-> <<>>, flag |-> s.flag]
      BY <1>3, <2>1 DEF BuildQuick, RecordPre
    <2>3. <<>> \in Seq(EntryType)
      BY EmptySeq
    <2> HIDE DEF m
    <2> QED
      BY <1>1, <1>2, <2>2, <2>3 DEF SlotRec, m
  <1>4. CASE Len(s.msgs) # 0 /\ ~Pairs(s, m)
    <2>1. s1 = [pre |-> m, msgs |-> <<>>, flag |-> FALSE]
      BY <1>4 DEF BuildQuick, Close, ClearMsgs
    <2>2. <<>> \in Seq(EntryType)
      BY EmptySeq
    <2> HIDE DEF m
    <2> QED
      BY <1>1, <2>1, <2>2 DEF SlotRec, m
  <1>5. CASE Len(s.msgs) # 0 /\ Pairs(s, m)
    <2> DEFINE ms == [j \in 1 .. Len(s.msgs) |-> Closed(s.msgs[j], s, m)]
    <2>1. s1 = [pre |-> m, msgs |-> ms, flag |-> TRUE]
      BY <1>5 DEF BuildQuick, Close
    <2>2. s.pre.card = c
      <3>1. s # FreeSlot
        BY <1>5, EmptySeq DEF FreeSlot
      <3> QED
        BY <3>1
    <2>3. ASSUME NEW j \in 1 .. Len(s.msgs)
          PROVE  ms[j] \in EntryType /\ ReportOK(ms[j])
      <3>1. s.msgs[j] \in EntryType
        BY <1>2, ElementOfSeq
      <3>2. PreOK(s.pre) /\ EntryOK(s.pre, s.msgs[j])
        BY DEF SlotOK
      <3>3. /\ Closed(s.msgs[j], s, m) \in EntryType
            /\ ReportOK(Closed(s.msgs[j], s, m))
        BY <1>5, <2>2, <3>1, <3>2, ClosedOK
      <3> QED
        BY <3>3
    <2>4. Len(s.msgs) \in Nat
      BY <1>2, LenProperties
    <2>5. ms \in Seq(EntryType) /\ Len(ms) = Len(s.msgs)
      <3> HIDE DEF ms
      <3>1. ms \in [1 .. Len(s.msgs) -> EntryType]
        BY <2>3 DEF ms
      <3> QED
        BY <2>4, <3>1, SeqDef, LenProperties
    <2> HIDE DEF m, ms
    <2>6. s1 \in SlotRec
      BY <1>1, <2>1, <2>5 DEF SlotRec
    <2> QED
      BY <2>1, <2>3, <2>5, <2>6 DEF m
  <1> QED
    BY <1>3, <1>4, <1>5

\* PreOK does not depend on the passing of time.
LEMMA PreOKLater ==
    ASSUME NEW p, PreOK(p), now \in Nat, now' = now + 1,
           p = NoPoll \/ std'[p.card] = std[p.card]
    PROVE  PreOK(p)'
  <1>1. CASE p = NoPoll
    BY <1>1 DEF PreOK
  <1>2. CASE p # NoPoll
    <2>1. p.at \in Nat
      BY <1>2, GenuineFields DEF PreOK
    <2>2. p.at <= now'
      BY <1>2, <2>1 DEF PreOK
    <2> QED
      BY <1>2, <2>2 DEF PreOK
  <1> QED
    BY <1>1, <1>2

LEMMA SlotOKLater ==
    ASSUME NEW s, SlotOK(s), now \in Nat, now' = now + 1,
           s.pre = NoPoll \/ std'[s.pre.card] = std[s.pre.card]
    PROVE  SlotOK(s)'
  <1>1. PreOK(s.pre)'
    BY PreOKLater DEF SlotOK
  <1>2. ASSUME NEW k \in 1 .. Len(s.msgs)
        PROVE  EntryOK(s.pre, s.msgs[k])'
    <2>1. s.msgs[k] \in EntryType
      BY ElementOfSeq DEF SlotOK, SlotRec
    <2>2. s.msgs[k].at \in Nat
      BY <2>1 DEF EntryType
    <2> QED
      BY <2>2 DEF SlotOK, EntryOK
  <1> QED
    BY <1>1, <1>2 DEF SlotOK

LEMMA Unflagged ==
    ASSUME NEW p \in PollType, NEW ms \in Seq(EntryType)
    PROVE  [pre |-> p, msgs |-> ms, flag |-> FALSE] \in SlotRec
  BY DEF SlotRec

\* A test card's poll adds an entry measured from the slot's Pre.
LEMMA RecordTestOK ==
    ASSUME NEW s, SlotOK(s), s.pre.card \in StdCards, NEW t \in TestCards,
           now \in Nat, now' = now + 1, std' = std,
           NEW s1, s1 = RecordTest(s, t, now + 1)
    PROVE  SlotOK(s1)' /\ s1.pre = s.pre
  <1>1. SlotOK(s)'
    BY SlotOKLater
  <1>2. CASE s1 = s
    BY <1>1, <1>2
  <1>3. CASE s1 # s
    <2>1. PICK p : p = s.pre
      OBVIOUS
    <2>2. PICK x : x = Entry(s, t, now + 1)
      OBVIOUS
    <2>3. s1 = [pre |-> p, msgs |-> Append(s.msgs, x), flag |-> s.flag]
          /\ Len(s.msgs) < MaxMsgs
      BY <1>3, <2>1, <2>2 DEF RecordTest
    <2>4. /\ s.msgs \in Seq(EntryType) /\ Len(s.msgs) \in Nat
          /\ s.flag \in BOOLEAN /\ ~s.flag /\ p \in PollType
      BY <2>1, LenProperties DEF SlotOK, SlotRec
    <2>5. p # NoPoll /\ Genuine(p) /\ p.at <= now /\ PreOK(p)'
      BY <1>1, <2>1, NoPollType, CardsAssumption DEF SlotOK, PreOK
    <2>6. p.at \in Nat /\ p.ts \in 0 .. TickMax /\ p.card \in StdCards
      BY <2>1, <2>5, GenuineFields
    <2>7. x = [test |-> t, std |-> p.card, SQ |-> Ties(TimeStamp(now + 1), p.ts), QQ |-> 0,
               status |-> 0, at |-> now + 1, pre |-> p, last |-> NoPoll]
      BY <2>1, <2>2 DEF Entry
    <2>8. Ties(TimeStamp(now + 1), p.ts) \in 0 .. TickMax - 1 /\ 0 \in 0 .. TickMax - 1
      <3>1. TimeStamp(now + 1) \in 0 .. TickMax
        BY StampType
      <3>2. Ties(TimeStamp(now + 1), p.ts) \in 0 .. TickMax - 1
        BY <2>6, <3>1, TiesType
      <3>3. 0 \in 0 .. TickMax - 1
        BY ClockAssumption
      <3> QED
        BY <3>2, <3>3
    <2>9. x \in EntryType
      BY <2>4, <2>6, <2>7, <2>8, NoPollType DEF EntryType
    <2>10. /\ x.pre = p /\ x.std = p.card /\ x.at = now'
           /\ x.SQ = Ties(TimeStamp(x.at), p.ts)
      BY <2>7
    <2>11. EntryOK(p, x)'
      BY <2>5, <2>6, <2>10 DEF EntryOK
    <2>12. /\ Append(s.msgs, x) \in Seq(EntryType)
           /\ Len(Append(s.msgs, x)) = Len(s.msgs) + 1
           /\ \A k \in 1 .. Len(s.msgs) : Append(s.msgs, x)[k] = s.msgs[k]
           /\ Append(s.msgs, x)[Len(s.msgs) + 1] = x
      BY <2>4, <2>9, AppendProperties
    <2>13. s1 \in SlotRec /\ ~s1.flag /\ s1.pre = p /\ s1.msgs = Append(s.msgs, x)
      <3>1. PICK ms : ms = Append(s.msgs, x) /\ ms \in Seq(EntryType)
        BY <2>12
      <3>2. s.flag = FALSE
        BY <2>4
      <3>3. s1 = [pre |-> p, msgs |-> ms, flag |-> FALSE]
        BY <2>3, <3>1, <3>2
      <3>4. s1.pre = p /\ s1.msgs = ms /\ s1.flag = FALSE
        BY <3>3
      <3>5. s1 \in SlotRec
        BY <2>4, <3>1, <3>3, Unflagged
      <3> QED
        BY <3>1, <3>4, <3>5
    <2>14. ASSUME NEW k \in 1 .. Len(s1.msgs)
           PROVE  EntryOK(p, s1.msgs[k])'
      <3>1. k \in 1 .. Len(s.msgs) \/ k = Len(s.msgs) + 1
        BY <2>4, <2>12, <2>13
      <3>2. CASE k \in 1 .. Len(s.msgs)
        <4>1. EntryOK(p, s.msgs[k])'
          BY <1>1, <2>1, <3>2 DEF SlotOK
        <4>2. s1.msgs[k] = s.msgs[k]
          BY <2>12, <2>13, <3>2
        <4> QED
          BY <4>1, <4>2
      <3>3. CASE k = Len(s.msgs) + 1
        BY <2>11, <2>12, <2>13, <3>3
      <3> QED
        BY <3>1, <3>2, <3>3
    <2>15. Len(s1.msgs) <= MaxMsgs
      BY <2>3, <2>4, <2>12, <2>13, SizeAssumption
    <2> QED
      BY <2>1, <2>5, <2>13, <2>14, <2>15 DEF SlotOK
  <1> QED
    BY <1>2, <1>3

\* Only the slot that was written can be flagged; it moves to the pack whole.
LEMMA MoveOne ==
    ASSUME PairInv, NEW i \in SlotIds, NEW s1 \in SlotRec,
           MoveToPack([slots EXCEPT ![i] = s1])
    PROVE  /\ slots' \in [SlotIds -> SlotRec]
           /\ \A j \in SlotIds \ {i} : slots'[j] = slots[j]
           /\ slots'[i] = IF s1.flag THEN ClearMsgs(s1) ELSE s1
           /\ pack' = IF s1.flag THEN s1.msgs ELSE pack
  <1> DEFINE z == [slots EXCEPT ![i] = s1]
  <1>1. /\ slots \in [SlotIds -> SlotRec]
        /\ z[i] = s1 /\ \A j \in SlotIds \ {i} : z[j] = slots[j]
    BY DEF PairInv
  <1>2. \A j \in SlotIds \ {i} : ~z[j].flag
    BY <1>1 DEF PairInv, SlotOK
  <1>3. slots' = [j \in SlotIds |-> IF z[j].flag THEN ClearMsgs(z[j]) ELSE z[j]]
        /\ pack' = Packed(z, pack)
    BY DEF MoveToPack
  <1> HIDE DEF z
  <1>4. ClearMsgs(s1) \in SlotRec
    <2>1. <<>> \in Seq(EntryType)
      BY EmptySeq
    <2> QED
      BY <2>1 DEF ClearMsgs, SlotRec
  <1>5. /\ \A j \in SlotIds \ {i} : slots'[j] = slots[j]
        /\ slots'[i] = IF s1.flag THEN ClearMsgs(s1) ELSE s1
    BY <1>1, <1>2, <1>3
  <1>6. slots' \in [SlotIds -> SlotRec]
    <2>1. \A j \in SlotIds : slots'[j] \in SlotRec
      BY <1>1, <1>4, <1>5
    <2>2. slots' = [j \in SlotIds |-> slots'[j]]
      BY <1>3
    <2> QED
      BY <2>1, <2>2
  <1>7. CASE ~s1.flag
    <2>1. \A j \in SlotIds : ~z[j].flag
      BY <1>1, <1>2, <1>7
    <2>2. pack' = pack
      BY <1>3, <2>1 DEF Packed
    <2> QED
      BY <1>5, <1>6, <1>7, <2>2
  <1>8. CASE s1.flag
    <2> DEFINE last == CHOOSE k \in SlotIds : z[k].flag /\ \A j \in SlotIds : z[j].flag => j <= k
    <2>1. z[i].flag /\ \A j \in SlotIds : z[j].flag => j <= i
      BY <1>1, <1>2, <1>8, SizeAssumption DEF SlotIds
    <2>2. last \in SlotIds /\ z[last].flag
      BY <2>1
    <2>3. last = i
      BY <1>2, <2>2
    <2>4. pack' = z[last].msgs
      BY <1>3, <2>1 DEF Packed
    <2>5. pack' = s1.msgs
      BY <1>1, <2>3, <2>4
    <2> HIDE DEF last
    <2> QED
      BY <1>5, <1>6, <1>8, <2>5
  <1> QED
    BY <1>7, <1>8

\* Nothing is flagged when no slot was written.
LEMMA MoveNone ==
    ASSUME PairInv, MoveToPack(slots)
    PROVE  slots' = slots /\ pack' = pack
  <1>1. slots \in [SlotIds -> SlotRec] /\ \A j \in SlotIds : ~slots[j].flag
    BY DEF PairInv, SlotOK
  <1> QED
    BY <1>1 DEF MoveToPack, Packed

-----------------------------------------------------------------------------
(* The steps.                                                                *)

\* A card polls or restarts, the others are in time.
LEMMA StdStep ==
    ASSUME StdOK, NEW c \in StdCards, Advance, OthersInTime(c),
           NEW r \in StdRec, r.at = now + 1, std' = [std EXCEPT ![c] = r]
    PROVE  StdOK' /\ now' = now + 1 /\ std'[c] = r
           /\ \A d \in StdCards \ {c} : std'[d] = std[d]
  <1>1. now \in Nat /\ now' = now + 1 /\ std' \in [StdCards -> StdRec] /\ std'[c] = r
    BY DEF StdOK, Advance
  <1>2. \A d \in StdCards \ {c} : std'[d] = std[d]
    BY DEF StdOK
  <1>3. ASSUME NEW d \in StdCards
        PROVE  std'[d].at <= now' /\ now' - std'[d].at < Period
    <2>1. CASE d = c
      BY <1>1, <2>1, ClockAssumption
    <2>2. CASE d # c
      <3>1. InTime(d) /\ std[d].at <= now /\ std[d].at \in Nat
        BY <2>2 DEF OthersInTime, StdOK, StdRec
      <3> QED
        BY <1>1, <1>2, <2>2, <3>1 DEF InTime
    <2> QED
      BY <2>1, <2>2
  <1> QED
    BY <1>1, <1>2, <1>3 DEF StdOK

LEMMA TimeStep ==
    ASSUME StdOK, Advance, \A c \in StdCards : InTime(c), std' = std
    PROVE  StdOK' /\ now' = now + 1
  <1>1. now \in Nat /\ now' = now + 1
    BY DEF StdOK, Advance
  <1>2. ASSUME NEW d \in StdCards
        PROVE  std'[d].at <= now' /\ now' - std'[d].at < Period
    <2>1. InTime(d) /\ std[d].at <= now /\ std[d].at \in Nat
      BY DEF StdOK, StdRec
    <2> QED
      BY <1>1, <2>1 DEF InTime
  <1> QED
    BY <1>1, <1>2 DEF StdOK

\* The record Sends(c) writes.
LEMMA SendsRecord ==
    ASSUME StdOK, NEW c \in StdCards, Sends(c)
    PROVE  \E r \in StdRec :
             /\ r.poll = std[c].poll + 1 /\ r.at = now + 1 /\ r.epoch = std[c].epoch
             /\ std' = [std EXCEPT ![c] = r]
  <1> DEFINE r == [poll |-> std[c].poll + 1, at |-> now + 1, epoch |-> std[c].epoch]
  <1>1. std[c] \in StdRec /\ now \in Nat
    BY DEF StdOK
  <1>2. r \in StdRec
    BY <1>1 DEF StdRec
  <1>3. std' = [std EXCEPT ![c] = r]
    BY DEF Sends
  <1> QED
    BY <1>2, <1>3

\* A heard poll of card c is processed in slot i.
LEMMA QuickStep ==
    ASSUME PairInv, NEW c \in StdCards, Advance, OthersInTime(c), Sends(c),
           NEW i \in SlotIds, NEW s, SlotOK(s), s.pre.card = c \/ s = FreeSlot,
           \A j \in SlotIds \ {i} : slots[j].pre.card # c,
           MoveToPack([slots EXCEPT ![i] = BuildQuick(s, SentPoll(c))]),
           UNCHANGED better
    PROVE  PairInv'
  <1>1. PICK r \in StdRec :
             /\ r.poll = std[c].poll + 1 /\ r.at = now + 1 /\ r.epoch = std[c].epoch
             /\ std' = [std EXCEPT ![c] = r]
    BY SendsRecord DEF PairInv
  <1>2. StdOK' /\ now' = now + 1 /\ std'[c] = r
        /\ \A d \in StdCards \ {c} : std'[d] = std[d]
    BY <1>1, StdStep DEF PairInv
  <1>3. PICK m : /\ m = SentPoll(c) /\ Genuine(m) /\ m.card = c /\ m.at = now + 1
                 /\ m.poll = std[c].poll + 1 /\ m.epoch = std[c].epoch
    BY SentPollOK DEF PairInv
  <1>4. PICK s1 : s1 = BuildQuick(s, SentPoll(c))
    OBVIOUS
  <1>5. /\ s1 \in SlotRec /\ s1.pre = m
        /\ s1.flag => \A k \in 1 .. Len(s1.msgs) : ReportOK(s1.msgs[k])
        /\ ~s1.flag => s1.msgs = <<>>
    BY <1>3, <1>4, BuildQuickOK DEF PairInv
  <1>6. /\ slots' \in [SlotIds -> SlotRec]
        /\ \A j \in SlotIds \ {i} : slots'[j] = slots[j]
        /\ slots'[i] = IF s1.flag THEN ClearMsgs(s1) ELSE s1
        /\ pack' = IF s1.flag THEN s1.msgs ELSE pack
    BY <1>4, <1>5, MoveOne
  <1>7. slots'[i].pre = m /\ slots'[i].msgs = <<>> /\ ~slots'[i].flag
    <2>1. CASE s1.flag
      BY <1>5, <1>6, <2>1 DEF ClearMsgs
    <2>2. CASE ~s1.flag
      BY <1>5, <1>6, <2>2
    <2> QED
      BY <2>1, <2>2
  <1>8. SlotOK(slots[i])'
    <2>1. PreOK(m)'
      <3>1. m.at \in Nat /\ m.poll \in Nat /\ m.epoch \in Nat
        BY <1>3, GenuineFields
      <3>2. Near(m, r)
        BY <1>1, <1>3, <3>1, ClockAssumption DEF Near
      <3>3. m.at <= now' /\ m.epoch <= std'[m.card].epoch /\ std'[m.card] = r
        BY <1>1, <1>2, <1>3, <3>1 DEF PairInv, StdOK
      <3> QED
        BY <1>3, <3>2, <3>3 DEF PreOK
    <2>2. PICK s2 : s2 = slots'[i]
      OBVIOUS
    <2>3. s2 \in SlotRec /\ s2.pre = m /\ s2.msgs = <<>> /\ ~s2.flag /\ Len(s2.msgs) = 0
      BY <1>6, <1>7, <2>2, EmptySeq
    <2>4. SlotOK(s2)'
      BY <2>1, <2>3, SizeAssumption DEF SlotOK
    <2> QED
      BY <2>2, <2>4
  <1>9. ASSUME NEW j \in SlotIds \ {i}
        PROVE  SlotOK(slots[j])'
    <2>1. PICK s2 : s2 = slots[j]
      OBVIOUS
    <2>2. slots'[j] = s2 /\ SlotOK(s2) /\ s2.pre.card # c
      BY <1>6, <2>1 DEF PairInv
    <2>3. s2.pre = NoPoll \/ std'[s2.pre.card] = std[s2.pre.card]
      BY <1>2, <2>2 DEF SlotOK, PreOK, Genuine
    <2>4. SlotOK(s2)'
      BY <1>2, <2>2, <2>3, SlotOKLater DEF PairInv, StdOK
    <2> QED
      BY <2>2, <2>4
  <1>10. OneSlotPerCard'
    <2>1. \A j \in SlotIds \ {i} : slots'[j].pre.card # slots'[i].pre.card
      BY <1>3, <1>6, <1>7
    <2> QED
      BY <1>6, <2>1 DEF PairInv, OneSlotPerCard
  <1>11. pack' \in Seq(EntryType) /\ \A k \in 1 .. Len(pack') : ReportOK(pack'[k])
    <2>1. s1.msgs \in Seq(EntryType)
      BY <1>5 DEF SlotRec
    <2> QED
      BY <1>5, <1>6, <2>1 DEF PairInv
  <1>12. (better \in [TestCards -> StdCards \cup {0}])'
    BY DEF PairInv
  <1>13. ASSUME NEW j \in SlotIds
         PROVE  SlotOK(slots[j])'
    <2>1. CASE j = i
      BY <1>8, <2>1
    <2>2. CASE j # i
      BY <1>9, <2>2
    <2> QED
      BY <2>1, <2>2
  <1> QED
    BY <1>2, <1>6, <1>10, <1>11, <1>12, <1>13 DEF PairInv

\* A step that leaves the slots and the pack alone.
LEMMA SlotsKept ==
    ASSUME PairInv, StdOK', now' = now + 1, better' \in [TestCards -> StdCards \cup {0}],
           slots' = slots, pack' = pack,
           \A i \in SlotIds : PreOK(slots[i].pre)'
    PROVE  PairInv'
  <1>1. ASSUME NEW i \in SlotIds
        PROVE  SlotOK(slots[i])'
    <2>1. PICK s : s = slots[i]
      OBVIOUS
    <2>2. SlotOK(s) /\ PreOK(s.pre)' /\ s = slots'[i]
      BY <2>1 DEF PairInv
    <2>3. ASSUME NEW k \in 1 .. Len(s.msgs)
          PROVE  EntryOK(s.pre, s.msgs[k])'
      <3>1. s.msgs[k] \in EntryType
        BY <2>2, ElementOfSeq DEF SlotOK, SlotRec
      <3>2. s.msgs[k].at \in Nat /\ now \in Nat
        BY <3>1 DEF EntryType, PairInv, StdOK
      <3> QED
        BY SMTT(20), <2>2, <3>2 DEF SlotOK, EntryOK
    <2> QED
      BY <2>2, <2>3 DEF SlotOK
  <1>2. OneSlotPerCard'
    BY DEF PairInv, OneSlotPerCard
  <1> QED
    BY <1>1, <1>2 DEF PairInv

-----------------------------------------------------------------------------
(* One lemma per action.                                                     *)

\* Slot i is the only one of its card.
LEMMA FirstIsOnly ==
    ASSUME PairInv, NEW c \in StdCards, NEW i \in SlotIds, FirstOf(c, i)
    PROVE  /\ slots[i].pre.card = c /\ SlotOK(slots[i])
           /\ \A j \in SlotIds \ {i} : slots[j].pre.card # c
  BY CardsAssumption DEF PairInv, OneSlotPerCard, FirstOf

LEMMA FreeSlotOK ==
    ASSUME PairInv
    PROVE  SlotOK(FreeSlot)
  <1>1. <<>> \in Seq(EntryType) /\ Len(<<>>) = 0
    BY EmptySeq
  <1>2. FreeSlot \in SlotRec
    BY <1>1, NoPollType, Unflagged DEF FreeSlot
  <1> QED
    BY <1>1, <1>2, SizeAssumption DEF SlotOK, FreeSlot, PreOK

LEMMA RxQuickNewStep ==
    ASSUME PairInv, NEW c \in StdCards, RxQuickNew(c)
    PROVE  PairInv'
  <1>1. PICK i \in SlotIds :
           MoveToPack([slots EXCEPT ![i] = BuildQuick(FreeSlot, SentPoll(c))])
    BY DEF RxQuickNew
  <1>2. \A j \in SlotIds \ {i} : slots[j].pre.card # c
    BY DEF RxQuickNew, Known
  <1>3. SlotOK(FreeSlot)
    BY FreeSlotOK
  <1>4. Advance /\ OthersInTime(c) /\ Sends(c) /\ UNCHANGED better
    BY DEF RxQuickNew
  <1> QED
    BY <1>1, <1>2, <1>3, <1>4, QuickStep

LEMMA RxQuickKnownStep ==
    ASSUME PairInv, NEW c \in StdCards, RxQuickKnown(c)
    PROVE  PairInv'
  <1>1. PICK i \in SlotIds :
           /\ FirstOf(c, i)
           /\ MoveToPack([slots EXCEPT ![i] = BuildQuick(slots[i], SentPoll(c))])
    BY DEF RxQuickKnown, PairInv
  <1>2. PICK s : s = slots[i]
    OBVIOUS
  <1>3. /\ s.pre.card = c /\ SlotOK(s)
        /\ \A j \in SlotIds \ {i} : slots[j].pre.card # c
    BY <1>1, <1>2, FirstIsOnly
  <1>4. Advance /\ OthersInTime(c) /\ Sends(c) /\ UNCHANGED better
    BY DEF RxQuickKnown
  <1> QED
    BY <1>1, <1>2, <1>3, <1>4, QuickStep

\* No slot is card c's: its poll changes nothing but std.
LEMMA RxQuickFullStep ==
    ASSUME PairInv, NEW c \in StdCards, RxQuickFull(c)
    PROVE  PairInv'
  <1>1. Advance /\ OthersInTime(c) /\ Sends(c) /\ better' = better /\ MoveToPack(slots)
        /\ \A i \in SlotIds : slots[i].pre.card # c
    BY DEF RxQuickFull, Known
  <1>2. PICK r \in StdRec : r.at = now + 1 /\ std' = [std EXCEPT ![c] = r]
    BY <1>1, SendsRecord DEF PairInv
  <1>3. StdOK' /\ now' = now + 1 /\ \A d \in StdCards \ {c} : std'[d] = std[d]
    BY <1>1, <1>2, StdStep DEF PairInv
  <1>4. slots' = slots /\ pack' = pack
    BY <1>1, MoveNone
  <1>5. ASSUME NEW i \in SlotIds
        PROVE  PreOK(slots[i].pre)'
    <2>1. PICK p : p = slots[i].pre
      OBVIOUS
    <2>2. PreOK(p) /\ p.card # c /\ slots'[i].pre = p
      BY <1>1, <1>4, <2>1 DEF PairInv, SlotOK
    <2>3. p = NoPoll \/ std'[p.card] = std[p.card]
      BY <1>3, <2>2 DEF PreOK, Genuine
    <2>4. PreOK(p)'
      BY <1>3, <2>2, <2>3, PreOKLater DEF PairInv, StdOK
    <2> QED
      BY <2>2, <2>4
  <1>6. better' \in [TestCards -> StdCards \cup {0}]
    BY <1>1 DEF PairInv
  <1> QED
    BY <1>3, <1>4, <1>5, <1>6, SlotsKept

\* The slot's Pre stays near the card's last poll, which the guard says.
LEMMA LosePollStep ==
    ASSUME PairInv, NEW c \in StdCards, LosePoll(c)
    PROVE  PairInv'
  <1>1. /\ Advance /\ OthersInTime(c) /\ Sends(c)
        /\ better' = better /\ slots' = slots /\ pack' = pack
        /\ \A i \in SlotIds : slots[i].pre.card = c /\ slots[i].pre.epoch = std[c].epoch
              => std[c].poll + 1 - slots[i].pre.poll < SeqMod
    BY DEF LosePoll
  <1>2. PICK r \in StdRec :
             /\ r.poll = std[c].poll + 1 /\ r.at = now + 1 /\ r.epoch = std[c].epoch
             /\ std' = [std EXCEPT ![c] = r]
    BY <1>1, SendsRecord DEF PairInv
  <1>3. /\ StdOK' /\ now' = now + 1 /\ std'[c] = r
        /\ \A d \in StdCards \ {c} : std'[d] = std[d]
    BY <1>1, <1>2, StdStep DEF PairInv
  <1>4. ASSUME NEW i \in SlotIds
        PROVE  PreOK(slots[i].pre)'
    <2>1. PICK p : p = slots[i].pre
      OBVIOUS
    <2>2. PreOK(p) /\ slots'[i].pre = p
      BY <1>1, <2>1 DEF PairInv, SlotOK
    <2>3. now \in Nat /\ std[c] \in StdRec /\ std[c].at <= now /\ now - std[c].at < Period
      BY DEF PairInv, StdOK
    <2>4. CASE p = NoPoll \/ p.card # c
      <3>1. p = NoPoll \/ std'[p.card] = std[p.card]
        BY <1>3, <2>2, <2>4 DEF PreOK, Genuine
      <3>2. PreOK(p)'
        BY <1>3, <2>2, <2>3, <3>1, PreOKLater
      <3> QED
        BY <2>2, <3>2
    <2>5. CASE p # NoPoll /\ p.card = c
      <3>1. /\ Genuine(p) /\ p.at <= now /\ p.epoch <= std[c].epoch
            /\ p.epoch = std[c].epoch => Near(p, std[c])
            /\ p.at \in Nat /\ p.poll \in Nat /\ p.epoch \in Nat
        BY <2>2, <2>5, GenuineFields DEF PreOK
      <3>2. p.epoch = std[c].epoch => std[c].poll + 1 - p.poll < SeqMod
        BY <1>1, <2>1, <2>5
      <3>3. std[c].poll \in Nat /\ std[c].at \in Nat
        BY <2>3 DEF StdRec
      <3>4. p.epoch = r.epoch => Near(p, r)
        BY <1>2, <2>3, <3>1, <3>2, <3>3, ClockAssumption DEF Near
      <3>5. p.at <= now' /\ p.epoch <= std'[p.card].epoch /\ std'[p.card] = r
        BY <1>2, <1>3, <2>3, <2>5, <3>1
      <3>6. PreOK(p)'
        BY <3>1, <3>4, <3>5 DEF PreOK
      <3> QED
        BY <2>2, <3>6
    <2> QED
      BY <2>4, <2>5
  <1>5. better' \in [TestCards -> StdCards \cup {0}]
    BY <1>1 DEF PairInv
  <1> QED
    BY <1>1, <1>3, <1>4, <1>5, SlotsKept

\* After a restart no slot is of the card's present epoch.
LEMMA RestartStep ==
    ASSUME PairInv, NEW c \in StdCards, Restart(c)
    PROVE  PairInv'
  <1>1. /\ Advance /\ OthersInTime(c)
        /\ better' = better /\ slots' = slots /\ pack' = pack
    BY DEF Restart
  <1>2. PICK r : r = [poll |-> 0, at |-> now + 1, epoch |-> std[c].epoch + 1]
    OBVIOUS
  <1>3. now \in Nat /\ std[c] \in StdRec /\ std[c].epoch \in Nat
    BY DEF PairInv, StdOK, StdRec
  <1>4. r \in StdRec /\ r.at = now + 1 /\ r.epoch = std[c].epoch + 1
        /\ std' = [std EXCEPT ![c] = r]
    BY <1>2, <1>3 DEF Restart, StdRec
  <1>5. /\ StdOK' /\ now' = now + 1 /\ std'[c] = r
        /\ \A d \in StdCards \ {c} : std'[d] = std[d]
    BY <1>1, <1>4, StdStep DEF PairInv
  <1>6. ASSUME NEW i \in SlotIds
        PROVE  PreOK(slots[i].pre)'
    <2>1. PICK p : p = slots[i].pre
      OBVIOUS
    <2>2. PreOK(p) /\ slots'[i].pre = p
      BY <1>1, <2>1 DEF PairInv, SlotOK
    <2>3. CASE p = NoPoll \/ p.card # c
      <3>1. p = NoPoll \/ std'[p.card] = std[p.card]
        BY <1>5, <2>2, <2>3 DEF PreOK, Genuine
      <3>2. PreOK(p)'
        BY <1>3, <1>5, <2>2, <3>1, PreOKLater
      <3> QED
        BY <2>2, <3>2
    <2>4. CASE p # NoPoll /\ p.card = c
      <3>1. /\ Genuine(p) /\ p.at <= now /\ p.epoch <= std[c].epoch
            /\ p.at \in Nat /\ p.epoch \in Nat
        BY <2>2, <2>4, GenuineFields DEF PreOK
      <3>2. p.at <= now' /\ p.epoch < std'[p.card].epoch
        BY <1>3, <1>4, <1>5, <2>4, <3>1
      <3>3. std'[p.card].epoch \in Nat
        BY <1>4, <1>5, <2>4 DEF StdRec
      <3>4. PreOK(p)'
        BY <3>1, <3>2, <3>3 DEF PreOK
      <3> QED
        BY <2>2, <3>4
    <2> QED
      BY <2>3, <2>4
  <1>7. better' \in [TestCards -> StdCards \cup {0}]
    BY <1>1 DEF PairInv
  <1> QED
    BY <1>1, <1>5, <1>6, <1>7, SlotsKept

\* Time passes and neither the cards nor the slots change.
LEMMA TimePasses ==
    ASSUME PairInv, Advance, \A c \in StdCards : InTime(c),
           std' = std, better' = better, slots' = slots, pack' = pack
    PROVE  PairInv'
  <1>1. StdOK' /\ now' = now + 1
    BY TimeStep DEF PairInv
  <1>2. ASSUME NEW i \in SlotIds
        PROVE  PreOK(slots[i].pre)'
    <2>1. PICK p : p = slots[i].pre
      OBVIOUS
    <2>2. PreOK(p) /\ slots'[i].pre = p /\ now \in Nat
      BY <2>1 DEF PairInv, SlotOK, StdOK
    <2>3. PreOK(p)'
      BY <1>1, <2>2, PreOKLater
    <2> QED
      BY <2>2, <2>3
  <1>3. better' \in [TestCards -> StdCards \cup {0}]
    BY DEF PairInv
  <1> QED
    BY <1>1, <1>2, <1>3, SlotsKept

\* A test card's poll: one slot takes an entry and stays unflagged, or none does.
LEMMA RxSlowStep ==
    ASSUME PairInv, NEW t \in TestCards, RxSlow(t)
    PROVE  PairInv'
  <1>1. Advance /\ (\A c \in StdCards : InTime(c)) /\ std' = std /\ better' = better
    BY DEF RxSlow
  <1>2. CASE MoveToPack(slots)
    <2>1. slots' = slots /\ pack' = pack
      BY <1>2, MoveNone
    <2> QED
      BY <1>1, <2>1, TimePasses
  <1>3. CASE ~MoveToPack(slots)
    <2>1. PICK c \in StdCards : c = better[t]
      BY <1>3 DEF RxSlow, PairInv
    <2>2. PICK i \in SlotIds :
             /\ FirstOf(c, i)
             /\ MoveToPack([slots EXCEPT ![i] = RecordTest(slots[i], t, now + 1)])
      BY <1>3, <2>1 DEF RxSlow, PairInv
    <2>3. PICK s : s = slots[i]
      OBVIOUS
    <2>4. SlotOK(s) /\ s.pre.card = c /\ \A j \in SlotIds \ {i} : slots[j].pre.card # c
      BY <2>2, <2>3, FirstIsOnly
    <2>5. PICK s1 : s1 = RecordTest(s, t, now + 1)
      OBVIOUS
    <2>6. StdOK' /\ now' = now + 1 /\ now \in Nat
      BY <1>1, TimeStep DEF PairInv, StdOK
    <2>7. SlotOK(s1)' /\ s1.pre = s.pre
      BY <1>1, <2>4, <2>5, <2>6, RecordTestOK
    <2>8. s1 \in SlotRec /\ ~s1.flag
      BY <2>7 DEF SlotOK
    <2>9. /\ slots' \in [SlotIds -> SlotRec]
          /\ \A j \in SlotIds \ {i} : slots'[j] = slots[j]
          /\ slots'[i] = s1 /\ pack' = pack
      BY <2>2, <2>3, <2>5, <2>8, MoveOne
    <2>10. ASSUME NEW j \in SlotIds
           PROVE  SlotOK(slots[j])'
      <3>1. CASE j = i
        BY <2>7, <2>9, <3>1
      <3>2. CASE j # i
        <4>1. PICK s2 : s2 = slots[j]
          OBVIOUS
        <4>2. SlotOK(s2) /\ slots'[j] = s2
          BY <2>9, <3>2, <4>1 DEF PairInv
        <4>3. SlotOK(s2)'
          BY <1>1, <2>6, <4>2, SlotOKLater
        <4> QED
          BY <4>2, <4>3
      <3> QED
        BY <3>1, <3>2
    <2>11. OneSlotPerCard'
      <3>1. \A j \in SlotIds : slots'[j].pre.card = slots[j].pre.card
        BY <2>3, <2>7, <2>9
      <3> QED
        BY <3>1 DEF PairInv, OneSlotPerCard
    <2> QED
      BY <1>1, <2>6, <2>9, <2>10, <2>11 DEF PairInv
  <1> QED
    BY <1>2, <1>3

\* Neither time nor the slots change.
LEMMA StillStep ==
    ASSUME PairInv, UNCHANGED <<now, std, slots, pack>>,
           better' \in [TestCards -> StdCards \cup {0}]
    PROVE  PairInv'
  <1>1. StdOK' /\ OneSlotPerCard'
    BY DEF PairInv, StdOK, OneSlotPerCard
  <1>2. ASSUME NEW i \in SlotIds
        PROVE  SlotOK(slots[i])'
    <2>1. PICK s : s = slots[i]
      OBVIOUS
    <2>2. SlotOK(s) /\ slots'[i] = s
      BY <2>1 DEF PairInv
    <2>3. SlotOK(s)'
      BY <2>2 DEF SlotOK, PreOK, EntryOK
    <2> QED
      BY <2>2, <2>3
  <1> QED
    BY <1>1, <1>2 DEF PairInv

LEMMA InitInv == Init => PairInv
  <1> SUFFICES ASSUME Init
               PROVE  PairInv
    OBVIOUS
  <1>1. <<>> \in Seq(EntryType) /\ Len(<<>>) = 0
    BY EmptySeq
  <1>2. StdOK
    BY ClockAssumption DEF Init, StdOK, StdRec
  <1>3. SlotOK(FreeSlot) /\ FreeSlot \in SlotRec
    <2>1. FreeSlot \in SlotRec
      BY <1>1, NoPollType, Unflagged DEF FreeSlot
    <2> QED
      BY <1>1, <2>1, SizeAssumption DEF SlotOK, FreeSlot, PreOK
  <1>4. OneSlotPerCard
    <2>1. FreeSlot.pre.card = 0
      BY NoPollType DEF FreeSlot
    <2> QED
      BY <2>1 DEF Init, OneSlotPerCard
  <1> QED
    BY <1>1, <1>2, <1>3, <1>4 DEF Init, PairInv

LEMMA StepInv == PairInv /\ [Next]_vars => PairInv'
  <1> SUFFICES ASSUME PairInv, [Next]_vars
               PROVE  PairInv'
    OBVIOUS
  <1>1. ASSUME NEW c \in StdCards, RxQuickNew(c)
        PROVE  PairInv'
    BY <1>1, RxQuickNewStep
  <1>2. ASSUME NEW c \in StdCards, RxQuickFull(c)
        PROVE  PairInv'
    BY <1>2, RxQuickFullStep
  <1>3. ASSUME NEW c \in StdCards, RxQuickKnown(c)
        PROVE  PairInv'
    BY <1>3, RxQuickKnownStep
  <1>4. ASSUME NEW c \in StdCards, LosePoll(c)
        PROVE  PairInv'
    BY <1>4, LosePollStep
  <1>5. ASSUME NEW c \in StdCards, Restart(c)
        PROVE  PairInv'
    BY <1>5, RestartStep
  <1>6. ASSUME NEW t \in TestCards, RxSlow(t)
        PROVE  PairInv'
    BY <1>6, RxSlowStep
  <1>7. ASSUME NEW t \in TestCards, Reselect(t)
        PROVE  PairInv'
    <2>1. UNCHANGED <<now, std, slots, pack>> /\ better' \in [TestCards -> StdCards \cup {0}]
      BY <1>7 DEF Reselect, PairInv
    <2> QED
      BY <2>1, StillStep
  <1>8. ASSUME Quiet
        PROVE  PairInv'
    BY <1>8, TimePasses DEF Quiet
  <1>9. ASSUME UNCHANGED vars
        PROVE  PairInv'
    <2>1. UNCHANGED <<now, std, slots, pack>> /\ better' \in [TestCards -> StdCards \cup {0}]
      BY <1>9 DEF vars, PairInv
    <2> QED
      BY <2>1, StillStep
  <1> QED
    BY <1>1, <1>2, <1>3, <1>4, <1>5, <1>6, <1>7, <1>8, <1>9 DEF Next

\* The inductive invariant holds of every behaviour.
THEOREM PairingInvariant == Spec => []PairInv
  BY InitInv, StepInv, PTL DEF Spec

-----------------------------------------------------------------------------
(* What it gives.                                                            *)

\* Every slot and entry of the tables of dotie.c keeps its type and the slots
\* their capacity, for any number of cards, slots and entries.
THEOREM PairingTypes == Spec => []TypeOK
  <1>1. PairInv => TypeOK
    BY DEF PairInv, TypeOK, StdOK, StdRec, SlotRec, SlotOK
  <1> QED
    BY <1>1, PairingInvariant, PTL

\* TdoaRxQuickCardMsgProc never gives a standard card a second slot.
THEOREM CardsUnique == Spec => []OneSlotPerCard
  <1>1. PairInv => OneSlotPerCard
    BY DEF PairInv
  <1> QED
    BY <1>1, PairingInvariant, PTL

\* TdoaCardMsdBuildUnity never replaces Pre under entries measured from it.
THEOREM EntriesConsistent == Spec => []EntriesFollowPre
  <1>1. PairInv => EntriesFollowPre
    BY DEF PairInv, EntriesFollowPre, SlotOK, EntryOK
  <1> QED
    BY <1>1, PairingInvariant, PTL

\* What the anchor reports was measured between two polls of one card, at most
\* 2 polls apart.
THEOREM ReportsBracketed == Spec => []ReportBracketed
  <1>1. PairInv => ReportBracketed
    <2> SUFFICES ASSUME PairInv, NEW k \in 1 .. Len(pack)
                 PROVE  LET x == pack[k] IN
                          /\ x.pre.card = x.std /\ x.last.card = x.std /\ x.std # 0
                          /\ x.pre.at < x.at /\ x.at < x.last.at
                          /\ x.pre.epoch = x.last.epoch =>
                                x.status = x.last.poll - x.pre.poll /\ x.status \in {1, 2}
      BY DEF ReportBracketed
    <2>1. PICK x : x = pack[k]
      OBVIOUS
    <2>2. ReportOK(x)
      BY <2>1 DEF PairInv
    <2>3. x.pre.card # 0
      BY <2>2, GenuineFields DEF ReportOK
    <2> QED
      BY <2>1, <2>2, <2>3 DEF ReportOK
  <1> QED
    BY <1>1, PairingInvariant, PTL

\* The intervals of an entry, computed from wrapping time stamps, are true up
\* to one tick and in order.
LEMMA ReportMeasures ==
    ASSUME NEW x, ReportOK(x), x.pre.epoch = x.last.epoch
    PROVE  /\ WithinOneTick(x.SQ, x.at - x.pre.at)
           /\ WithinOneTick(x.QQ, x.last.at - x.pre.at)
           /\ x.SQ <= x.QQ
  <1>1. PICK a \in Nat : a = x.pre.at
    BY GenuineFields DEF ReportOK
  <1>2. PICK b \in Nat : b = x.at
    BY DEF ReportOK, EntryType
  <1>3. PICK d \in Nat : d = x.last.at
    BY GenuineFields DEF ReportOK
  <1>4. a < b /\ b < d /\ d - a < TickMax
    BY <1>1, <1>2, <1>3 DEF ReportOK
  <1>5. x.SQ = Ties(TimeStamp(b), TimeStamp(a)) /\ x.QQ = Ties(TimeStamp(d), TimeStamp(a))
    BY <1>1, <1>2, <1>3 DEF ReportOK, Genuine
  <1>6. b - a \in 0 .. TickMax - 1 /\ d - a \in 0 .. TickMax - 1
    BY <1>4, ClockAssumption
  <1>7. WithinOneTick(x.SQ, b - a) /\ WithinOneTick(x.QQ, d - a)
    BY <1>5, <1>6, TiesAccurate
  <1>8. x.SQ \in 0 .. TickMax - 1 /\ x.QQ \in 0 .. TickMax - 1
    BY DEF ReportOK, EntryType
  <1>9. x.SQ <= x.QQ
    BY <1>4, <1>7, <1>8 DEF WithinOneTick
  <1> QED
    BY <1>1, <1>2, <1>3, <1>7, <1>9

THEOREM ReportsAccurate == Spec => []ReportAccurate
  <1>1. PairInv => ReportAccurate
    <2> SUFFICES ASSUME PairInv
                 PROVE  ReportAccurate
      OBVIOUS
    <2>1. \A k \in 1 .. Len(pack) : ReportOK(pack[k])
      BY DEF PairInv
    <2> QED
      BY <2>1, ReportMeasures DEF ReportAccurate
  <1> QED
    BY <1>1, PairingInvariant, PTL

=============================================================================
