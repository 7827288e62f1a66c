---------------------------- MODULE BetterSelect ----------------------------
(* How an anchor chooses the standard card a test card is packed with        *)
(* (TdoaInstSaveStdCardMsgProc of instance.c and what it calls).             *)
(*                                                                           *)
(* A standard card's frame lists the test cards it has heard and how         *)
(* strongly.  The anchor keeps the last list of each of up to StdMax         *)
(* standard cards, removes the cards that have fallen silent, and derives    *)
(* the better-select table: for each test card the standard card that hears  *)
(* it best.  A strength is a negative number of dBm, 0 is implausible.       *)
EXTENDS Integers, SequencesExt

CONSTANTS
    Std,       \* standard cards
    Test,      \* test cards
    Junk,      \* the test card of an entry that is not one: see CardTransmit
    Level,     \* [Std -> [Test -> strengths at which the one may hear the other]]
    Frames,    \* [Std -> the lists its frames carry]
    StdMax,    \* TDOA_STANDCARD_MAX_NUM
    TestMax,   \* TDOA_MSG_TESTCARD_MAX_NUM
    DealMod    \* 2^8: u8Dealtime, u8LastDealtime and gu8Dealtime are uint8

NoStd == 0   \* what memset leaves for a card number

Entries(s) == {[test |-> Junk, rssi |-> 0]}
              \cup UNION {[test : {t}, rssi : Level[s][t]] : t \in Test}

ASSUME CardsAssumption == NoStd \notin Std \cup Test \cup {Junk} /\ Junk \notin Test
ASSUME TablesAssumption == StdMax \in Nat \ {0} /\ TestMax \in Nat \ {0} /\ DealMod \in Nat \ {0, 1}
ASSUME LevelAssumption == \A s \in Std, t \in Test : \A r \in Level[s][t] : r \in Int /\ r < 0
ASSUME FramesAssumption ==
    \A s \in Std : \A l \in Frames[s] : l \in Seq(Entries(s)) /\ Len(l) <= TestMax

VARIABLES
    slot,    \* stStdCardMsg up to u8StdCardCount: Seq of [id, list, deal, last]
    free,    \* [1 .. StdMax -> u8Dealtime left over in a slot beyond the count]
    rel,     \* stBetterTable up to u8CardCount: Seq of [test, std, rssi]
    changes, \* u8Dealtime of gstBetterTable
    gdeal,   \* gu8Dealtime
    streak,  \* ghost: the card of the last frame and how many of its frames came in a row
    silent   \* ghost: [Std -> for a stored card, the frames since its last]

selectVars == <<slot, free, rel, changes, gdeal, streak, silent>>

Stored == {slot[i].id : i \in DOMAIN slot}

StreakMax == 2 * StdMax

SelectInit ==
    /\ slot = <<>> /\ free = [i \in 1 .. StdMax |-> 0]
    /\ rel = <<>> /\ changes = 0
    /\ gdeal = 0
    /\ streak = [std |-> NoStd, n |-> 0] /\ silent = [s \in Std |-> 0]

-----------------------------------------------------------------------------
(* Defects a careless edit of the code would introduce (mutants).            *)
ReceivedAsNew(a, s, l) ==
    Append(IF Len(a) < StdMax THEN a ELSE Tail(a), [id |-> s, list |-> l, deal |-> 1, last |-> 0])
StrengthOnly(r, o) == [r EXCEPT !.rssi = o.rssi]
LongRound == 2 * StdMax
FirstRelationOnly(c) ==
    IF Len(c.list) < Len(rel) THEN <<[test |-> c.list[1].test, std |-> c.id, rssi |-> c.list[1].rssi]>> \o Tail(rel)
    ELSE [j \in DOMAIN c.list |-> [test |-> c.list[j].test, std |-> c.id, rssi |-> c.list[j].rssi]]
-----------------------------------------------------------------------------
(* The table of standard cards ---------------------------------------------- *)

\* how many receptions make a round
Round == StdMax

\* Before the first reception of a round every card's u8LastDealtime catches up
StartRound(a) == [i \in DOMAIN a |-> [a[i] EXCEPT !.last = a[i].deal]]
AtRound(a) == IF gdeal % Round = 0 THEN StartRound(a) ELSE a

\* TdoaInstSaveRssiFormRxMsg overwrites the whole slot, u8LastDealtime too; the
\* next u8Dealtime comes from whatever the slot held
Saved(deal, s, l) == [id |-> s, list |-> l, deal |-> (deal + 1) % DealMod, last |-> 0]

\* TdoaInstExistStdCardSaveMsg, TdoaInstNoExistStdCardSaveMsg: the first card
\* gives way when the table is full
SaveKnown(a, s, l) == [i \in DOMAIN a |-> IF a[i].id = s THEN Saved(a[i].deal, s, l) ELSE a[i]]
SaveNew(a, s, l) == Append(a, Saved(free[Len(a) + 1], s, l))
SaveFull(a, s, l) == Append(Tail(a), Saved(0, s, l))

Received(a, s, l) ==
    CASE \E i \in DOMAIN a : a[i].id = s -> SaveKnown(a, s, l)
      [] OTHER -> IF Len(a) < StdMax THEN SaveNew(a, s, l) ELSE SaveFull(a, s, l)

\* A card whose u8Dealtime still equals u8LastDealtime is removed and the cards
\* behind it move down, the last slot keeping its contents; the loop goes on with
\* the next index, so the card that moved into the free place is not looked at
RemoveSilent(t, i) ==
    IF i <= Len(t.cards) /\ t.cards[i].deal = t.cards[i].last
    THEN [cards |-> RemoveAt(t.cards, i), left |-> [t.left EXCEPT ![Len(t.cards)] = Last(t.cards).deal]]
    ELSE t
Aged(a) ==
    LET t[i \in 0 .. StdMax] ==
            IF i = 0 THEN [cards |-> a, left |-> free] ELSE RemoveSilent(t[i - 1], i)
    IN  t[StdMax]

-----------------------------------------------------------------------------
(* The better-select table --------------------------------------------------- *)

\* The entries of the card c as relations
RelationsOf(c) == [j \in DOMAIN c.list |-> [test |-> c.list[j].test, std |-> c.id, rssi |-> c.list[j].rssi]]

\* A stronger card takes a relation over
Replaced(r, o) == [r EXCEPT !.rssi = o.rssi, !.std = o.std]

\* One more relation; the first gives way when the table is full
Added(r, o) == Append(IF Len(r) < TestMax THEN r ELSE Tail(r), o)

\* The loop over the relations for one entry o of a card.  The test for "not
\* stored yet" stands inside the loop: o is added once for every relation that
\* precedes the one of its test card.
Compare(o, m, k) ==
    LET same == m.rel[k].test = o.test
        seen == m.seen \/ same IN
    CASE m.stop \/ k > Len(m.rel) -> m
      [] ~m.stop /\ k <= Len(m.rel) /\ same /\ o.rssi > m.rel[k].rssi ->
            [m EXCEPT !.rel[k] = Replaced(@, o), !.stop = TRUE]
      [] OTHER ->
            IF seen \/ o.rssi = 0 THEN [m EXCEPT !.seen = seen]
            ELSE [m EXCEPT !.rel = Added(@, o), !.n = (@ + 1) % DealMod]

Merged(m, o) ==
    LET x[k \in 0 .. TestMax] ==
            IF k = 0 THEN [m EXCEPT !.seen = FALSE, !.stop = FALSE] ELSE Compare(o, x[k - 1], k)
    IN  x[TestMax]

\* The loop over the entries of a card
MergedAll(m, r) ==
    LET x[j \in 0 .. Len(r)] == IF j = 0 THEN m ELSE Merged(x[j - 1], r[j])
    IN  x[Len(r)]

\* TdoaInstSaveBetterSelectTableMultiStdCard works on a copy of the table ...
Contest(a) ==
    LET x[i \in 0 .. Len(a)] ==
            IF i = 0
            THEN [rel |-> IF rel = <<>> THEN RelationsOf(a[1]) ELSE rel,
                  n |-> changes, seen |-> FALSE, stop |-> FALSE]
            ELSE MergedAll(x[i - 1], RelationsOf(a[i]))
    IN  x[Len(a)]

\* ... of which sizeof(TDOA_INST_RELATION_TABLE_S) bytes go back: the first
\* relation, but neither the count nor the number of changes
Published(m) == IF rel = <<>> THEN rel ELSE [rel EXCEPT ![1] = m.rel[1]]
PublishedChanges(m) == changes

\* TdoaInstBetterSelectTableByRssi; when a table of several cards was changed
\* StdMax times, TdoaStdCardMsgBuffInit keeps the newest card only
Select(t) ==
    LET m == Contest(t.cards)
        over == Len(t.cards) > 1 /\ PublishedChanges(m) >= StdMax IN
    /\ rel' = CASE t.cards = <<>> -> rel
                [] Len(t.cards) = 1 -> RelationsOf(t.cards[1])
                [] OTHER -> Published(m)
    /\ changes' = CASE Len(t.cards) <= 1 -> changes
                    [] OTHER -> IF over THEN 0 ELSE PublishedChanges(m)
    /\ slot' = IF over THEN <<[Last(t.cards) EXCEPT !.deal = 0]>> ELSE t.cards
    /\ free' = IF over THEN [i \in 1 .. StdMax |-> 0] ELSE t.left

\* TdoaInstBetterSelectStdCardCheck: the first relation of a test card decides
Chosen(t, s) ==
    \E k \in DOMAIN rel :
        /\ rel[k].test = t /\ rel[k].std = s
        /\ \A j \in 1 .. k - 1 : rel[j].test # t

-----------------------------------------------------------------------------
\* A frame of the standard card s with the list l; one without entries is ignored
Receive(s, l) ==
    /\ l # <<>>
    /\ Select(Aged(Received(AtRound(slot), s, l)))
    /\ gdeal' = (gdeal + 1) % DealMod
    /\ streak' = [std |-> s, n |-> IF streak.std # s THEN 1 ELSE
                                   IF streak.n < StreakMax THEN streak.n + 1 ELSE streak.n]
    /\ silent' = [c \in Std |-> IF c = s \/ c \notin {slot'[i].id : i \in DOMAIN slot'} THEN 0
                                ELSE silent[c] + 1]

SelectNext == \E s \in Std : \E l \in Frames[s] : Receive(s, l)

\* Some standard card goes on sending.
SelectSpec == SelectInit /\ [][SelectNext]_selectVars

-----------------------------------------------------------------------------
(* Properties                                                                *)

\* The counts stay in their arrays, and no standard card ever has two slots.
SelectTypeOK ==
    /\ slot \in Seq([id : Std, list : Seq(UNION {Entries(s) : s \in Std}),
                     deal : 0 .. DealMod - 1, last : 0 .. DealMod - 1])
    /\ Len(slot) <= StdMax /\ Len(rel) <= TestMax
    /\ free \in [1 .. StdMax -> 0 .. DealMod - 1]
    /\ gdeal \in 0 .. DealMod - 1 /\ changes \in 0 .. DealMod - 1
    /\ \A i, j \in DOMAIN slot : slot[i].id = slot[j].id => i = j

\* Through overwriting, ageing, contests and partial copies, every relation is one
\* its standard card reported: test card, standard card and strength of different
\* reports are never combined.
RelationsReal ==
    \A k \in DOMAIN rel :
        /\ rel[k].std \in Std
        /\ [test |-> rel[k].test, rssi |-> rel[k].rssi] \in Entries(rel[k].std)

\* "If the count has not changed the card is off line and can be cleared"
\* (instance.h:620): a card that was silent for a whole round is not stored any
\* more, although the ageing loop skips cards and the uint8 counters wrap.
SilentCardLeaves == \A s \in Stored : silent[s] <= StdMax

\* When one card alone is heard for a round and one frame more, it decides for
\* every test card: nothing of the contests before is left.
LoneCardDecides ==
    streak.n > StdMax => \A t \in Test, s \in Std : Chosen(t, s) => s = streak.std

=============================================================================
