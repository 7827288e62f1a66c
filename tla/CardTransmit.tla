---------------------------- MODULE CardTransmit ----------------------------
(* A standard card: it polls, listens to the test cards between its polls,   *)
(* and lists in each poll which it has heard and how strongly                *)
(* (TdoaSendTagPoll, TdoaInstRxTestMsgProc and what they call of instance.c, *)
(* AppEventsProcess of application.c).                                       *)
(*                                                                           *)
(* The interrupt handler may run between any two steps of the main loop.     *)
(* The frame is kept in memory, its strength in the radio's registers until  *)
(* the main loop reads them.  Every frame on the air is a poll, of a test    *)
(* card (slow) or of another standard card (quick).                          *)
EXTENDS Integers, Sequences

CONSTANTS
    Test,      \* the test cards
    Quick,     \* the other standard cards
    Levels,    \* strengths
    TestMax,   \* TDOA_MSG_TESTCARD_MAX_NUM
    DealMod,   \* 2^8: u8Dealtime is a uint8
    SeqMod,    \* 2^16: u16SeqNum is a uint16
    PerPoll    \* bound: receptions between two polls

NoCard == 0

ASSUME CardsAssumption == NoCard \notin Test \cup Quick /\ Test \cap Quick = {}
ASSUME SizesAssumption ==
    /\ TestMax \in Nat \ {0} /\ SeqMod \in Nat \ {0, 1} /\ PerPoll \in Nat
    /\ DealMod \in Nat /\ DealMod > TestMax + PerPoll

VARIABLES
    rx,      \* the sender of the frame in stRxMsgFromDw
    level,   \* the radio's registers: the strength of the last reception
    state,   \* eTdoaInstState
    raging,  \* EVENT_RAGING_REPORT is set
    pc,      \* what the main loop does next
    rssi,    \* i8Rssi
    list,    \* gstTdoaSaveRssiMsg up to u8CardCount: Seq of [test, rssi]
    deal,    \* its u8Dealtime
    seq,     \* u16SeqNum
    tag,     \* the byte of stTxMsgToPack that holds the number of entries
    air,     \* the last poll: its number, its byte tag, how many entries it has
    on,      \* the receiver was enabled
    heard,   \* receptions since the last poll
    saved,   \* ghost: entries written since the list was empty
    alone    \* ghost: a test card that met an idle main loop, while it is the last
             \* received and no poll has followed its handling

vars == <<rx, level, state, raging, pc, rssi, list, deal, seq, tag, air, on, heard, saved, alone>>
radioVars == <<rx, level, heard>>
sendVars == <<tag, air, on>>
storeVars == <<list, deal, saved>>

Cards == Test \cup Quick
Nothing == [test |-> NoCard, rssi |-> 0]
Positions(id) == {j \in DOMAIN list : list[j].test = id}

Init ==
    /\ rx = NoCard /\ level = 0 /\ state = "init" /\ raging = FALSE
    /\ pc = "idle" /\ rssi = 0
    /\ list = <<>> /\ deal = 0 /\ seq = 0 /\ tag = 0
    /\ air = [seq |-> 0, tag |-> 0, entries |-> 0]
    /\ on = FALSE /\ heard = 0
    /\ saved = 0 /\ alone = Nothing

-----------------------------------------------------------------------------
(* Defects a careless edit of the code would introduce (mutants).            *)
AlwaysAppended(id) ==
    IF Len(list) < TestMax THEN Append(list, [test |-> id, rssi |-> rssi])
    ELSE Append(Tail(list), [test |-> id, rssi |-> rssi])
NumberKept(ok) == (seq + 1) % SeqMod
FullWhenMore == deal > TestMax + 1
StateKept == state
-----------------------------------------------------------------------------
(* The interrupt handler ---------------------------------------------------- *)

\* eTdoaInstState after a good frame
GoodState == "wait"

\* A poll of another card
RxGood(id, l) ==
    /\ on /\ heard < PerPoll
    /\ rx' = id /\ level' = l /\ heard' = heard + 1
    /\ state' = GoodState
    /\ raging' = TRUE
    /\ alone' = IF pc = "idle" /\ ~raging /\ id \in Test THEN [test |-> id, rssi |-> l] ELSE Nothing
    /\ UNCHANGED <<pc, rssi, storeVars, seq, sendVars>>

\* A frame with errors: the handler looks at the frame received before and, as
\* a standard card never clears it, sets RAGING again
RxFail(l) ==
    /\ on /\ heard < PerPoll
    /\ level' = l /\ heard' = heard + 1
    /\ raging' = (raging \/ rx # NoCard)
    /\ alone' = Nothing
    /\ UNCHANGED <<rx, state, pc, rssi, storeVars, seq, sendVars>>

-----------------------------------------------------------------------------
(* The main loop ------------------------------------------------------------ *)

\* TdoaInstSaveTestTagRssiProc
Written(id) ==
    CASE Positions(id) # {} ->
            [j \in DOMAIN list |-> IF j \in Positions(id) THEN [list[j] EXCEPT !.rssi = rssi] ELSE list[j]]
      [] OTHER -> Append(IF Len(list) < TestMax THEN list ELSE Tail(list), [test |-> id, rssi |-> rssi])

\* TdoaInstFillTestTagRssiToSendMsgProc: a full list is cleared once it is in
\* the frame; an empty one leaves the frame's byte as it was
Full == deal >= TestMax
TagOf(l) == IF l = <<>> THEN tag ELSE Len(l)
Clear == list # <<>> /\ Full

\* u16SeqNum, taken back when the transmission fails
SeqAfter(ok) == IF ok THEN (seq + 1) % SeqMod ELSE seq

\* NEWSLOT: TdoaSendTagPoll.  It is handled before RAGING of the same pass.
Poll(ok) ==
    /\ pc = "idle"
    /\ tag' = TagOf(list)
    /\ list' = IF Clear THEN <<>> ELSE list
    /\ deal' = IF Clear THEN 0 ELSE deal
    /\ saved' = IF Clear THEN 0 ELSE saved
    /\ seq' = SeqAfter(ok)
    /\ IF ok
       THEN /\ air' = [seq |-> (seq + 1) % SeqMod, tag |-> tag', entries |-> Len(list)]
            /\ state' = "wait"
       ELSE UNCHANGED <<air, state>>
    /\ on' = TRUE /\ heard' = 0
    /\ alone' = IF raging THEN alone ELSE Nothing
    /\ UNCHANGED <<rx, level, raging, pc, rssi>>

\* event_timer_take_all
TakeRaging ==
    /\ pc = "idle" /\ raging
    /\ raging' = FALSE
    /\ pc' = "run"
    /\ UNCHANGED <<radioVars, state, rssi, storeVars, seq, sendVars, alone>>

\* TdoaInstRunState; TdoaInstRxTestMsgProc reads the registers for a slow frame ...
Run ==
    /\ pc = "run"
    /\ IF state = "wait" /\ rx \in Test
       THEN rssi' = level /\ pc' = "save"
       ELSE rssi' = rssi /\ pc' = IF state = "wait" THEN "done" ELSE "unset"
    /\ UNCHANGED <<radioVars, state, raging, storeVars, seq, sendVars, alone>>

\* ... and then the address from the frame
Save ==
    /\ pc = "save"
    /\ list' = Written(rx)
    /\ deal' = (deal + 1) % DealMod
    /\ saved' = saved + 1
    /\ pc' = "done"
    /\ UNCHANGED <<radioVars, state, raging, rssi, seq, sendVars, alone>>

Done ==
    /\ pc = "done"
    /\ state' = "done"
    /\ pc' = "unset"
    /\ UNCHANGED <<radioVars, raging, rssi, storeVars, seq, sendVars, alone>>

\* event_timer_unset(RAGING), whenever it was set
Unset ==
    /\ pc = "unset"
    /\ raging' = FALSE
    /\ pc' = "idle"
    /\ UNCHANGED <<radioVars, state, rssi, storeVars, seq, sendVars, alone>>

Interrupt == \E l \in Levels : RxFail(l) \/ \E id \in Cards : RxGood(id, l)
MainLoop == TakeRaging \/ Run \/ Save \/ Done \/ Unset \/ \E ok \in BOOLEAN : Poll(ok)
Next == Interrupt \/ MainLoop

Spec == Init /\ [][Next]_vars

-----------------------------------------------------------------------------
(* Properties                                                                *)

\* No card is listed twice, whatever the interrupt does to the frame while it is
\* handled.
TypeOK ==
    /\ rx \in Cards \cup {NoCard} /\ level \in Levels \cup {0} /\ rssi \in Levels \cup {0}
    /\ state \in {"init", "wait", "done"} /\ raging \in BOOLEAN /\ on \in BOOLEAN
    /\ pc \in {"idle", "run", "save", "done", "unset"}
    /\ list \in Seq([test : Cards, rssi : Levels]) /\ Len(list) <= TestMax
    /\ \A i, j \in DOMAIN list : list[i].test = list[j].test => i = j
    /\ deal \in 0 .. DealMod - 1 /\ tag \in 0 .. TestMax /\ seq \in 0 .. SeqMod - 1
    /\ air \in [seq : 0 .. SeqMod - 1, tag : 0 .. TestMax, entries : 0 .. TestMax]
    /\ heard \in 0 .. PerPoll

\* "The number is taken back when the transmission fails" (instance.c:735): the
\* numbers on the air are consecutive, which the anchors' pairing depends on.
ConsecutiveOnAir == [][air' # air => air'.seq = (air.seq + 1) % SeqMod]_vars

\* The list starts anew before the uint8 counter of its entries can wrap, so no
\* poll reports a strength older than the last TestMax + PerPoll ones.
FreshList == saved <= TestMax + PerPoll

\* A test card that is heard while the main loop is idle, with nothing received
\* after it, is in the list with its own strength once the main loop is idle again.
AloneIsListed ==
    alone # Nothing /\ pc = "idle" /\ ~raging => \E j \in DOMAIN list : list[j] = alone

=============================================================================
