---------------------------- MODULE AnchorEvents ----------------------------
(* The event pipeline of an anchor: the radio's interrupt handler and the    *)
(* main loop (TDOARxGoodCallback and TdoaInstRunState of instance.c,         *)
(* AppEventsProcess of application.c).                                       *)
(*                                                                           *)
(*   interrupt --stRxMsgFromDw, RAGING--> TdoaInstRunState                   *)
(*             --gstTdoaCardMsg, CHECK--> TdoaRxCardMsgProc                  *)
(*             --gTdoaSendPack, UART_SEND--> TdoaSendCardReportToUart        *)
(*                                                                           *)
(* Every buffer holds one item.  The interrupt handler may run between any   *)
(* two accesses of the main loop to the data they share: the received frame, *)
(* its time stamp, eTdoaInstState, eDwEventType and the event bits; what the *)
(* main loop does without touching them is one action.  A frame is its       *)
(* number in the order of reception.                                         *)
EXTENDS Integers

CONSTANTS
    MaxFrames,   \* bound: the frames the radio receives
    LostMax      \* TDOA_LOST_POLL_PACK_COUNT

ASSUME BoundsAssumption == MaxFrames \in Nat /\ LostMax \in Nat \ {0}

VARIABLES
    rx,      \* stRxMsgFromDw: [id, blink]; memset leaves NoFrame
    stamp,   \* u64RxTimeStamp: the frame it belongs to
    state,   \* eTdoaInstState
    ev,      \* eDwEventType
    bits,    \* bits_events
    taken,   \* u32Events of AppEventsProcess
    pc,      \* what the main loop does next
    card,    \* gstTdoaCardMsg: [id, stamp, blink]
    pack,    \* gTdoaSendPack: the frame that filled it, 0 when it is empty
    lost,    \* i8LostPollPackCount
    on,      \* the receiver is enabled
    heard,   \* ghost: how many frames were received
    last,    \* ghost: the last frame TdoaRxCardMsgProc processed
    alone    \* ghost: a frame that met an idle pipeline and no other frame yet

vars == <<rx, stamp, state, ev, bits, taken, pc, card, pack, lost, on,
          heard, last, alone>>
isrVars == <<rx, stamp, state, ev, heard>>
loopVars == <<taken, pc, card, pack, lost, on, last>>

Events == {"NEWSLOT", "RAGING", "CHECK", "UART_SEND"}
Stages == {"take", "newslot", "read", "address", "stamp", "clear", "done", "unset",
           "check", "uart"}

NoFrame == [id |-> 0, blink |-> FALSE]
NoCard == [id |-> 0, stamp |-> 0, blink |-> FALSE]

\* RAGING is set, or is taken and the main loop has not unset it yet
RagingPending ==
    \/ "RAGING" \in bits
    \/ ("RAGING" \in taken /\ pc \notin {"take", "check", "uart"})
CheckPending == "CHECK" \in bits \/ ("CHECK" \in taken /\ pc \notin {"take", "uart"})
UartPending == "UART_SEND" \in bits \/ ("UART_SEND" \in taken /\ pc # "take")

Unprocessed == card.id > last

-----------------------------------------------------------------------------
Init ==
    /\ rx = NoFrame /\ stamp = 0 /\ state = "INIT" /\ ev = "BUTT"
    /\ bits = {"NEWSLOT"} /\ taken = {} /\ pc = "take"
    /\ card = NoCard /\ pack = 0 /\ lost = 0 /\ on = FALSE
    /\ heard = 0 /\ last = 0 /\ alone = 0

-----------------------------------------------------------------------------
(* Defects a careless edit of the code would introduce (mutants).            *)
StateKept == IF state = "DONE" THEN "DONE" ELSE "WAIT"
FailureRecorded == "TIMEOUT"
CheckStays == bits
UnsetAll == {}
EventWhenFull == bits
-----------------------------------------------------------------------------
(* The interrupt handler --------------------------------------------------- *)

\* eTdoaInstState after a good frame, eDwEventType after a failed one
GoodState == "WAIT"
EventAfterFailure == ev

\* A good frame; a blink sets RAGING
RxGood(blink) ==
    /\ on /\ heard < MaxFrames
    /\ heard' = heard + 1
    /\ rx' = [id |-> heard + 1, blink |-> blink]
    /\ stamp' = heard + 1
    /\ state' = GoodState
    /\ ev' = "OKAY"
    /\ bits' = IF blink THEN bits \cup {"RAGING"} ELSE bits
    /\ alone' = IF blink /\ alone = 0 /\ ~RagingPending /\ ~Unprocessed THEN heard + 1 ELSE 0
    /\ UNCHANGED loopVars

\* A frame with errors, a time-out: the handler looks at the OLD frame
RxFail ==
    /\ on
    /\ ev' = EventAfterFailure
    /\ bits' = IF rx.blink THEN bits \cup {"RAGING"} ELSE bits
    /\ UNCHANGED <<loopVars, rx, stamp, state, heard, alone>>

-----------------------------------------------------------------------------
(* The main loop ------------------------------------------------------------ *)

At(stage) == pc = stage
GoTo(stage) == pc' = stage

\* event_timer_update, which sets UART_SEND periodically, and event_timer_take_all.
\* The first period ends after the first passes, which start the radio.
TakeAll ==
    /\ At("take")
    /\ \E periodic \in {{}, {"UART_SEND"}} :
          /\ on \/ periodic = {}
          /\ taken' = bits \cup periodic
    /\ bits' = {}
    /\ GoTo("newslot")
    /\ UNCHANGED <<isrVars, card, pack, lost, on, last, alone>>

\* NEWSLOT: an anchor stops the radio and unsets and sets RAGING
NewSlot ==
    /\ At("newslot")
    /\ IF "NEWSLOT" \in taken
       THEN on' = FALSE /\ bits' = bits \cup {"RAGING"}
       ELSE UNCHANGED <<on, bits>>
    /\ GoTo(IF "RAGING" \in taken THEN "read" ELSE "check")
    /\ UNCHANGED <<isrVars, taken, card, pack, lost, last, alone>>

\* TdoaInstRunState reads the state, the event and the type of the frame (an
\* interrupt between these reads has the effect of one before or after them) ...
ReadState ==
    /\ At("read")
    /\ GoTo(CASE state = "WAIT" /\ ev = "OKAY" /\ rx.blink -> "address"
              [] OTHER -> "unset")
    /\ on' = (on \/ state # "WAIT" \/ ev # "OKAY")
    /\ lost' = IF state = "WAIT" /\ ev # "OKAY" THEN lost + 1 ELSE lost
    /\ UNCHANGED <<isrVars, bits, taken, card, pack, last, alone>>

\* ... copies the frame's fields to the card's message ...
CopyAddress ==
    /\ At("address")
    /\ card' = [id |-> rx.id, stamp |-> 0, blink |-> rx.blink]
    /\ GoTo("stamp")
    /\ UNCHANGED <<isrVars, bits, taken, pack, lost, on, last, alone>>

\* ... and its time stamp ...
CopyStamp ==
    /\ At("stamp")
    /\ card' = [card EXCEPT !.stamp = stamp]
    /\ GoTo("clear")
    /\ UNCHANGED <<isrVars, bits, taken, pack, lost, on, last, alone>>

\* ... clears the frame, sets CHECK ...
ClearFrame ==
    /\ At("clear")
    /\ rx' = NoFrame
    /\ state' = "WAIT"
    /\ bits' = bits \cup {"CHECK"}
    /\ lost' = 0
    /\ GoTo("done")
    /\ UNCHANGED <<stamp, ev, heard, taken, card, pack, on, last, alone>>

\* ... and writes the state once more.
DataDone ==
    /\ At("done")
    /\ state' = "DONE"
    /\ GoTo("unset")
    /\ UNCHANGED <<rx, stamp, ev, heard, bits, taken, card, pack, lost, on,
                   last, alone>>

\* AppInstanceInit: everything back to the beginning, and NEWSLOT
AppInstanceInit ==
    /\ rx' = NoFrame /\ stamp' = 0 /\ state' = "INIT" /\ ev' = "BUTT"
    /\ card' = NoCard /\ pack' = 0 /\ lost' = 0
    /\ bits' = (bits \ {"RAGING"}) \cup {"NEWSLOT"}
    /\ last' = 0 /\ alone' = 0

\* event_timer_unset(RAGING); five lost polls restart the instance
UnsetRaging ==
    /\ At("unset")
    /\ IF lost = LostMax
       THEN AppInstanceInit
       ELSE /\ bits' = bits \ {"RAGING"}
            /\ UNCHANGED <<rx, stamp, state, ev, card, pack, lost, last, alone>>
    /\ GoTo("check")
    /\ UNCHANGED <<heard, taken, on>>

\* event_timer_unset(CHECK), and RAGING again after a wrong speed type
CheckUnset == bits \ {"CHECK"}

\* TdoaMsgPackInsetUartBuff: the pack is overwritten, UART_SEND is set
FillEvent == bits \cup {"UART_SEND"}

\* TdoaRxCardMsgProc: a poll may close an interval and fill the pack; a
\* message that is not a blink's may have a wrong speed type
CheckCard ==
    /\ At("check") /\ "CHECK" \in taken
    /\ last' = card.id
    /\ alone' = IF card.id = alone /\ card.stamp = alone THEN 0 ELSE alone
    /\ \/ /\ bits' = CheckUnset
          /\ UNCHANGED pack
       \/ /\ pack' = card.id
          /\ bits' = FillEvent \ {"CHECK"}
       \/ /\ ~card.blink
          /\ bits' = CheckUnset \cup {"RAGING"}
          /\ UNCHANGED pack
    /\ GoTo("uart")
    /\ UNCHANGED <<isrVars, taken, card, lost, on>>

CheckNothing ==
    /\ At("check") /\ "CHECK" \notin taken
    /\ GoTo("uart")
    /\ UNCHANGED <<isrVars, bits, taken, card, pack, lost, on, last, alone>>

\* event_timer_unset(UART_SEND)
UartUnset == bits \ {"UART_SEND"}

\* TdoaSendCardReportToUart empties the pack; the state is WAIT again
UartSend ==
    /\ At("uart")
    /\ IF "UART_SEND" \in taken
       THEN pack' = 0 /\ state' = "WAIT" /\ bits' = UartUnset
       ELSE UNCHANGED <<pack, state, bits>>
    /\ GoTo("take")
    /\ UNCHANGED <<rx, stamp, ev, heard, taken, card, lost, on, last, alone>>

RunState == ReadState \/ CopyAddress \/ CopyStamp \/ ClearFrame \/ DataDone
MainLoop ==
    TakeAll \/ NewSlot \/ RunState \/ UnsetRaging \/ CheckCard \/ CheckNothing \/ UartSend

Next ==
    \/ \E blink \in BOOLEAN : RxGood(blink)
    \/ RxFail
    \/ MainLoop

\* The main loop never waits, and interrupts do not starve it.
Spec == Init /\ [][Next]_vars /\ WF_vars(MainLoop)

-----------------------------------------------------------------------------
(* Properties                                                                *)

\* Every variable keeps its type.  eDwEventType is never anything but OKAY once
\* a frame came: failed receptions leave no trace in it.
TypeOK ==
    /\ rx \in [id : 0 .. heard, blink : BOOLEAN]
    /\ stamp \in 0 .. heard
    /\ state \in {"INIT", "WAIT", "DONE"} /\ ev \in {"BUTT", "OKAY"}
    /\ bits \subseteq Events /\ taken \subseteq Events /\ pc \in Stages
    /\ card \in [id : 0 .. heard, stamp : 0 .. heard, blink : BOOLEAN]
    /\ pack \in 0 .. heard /\ lost \in 0 .. LostMax /\ on \in BOOLEAN
    /\ heard \in 0 .. MaxFrames /\ last \in 0 .. heard /\ alone \in 0 .. heard

\* A card's message that was not processed yet always has its CHECK on the way,
\* although the handling of CHECK unsets an event that TdoaInstRunState may have
\* set in the same pass.
CheckNeverForgotten == Unprocessed /\ pc \notin {"stamp", "clear"} => CheckPending

\* A pack that was not sent yet always has its UART_SEND on the way: it never
\* waits for the periodic event.
PackNeverForgotten == pack # 0 => UartPending

\* No message is processed twice, and none after a later one: what CHECK finds
\* in the mailbox is newer than all that was processed before.
NoReplay == pc = "check" /\ "CHECK" \in taken => card.id > last

\* A poll that meets an idle pipeline is processed, with its own time stamp,
\* unless another frame comes before that.
DeliversAlone == \A f \in 1 .. MaxFrames : alone = f ~> alone # f

=============================================================================
