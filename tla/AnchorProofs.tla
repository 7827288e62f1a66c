----------------------------- MODULE AnchorProofs -----------------------------
(* Proofs about three parts of an anchor: its event pipeline, for any number  *)
(* of frames (PipeInv), its report to the station, for every size of groups,  *)
(* entries and packs (ReportInv), and its choice among standard cards, for    *)
(* every number of cards and frames (SelectInv, AgesInv).                     *)
EXTENDS AnchorEvents, UartReport, BetterSelect, SequenceTheorems, WellFoundedInduction, TLAPS

-----------------------------------------------------------------------------
(* The event pipeline (AnchorEvents).                                        *)

-----------------------------------------------------------------------------
(* The inductive invariant.                                                  *)

\* Until the radio is on nothing happens but NEWSLOT and RAGING; until the
\* first good frame RAGING is set once, for switching the radio on.
Boot ==
    /\ ~on => /\ ev = "BUTT" /\ state = "INIT"
              /\ bits \in {{}, {"NEWSLOT"}, {"RAGING"}}
              /\ taken \in {{}, {"NEWSLOT"}, {"RAGING"}}
              /\ pc \in {"newslot", "read"} => bits = {}
              /\ pc \notin {"address", "stamp", "clear", "done", "unset"}
    /\ "NEWSLOT" \in bits => ~on
    /\ "NEWSLOT" \in taken /\ pc = "newslot" => ~on
    /\ ev = "BUTT" => /\ ~rx.blink /\ card.id = 0 /\ (on => "RAGING" \notin bits)
                      /\ pc \notin {"address", "stamp", "clear", "done"}
                      /\ on /\ "RAGING" \in taken /\ pc \notin {"take", "check", "uart"}
                            => pc = "unset"

\* The stages of TdoaInstRunState are reached with RAGING only.
InRunState ==
    pc \in {"read", "address", "stamp", "clear", "done", "unset"} => "RAGING" \in taken

\* The frame, the card's message and the last message processed, in the order
\* of their reception.
Order ==
    /\ last <= card.id
    /\ rx.blink => rx.id # 0
    /\ pc = "address" => rx.id # 0
    /\ pc \in {"stamp", "clear"} => last < card.id /\ (rx.id # 0 => card.id <= rx.id)
    /\ pc \notin {"stamp", "clear"} /\ rx.id # 0 => card.id < rx.id

\* CHECK says that there is something to process, in both directions.
Mail ==
    /\ CheckPending => Unprocessed
    /\ CheckNeverForgotten

PipeInv ==
    /\ TypeOK
    /\ lost = 0
    /\ Boot
    /\ InRunState
    /\ Order
    /\ Mail
    /\ PackNeverForgotten

-----------------------------------------------------------------------------
LEMMA InitInv == Init => PipeInv
  <1> SUFFICES ASSUME Init
               PROVE  PipeInv
    OBVIOUS
  <1>1. TypeOK
    <2>1. rx \in [id : 0 .. heard, blink : BOOLEAN] /\ heard \in 0 .. MaxFrames
      BY BoundsAssumption DEF Init, NoFrame
    <2>2. card \in [id : 0 .. heard, stamp : 0 .. heard, blink : BOOLEAN]
      BY DEF Init, NoCard
    <2>3. bits \subseteq Events /\ taken \subseteq Events /\ pc \in Stages
      BY DEF Init, Events, Stages
    <2>4. /\ stamp \in 0 .. heard /\ pack \in 0 .. heard /\ lost \in 0 .. LostMax
          /\ last \in 0 .. heard /\ alone \in 0 .. heard
      BY BoundsAssumption DEF Init
    <2>5. state \in {"INIT", "WAIT", "DONE"} /\ ev \in {"BUTT", "OKAY"} /\ on \in BOOLEAN
      BY DEF Init
    <2> QED
      BY <2>1, <2>2, <2>3, <2>4, <2>5 DEF TypeOK
  <1>2. Boot /\ InRunState
    BY DEF Init, Boot, InRunState, NoFrame, NoCard
  <1>3. Order /\ Mail /\ PackNeverForgotten
    BY DEF Init, Order, Mail, CheckPending, Unprocessed, CheckNeverForgotten,
           PackNeverForgotten, NoFrame, NoCard
  <1> QED
    BY <1>1, <1>2, <1>3 DEF Init, PipeInv

LEMMA RxGoodStep ==
    ASSUME PipeInv, NEW blink \in BOOLEAN, RxGood(blink)
    PROVE  PipeInv'
  <1> USE DEF RxGood, loopVars
  <1>1. TypeOK'
    <2>1. heard' \in 0 .. MaxFrames /\ heard' = heard + 1 /\ heard \in Nat
      BY BoundsAssumption DEF PipeInv, TypeOK
    <2>2. rx' \in [id : 0 .. heard', blink : BOOLEAN] /\ stamp' \in 0 .. heard'
      BY <2>1
    <2>3. bits' \subseteq Events /\ alone' \in 0 .. heard'
      BY <2>1 DEF PipeInv, TypeOK, Events
    <2>4. card' \in [id : 0 .. heard', stamp : 0 .. heard', blink : BOOLEAN]
      BY <2>1 DEF PipeInv, TypeOK
    <2> QED
      BY <2>1, <2>2, <2>3, <2>4, BoundsAssumption DEF PipeInv, TypeOK, GoodState
  <1>2. Boot' /\ InRunState'
    BY DEF PipeInv, Boot, InRunState
  <1>3. Order'
    BY DEF PipeInv, TypeOK, Order
  <1>4. Mail' /\ PackNeverForgotten'
    BY DEF PipeInv, Mail, CheckPending, Unprocessed, CheckNeverForgotten,
           PackNeverForgotten, UartPending
  <1> QED
    BY <1>1, <1>2, <1>3, <1>4 DEF PipeInv

LEMMA RxFailStep ==
    ASSUME PipeInv, RxFail
    PROVE  PipeInv'
  <1> USE DEF RxFail, loopVars, EventAfterFailure
  <1>1. TypeOK'
    BY BoundsAssumption DEF PipeInv, TypeOK, Events
  <1>2. Boot' /\ InRunState'
    BY DEF PipeInv, Boot, InRunState
  <1>3. Order'
    BY DEF PipeInv, Order
  <1>4. Mail' /\ PackNeverForgotten'
    BY DEF PipeInv, Mail, CheckPending, Unprocessed, CheckNeverForgotten,
           PackNeverForgotten, UartPending
  <1> QED
    BY <1>1, <1>2, <1>3, <1>4 DEF PipeInv

LEMMA TakeAllStep ==
    ASSUME PipeInv, TakeAll
    PROVE  PipeInv'
  <1> USE DEF TakeAll, isrVars, At, GoTo
  <1>1. TypeOK'
    BY DEF PipeInv, TypeOK, Events, Stages
  <1>2. Boot' /\ InRunState'
    BY DEF PipeInv, Boot, InRunState
  <1>3. Order'
    BY DEF PipeInv, Order
  <1>4. Mail' /\ PackNeverForgotten'
    BY DEF PipeInv, Mail, CheckPending, Unprocessed, CheckNeverForgotten,
           PackNeverForgotten, UartPending
  <1> QED
    BY <1>1, <1>2, <1>3, <1>4 DEF PipeInv

LEMMA NewSlotStep ==
    ASSUME PipeInv, NewSlot
    PROVE  PipeInv'
  <1> USE DEF NewSlot, isrVars, At, GoTo
  <1>1. TypeOK'
    BY DEF PipeInv, TypeOK, Events, Stages
  <1>2. Boot' /\ InRunState'
    BY DEF PipeInv, Boot, InRunState
  <1>3. Order'
    BY DEF PipeInv, Order
  <1>4. Mail' /\ PackNeverForgotten'
    BY DEF PipeInv, Mail, CheckPending, Unprocessed, CheckNeverForgotten,
           PackNeverForgotten, UartPending
  <1> QED
    BY <1>1, <1>2, <1>3, <1>4 DEF PipeInv

LEMMA ReadStateStep ==
    ASSUME PipeInv, ReadState
    PROVE  PipeInv'
  <1> USE DEF ReadState, isrVars, At, GoTo
  <1>0. ~(state = "WAIT" /\ ev # "OKAY")
    BY DEF PipeInv, Boot, TypeOK, InRunState
  <1>1. TypeOK'
    BY <1>0 DEF PipeInv, TypeOK, Stages
  <1>2. Boot' /\ InRunState'
    BY <1>0 DEF PipeInv, Boot, InRunState, TypeOK
  <1>3. Order'
    BY DEF PipeInv, Order
  <1>4. Mail' /\ PackNeverForgotten'
    BY DEF PipeInv, Mail, CheckPending, Unprocessed, CheckNeverForgotten,
           PackNeverForgotten, UartPending
  <1> QED
    BY <1>0, <1>1, <1>2, <1>3, <1>4 DEF PipeInv

LEMMA CopyAddressStep ==
    ASSUME PipeInv, CopyAddress
    PROVE  PipeInv'
  <1> USE DEF CopyAddress, isrVars, At, GoTo
  <1>1. TypeOK'
    BY DEF PipeInv, TypeOK, Stages
  <1>2. Boot' /\ InRunState'
    BY DEF PipeInv, Boot, InRunState
  <1>3. Order'
    BY DEF PipeInv, Order, TypeOK
  <1>4. Mail' /\ PackNeverForgotten'
    BY <1>3 DEF PipeInv, Order, TypeOK, Mail, CheckPending, Unprocessed, CheckNeverForgotten,
           PackNeverForgotten, UartPending
  <1> QED
    BY <1>1, <1>2, <1>3, <1>4 DEF PipeInv

LEMMA CopyStampStep ==
    ASSUME PipeInv, CopyStamp
    PROVE  PipeInv'
  <1> USE DEF CopyStamp, isrVars, At, GoTo
  <1>1. TypeOK'
    BY DEF PipeInv, TypeOK, Stages
  <1>2. Boot' /\ InRunState'
    BY DEF PipeInv, Boot, InRunState
  <1>3. Order'
    BY DEF PipeInv, Order, TypeOK
  <1>4. Mail' /\ PackNeverForgotten'
    BY DEF PipeInv, TypeOK, Mail, CheckPending, Unprocessed, CheckNeverForgotten,
           PackNeverForgotten, UartPending
  <1> QED
    BY <1>1, <1>2, <1>3, <1>4 DEF PipeInv

LEMMA ClearFrameStep ==
    ASSUME PipeInv, ClearFrame
    PROVE  PipeInv'
  <1> USE DEF ClearFrame, At, GoTo, NoFrame
  <1>1. TypeOK'
    BY BoundsAssumption DEF PipeInv, TypeOK, Stages, Events
  <1>2. Boot' /\ InRunState'
    BY DEF PipeInv, Boot, InRunState, TypeOK
  <1>3. Order'
    BY DEF PipeInv, Order, TypeOK
  <1>4. Mail' /\ PackNeverForgotten'
    BY DEF PipeInv, Order, Mail, CheckPending, Unprocessed, CheckNeverForgotten,
           PackNeverForgotten, UartPending
  <1> QED
    BY <1>1, <1>2, <1>3, <1>4 DEF PipeInv

LEMMA DataDoneStep ==
    ASSUME PipeInv, DataDone
    PROVE  PipeInv'
  <1> USE DEF DataDone, At, GoTo
  <1>1. TypeOK'
    BY DEF PipeInv, TypeOK, Stages
  <1>2. Boot' /\ InRunState'
    BY DEF PipeInv, Boot, InRunState, TypeOK
  <1>3. Order'
    BY DEF PipeInv, Order
  <1>4. Mail' /\ PackNeverForgotten'
    BY DEF PipeInv, Mail, CheckPending, Unprocessed, CheckNeverForgotten,
           PackNeverForgotten, UartPending
  <1> QED
    BY <1>1, <1>2, <1>3, <1>4 DEF PipeInv

LEMMA UnsetRagingStep ==
    ASSUME PipeInv, UnsetRaging
    PROVE  PipeInv'
  <1> USE DEF UnsetRaging, At, GoTo
  <1>0. /\ bits' = bits \ {"RAGING"}
        /\ UNCHANGED <<rx, stamp, state, ev, card, pack, lost, last, alone>>
    BY BoundsAssumption DEF PipeInv
  <1>1. TypeOK'
    BY <1>0 DEF PipeInv, TypeOK, Stages
  <1>2. Boot' /\ InRunState'
    BY <1>0 DEF PipeInv, Boot, InRunState
  <1>3. Order'
    BY <1>0 DEF PipeInv, Order
  <1>4. Mail' /\ PackNeverForgotten'
    BY <1>0 DEF PipeInv, Mail, CheckPending, Unprocessed, CheckNeverForgotten,
           PackNeverForgotten, UartPending
  <1> QED
    BY <1>0, <1>1, <1>2, <1>3, <1>4 DEF PipeInv

\* Processing the mailbox unsets CHECK, which may have been set again: what it
\* was set for is what is processed.
LEMMA CheckCardStep ==
    ASSUME PipeInv, CheckCard
    PROVE  PipeInv'
  <1> USE DEF CheckCard, isrVars, At, GoTo, CheckUnset, FillEvent
  <1>0. bits' \subseteq bits \cup {"UART_SEND", "RAGING"}
        /\ ("RAGING" \in bits' /\ "RAGING" \notin bits => ~card.blink)
    OBVIOUS
  <1>1. TypeOK'
    <2>1. bits' \subseteq Events
      BY <1>0 DEF PipeInv, TypeOK, Events
    <2>2. pack' \in 0 .. heard /\ last' \in 0 .. heard /\ alone' \in 0 .. heard
      BY DEF PipeInv, TypeOK
    <2>3. pc' \in Stages
      BY DEF Stages
    <2> QED
      BY <2>1, <2>2, <2>3 DEF PipeInv, TypeOK
  <1>2. Boot' /\ InRunState'
    <2>1. on /\ ev = "OKAY"
      BY DEF PipeInv, Boot, TypeOK, Order, Mail, CheckPending, Unprocessed
    <2> QED
      BY <1>0, <2>1 DEF PipeInv, Boot, InRunState
  <1>3. Order'
    BY DEF PipeInv, Order, TypeOK
  <1>4. Mail'
    BY DEF PipeInv, TypeOK, Mail, CheckPending, Unprocessed, CheckNeverForgotten
  <1>5. PackNeverForgotten'
    BY DEF PipeInv, PackNeverForgotten, UartPending
  <1> QED
    BY <1>1, <1>2, <1>3, <1>4, <1>5 DEF PipeInv

LEMMA CheckNothingStep ==
    ASSUME PipeInv, CheckNothing
    PROVE  PipeInv'
  <1> USE DEF CheckNothing, isrVars, At, GoTo
  <1>1. TypeOK'
    BY DEF PipeInv, TypeOK, Stages
  <1>2. Boot' /\ InRunState'
    BY DEF PipeInv, Boot, InRunState
  <1>3. Order'
    BY DEF PipeInv, Order
  <1>4. Mail' /\ PackNeverForgotten'
    BY DEF PipeInv, Mail, CheckPending, Unprocessed, CheckNeverForgotten,
           PackNeverForgotten, UartPending
  <1> QED
    BY <1>1, <1>2, <1>3, <1>4 DEF PipeInv

LEMMA UartSendStep ==
    ASSUME PipeInv, UartSend
    PROVE  PipeInv'
  <1> USE DEF UartSend, At, GoTo, UartUnset
  <1>1. TypeOK'
    BY DEF PipeInv, TypeOK, Stages
  <1>2. Boot' /\ InRunState'
    BY DEF PipeInv, Boot, InRunState
  <1>3. Order'
    BY DEF PipeInv, Order
  <1>4. Mail' /\ PackNeverForgotten'
    BY DEF PipeInv, Mail, CheckPending, Unprocessed, CheckNeverForgotten,
           PackNeverForgotten, UartPending
  <1> QED
    BY <1>1, <1>2, <1>3, <1>4 DEF PipeInv

LEMMA StepInv == PipeInv /\ [Next]_vars => PipeInv'
  <1> SUFFICES ASSUME PipeInv, [Next]_vars
               PROVE  PipeInv'
    OBVIOUS
  <1>1. ASSUME NEW blink \in BOOLEAN, RxGood(blink)
        PROVE  PipeInv'
    BY <1>1, RxGoodStep
  <1>2. ASSUME RxFail
        PROVE  PipeInv'
    BY <1>2, RxFailStep
  <1>3. ASSUME RunState
        PROVE  PipeInv'
    BY <1>3, ReadStateStep, CopyAddressStep, CopyStampStep, ClearFrameStep, DataDoneStep
       DEF RunState
  <1>4. ASSUME MainLoop
        PROVE  PipeInv'
    BY <1>3, <1>4, TakeAllStep, NewSlotStep, UnsetRagingStep, CheckCardStep, CheckNothingStep,
       UartSendStep DEF MainLoop
  <1>5. ASSUME UNCHANGED vars
        PROVE  PipeInv'
    BY <1>5 DEF vars, PipeInv, TypeOK, Boot, InRunState, Order, Mail, CheckPending, Unprocessed,
                CheckNeverForgotten, PackNeverForgotten, UartPending
  <1> QED
    BY <1>1, <1>2, <1>4, <1>5 DEF Next

\* The inductive invariant holds of every behaviour.
THEOREM PipelineInvariant == Spec => []PipeInv
  BY InitInv, StepInv, PTL DEF Spec

-----------------------------------------------------------------------------
(* What it gives.                                                            *)

\* Types, and that no failed reception is ever noted in eDwEventType.
THEOREM PipelineTypes == Spec => []TypeOK
  <1>1. PipeInv => TypeOK
    BY DEF PipeInv
  <1> QED
    BY <1>1, PipelineInvariant, PTL

\* A message in the mailbox always has its CHECK, and the handler of CHECK,
\* which unsets an event set in the same pass, never forgets one.
THEOREM CheckKept == Spec => []CheckNeverForgotten
  <1>1. PipeInv => CheckNeverForgotten
    BY DEF PipeInv, Mail
  <1> QED
    BY <1>1, PipelineInvariant, PTL

\* A filled pack always has its UART_SEND.
THEOREM PackKept == Spec => []PackNeverForgotten
  <1>1. PipeInv => PackNeverForgotten
    BY DEF PipeInv
  <1> QED
    BY <1>1, PipelineInvariant, PTL

\* No card message is processed twice or after a later one.
THEOREM NothingReplayed == Spec => []NoReplay
  <1>1. PipeInv => NoReplay
    BY DEF PipeInv, Mail, CheckPending, Unprocessed, NoReplay
  <1> QED
    BY <1>1, PipelineInvariant, PTL

\* The counter of lost polls never moves: the reset of application.c:133 is
\* never reached.
THEOREM NeverCounted == Spec => [](lost = 0)
  <1>1. PipeInv => lost = 0
    BY DEF PipeInv
  <1> QED
    BY <1>1, PipelineInvariant, PTL

-----------------------------------------------------------------------------
(* The report to the station (UartReport).                                   *)

-----------------------------------------------------------------------------
(* The inductive invariant.                                                  *)

\* How the entries on the wire, in the frame and still to be sent add up; whole
\* groups are on the wire before the last frame.
Progress ==
    /\ phase = "idle" => rem = 0 /\ Len(sent) = count
    /\ phase = "next" => rem > 0 /\ Len(sent) = group * GroupSize /\ count = Len(sent) + rem
    /\ phase = "write" /\ rem > 0 =>
          /\ group > 0 /\ size = GroupSize
          /\ Len(sent) = (group - 1) * GroupSize /\ count = Len(sent) + size + rem
    /\ phase = "write" /\ rem = 0 =>
          size > 0 /\ Len(sent) = group * GroupSize /\ count = Len(sent) + size

\* The first group fills the whole buffer: what a later one leaves alone is from
\* the pack, though from a wrong place.
BufferOK ==
    /\ phase # "idle" /\ group > 0 => \A j \in Positions : buf[j] \in 1 .. count
    /\ phase = "write" => \A j \in 1 .. size : buf[j] \in 1 .. count
    /\ phase = "write" /\ Len(sent) = 0 => \A j \in 1 .. size : buf[j] = j

SentOK == \A k \in 1 .. Len(sent) : sent[k] \in 1 .. count /\ (k <= GroupSize => sent[k] = k)

ReportInv == ReportTypeOK /\ Progress /\ BufferOK /\ SentOK

-----------------------------------------------------------------------------
(* Arithmetic.                                                               *)

LEMMA Groups ==
    ASSUME NEW g \in Nat
    PROVE  /\ g * GroupSize \in Nat /\ g * GroupSize >= g
           /\ g = 0 => g * GroupSize = 0
           /\ g > 0 => g * GroupSize >= GroupSize /\ (g - 1) * GroupSize = g * GroupSize - GroupSize
           /\ (g + 1) * GroupSize = g * GroupSize + GroupSize
<1>1. GroupSize \in Nat \ {0}
  BY SizesAssumption
<1> QED
  BY <1>1

\* The index of a byte stays below its modulus in every frame.
LEMMA Lengths ==
    ASSUME NEW n \in 0 .. GroupSize
    PROVE  Length(n) \in Nat /\ Length(n) > 0 /\ Length(n) < IndexMod
<1>1. n * EntryLen \in Nat /\ n * EntryLen <= GroupSize * EntryLen
  BY SizesAssumption
<1> QED
  BY <1>1, SizesAssumption DEF Length

-----------------------------------------------------------------------------
(* The buffer of a frame.                                                    *)

LEMMA GroupBuffers ==
    ASSUME ReportInv, phase = "next", rem > GroupSize
    PROVE  /\ GroupBuffer(group, rem) \in [Positions -> Garbage .. MaxEntries]
           /\ \A j \in Positions : GroupBuffer(group, rem)[j] \in 1 .. count
           /\ group = 0 => \A j \in Positions : GroupBuffer(group, rem)[j] = j
<1>1. /\ GroupSize \in Nat /\ MaxEntries \in Nat /\ group \in Nat /\ rem \in Nat /\ count \in 0 .. MaxEntries
      /\ rem <= count
  BY SizesAssumption DEF ReportInv, ReportTypeOK
<1>2. group * GroupSize \in Nat /\ (group + 1) * GroupSize = group * GroupSize + GroupSize
      /\ (group = 0 => group * GroupSize = 0)
  BY <1>1, Groups
<1>3. ASSUME NEW j \in Positions
      PROVE  /\ GroupBuffer(group, rem)[j] =
                  IF group * GroupSize + j <= GroupEnd(group, rem) THEN group * GroupSize + j ELSE buf[j]
             /\ GroupEnd(group, rem) <= rem
             /\ group = 0 => group * GroupSize + j <= GroupEnd(group, rem)
  BY <1>1, <1>2 DEF GroupBuffer, GroupEnd, MaxSend, Positions
<1>4. ASSUME NEW j \in Positions
      PROVE  GroupBuffer(group, rem)[j] \in 1 .. count
  <2>1. CASE group * GroupSize + j <= GroupEnd(group, rem)
    <3>1. GroupEnd(group, rem) \in Int
      BY <1>1, <1>2 DEF GroupEnd, MaxSend
    <3> QED
      BY <2>1, <3>1, <1>1, <1>2, <1>3 DEF Positions
  <2>2. CASE ~(group * GroupSize + j <= GroupEnd(group, rem))
    <3>1. group > 0
      BY <2>2, <1>1, <1>3
    <3> QED
      BY <2>2, <3>1, <1>3 DEF ReportInv, BufferOK
  <2> QED
    BY <2>1, <2>2
<1>5. GroupBuffer(group, rem) \in [Positions -> Garbage .. MaxEntries]
  <2>1. \A j \in Positions : GroupBuffer(group, rem)[j] \in Garbage .. MaxEntries
    BY <1>1, <1>4 DEF Garbage
  <2> QED
    BY <2>1 DEF GroupBuffer
<1>6. ASSUME group = 0, NEW j \in Positions
      PROVE  GroupBuffer(group, rem)[j] = j
  BY <1>1, <1>2, <1>3, <1>6 DEF Positions
<1> QED
  BY <1>4, <1>5, <1>6

\* After a group nothing is taken from the pack for the last frame; without one
\* everything is.
LEMMA RestBuffers ==
    ASSUME ReportInv, phase = "next", rem \in 1 .. GroupSize
    PROVE  /\ RestBuffer(group, rem) \in [Positions -> Garbage .. MaxEntries]
           /\ group > 0 => \A j \in Positions : RestBuffer(group, rem)[j] \in 1 .. count
           /\ \A j \in 1 .. rem : RestBuffer(group, rem)[j] \in 1 .. count
           /\ group = 0 => \A j \in 1 .. rem : RestBuffer(group, rem)[j] = j
<1>1. /\ GroupSize \in Nat /\ MaxEntries \in Nat /\ group \in Nat /\ rem \in Nat /\ count \in 0 .. MaxEntries
      /\ rem <= count
  BY SizesAssumption DEF ReportInv, ReportTypeOK
<1>2. group * GroupSize \in Nat /\ (group = 0 => group * GroupSize = 0)
      /\ (group > 0 => group * GroupSize >= GroupSize)
  BY <1>1, Groups
<1>3. ASSUME NEW j \in Positions
      PROVE  /\ group > 0 => RestBuffer(group, rem)[j] = buf[j]
             /\ group = 0 => RestBuffer(group, rem)[j] = IF j <= rem THEN j ELSE buf[j]
  BY <1>1, <1>2 DEF RestBuffer, RestIndex, MaxSend, Positions
<1>4. buf \in [Positions -> Garbage .. MaxEntries]
  BY DEF ReportInv, ReportTypeOK
<1>5. group > 0 => \A j \in Positions : buf[j] \in 1 .. count
  BY DEF ReportInv, BufferOK
<1>6. \A j \in Positions : RestBuffer(group, rem)[j] \in Garbage .. MaxEntries
  BY <1>1, <1>3, <1>4 DEF Garbage, Positions
<1>7. RestBuffer(group, rem) \in [Positions -> Garbage .. MaxEntries]
  BY <1>6 DEF RestBuffer
<1>8. \A j \in 1 .. rem : j \in Positions /\ j \in 1 .. count
  BY <1>1 DEF Positions
<1> QED
  BY <1>1, <1>3, <1>5, <1>7, <1>8

-----------------------------------------------------------------------------
(* The steps.                                                                *)

LEMMA InitReport == ReportInit => ReportInv
<1> SUFFICES ASSUME ReportInit PROVE ReportInv
  OBVIOUS
<1>1. Length(0) \in Nat
  BY Lengths, SizesAssumption
<1>2. sent \in Seq(Garbage .. MaxEntries) /\ Len(sent) = 0
  BY DEF ReportInit
<1>3. buf \in [Positions -> Garbage .. MaxEntries]
  BY SizesAssumption DEF ReportInit, Garbage
<1>4. ReportTypeOK
  BY <1>1, <1>2, <1>3, SizesAssumption DEF ReportInit, ReportTypeOK
<1> QED
  BY <1>2, <1>4 DEF ReportInit, ReportInv, Progress, BufferOK, SentOK

LEMMA StartReport ==
    ASSUME ReportInv, NEW n \in 1 .. MaxEntries, Start(n)
    PROVE  ReportInv'
<1>1. sent' \in Seq(Garbage .. MaxEntries) /\ Len(sent') = 0
  BY DEF Start
<1>2. buf' \in [Positions -> Garbage .. MaxEntries]
  BY SizesAssumption DEF Start, Garbage
<1>3. ReportTypeOK'
  BY <1>1, <1>2, SizesAssumption DEF ReportInv, ReportTypeOK, Start, Length
<1>4. Progress'
  BY <1>1, Groups, SizesAssumption DEF Progress, Start
<1> QED
  BY <1>1, <1>3, <1>4 DEF ReportInv, BufferOK, SentOK, Start

LEMMA GroupReport == ASSUME ReportInv, SendGroup PROVE ReportInv'
<1>1. /\ phase = "next" /\ rem > GroupSize /\ rem \in Nat /\ group \in Nat /\ count \in 0 .. MaxEntries
      /\ rem <= count /\ GroupSize \in Nat \ {0} /\ MaxEntries \in Nat
  BY SizesAssumption DEF ReportInv, ReportTypeOK, SendGroup, MaxSend
<1>2. Len(sent) = group * GroupSize /\ count = Len(sent) + rem /\ Len(sent) \in Nat
  BY <1>1, Groups DEF ReportInv, Progress
<1>3. rem' = rem - GroupSize /\ group' = group + 1 /\ size' = GroupSize
  BY DEF SendGroup, LeftAfterGroup, MaxSend
<1>4. ReportTypeOK'
  <2>1. 0 \in 0 .. Length(GroupSize)
    BY Lengths, <1>1
  <2>2. group + 1 <= MaxEntries
    BY <1>1, <1>2, Groups
  <2> QED
    BY <1>1, <1>3, <2>1, <2>2, GroupBuffers DEF ReportInv, ReportTypeOK, SendGroup, Length
<1>5. Progress'
  <2>1. (group' - 1) * GroupSize = group * GroupSize
    BY <1>1, <1>3
  <2> QED
    BY <1>1, <1>2, <1>3, <2>1 DEF Progress, SendGroup
<1>6. BufferOK'
  <2>1. Len(sent) = 0 => group = 0
    BY <1>1, <1>2, Groups
  <2>2. \A j \in 1 .. GroupSize : j \in Positions
    BY DEF Positions
  <2> QED
    BY <1>1, <1>3, <2>1, <2>2, GroupBuffers DEF BufferOK, SendGroup, Positions
<1>7. SentOK'
  BY DEF ReportInv, SentOK, SendGroup
<1> QED
  BY <1>4, <1>5, <1>6, <1>7 DEF ReportInv

LEMMA RestReport == ASSUME ReportInv, SendRest PROVE ReportInv'
<1>1. /\ phase = "next" /\ rem \in 1 .. GroupSize /\ group \in Nat /\ count \in 0 .. MaxEntries
      /\ GroupSize \in Nat \ {0} /\ MaxEntries \in Nat
  BY SizesAssumption DEF ReportInv, ReportTypeOK, SendRest, MaxSend
<1>2. Len(sent) = group * GroupSize /\ count = Len(sent) + rem /\ Len(sent) \in Nat
  BY <1>1, Groups DEF ReportInv, Progress
<1>3. rem' = 0 /\ size' = rem /\ group' = group /\ count' = count /\ sent' = sent /\ phase' = "write"
      /\ buf' = RestBuffer(group, rem)
  BY DEF SendRest
<1>4. ReportTypeOK'
  <2>1. 0 \in 0 .. Length(rem)
    BY Lengths, <1>1
  <2> QED
    BY <1>1, <1>3, <2>1, RestBuffers DEF ReportInv, ReportTypeOK, SendRest, Length
<1>5. Progress'
  BY <1>1, <1>2, <1>3 DEF Progress
<1>6. BufferOK'
  <2>1. Len(sent) = 0 => group = 0
    BY <1>1, <1>2, Groups
  <2> QED
    BY <1>1, <1>3, <2>1, RestBuffers DEF BufferOK
<1>7. SentOK'
  BY <1>3 DEF ReportInv, SentOK
<1> QED
  BY <1>4, <1>5, <1>6, <1>7 DEF ReportInv

LEMMA ByteReport == ASSUME ReportInv, WriteByte PROVE ReportInv'
<1>1. Length(size) \in Nat /\ Length(size) < IndexMod /\ byte \in Nat
  BY Lengths DEF ReportInv, ReportTypeOK
<1>2. byte' = byte + 1 /\ byte + 1 <= Length(size)
  BY <1>1, SizesAssumption DEF WriteByte
<1>3. ReportTypeOK'
  BY <1>1, <1>2 DEF ReportInv, ReportTypeOK, WriteByte, Length
<1> QED
  BY <1>3 DEF ReportInv, Progress, BufferOK, SentOK, WriteByte

LEMMA WrittenReport == ASSUME ReportInv, FrameWritten PROVE ReportInv'
<1> DEFINE f == [j \in 1 .. size |-> buf[j]]
<1>1. /\ phase = "write" /\ size \in Nat /\ size <= GroupSize /\ rem \in Nat /\ group \in Nat
      /\ count \in 0 .. MaxEntries /\ GroupSize \in Nat \ {0} /\ MaxEntries \in Nat
      /\ sent \in Seq(Garbage .. MaxEntries) /\ Len(sent) \in Nat
  BY SizesAssumption DEF ReportInv, ReportTypeOK, FrameWritten
<1>2. /\ f \in Seq(Garbage .. MaxEntries) /\ Len(f) = size
      /\ \A j \in 1 .. size : f[j] = buf[j] /\ f[j] \in 1 .. count
  <2>1. \A j \in 1 .. size : buf[j] \in 1 .. count /\ buf[j] \in Garbage .. MaxEntries
    BY <1>1 DEF ReportInv, BufferOK, Garbage
  <2> QED
    BY <1>1, <2>1
<1> HIDE DEF f
<1>3. sent' = sent \o f
  BY DEF FrameWritten, f
<1>4. /\ sent' \in Seq(Garbage .. MaxEntries) /\ Len(sent') = Len(sent) + size
      /\ \A k \in 1 .. Len(sent) : sent'[k] = sent[k]
      /\ \A k \in Len(sent) + 1 .. Len(sent) + size : sent'[k] = f[k - Len(sent)]
  <2> DEFINE S == Garbage .. MaxEntries
  <2>1. sent \in Seq(S) /\ f \in Seq(S) /\ Len(f) = size
    BY <1>1, <1>2
  <2> HIDE DEF S
  <2>2. /\ sent \o f \in Seq(S) /\ Len(sent \o f) = Len(sent) + size
        /\ \A k \in 1 .. Len(sent) + size :
              (sent \o f)[k] = IF k <= Len(sent) THEN sent[k] ELSE f[k - Len(sent)]
    BY <2>1, ConcatProperties
  <2>3. \A k \in Len(sent) + 1 .. Len(sent) + size : k \in 1 .. Len(sent) + size /\ ~(k <= Len(sent))
    BY <1>1
  <2>4. \A k \in 1 .. Len(sent) : k \in 1 .. Len(sent) + size /\ k <= Len(sent)
    BY <1>1
  <2> QED
    BY <1>3, <2>2, <2>3, <2>4 DEF S
<1>a. /\ count' = count /\ rem' = rem /\ group' = group /\ buf' = buf /\ size' = size /\ byte' = byte
      /\ phase' = IF rem = 0 THEN "idle" ELSE "next"
  BY DEF FrameWritten
<1>5. ReportTypeOK'
  <2>1. ReportTypeOK
    BY DEF ReportInv
  <2>2. Length(size)' = Length(size)
    BY <1>a DEF Length
  <2> QED
    BY <1>4, <1>a, <2>1, <2>2 DEF ReportTypeOK
<1>6. Progress'
  <2>1. CASE rem = 0
    <3>1. size > 0 /\ count = Len(sent) + size
      BY <1>1, <2>1 DEF ReportInv, Progress
    <3> QED
      BY <1>4, <1>a, <2>1, <3>1 DEF Progress
  <2>2. CASE rem > 0
    <3>1. /\ group > 0 /\ size = GroupSize
          /\ Len(sent) = (group - 1) * GroupSize /\ count = Len(sent) + size + rem
      BY <1>1, <2>2 DEF ReportInv, Progress
    <3>2. (group - 1) * GroupSize = group * GroupSize - GroupSize /\ group * GroupSize \in Nat
      BY <1>1, <3>1, Groups
    <3>3. Len(sent') = group * GroupSize /\ count = Len(sent') + rem
      BY <1>1, <1>4, <3>1, <3>2
    <3> QED
      BY <1>1, <1>a, <2>2, <3>3 DEF Progress
  <2> QED
    BY <1>1, <2>1, <2>2
<1>7. BufferOK'
  BY DEF ReportInv, BufferOK, FrameWritten
<1>8. SentOK'
  <2>1. Len(sent) = 0 \/ Len(sent) >= GroupSize
    <3>1. Len(sent) = group * GroupSize \/ (group > 0 /\ Len(sent) = (group - 1) * GroupSize)
      BY <1>1 DEF ReportInv, Progress
    <3>2. \A g \in Nat : g * GroupSize = 0 \/ g * GroupSize >= GroupSize
      BY <1>1, Groups
    <3>3. group > 0 => group - 1 \in Nat
      BY <1>1
    <3> QED
      BY <1>1, <3>1, <3>2, <3>3
  <2>2. ASSUME NEW k \in 1 .. Len(sent)
        PROVE  sent'[k] \in 1 .. count /\ (k <= GroupSize => sent'[k] = k)
    BY <1>4 DEF ReportInv, SentOK
  <2>3. ASSUME NEW k \in Len(sent) + 1 .. Len(sent) + size
        PROVE  sent'[k] \in 1 .. count /\ (k <= GroupSize => sent'[k] = k)
    <3>1. k - Len(sent) \in 1 .. size /\ sent'[k] = buf[k - Len(sent)] /\ sent'[k] \in 1 .. count
      BY <1>1, <1>2, <1>4
    <3>2. CASE Len(sent) = 0
      BY <1>1, <3>1, <3>2 DEF ReportInv, BufferOK
    <3>3. CASE Len(sent) >= GroupSize
      BY <1>1, <3>1, <3>3
    <3> QED
      BY <2>1, <3>2, <3>3
  <2>4. 1 .. Len(sent') = (1 .. Len(sent)) \cup (Len(sent) + 1 .. Len(sent) + size)
    BY <1>1, <1>4
  <2>5. count' = count
    BY DEF FrameWritten
  <2> QED
    BY <2>2, <2>3, <2>4, <2>5 DEF SentOK
<1> QED
  BY <1>5, <1>6, <1>7, <1>8 DEF ReportInv

LEMMA NextReport == ReportInv /\ [ReportNext]_reportVars => ReportInv'
<1> SUFFICES ASSUME ReportInv, [ReportNext]_reportVars PROVE ReportInv'
  OBVIOUS
<1>1. CASE Send
  BY <1>1, GroupReport, RestReport, ByteReport, WrittenReport DEF Send
<1>2. CASE \E n \in 1 .. MaxEntries : Start(n)
  BY <1>2, StartReport
<1>3. CASE UNCHANGED reportVars
  BY <1>3 DEF ReportInv, ReportTypeOK, Progress, BufferOK, SentOK, reportVars, Length
<1> QED
  BY <1>1, <1>2, <1>3 DEF ReportNext

THEOREM ReportInductive == ReportSpec => []ReportInv
BY InitReport, NextReport, PTL DEF ReportSpec

-----------------------------------------------------------------------------
(* What follows from it.                                                     *)

\* The 8-bit index of a frame's bytes never wraps before the frame's end
\* (UwbWriteDataToStm32).
THEOREM ReportTypes == ReportSpec => []ReportTypeOK
<1>1. ReportInv => ReportTypeOK
  BY DEF ReportInv
<1> QED
  BY <1>1, ReportInductive, PTL

\* As many entries as the pack holds go to the wire, and nothing but entries of
\* the pack, although the last ones are taken from a wrong place.
THEOREM RightNumber == ReportSpec => []OnlyTheRightNumber
<1>1. ReportInv => OnlyTheRightNumber
  <2> SUFFICES ASSUME ReportInv PROVE OnlyTheRightNumber
    OBVIOUS
  <2>1. /\ Len(sent) \in Nat /\ rem \in Nat /\ size \in Nat /\ count \in Nat
        /\ phase \in {"idle", "next", "write"}
    BY SizesAssumption DEF ReportInv, ReportTypeOK
  <2>2. \A k \in 1 .. Len(sent) : sent[k] \in 1 .. count
    BY DEF ReportInv, SentOK
  <2>3. phase = "write" => Len(sent) + rem + size = count
    BY <2>1 DEF ReportInv, Progress
  <2>4. phase = "next" => Len(sent) + rem = count
    BY <2>1 DEF ReportInv, Progress
  <2>5. phase = "idle" => Len(sent) = count
    BY DEF ReportInv, Progress
  <2> QED
    BY <2>1, <2>2, <2>3, <2>4, <2>5 DEF OnlyTheRightNumber
<1> QED
  BY <1>1, ReportInductive, PTL

\* The first GroupSize entries of every pack arrive in their order.
THEOREM FirstGroup == ReportSpec => []FirstGroupInOrder
<1>1. ReportInv => FirstGroupInOrder
  BY DEF ReportInv, SentOK, FirstGroupInOrder
<1> QED
  BY <1>1, ReportInductive, PTL

-----------------------------------------------------------------------------
(* The better-select tables (BetterSelect).                                  *)

-----------------------------------------------------------------------------
(* Loops.  A loop is a recursive function of the number of turns it has made. *)

\* Induction for a set: one that holds 0 and with each number the next holds all.
LEMMA NatSetInduction ==
    ASSUME NEW T, 0 \in T, \A m \in Nat : m \in T => m + 1 \in T
    PROVE  \A m \in Nat : m \in T
  <1> SUFFICES ASSUME Nat \ T # {} PROVE FALSE
    OBVIOUS
  <1> DEFINE R == OpToRel(<, Nat)
  <1>1. PICK x \in Nat \ T : \A y \in Nat \ T : ~ (<<y, x>> \in R)
    <2>1. IsWellFoundedOn(R, Nat) /\ Nat \ T \subseteq Nat
      BY NatLessThanWellFounded
    <2> HIDE DEF R
    <2> QED
      BY <2>1, WFMin
  <1>2. x \in Nat /\ x # 0
    BY <1>1
  <1>3. x - 1 \in Nat /\ x - 1 < x /\ x - 1 + 1 = x
    BY <1>2
  <1>4. <<x - 1, x>> \in R
    BY <1>2, <1>3 DEF OpToRel
  <1>5. x - 1 \in T
    BY <1>1, <1>3, <1>4
  <1> QED
    BY <1>1, <1>3, <1>5

\* A loop of n turns whose body is g.
IsLoop(f, b, g, n) == f[0] = b /\ \A i \in 1 .. n : f[i] = g[<<f[i - 1], i>>]

LEMMA LoopExists ==
    ASSUME NEW S, NEW n \in Nat, NEW b \in S, NEW g \in [S \X (1 .. n) -> S]
    PROVE  \E f \in [0 .. n -> S] : IsLoop(f, b, g, n)
  <1> DEFINE T == {m \in Nat : m <= n => \E f \in [0 .. m -> S] : IsLoop(f, b, g, m)}
  <1>1. 0 \in T
    <2>1. [i \in 0 .. 0 |-> b] \in [0 .. 0 -> S] /\ IsLoop([i \in 0 .. 0 |-> b], b, g, 0)
      BY DEF IsLoop
    <2> QED
      BY <2>1
  <1>2. ASSUME NEW m \in Nat, m \in T
        PROVE  m + 1 \in T
    <2> SUFFICES ASSUME m + 1 <= n
                 PROVE  \E f \in [0 .. m + 1 -> S] : IsLoop(f, b, g, m + 1)
      OBVIOUS
    <2>1. PICK f \in [0 .. m -> S] : IsLoop(f, b, g, m)
      BY <1>2
    <2>2. g[<<f[m], m + 1>>] \in S
      BY <2>1
    <2> DEFINE h == [i \in 0 .. m + 1 |-> IF i <= m THEN f[i] ELSE g[<<f[m], m + 1>>]]
    <2>3. h \in [0 .. m + 1 -> S]
      BY <2>1, <2>2
    <2>4. h[0] = b
      BY <2>1 DEF IsLoop
    <2>5. ASSUME NEW i \in 1 .. m + 1
          PROVE  h[i] = g[<<h[i - 1], i>>]
      <3>1. CASE i <= m
        BY <3>1, <2>1 DEF IsLoop
      <3>2. CASE i = m + 1
        BY <3>2
      <3> QED
        BY <3>1, <3>2
    <2> HIDE DEF h
    <2> QED
      BY <2>3, <2>4, <2>5 DEF IsLoop
  <1> HIDE DEF T
  <1>3. n \in T
    BY <1>1, <1>2, NatSetInduction
  <1> QED
    BY <1>3 DEF T

LEMMA LoopStays ==
    ASSUME NEW S, NEW n \in Nat, NEW t, t[0] \in S,
           \A i \in 1 .. n : t[i - 1] \in S => t[i] \in S
    PROVE  \A i \in 0 .. n : t[i] \in S
  <1> DEFINE T == {m \in Nat : m <= n => t[m] \in S}
  <1>1. 0 \in T
    OBVIOUS
  <1>2. ASSUME NEW m \in Nat, m \in T
        PROVE  m + 1 \in T
    <2> SUFFICES ASSUME m + 1 <= n PROVE t[m + 1] \in S
      OBVIOUS
    <2>1. m + 1 \in 1 .. n /\ m + 1 - 1 = m /\ m <= n
      OBVIOUS
    <2> QED
      BY <1>2, <2>1
  <1> HIDE DEF T
  <1>3. \A m \in Nat : m \in T
    BY <1>1, <1>2, NatSetInduction
  <1> QED
    BY <1>3 DEF T

-----------------------------------------------------------------------------
(* The table of standard cards.                                              *)

Card == {c \in [id : Std, list : UNION {Frames[s] : s \in Std},
                deal : 0 .. DealMod - 1, last : 0 .. DealMod - 1] :
            c.list \in Frames[c.id] /\ c.list # <<>>}
Counters == [1 .. StdMax -> 0 .. DealMod - 1]
Table == [cards : {a \in Seq(Card) : Len(a) <= StdMax}, left : Counters]

\* the loop takes such a card for a silent one
Marked(c) == c.deal = c.last

LEMMA SizeFacts ==
    /\ StdMax \in Nat /\ StdMax >= 1 /\ TestMax \in Nat /\ TestMax >= 1
    /\ DealMod \in Nat /\ DealMod >= 2
  BY TablesAssumption

LEMMA Without ==
    ASSUME NEW S, NEW a \in Seq(S), NEW i \in 1 .. Len(a)
    PROVE  /\ RemoveAt(a, i) \in Seq(S) /\ Len(RemoveAt(a, i)) = Len(a) - 1
           /\ \A p \in 1 .. Len(a) - 1 : RemoveAt(a, i)[p] = IF p < i THEN a[p] ELSE a[p + 1]
  <1> DEFINE x == SubSeq(a, 1, i - 1)
             y == SubSeq(a, i + 1, Len(a))
  <1>1. PICK n \in Nat : n = Len(a) /\ i \in Nat /\ 1 <= i /\ i <= n
    BY LenProperties
  <1>2. x \in Seq(S) /\ Len(x) = i - 1 /\ \A p \in 1 .. i - 1 : x[p] = a[p]
    BY <1>1, SubSeqProperties
  <1>3. y \in Seq(S) /\ Len(y) = n - i /\ \A p \in 1 .. n - i : y[p] = a[p + i]
    BY <1>1, SubSeqProperties
  <1>4. RemoveAt(a, i) = x \o y
    BY DEF RemoveAt
  <1> HIDE DEF x, y
  <1>5. /\ x \o y \in Seq(S) /\ Len(x \o y) = Len(x) + Len(y)
        /\ \A p \in 1 .. Len(x) + Len(y) : (x \o y)[p] = IF p <= Len(x) THEN x[p] ELSE y[p - Len(x)]
    BY <1>2, <1>3, ConcatProperties
  <1>6. Len(x) + Len(y) = n - 1
    BY <1>1, <1>2, <1>3
  <1>7. ASSUME NEW p \in 1 .. n - 1
        PROVE  (x \o y)[p] = IF p < i THEN a[p] ELSE a[p + 1]
    <2>1. p \in Nat /\ 1 <= p /\ p <= n - 1
      BY <1>1
    <2>2. CASE p < i
      <3>1. p \in 1 .. i - 1 /\ p <= Len(x)
        BY <1>1, <1>2, <2>1, <2>2
      <3> QED
        BY <1>2, <1>5, <1>6, <2>2, <3>1
    <2>3. CASE p >= i
      <3>1. /\ p - Len(x) = p - i + 1 /\ p - i + 1 \in 1 .. n - i
            /\ p - i + 1 + i = p + 1 /\ ~(p <= Len(x)) /\ ~(p < i)
        BY <1>1, <1>2, <2>1, <2>3
      <3>2. (x \o y)[p] = y[p - i + 1]
        BY <1>5, <1>6, <3>1
      <3>3. y[p - i + 1] = a[p - i + 1 + i]
        BY <1>3, <3>1
      <3> QED
        BY <3>1, <3>2, <3>3
    <2>4. p < i \/ p >= i
      BY <1>1, <2>1
    <2> QED
      BY <2>2, <2>3, <2>4
  <1> QED
    BY <1>1, <1>4, <1>5, <1>6, <1>7

LEMMA RemoveSilentType ==
    ASSUME NEW t \in Table, NEW i \in 1 .. StdMax
    PROVE  RemoveSilent(t, i) \in Table
  <1>1. CASE i <= Len(t.cards) /\ t.cards[i].deal = t.cards[i].last
    <2>1. PICK n \in Nat : n = Len(t.cards) /\ n <= StdMax
      BY DEF Table
    <2>2. t.cards \in Seq(Card) /\ t.left \in Counters /\ i \in 1 .. n /\ n \in 1 .. n
      BY <1>1, <2>1 DEF Table
    <2>3. RemoveAt(t.cards, i) \in Seq(Card) /\ Len(RemoveAt(t.cards, i)) = n - 1
      BY <2>1, <2>2, Without
    <2>4. Len(RemoveAt(t.cards, i)) <= StdMax
      BY <2>1, <2>3, SizeFacts
    <2>5. Last(t.cards).deal \in 0 .. DealMod - 1
      <3>1. Last(t.cards) \in Card
        BY <2>1, <2>2, ElementOfSeq DEF Last
      <3> QED
        BY <3>1 DEF Card
    <2>6. [t.left EXCEPT ![Len(t.cards)] = Last(t.cards).deal] \in Counters
      BY <2>2, <2>5 DEF Counters
    <2> QED
      BY <1>1, <2>3, <2>4, <2>6 DEF RemoveSilent, Table
  <1>2. CASE ~(i <= Len(t.cards) /\ t.cards[i].deal = t.cards[i].last)
    BY <1>2 DEF RemoveSilent
  <1> QED
    BY <1>1, <1>2

\* The ageing loop does one turn for every slot of the table.
LEMMA AgedLoop ==
    ASSUME NEW a \in Seq(Card), Len(a) <= StdMax, free \in Counters
    PROVE  \E t \in [0 .. StdMax -> Table] :
               /\ t[0] = [cards |-> a, left |-> free]
               /\ \A i \in 1 .. StdMax : t[i] = RemoveSilent(t[i - 1], i)
               /\ Aged(a) = t[StdMax]
  <1> DEFINE b == [cards |-> a, left |-> free]
             g == [x \in Table \X (1 .. StdMax) |-> RemoveSilent(x[1], x[2])]
             t[i \in 0 .. StdMax] == IF i = 0 THEN b ELSE RemoveSilent(t[i - 1], i)
  <1>1. b \in Table
    BY DEF Table
  <1>2. g \in [Table \X (1 .. StdMax) -> Table]
    BY RemoveSilentType
  <1>3. PICK f \in [0 .. StdMax -> Table] : IsLoop(f, b, g, StdMax)
    <2> HIDE DEF b, g
    <2> QED
      BY <1>1, <1>2, SizeFacts, LoopExists
  <1>4. \A i \in 1 .. StdMax : i - 1 \in 0 .. StdMax /\ i # 0
    BY SizeFacts
  <1>5. f[0] = b /\ \A i \in 1 .. StdMax : f[i] = RemoveSilent(f[i - 1], i)
    BY <1>3, <1>4 DEF IsLoop
  <1>6. f = [i \in 0 .. StdMax |-> IF i = 0 THEN b ELSE RemoveSilent(f[i - 1], i)]
    <2>1. \A i \in 0 .. StdMax : i = 0 \/ i \in 1 .. StdMax
      BY SizeFacts
    <2> HIDE DEF b
    <2> QED
      BY <1>3, <1>5, <2>1
  <1>7. t = [i \in 0 .. StdMax |-> IF i = 0 THEN b ELSE RemoveSilent(t[i - 1], i)]
    <2> HIDE DEF b
    <2>1. \E u : u = [i \in 0 .. StdMax |-> IF i = 0 THEN b ELSE RemoveSilent(u[i - 1], i)]
      BY <1>6
    <2> QED
      BY <2>1
  <1>8. Aged(a) = t[StdMax]
    BY DEF Aged
  <1> HIDE DEF t
  <1>9. t[0] = b /\ \A i \in 1 .. StdMax : t[i] = RemoveSilent(t[i - 1], i)
    BY <1>4, <1>7, SizeFacts
  <1>10. t \in [0 .. StdMax -> Table]
    <2>1. ASSUME NEW i \in 1 .. StdMax, t[i - 1] \in Table
          PROVE  t[i] \in Table
      BY <1>9, <2>1, RemoveSilentType
    <2>2. t[0] \in Table
      BY <1>1, <1>9
    <2>3. \A i \in 0 .. StdMax : t[i] \in Table
      BY <2>1, <2>2, SizeFacts, LoopStays
    <2> QED
      BY <1>7, <2>3
  <1> QED
    BY <1>8, <1>9, <1>10

\* After i turns the card at p of the list c is the one that was at q of a: the
\* loop has moved it, or has found no silent card up to it; those still ahead of
\* the loop have moved by as many places as cards were removed.
CameFrom(a, i, c, p, q) ==
    /\ c[p] = a[q] /\ p <= q
    /\ p > i => q = p + Len(a) - Len(c)
    /\ p <= i => q > p \/ \A j \in 1 .. q : ~Marked(a[j])

\* What the ageing loop has made of the list a after i turns.
AgeInv(a, i, t) ==
    /\ t \in Table /\ Len(t.cards) <= Len(a) /\ Len(a) <= Len(t.cards) + i
    /\ \A p \in 1 .. Len(t.cards) : \E q \in 1 .. Len(a) : CameFrom(a, i, t.cards, p, q)
    /\ \A p, q \in 1 .. Len(t.cards) : t.cards[p].id = t.cards[q].id => p = q
    /\ Len(t.cards) = Len(a) =>
          t.cards = a /\ t.left = free /\ \A j \in 1 .. Len(a) : j <= i => ~Marked(a[j])
    /\ Len(t.cards) = 0 /\ Len(a) # 0 =>
          Len(a) = 1 /\ Marked(a[1]) /\ t.left[1] = a[1].deal

LEMMA AgeKeeps ==
    ASSUME NEW a \in Seq(Card), NEW i \in 1 .. StdMax, NEW t, AgeInv(a, i - 1, t),
           ~(i <= Len(t.cards) /\ Marked(t.cards[i]))
    PROVE  AgeInv(a, i, t)
  <1>1. PICK n, m \in Nat : n = Len(t.cards) /\ m = Len(a)
    BY LenProperties DEF AgeInv, Table
  <1>2. n <= m /\ m <= n + i - 1 /\ i \in Nat /\ i >= 1
    BY <1>1, SizeFacts DEF AgeInv
  <1>3. ASSUME NEW p \in 1 .. n, NEW q \in 1 .. m, CameFrom(a, i - 1, t.cards, p, q)
        PROVE  CameFrom(a, i, t.cards, p, q)
    <2>1. t.cards[p] = a[q] /\ p <= q /\ p \in Nat /\ q \in Nat /\ p <= n
      BY <1>1, <1>3 DEF CameFrom
    <2>2. p > i => q = p + m - n
      BY <1>1, <1>2, <1>3, <2>1 DEF CameFrom
    <2>3. CASE p <= i - 1
      <3>1. q > p \/ \A j \in 1 .. q : ~Marked(a[j])
        BY <1>3, <2>3 DEF CameFrom
      <3> QED
        BY <1>1, <2>1, <2>2, <3>1 DEF CameFrom
    <2>4. CASE p = i
      <3>1. q = p + m - n
        BY <1>1, <1>2, <1>3, <2>4 DEF CameFrom
      <3>2. CASE n = m
        <4>1. \A j \in 1 .. m : j <= i - 1 => ~Marked(a[j])
          BY <1>1, <3>2 DEF AgeInv
        <4>2. ~Marked(a[i])
          BY <1>1, <2>1, <2>4, <3>1, <3>2
        <4>3. \A j \in 1 .. q : j \in 1 .. m /\ (j <= i - 1 \/ j = i)
          BY <1>2, <2>4, <3>1, <3>2
        <4>4. \A j \in 1 .. q : ~Marked(a[j])
          BY <4>1, <4>2, <4>3
        <4> QED
          BY <1>1, <2>1, <2>2, <4>4 DEF CameFrom
      <3>3. CASE n # m
        <4>1. q > p
          BY <1>2, <2>1, <3>1, <3>3
        <4> QED
          BY <1>1, <2>1, <2>2, <4>1 DEF CameFrom
      <3> QED
        BY <3>2, <3>3
    <2>5. CASE p > i
      <3>1. ~(p <= i)
        BY <1>2, <2>1, <2>5
      <3> QED
        BY <1>1, <2>1, <2>2, <3>1 DEF CameFrom
    <2> QED
      BY <1>2, <2>1, <2>3, <2>4, <2>5
  <1>4. \A p \in 1 .. Len(t.cards) : \E q \in 1 .. Len(a) : CameFrom(a, i, t.cards, p, q)
    BY <1>1, <1>3 DEF AgeInv
  <1>5. Len(t.cards) = Len(a) => \A j \in 1 .. Len(a) : j <= i => ~Marked(a[j])
    <2> SUFFICES ASSUME n = m, NEW j \in 1 .. m, j <= i PROVE ~Marked(a[j])
      BY <1>1
    <2>1. t.cards = a /\ \A k \in 1 .. m : k <= i - 1 => ~Marked(a[k])
      BY <1>1 DEF AgeInv
    <2>2. CASE j = i
      BY <1>1, <2>1, <2>2
    <2>3. CASE j # i
      <3>1. j <= i - 1
        BY <1>2, <2>3
      <3> QED
        BY <2>1, <3>1
    <2> QED
      BY <2>2, <2>3
  <1>6. t \in Table /\ Len(t.cards) <= Len(a) /\ Len(a) <= Len(t.cards) + i
    BY <1>1, <1>2 DEF AgeInv
  <1> QED
    BY <1>4, <1>5, <1>6 DEF AgeInv

LEMMA AgeRemoves ==
    ASSUME NEW a \in Seq(Card), NEW i \in 1 .. StdMax, NEW t, AgeInv(a, i - 1, t),
           i <= Len(t.cards), Marked(t.cards[i])
    PROVE  AgeInv(a, i, RemoveSilent(t, i))
  <1> DEFINE u == RemoveAt(t.cards, i)
             v == [t.left EXCEPT ![Len(t.cards)] = Last(t.cards).deal]
  <1>1. PICK n, m \in Nat : n = Len(t.cards) /\ m = Len(a)
    BY LenProperties DEF AgeInv, Table
  <1>2. n <= m /\ m <= n + i - 1 /\ i \in Nat /\ i >= 1 /\ i <= n
    BY <1>1, SizeFacts DEF AgeInv
  <1>3. RemoveSilent(t, i) = [cards |-> u, left |-> v]
    BY DEF RemoveSilent, Marked
  <1>4. RemoveSilent(t, i) \in Table
    BY RemoveSilentType DEF AgeInv
  <1>5. Len(u) = n - 1 /\ \A p \in 1 .. n - 1 : u[p] = IF p < i THEN t.cards[p] ELSE t.cards[p + 1]
    <2>1. t.cards \in Seq(Card) /\ i \in 1 .. Len(t.cards)
      BY <1>1, <1>2 DEF AgeInv, Table
    <2> QED
      BY <1>1, <2>1, Without
  <1> HIDE DEF u, v
  <1>6. ASSUME NEW p \in 1 .. n - 1
        PROVE  \E q \in 1 .. m : CameFrom(a, i, u, p, q)
    <2>1. p \in Nat /\ p >= 1 /\ p \in 1 .. n /\ p + 1 \in 1 .. n
      BY <1>2
    <2>2. CASE p < i
      <3>1. PICK q \in 1 .. m : CameFrom(a, i - 1, t.cards, p, q)
        BY <1>1, <2>1 DEF AgeInv
      <3>2. u[p] = t.cards[p] /\ p <= i - 1 /\ ~(p > i)
        BY <1>2, <1>5, <2>1, <2>2
      <3> QED
        BY <3>1, <3>2 DEF CameFrom
    <2>3. CASE p >= i
      <3>1. PICK q \in 1 .. m : CameFrom(a, i - 1, t.cards, p + 1, q)
        BY <1>1, <2>1 DEF AgeInv
      <3>2. u[p] = t.cards[p + 1] /\ p + 1 > i - 1
        BY <1>2, <1>5, <2>1, <2>3
      <3>3. q = p + 1 + m - n /\ q \in Nat
        BY <1>1, <3>1, <3>2 DEF CameFrom
      <3>4. q = p + m - (n - 1) /\ q > p /\ p <= q
        BY <1>2, <2>1, <3>3
      <3>5. q = p + Len(a) - Len(u)
        BY <1>1, <1>5, <3>4
      <3> QED
        BY <3>1, <3>2, <3>4, <3>5 DEF CameFrom
    <2> QED
      BY <1>2, <2>1, <2>2, <2>3
  <1>7. ASSUME NEW p \in 1 .. n - 1, NEW q \in 1 .. n - 1, u[p].id = u[q].id
        PROVE  p = q
    <2> DEFINE at(k) == IF k < i THEN k ELSE k + 1
    <2>1. at(p) \in 1 .. n /\ at(q) \in 1 .. n
      BY <1>2
    <2>2. u[p] = t.cards[at(p)] /\ u[q] = t.cards[at(q)]
      BY <1>5
    <2>3. at(p) = at(q)
      <3> HIDE DEF at
      <3> QED
        BY <1>1, <1>7, <2>1, <2>2 DEF AgeInv
    <2> QED
      BY <1>2, <2>3
  <1>8. ASSUME n - 1 = 0
        PROVE  m = 1 /\ Marked(a[1]) /\ v[1] = a[1].deal
    <2>1. n = 1 /\ i = 1 /\ m = 1
      BY <1>2, <1>8
    <2>2. t.cards = a
      BY <1>1, <2>1 DEF AgeInv
    <2>3. Marked(a[1]) /\ Last(t.cards).deal = a[1].deal
      BY <1>1, <2>1, <2>2 DEF Last
    <2>4. 1 \in DOMAIN t.left
      BY SizeFacts DEF AgeInv, Table, Counters
    <2>5. v[1] = a[1].deal
      BY <1>1, <2>1, <2>3, <2>4 DEF v
    <2> QED
      BY <2>1, <2>3, <2>5
  <1>9. Len(u) <= Len(a) /\ Len(a) <= Len(u) + i /\ Len(u) # Len(a)
    BY <1>1, <1>2, <1>5
  <1> DEFINE w == [cards |-> u, left |-> v]
  <1>10. w.cards = u /\ w.left = v
    OBVIOUS
  <1> HIDE DEF w
  <1>11. \A p \in 1 .. Len(w.cards) : \E q \in 1 .. Len(a) : CameFrom(a, i, w.cards, p, q)
    BY <1>1, <1>5, <1>6, <1>10
  <1>12. \A p, q \in 1 .. Len(w.cards) : w.cards[p].id = w.cards[q].id => p = q
    BY <1>5, <1>7, <1>10
  <1>13. AgeInv(a, i, w)
    BY <1>1, <1>3, <1>4, <1>5, <1>8, <1>9, <1>10, <1>11, <1>12 DEF AgeInv, w
  <1> QED
    BY <1>3, <1>13 DEF w

Distinct(a) == \A i, j \in 1 .. Len(a) : a[i].id = a[j].id => i = j

LEMMA AgedTurns ==
    ASSUME NEW a \in Seq(Card), Len(a) <= StdMax, Distinct(a), free \in Counters
    PROVE  \E t \in [0 .. StdMax -> Table] :
               /\ \A i \in 1 .. StdMax : t[i] = RemoveSilent(t[i - 1], i)
               /\ \A i \in 0 .. StdMax : AgeInv(a, i, t[i])
               /\ t[0].cards = a /\ Aged(a) = t[StdMax]
  <1>1. PICK t \in [0 .. StdMax -> Table] :
            /\ t[0] = [cards |-> a, left |-> free]
            /\ \A i \in 1 .. StdMax : t[i] = RemoveSilent(t[i - 1], i)
            /\ Aged(a) = t[StdMax]
    BY AgedLoop
  <1> DEFINE T == {m \in Nat : m <= StdMax => AgeInv(a, m, t[m])}
  <1>2. 0 \in T
    <2> DEFINE b == [cards |-> a, left |-> free]
    <2>1. b.cards = a /\ b.left = free /\ b \in Table
      BY DEF Table
    <2> HIDE DEF b
    <2>2. Len(a) \in Nat /\ Len(a) + 0 = Len(a) /\ Len(a) <= Len(a)
      BY LenProperties
    <2>3. \A p \in 1 .. Len(a) : CameFrom(a, 0, a, p, p)
      <3> TAKE p \in 1 .. Len(a)
      <3>1. p = p + Len(a) - Len(a) /\ ~(p <= 0) /\ p <= p
        BY <2>2
      <3> QED
        BY <3>1 DEF CameFrom
    <2>4. \A j \in 1 .. Len(a) : ~(j <= 0)
      BY <2>2
    <2>5. AgeInv(a, 0, b)
      BY <2>1, <2>2, <2>3, <2>4 DEF AgeInv, Distinct
    <2> QED
      BY <1>1, <2>5 DEF b
  <1>3. ASSUME NEW m \in Nat, m \in T
        PROVE  m + 1 \in T
    <2> SUFFICES ASSUME m + 1 <= StdMax PROVE AgeInv(a, m + 1, t[m + 1])
      OBVIOUS
    <2>1. m + 1 \in 1 .. StdMax /\ m + 1 - 1 = m /\ m <= StdMax
      BY SizeFacts
    <2>2. AgeInv(a, m + 1 - 1, t[m])
      BY <1>3, <2>1
    <2>3. t[m + 1] = RemoveSilent(t[m], m + 1)
      BY <1>1, <2>1
    <2>4. CASE m + 1 <= Len(t[m].cards) /\ Marked(t[m].cards[m + 1])
      BY <2>1, <2>2, <2>3, <2>4, AgeRemoves
    <2>5. CASE ~(m + 1 <= Len(t[m].cards) /\ Marked(t[m].cards[m + 1]))
      <3>1. t[m + 1] = t[m]
        BY <2>3, <2>5 DEF RemoveSilent, Marked
      <3> QED
        BY <2>1, <2>2, <2>5, <3>1, AgeKeeps
    <2> QED
      BY <2>4, <2>5
  <1> HIDE DEF T
  <1>4. \A m \in Nat : m \in T
    BY <1>2, <1>3, NatSetInduction
  <1>5. \A i \in 0 .. StdMax : AgeInv(a, i, t[i])
    BY <1>4, SizeFacts DEF T
  <1>6. t[0].cards = a
    BY <1>1
  <1> QED
    BY <1>1, <1>5, <1>6

\* How many turns the ageing loop can make without a removal.
Short(a, i, c) ==
    \/ Len(a) - Len(c) >= i
    \/ Len(a) - Len(c) >= i - 1 /\ \A p \in 1 .. Len(c) : p > i => Marked(c[p])
    \/ 2 * (Len(a) - Len(c)) + 1 >= Len(a)

\* When all cards but one are silent, the loop removes half of them.
LEMMA ShortTurn ==
    ASSUME NEW a \in Seq(Card), NEW s, \A j \in 1 .. Len(a) : a[j].id # s => Marked(a[j]),
           NEW i \in 1 .. StdMax, NEW t, AgeInv(a, i - 1, t), Short(a, i - 1, t.cards)
    PROVE  Short(a, i, RemoveSilent(t, i).cards)
  <1> DEFINE c == t.cards
             u == RemoveAt(c, i)
  <1>1. PICK n, m \in Nat : n = Len(c) /\ m = Len(a)
    BY LenProperties DEF AgeInv, Table
  <1>2. n <= m /\ i \in Nat /\ i >= 1
    BY <1>1, SizeFacts DEF AgeInv
  <1>3. \A p \in 1 .. n : c[p].id # s => Marked(c[p])
    <2> TAKE p \in 1 .. n
    <2>1. PICK q \in 1 .. m : CameFrom(a, i - 1, c, p, q)
      BY <1>1 DEF AgeInv
    <2>2. c[p] = a[q]
      BY <2>1 DEF CameFrom
    <2> QED
      BY <1>1, <2>2
  <1>4. \/ m - n >= i - 1
        \/ m - n >= i - 1 - 1 /\ \A p \in 1 .. n : p > i - 1 => Marked(c[p])
        \/ 2 * (m - n) + 1 >= m
    BY <1>1 DEF Short
  <1>5. CASE i <= n /\ Marked(c[i])
    <2>1. RemoveSilent(t, i).cards = u
      BY <1>1, <1>5 DEF RemoveSilent, Marked
    <2>2. Len(u) = n - 1 /\ \A p \in 1 .. n - 1 : u[p] = IF p < i THEN c[p] ELSE c[p + 1]
      <3>1. c \in Seq(Card) /\ i \in 1 .. Len(c)
        BY <1>1, <1>2, <1>5 DEF AgeInv, Table
      <3> HIDE DEF c
      <3> QED
        BY <1>1, <3>1, Without
    <2> HIDE DEF u
    <2>3. ASSUME m - n >= i - 1
          PROVE  m - (n - 1) >= i
      BY <1>2, <2>3
    <2>4. ASSUME m - n >= i - 1 - 1, \A p \in 1 .. n : p > i - 1 => Marked(c[p])
          PROVE  m - (n - 1) >= i - 1 /\ \A p \in 1 .. n - 1 : p > i => Marked(u[p])
      <3>1. m - (n - 1) >= i - 1
        BY <1>2, <2>4
      <3>2. ASSUME NEW p \in 1 .. n - 1, p > i
            PROVE  Marked(u[p])
        <4>1. ~(p < i) /\ p + 1 \in 1 .. n /\ p + 1 > i - 1
          BY <1>2, <3>2
        <4> QED
          BY <2>2, <2>4, <4>1
      <3> QED
        BY <3>1, <3>2
    <2>5. ASSUME 2 * (m - n) + 1 >= m
          PROVE  2 * (m - (n - 1)) + 1 >= m
      BY <1>2, <2>5
    <2> QED
      BY <1>1, <1>4, <2>1, <2>2, <2>3, <2>4, <2>5 DEF Short
  <1>6. CASE ~(i <= n /\ Marked(c[i]))
    <2>1. RemoveSilent(t, i).cards = c
      BY <1>1, <1>6 DEF RemoveSilent, Marked
    <2>2. CASE i <= n
      <3>1. ~Marked(c[i]) /\ i \in 1 .. n
        BY <1>2, <1>6, <2>2
      <3>2. c[i].id = s
        BY <1>3, <3>1
      <3>3. ASSUME NEW p \in 1 .. n, p > i
            PROVE  Marked(c[p])
        <4>1. p # i
          BY <1>2, <3>3
        <4>2. c[p].id # s
          BY <1>1, <3>1, <3>2, <4>1 DEF AgeInv
        <4> QED
          BY <1>3, <4>2
      <3>4. i > i - 1
        BY <1>2
      <3>5. m - n >= i - 1 \/ 2 * (m - n) + 1 >= m
        BY <1>4, <3>1, <3>4
      <3> QED
        BY <1>1, <2>1, <3>3, <3>5 DEF Short
    <2>3. CASE ~(i <= n)
      <3>1. m - n >= i - 1 - 1 \/ 2 * (m - n) + 1 >= m
        BY <1>2, <1>4
      <3>2. 2 * (m - n) + 1 >= m
        BY <1>2, <2>3, <3>1
      <3> QED
        BY <1>1, <2>1, <3>2 DEF Short
    <2> QED
      BY <2>2, <2>3
  <1> QED
    BY <1>5, <1>6

LEMMA AgedShort ==
    ASSUME NEW a \in Seq(Card), Len(a) <= StdMax, Distinct(a), free \in Counters,
           NEW s, \A j \in 1 .. Len(a) : a[j].id # s => Marked(a[j])
    PROVE  2 * Len(Aged(a).cards) <= Len(a) + 1
  <1>1. PICK t \in [0 .. StdMax -> Table] :
            /\ \A i \in 1 .. StdMax : t[i] = RemoveSilent(t[i - 1], i)
            /\ \A i \in 0 .. StdMax : AgeInv(a, i, t[i])
            /\ t[0].cards = a /\ Aged(a) = t[StdMax]
    BY AgedTurns
  <1> DEFINE T == {m \in Nat : m <= StdMax => Short(a, m, t[m].cards)}
  <1>2. 0 \in T
    <2>1. Len(a) - Len(a) >= 0
      BY LenProperties
    <2> QED
      BY <1>1, <2>1 DEF Short
  <1>3. ASSUME NEW m \in Nat, m \in T
        PROVE  m + 1 \in T
    <2> SUFFICES ASSUME m + 1 <= StdMax PROVE Short(a, m + 1, t[m + 1].cards)
      OBVIOUS
    <2>1. PICK i \in 1 .. StdMax : i = m + 1 /\ i - 1 = m /\ i - 1 \in 0 .. StdMax
      BY SizeFacts
    <2>2. t[i] = RemoveSilent(t[i - 1], i)
      BY <1>1
    <2>3. AgeInv(a, i - 1, t[i - 1]) /\ Short(a, i - 1, t[i - 1].cards)
      BY <1>1, <1>3, <2>1
    <2>4. Short(a, i, RemoveSilent(t[i - 1], i).cards)
      BY <2>3, ShortTurn
    <2> QED
      BY <2>1, <2>2, <2>4
  <1> HIDE DEF T
  <1>4. StdMax \in T
    BY <1>2, <1>3, NatSetInduction, SizeFacts
  <1>5. Short(a, StdMax, Aged(a).cards) /\ AgeInv(a, StdMax, Aged(a))
    BY <1>1, <1>4, SizeFacts DEF T
  <1>6. PICK n, m \in Nat : n = Len(Aged(a).cards) /\ m = Len(a)
    BY <1>5, LenProperties DEF AgeInv, Table
  <1>7. n <= m /\ m <= StdMax
    BY <1>5, <1>6 DEF AgeInv
  <1>8. m - n >= StdMax \/ m - n >= StdMax - 1 \/ 2 * (m - n) + 1 >= m
    BY <1>5, <1>6 DEF Short
  <1>9. 2 * n <= m + 1
    BY <1>7, <1>8, SizeFacts
  <1> QED
    BY <1>6, <1>9

\* What ageing makes of a list: a card that stays does not move back, and it is
\* one that was found not silent unless it has moved.
Aging(a, t) ==
    /\ t \in Table /\ Len(t.cards) <= Len(a) /\ Distinct(t.cards)
    /\ \A p \in 1 .. Len(t.cards) : \E q \in 1 .. Len(a) :
          /\ t.cards[p] = a[q] /\ p <= q
          /\ q > p \/ \A j \in 1 .. q : ~Marked(a[j])
    /\ Len(t.cards) = Len(a) =>
          t.cards = a /\ t.left = free /\ \A j \in 1 .. Len(a) : ~Marked(a[j])
    /\ Len(t.cards) = 0 /\ Len(a) # 0 =>
          Len(a) = 1 /\ Marked(a[1]) /\ t.left[1] = a[1].deal

LEMMA AgedFacts ==
    ASSUME NEW a \in Seq(Card), Len(a) <= StdMax, Distinct(a), free \in Counters
    PROVE  Aging(a, Aged(a))
  <1>1. AgeInv(a, StdMax, Aged(a))
    BY AgedTurns, SizeFacts
  <1>2. PICK t : t = Aged(a)
    OBVIOUS
  <1>3. PICK n, m \in Nat : n = Len(t.cards) /\ m = Len(a) /\ n <= m /\ m <= StdMax
    BY <1>1, <1>2, LenProperties DEF AgeInv, Table
  <1>4. ASSUME NEW p \in 1 .. n
        PROVE  \E q \in 1 .. m : /\ t.cards[p] = a[q] /\ p <= q
                                 /\ q > p \/ \A j \in 1 .. q : ~Marked(a[j])
    <2>1. PICK q \in 1 .. m : CameFrom(a, StdMax, t.cards, p, q)
      BY <1>1, <1>2, <1>3 DEF AgeInv
    <2>2. p <= StdMax
      BY <1>3, SizeFacts
    <2> QED
      BY <2>1, <2>2 DEF CameFrom
  <1>5. \A j \in 1 .. m : j <= StdMax
    BY <1>3, SizeFacts
  <1> QED
    BY <1>1, <1>2, <1>3, <1>4, <1>5 DEF AgeInv, Aging, Distinct

-----------------------------------------------------------------------------
(* What a frame does to the table before it ages.                            *)

\* The slots and what is left over in the free ones.
SlotsOK == slot \in Seq(Card) /\ Len(slot) <= StdMax /\ Distinct(slot) /\ free \in Counters

LEMMA AtRoundFacts ==
    ASSUME SlotsOK
    PROVE  /\ AtRound(slot) \in Seq(Card) /\ Len(AtRound(slot)) = Len(slot)
           /\ \A k \in 1 .. Len(slot) :
                 /\ AtRound(slot)[k].id = slot[k].id
                 /\ gdeal % StdMax # 0 => AtRound(slot)[k] = slot[k]
                 /\ gdeal % StdMax = 0 => Marked(AtRound(slot)[k])
  <1>1. CASE gdeal % StdMax = 0
    <2>1. AtRound(slot) = StartRound(slot)
      BY <1>1 DEF AtRound, Round
    <2>2. slot \in Seq(Card) /\ DOMAIN slot = 1 .. Len(slot) /\ Len(slot) \in Nat
      BY DEF SlotsOK
    <2>3. \A k \in DOMAIN slot : slot[k] \in Card
      BY <2>2, ElementOfSeq
    <2>4. ASSUME NEW k \in DOMAIN slot
          PROVE  /\ [slot[k] EXCEPT !.last = slot[k].deal] \in Card
                 /\ [slot[k] EXCEPT !.last = slot[k].deal].id = slot[k].id
                 /\ Marked([slot[k] EXCEPT !.last = slot[k].deal])
      BY <2>3 DEF Card, Marked
    <2>5. /\ DOMAIN StartRound(slot) = 1 .. Len(slot)
          /\ \A k \in DOMAIN slot : StartRound(slot)[k] = [slot[k] EXCEPT !.last = slot[k].deal]
      BY <2>2 DEF StartRound
    <2>6. StartRound(slot) \in [1 .. Len(slot) -> Card]
      BY <2>2, <2>4 DEF StartRound
    <2>7. StartRound(slot) \in Seq(Card) /\ Len(StartRound(slot)) = Len(slot)
      BY <2>2, <2>6, IsASeq, LenProperties
    <2>8. ASSUME NEW k \in 1 .. Len(slot)
          PROVE  StartRound(slot)[k].id = slot[k].id /\ Marked(StartRound(slot)[k])
      <3>1. k \in DOMAIN slot
        BY <2>2
      <3>2. StartRound(slot)[k] = [slot[k] EXCEPT !.last = slot[k].deal]
        BY <2>5, <3>1
      <3> QED
        BY <2>4, <3>1, <3>2
    <2> QED
      BY <1>1, <2>1, <2>7, <2>8
  <1>2. CASE gdeal % StdMax # 0
    BY <1>2 DEF AtRound, Round, SlotsOK
  <1> QED
    BY <1>1, <1>2

LEMMA SavedCard ==
    ASSUME NEW d \in 0 .. DealMod - 1, NEW s \in Std, NEW l \in Frames[s], l # <<>>
    PROVE  /\ Saved(d, s, l) \in Card /\ Saved(d, s, l).id = s /\ Saved(d, s, l).list = l
           /\ Saved(d, s, l).last = 0
           /\ d = 0 => ~Marked(Saved(d, s, l))
  <1>1. PICK e \in 0 .. DealMod - 1 : e = (d + 1) % DealMod /\ (d = 0 => e = 1)
    BY SizeFacts
  <1>2. Saved(d, s, l) = [id |-> s, list |-> l, deal |-> e, last |-> 0]
    BY <1>1 DEF Saved
  <1>3. 0 \in 0 .. DealMod - 1
    BY SizeFacts
  <1> QED
    BY <1>1, <1>2, <1>3 DEF Card, Marked

\* The list a after the frame: the sender's card is in it, the others have stayed
\* or moved forward, and a card alone that seems silent was there alone before.
Taken(a, b, s, l) ==
    /\ a \in Seq(Card) /\ Len(a) >= 1 /\ Len(a) <= StdMax /\ Len(a) <= Len(b) + 1
    /\ Distinct(a)
    /\ \A q \in 1 .. Len(a) :
          \/ a[q].id = s /\ a[q].list = l /\ a[q].last = 0
          \/ a[q].id # s /\ \E k \in 1 .. Len(b) : q <= k /\ a[q] = b[k]
    /\ Len(a) = 1 /\ Marked(a[1]) => Len(b) = 1 /\ b[1].id = s

LEMMA TakenKnown ==
    ASSUME NEW b \in Seq(Card), Len(b) <= StdMax, Distinct(b),
           NEW s \in Std, NEW l \in Frames[s], l # <<>>, \E i \in DOMAIN b : b[i].id = s
    PROVE  Taken(SaveKnown(b, s, l), b, s, l)
  <1>1. PICK n \in Nat : n = Len(b) /\ n <= StdMax /\ DOMAIN b = 1 .. n
    BY LenProperties
  <1>2. \A i \in 1 .. n : b[i] \in Card /\ b[i].deal \in 0 .. DealMod - 1
    BY <1>1, ElementOfSeq DEF Card
  <1> DEFINE a == SaveKnown(b, s, l)
  <1>3. /\ DOMAIN a = 1 .. n
        /\ \A i \in 1 .. n : a[i] = IF b[i].id = s THEN Saved(b[i].deal, s, l) ELSE b[i]
    BY <1>1 DEF SaveKnown
  <1>4. a \in [1 .. n -> Card]
    <2>1. \A i \in 1 .. n : (IF b[i].id = s THEN Saved(b[i].deal, s, l) ELSE b[i]) \in Card
      BY <1>2, SavedCard
    <2>2. a = [i \in 1 .. n |-> IF b[i].id = s THEN Saved(b[i].deal, s, l) ELSE b[i]]
      BY <1>1 DEF SaveKnown
    <2> QED
      BY <2>1, <2>2
  <1> HIDE DEF a
  <1>5. a \in Seq(Card) /\ Len(a) = n
    BY <1>3, <1>4, IsASeq, LenProperties
  <1>6. \A i \in 1 .. n : a[i].id = b[i].id
    BY <1>2, <1>3, SavedCard
  <1>7. Distinct(a)
    BY <1>1, <1>5, <1>6 DEF Distinct
  <1>8. PICK j \in 1 .. n : b[j].id = s
    BY <1>1
  <1>9. ASSUME NEW q \in 1 .. n
        PROVE  \/ a[q].id = s /\ a[q].list = l /\ a[q].last = 0
               \/ a[q].id # s /\ \E k \in 1 .. n : q <= k /\ a[q] = b[k]
    <2>1. CASE b[q].id = s
      BY <1>2, <1>3, <2>1, SavedCard
    <2>2. CASE b[q].id # s
      <3>1. a[q] = b[q] /\ q <= q
        BY <1>3, <2>2
      <3> QED
        BY <2>2, <3>1
    <2> QED
      BY <2>1, <2>2
  <1>10. n = 1 => b[1].id = s
    BY <1>8
  <1>11. n >= 1 /\ n <= n + 1
    BY <1>8
  <1>12. Taken(a, b, s, l)
    BY <1>1, <1>5, <1>7, <1>9, <1>10, <1>11 DEF Taken
  <1> QED
    BY <1>12 DEF a

\* The card is appended to what is left of the list.
LEMMA TakenAppended ==
    ASSUME NEW b \in Seq(Card), Distinct(b), NEW s \in Std, NEW l \in Frames[s], l # <<>>,
           \A i \in 1 .. Len(b) : b[i].id # s,
           NEW d \in 0 .. DealMod - 1,
           NEW x \in Seq(Card), NEW sh \in Nat, Len(x) + sh = Len(b), Len(x) < StdMax,
           \A i \in 1 .. Len(x) : x[i] = b[i + sh],
           Len(x) = 0 => d = 0
    PROVE  Taken(Append(x, Saved(d, s, l)), b, s, l)
  <1> DEFINE c == Saved(d, s, l)
             a == Append(x, c)
  <1>1. PICK n, m \in Nat : n = Len(x) /\ m = Len(b) /\ n + sh = m /\ n < StdMax
    BY LenProperties
  <1>2. c \in Card /\ c.id = s /\ c.list = l /\ c.last = 0 /\ (d = 0 => ~Marked(c))
    BY SavedCard
  <1> HIDE DEF c
  <1>3. /\ a \in Seq(Card) /\ Len(a) = n + 1 /\ a[n + 1] = c
        /\ \A i \in 1 .. n : a[i] = x[i]
    BY <1>1, <1>2, AppendProperties
  <1> HIDE DEF a
  <1>4. \A q \in 1 .. n + 1 : q = n + 1 \/ q \in 1 .. n
    BY <1>1
  <1>5. \A q \in 1 .. n : q + sh \in 1 .. m /\ q <= q + sh /\ a[q] = b[q + sh] /\ a[q].id # s
    BY <1>1, <1>3
  <1>6. Distinct(a)
    <2> SUFFICES ASSUME NEW p \in 1 .. n + 1, NEW q \in 1 .. n + 1, a[p].id = a[q].id
                 PROVE  p = q
      BY <1>3 DEF Distinct
    <2>1. CASE p \in 1 .. n /\ q \in 1 .. n
      <3>1. b[p + sh].id = b[q + sh].id
        BY <1>5, <2>1
      <3>2. p + sh = q + sh
        BY <1>1, <1>5, <2>1, <3>1 DEF Distinct
      <3> QED
        BY <1>1, <3>2
    <2>2. CASE p = n + 1
      BY <1>2, <1>3, <1>4, <1>5, <2>2
    <2>3. CASE q = n + 1
      BY <1>2, <1>3, <1>4, <1>5, <2>3
    <2> QED
      BY <1>4, <2>1, <2>2, <2>3
  <1>7. ASSUME NEW q \in 1 .. n + 1
        PROVE  \/ a[q].id = s /\ a[q].list = l /\ a[q].last = 0
               \/ a[q].id # s /\ \E k \in 1 .. m : q <= k /\ a[q] = b[k]
    BY <1>2, <1>3, <1>4, <1>5
  <1>8. n + 1 = 1 => ~Marked(a[1])
    BY <1>1, <1>2, <1>3
  <1>9. n + 1 >= 1 /\ n + 1 <= StdMax /\ n + 1 <= m + 1
    BY <1>1, SizeFacts
  <1>10. Taken(a, b, s, l)
    BY <1>1, <1>3, <1>6, <1>7, <1>8, <1>9 DEF Taken
  <1> QED
    BY <1>10 DEF a, c

LEMMA ReceivedFacts ==
    ASSUME NEW b \in Seq(Card), Len(b) <= StdMax, Distinct(b), free \in Counters,
           Len(b) = 0 => free[1] = 0,
           NEW s \in Std, NEW l \in Frames[s], l # <<>>
    PROVE  Taken(Received(b, s, l), b, s, l)
  <1>1. PICK n \in Nat : n = Len(b) /\ n <= StdMax /\ DOMAIN b = 1 .. n
    BY LenProperties
  <1>2. CASE \E i \in DOMAIN b : b[i].id = s
    <2>1. Received(b, s, l) = SaveKnown(b, s, l)
      BY <1>2 DEF Received
    <2> QED
      BY <1>2, <2>1, TakenKnown
  <1>3. CASE ~(\E i \in DOMAIN b : b[i].id = s) /\ n < StdMax
    <2>1. Received(b, s, l) = Append(b, Saved(free[n + 1], s, l))
      BY <1>1, <1>3 DEF Received, SaveNew
    <2>2. n + 1 \in 1 .. StdMax
      BY <1>3, SizeFacts
    <2>3. PICK d \in 0 .. DealMod - 1 : d = free[n + 1]
      BY <2>2 DEF Counters
    <2>4. n = 0 => d = 0
      BY <1>1, <2>3
    <2>5. n + 0 = n /\ 0 \in Nat /\ \A i \in 1 .. n : b[i] = b[i + 0]
      OBVIOUS
    <2>6. Taken(Append(b, Saved(d, s, l)), b, s, l)
      BY <1>1, <1>3, <2>4, <2>5, TakenAppended
    <2> QED
      BY <2>1, <2>3, <2>6
  <1>4. CASE ~(\E i \in DOMAIN b : b[i].id = s) /\ ~(n < StdMax)
    <2>1. Received(b, s, l) = Append(Tail(b), Saved(0, s, l))
      BY <1>1, <1>4 DEF Received, SaveFull
    <2>2. b # <<>> /\ n >= 1
      BY <1>1, <1>4, SizeFacts
    <2>3. /\ Tail(b) \in Seq(Card) /\ Len(Tail(b)) = n - 1
          /\ \A i \in 1 .. n - 1 : Tail(b)[i] = b[i + 1]
      BY <1>1, <2>2, HeadTailProperties
    <2>4. n - 1 + 1 = n /\ 1 \in Nat /\ n - 1 < StdMax /\ 0 \in 0 .. DealMod - 1
      BY <1>1, SizeFacts
    <2>5. Taken(Append(Tail(b), Saved(0, s, l)), b, s, l)
      BY <1>1, <1>4, <2>2, <2>3, <2>4, TakenAppended
    <2> QED
      BY <2>1, <2>5
  <1> QED
    BY <1>1, <1>2, <1>3, <1>4

-----------------------------------------------------------------------------
(* The contest of several cards.                                             *)

\* What a standard card reported: the test card and its strength together.
Relation == {r \in [test : Test \cup {Junk}, std : Std, rssi : Int] :
                [test |-> r.test, rssi |-> r.rssi] \in Entries(r.std)}
Copy == [rel : {r \in Seq(Relation) : Len(r) >= 1}, n : 0 .. DealMod - 1,
         seen : BOOLEAN, stop : BOOLEAN]

LEMMA AddedType ==
    ASSUME NEW r \in Seq(Relation), NEW o \in Relation
    PROVE  Added(r, o) \in Seq(Relation) /\ Len(Added(r, o)) >= 1
  <1> DEFINE x == IF Len(r) < TestMax THEN r ELSE Tail(r)
  <1>1. x \in Seq(Relation)
    <2>1. CASE Len(r) < TestMax
      BY <2>1
    <2>2. CASE ~(Len(r) < TestMax)
      <3>1. r # <<>>
        BY <2>2, SizeFacts
      <3> QED
        BY <2>2, <3>1, HeadTailProperties
    <2> QED
      BY <2>1, <2>2
  <1>2. Added(r, o) = Append(x, o)
    BY DEF Added
  <1> HIDE DEF x
  <1>3. Append(x, o) \in Seq(Relation) /\ Len(Append(x, o)) = Len(x) + 1 /\ Len(x) \in Nat
    BY <1>1, AppendProperties, LenProperties
  <1> QED
    BY <1>2, <1>3

LEMMA CompareType ==
    ASSUME NEW o \in Relation, NEW m \in Copy, NEW k \in 1 .. TestMax
    PROVE  Compare(o, m, k) \in Copy
  <1> DEFINE same == m.rel[k].test = o.test
             seen == m.seen \/ same
  <1>1. /\ m.rel \in Seq(Relation) /\ Len(m.rel) >= 1 /\ m.n \in 0 .. DealMod - 1
        /\ m.seen \in BOOLEAN /\ m.stop \in BOOLEAN
    BY DEF Copy
  <1>2. CASE m.stop \/ k > Len(m.rel)
    <2>1. Compare(o, m, k) = m
      BY <1>2 DEF Compare
    <2> QED
      BY <2>1
  <1>3. CASE ~(m.stop \/ k > Len(m.rel)) /\ same /\ o.rssi > m.rel[k].rssi
    <2>1. k \in 1 .. Len(m.rel) /\ k <= Len(m.rel)
      BY <1>1, <1>3, SizeFacts
    <2>2. m.rel[k] \in Relation
      BY <1>1, <2>1, ElementOfSeq
    <2>3. Replaced(m.rel[k], o) = o
      BY <1>3, <2>2 DEF Replaced, Relation
    <2>4. Compare(o, m, k) = [m EXCEPT !.rel[k] = Replaced(@, o), !.stop = TRUE]
      BY <1>3, <2>1 DEF Compare
    <2>5. Compare(o, m, k) = [m EXCEPT !.rel = [m.rel EXCEPT ![k] = o], !.stop = TRUE]
      BY <1>1, <2>3, <2>4 DEF Copy
    <2>6. [m.rel EXCEPT ![k] = o] \in Seq(Relation) /\ Len([m.rel EXCEPT ![k] = o]) = Len(m.rel)
      BY <1>1, <2>1, ExceptSeq
    <2> QED
      BY <1>1, <2>5, <2>6 DEF Copy
  <1>4. CASE ~(m.stop \/ k > Len(m.rel)) /\ ~(same /\ o.rssi > m.rel[k].rssi)
    <2>1. Compare(o, m, k) = IF seen \/ o.rssi = 0 THEN [m EXCEPT !.seen = seen]
                             ELSE [m EXCEPT !.rel = Added(@, o), !.n = (@ + 1) % DealMod]
      BY <1>4 DEF Compare
    <2>2. Added(m.rel, o) \in Seq(Relation) /\ Len(Added(m.rel, o)) >= 1
      BY <1>1, AddedType
    <2>3. (m.n + 1) % DealMod \in 0 .. DealMod - 1
      BY <1>1, SizeFacts
    <2>4. seen \in BOOLEAN
      BY <1>1
    <2> HIDE DEF seen
    <2>5. [m EXCEPT !.seen = seen] \in Copy
      BY <1>1, <2>4 DEF Copy
    <2>6. [m EXCEPT !.rel = Added(@, o), !.n = (@ + 1) % DealMod] \in Copy
      BY <1>1, <2>2, <2>3 DEF Copy
    <2> QED
      BY <2>1, <2>5, <2>6
  <1> QED
    BY <1>2, <1>3, <1>4

LEMMA MergedType ==
    ASSUME NEW m \in Copy, NEW o \in Relation
    PROVE  Merged(m, o) \in Copy
  <1> DEFINE b == [m EXCEPT !.seen = FALSE, !.stop = FALSE]
             g == [y \in Copy \X (1 .. TestMax) |-> Compare(o, y[1], y[2])]
             x[k \in 0 .. TestMax] == IF k = 0 THEN b ELSE Compare(o, x[k - 1], k)
  <1>1. b \in Copy
    BY DEF Copy
  <1>2. g \in [Copy \X (1 .. TestMax) -> Copy]
    BY CompareType
  <1>3. PICK f \in [0 .. TestMax -> Copy] : IsLoop(f, b, g, TestMax)
    <2> HIDE DEF b, g
    <2> QED
      BY <1>1, <1>2, SizeFacts, LoopExists
  <1>4. \A k \in 1 .. TestMax : k - 1 \in 0 .. TestMax /\ k # 0
    BY SizeFacts
  <1>5. f[0] = b /\ \A k \in 1 .. TestMax : f[k] = Compare(o, f[k - 1], k)
    BY <1>3, <1>4 DEF IsLoop
  <1>6. f = [k \in 0 .. TestMax |-> IF k = 0 THEN b ELSE Compare(o, f[k - 1], k)]
    <2>1. \A k \in 0 .. TestMax : k = 0 \/ k \in 1 .. TestMax
      BY SizeFacts
    <2> HIDE DEF b
    <2> QED
      BY <1>3, <1>5, <2>1
  <1>7. x = [k \in 0 .. TestMax |-> IF k = 0 THEN b ELSE Compare(o, x[k - 1], k)]
    <2> HIDE DEF b
    <2>1. \E u : u = [k \in 0 .. TestMax |-> IF k = 0 THEN b ELSE Compare(o, u[k - 1], k)]
      BY <1>6
    <2> QED
      BY <2>1
  <1>8. Merged(m, o) = x[TestMax]
    BY DEF Merged
  <1> HIDE DEF x
  <1> HIDE DEF b
  <1>9. x[0] = b /\ \A k \in 1 .. TestMax : x[k] = Compare(o, x[k - 1], k)
    <2>1. 0 \in 0 .. TestMax /\ \A k \in 1 .. TestMax : k \in 0 .. TestMax
      BY SizeFacts
    <2> QED
      BY <1>4, <1>7, <2>1
  <1>10. \A k \in 0 .. TestMax : x[k] \in Copy
    <2>1. ASSUME NEW k \in 1 .. TestMax, x[k - 1] \in Copy
          PROVE  x[k] \in Copy
      BY <1>9, <2>1, CompareType
    <2> QED
      BY <1>1, <1>9, <2>1, SizeFacts, LoopStays
  <1> QED
    BY <1>8, <1>10, SizeFacts

LEMMA MergedAllType ==
    ASSUME NEW m \in Copy, NEW r \in Seq(Relation)
    PROVE  MergedAll(m, r) \in Copy
  <1> DEFINE g == [y \in Copy \X (1 .. Len(r)) |-> Merged(y[1], r[y[2]])]
             x[j \in 0 .. Len(r)] == IF j = 0 THEN m ELSE Merged(x[j - 1], r[j])
  <1>1. Len(r) \in Nat /\ \A j \in 1 .. Len(r) : r[j] \in Relation
    BY LenProperties, ElementOfSeq
  <1>2. g \in [Copy \X (1 .. Len(r)) -> Copy]
    BY <1>1, MergedType
  <1>3. PICK f \in [0 .. Len(r) -> Copy] : IsLoop(f, m, g, Len(r))
    <2> HIDE DEF g
    <2> QED
      BY <1>1, <1>2, LoopExists
  <1>4. \A j \in 1 .. Len(r) : j - 1 \in 0 .. Len(r) /\ j # 0
    BY <1>1
  <1>5. f[0] = m /\ \A j \in 1 .. Len(r) : f[j] = Merged(f[j - 1], r[j])
    BY <1>3, <1>4 DEF IsLoop
  <1>6. f = [j \in 0 .. Len(r) |-> IF j = 0 THEN m ELSE Merged(f[j - 1], r[j])]
    <2>1. \A j \in 0 .. Len(r) : j = 0 \/ j \in 1 .. Len(r)
      BY <1>1
    <2> QED
      BY <1>3, <1>5, <2>1
  <1>7. x = [j \in 0 .. Len(r) |-> IF j = 0 THEN m ELSE Merged(x[j - 1], r[j])]
    <2>1. \E u : u = [j \in 0 .. Len(r) |-> IF j = 0 THEN m ELSE Merged(u[j - 1], r[j])]
      BY <1>6
    <2> QED
      BY <2>1
  <1>8. MergedAll(m, r) = x[Len(r)]
    BY DEF MergedAll
  <1> HIDE DEF x
  <1>9. x[0] = m /\ \A j \in 1 .. Len(r) : x[j] = Merged(x[j - 1], r[j])
    BY <1>1, <1>4, <1>7
  <1>10. \A j \in 0 .. Len(r) : x[j] \in Copy
    <2>1. ASSUME NEW j \in 1 .. Len(r), x[j - 1] \in Copy
          PROVE  x[j] \in Copy
      BY <1>1, <1>9, <2>1, MergedType
    <2> QED
      BY <1>1, <1>9, <2>1, LoopStays
  <1> QED
    BY <1>1, <1>8, <1>10

LEMMA RelationsOfType ==
    ASSUME NEW c \in Card
    PROVE  /\ RelationsOf(c) \in Seq(Relation) /\ Len(RelationsOf(c)) = Len(c.list)
           /\ Len(c.list) >= 1 /\ Len(c.list) <= TestMax
           /\ \A k \in 1 .. Len(c.list) : RelationsOf(c)[k].std = c.id
  <1>1. c.id \in Std /\ c.list \in Frames[c.id] /\ c.list # <<>>
    BY DEF Card
  <1>2. c.list \in Seq(Entries(c.id)) /\ Len(c.list) <= TestMax
    BY <1>1, FramesAssumption
  <1>3. Len(c.list) \in Nat /\ Len(c.list) >= 1 /\ DOMAIN c.list = 1 .. Len(c.list)
    BY <1>1, <1>2, LenProperties
  <1>4. ASSUME NEW e \in Entries(c.id)
        PROVE  [test |-> e.test, std |-> c.id, rssi |-> e.rssi] \in Relation
    <2>1. e \in [test : Test \cup {Junk}, rssi : Int]
      BY <1>1, LevelAssumption DEF Entries
    <2>2. e = [test |-> e.test, rssi |-> e.rssi]
      BY <2>1
    <2> QED
      BY <1>1, <1>4, <2>1, <2>2 DEF Relation
  <1>5. \A j \in 1 .. Len(c.list) : c.list[j] \in Entries(c.id)
    BY <1>2, ElementOfSeq
  <1>6. /\ RelationsOf(c) \in [1 .. Len(c.list) -> Relation]
        /\ \A k \in 1 .. Len(c.list) : RelationsOf(c)[k].std = c.id
    BY <1>3, <1>4, <1>5 DEF RelationsOf
  <1> QED
    BY <1>2, <1>3, <1>6, IsASeq, LenProperties

LEMMA ContestType ==
    ASSUME NEW a \in Seq(Card), Len(a) >= 1, rel \in Seq(Relation), changes \in 0 .. DealMod - 1
    PROVE  Contest(a) \in Copy
  <1> DEFINE b == [rel |-> IF rel = <<>> THEN RelationsOf(a[1]) ELSE rel,
                   n |-> changes, seen |-> FALSE, stop |-> FALSE]
             g == [y \in Copy \X (1 .. Len(a)) |-> MergedAll(y[1], RelationsOf(a[y[2]]))]
             x[i \in 0 .. Len(a)] == IF i = 0 THEN b ELSE MergedAll(x[i - 1], RelationsOf(a[i]))
  <1>1. /\ Len(a) \in Nat
        /\ \A i \in 1 .. Len(a) : RelationsOf(a[i]) \in Seq(Relation) /\ Len(RelationsOf(a[i])) >= 1
    BY LenProperties, ElementOfSeq, RelationsOfType
  <1>2. b \in Copy
    <2>1. rel # <<>> => Len(rel) >= 1
      BY LenProperties
    <2>2. 1 \in 1 .. Len(a)
      BY <1>1
    <2>3. (IF rel = <<>> THEN RelationsOf(a[1]) ELSE rel) \in {r \in Seq(Relation) : Len(r) >= 1}
      BY <1>1, <2>1, <2>2
    <2> QED
      BY <2>3 DEF Copy
  <1>3. g \in [Copy \X (1 .. Len(a)) -> Copy]
    BY <1>1, MergedAllType
  <1>4. PICK f \in [0 .. Len(a) -> Copy] : IsLoop(f, b, g, Len(a))
    <2> HIDE DEF b, g
    <2> QED
      BY <1>1, <1>2, <1>3, LoopExists
  <1>5. \A i \in 1 .. Len(a) : i - 1 \in 0 .. Len(a) /\ i # 0
    BY <1>1
  <1>6. f[0] = b /\ \A i \in 1 .. Len(a) : f[i] = MergedAll(f[i - 1], RelationsOf(a[i]))
    BY <1>4, <1>5 DEF IsLoop
  <1>7. f = [i \in 0 .. Len(a) |-> IF i = 0 THEN b ELSE MergedAll(f[i - 1], RelationsOf(a[i]))]
    <2>1. \A i \in 0 .. Len(a) : i = 0 \/ i \in 1 .. Len(a)
      BY <1>1
    <2> HIDE DEF b
    <2> QED
      BY <1>4, <1>6, <2>1
  <1>8. x = [i \in 0 .. Len(a) |-> IF i = 0 THEN b ELSE MergedAll(x[i - 1], RelationsOf(a[i]))]
    <2> HIDE DEF b
    <2>1. \E u : u = [i \in 0 .. Len(a) |-> IF i = 0 THEN b ELSE MergedAll(u[i - 1], RelationsOf(a[i]))]
      BY <1>7
    <2> QED
      BY <2>1
  <1>9. Contest(a) = x[Len(a)]
    BY DEF Contest
  <1> HIDE DEF x
  <1> HIDE DEF b
  <1>10. x[0] = b /\ \A i \in 1 .. Len(a) : x[i] = MergedAll(x[i - 1], RelationsOf(a[i]))
    <2>1. 0 \in 0 .. Len(a) /\ \A i \in 1 .. Len(a) : i \in 0 .. Len(a)
      BY <1>1
    <2> QED
      BY <1>5, <1>8, <2>1
  <1>11. \A i \in 0 .. Len(a) : x[i] \in Copy
    <2>1. ASSUME NEW i \in 1 .. Len(a), x[i - 1] \in Copy
          PROVE  x[i] \in Copy
      BY <1>1, <1>10, <2>1, MergedAllType
    <2> QED
      BY <1>1, <1>2, <1>10, <2>1, LoopStays
  <1> QED
    BY <1>1, <1>9, <1>11

\* Only the first relation of the copy gets into the table.
LEMMA PublishedType ==
    ASSUME rel \in Seq(Relation), NEW m \in Copy
    PROVE  Published(m) \in Seq(Relation) /\ Len(Published(m)) = Len(rel)
  <1>1. CASE rel = <<>>
    BY <1>1 DEF Published
  <1>2. CASE rel # <<>>
    <2>1. 1 \in 1 .. Len(rel)
      BY <1>2, LenProperties
    <2>2. m.rel \in Seq(Relation) /\ 1 \in 1 .. Len(m.rel)
      <3>1. m.rel \in Seq(Relation) /\ Len(m.rel) >= 1 /\ Len(m.rel) \in Nat
        BY LenProperties DEF Copy
      <3> QED
        BY <3>1
    <2>3. m.rel[1] \in Relation
      BY <2>2, ElementOfSeq
    <2>4. Published(m) = [rel EXCEPT ![1] = m.rel[1]]
      BY <1>2 DEF Published
    <2> QED
      BY <2>1, <2>3, <2>4, ExceptSeq
  <1> QED
    BY <1>1, <1>2

-----------------------------------------------------------------------------
(* Every frame.                                                              *)

\* An empty table is one whose only card has counted its frames to 0 again.
SelectInv ==
    /\ SlotsOK
    /\ rel \in Seq(Relation) /\ Len(rel) <= TestMax
    /\ changes = 0 /\ gdeal \in 0 .. DealMod - 1
    /\ streak \in [std : Std \cup {NoStd}, n : Nat] /\ silent \in [Std -> Nat]
    /\ Len(slot) = 1 => rel = RelationsOf(slot[1])
    /\ Len(slot) = 0 => free[1] = 0 /\ \A k \in 1 .. Len(rel) : rel[k].std = streak.std
    /\ \A i \in 1 .. Len(slot) : slot[i].id # streak.std => silent[slot[i].id] >= streak.n

\* What AtRound makes of the slots.
Marking(b) ==
    /\ b \in Seq(Card) /\ Len(b) = Len(slot)
    /\ \A k \in 1 .. Len(slot) :
          /\ b[k].id = slot[k].id
          /\ gdeal % StdMax # 0 => b[k] = slot[k]
          /\ gdeal % StdMax = 0 => Marked(b[k])

\* A frame of s with the list l: the slots are marked at the start of a round
\* (b), the frame is saved (a), the list ages (t), the relations follow.
FrameStages(b, a, t, s, l) ==
    /\ Marking(b) /\ Taken(a, b, s, l) /\ Aging(a, t)
    /\ slot' = t.cards /\ free' = t.left /\ changes' = 0
    /\ gdeal % StdMax = 0 => 2 * Len(t.cards) <= Len(a) + 1
    /\ Len(slot') = 0 => rel' = rel
    /\ Len(slot') = 1 => rel' = RelationsOf(slot'[1])
    /\ Len(slot') > 1 => rel' \in Seq(Relation) /\ Len(rel') = Len(rel)

LEMMA FrameStagesExist ==
    ASSUME SelectInv, NEW s \in Std, NEW l \in Frames[s], Receive(s, l)
    PROVE  \E b, a, t : FrameStages(b, a, t, s, l)
  <1>1. l # <<>> /\ Select(Aged(Received(AtRound(slot), s, l)))
    BY DEF Receive
  <1>2. PICK b : b = AtRound(slot)
    OBVIOUS
  <1>3. Marking(b)
    BY <1>2, AtRoundFacts DEF SelectInv, Marking
  <1>4. PICK a : a = Received(b, s, l)
    OBVIOUS
  <1>5. Taken(a, b, s, l)
    <2>1. slot \in Seq(Card) /\ Len(slot) <= StdMax /\ Distinct(slot) /\ free \in Counters
      BY DEF SelectInv, SlotsOK
    <2>2. Distinct(b) /\ b \in Seq(Card) /\ Len(b) <= StdMax
      BY <1>3, <2>1 DEF Distinct, Marking
    <2>3. Len(b) = 0 => free[1] = 0
      BY <1>3 DEF SelectInv, Marking
    <2> QED
      BY <1>1, <1>4, <2>1, <2>2, <2>3, ReceivedFacts
  <1>6. PICK t : t = Aged(a)
    OBVIOUS
  <1>7. a \in Seq(Card) /\ Len(a) <= StdMax /\ Distinct(a) /\ free \in Counters
    BY <1>5 DEF Taken, SelectInv, SlotsOK
  <1>8. Aging(a, t)
    BY <1>6, <1>7, AgedFacts
  <1>9. gdeal % StdMax = 0 => 2 * Len(t.cards) <= Len(a) + 1
    <2> SUFFICES ASSUME gdeal % StdMax = 0 PROVE 2 * Len(t.cards) <= Len(a) + 1
      OBVIOUS
    <2>1. \A j \in 1 .. Len(a) : a[j].id # s => Marked(a[j])
      BY <1>3, <1>5 DEF Taken, Marking
    <2> QED
      BY <1>6, <1>7, <2>1, AgedShort
  <1>10. Select(t)
    BY <1>1, <1>2, <1>4, <1>6
  <1>11. PICK n \in Nat : n = Len(t.cards)
    BY <1>8, LenProperties DEF Aging, Table
  <1>12. t.cards = <<>> <=> n = 0
    BY <1>8, <1>11, EmptySeq DEF Aging, Table
  <1>13. ~(PublishedChanges(Contest(t.cards)) >= StdMax)
    BY SizeFacts DEF PublishedChanges, SelectInv
  <1>14. slot' = t.cards /\ free' = t.left
    BY <1>10, <1>13 DEF Select
  <1>15. changes' = 0
    BY <1>10, <1>13 DEF Select, PublishedChanges, SelectInv
  <1>16. n = 0 => rel' = rel
    BY <1>10, <1>12 DEF Select
  <1>17. n = 1 => rel' = RelationsOf(t.cards[1])
    BY <1>10, <1>11, <1>12 DEF Select
  <1>18. n > 1 => rel' \in Seq(Relation) /\ Len(rel') = Len(rel)
    <2> SUFFICES ASSUME n > 1 PROVE rel' \in Seq(Relation) /\ Len(rel') = Len(rel)
      OBVIOUS
    <2>1. rel' = Published(Contest(t.cards))
      <3>1. n # 0 /\ n # 1
        OBVIOUS
      <3>2. t.cards # <<>> /\ Len(t.cards) # 1
        BY <1>11, <1>12, <3>1, Zenon
      <3>3. rel' = CASE t.cards = <<>> -> rel
                     [] Len(t.cards) = 1 -> RelationsOf(t.cards[1])
                     [] OTHER -> Published(Contest(t.cards))
        BY <1>10, Zenon DEF Select
      <3> QED
        BY <3>2, <3>3
    <2>2. t.cards \in Seq(Card) /\ Len(t.cards) >= 1
      BY <1>8, <1>11 DEF Aging, Table
    <2>3. rel \in Seq(Relation) /\ changes \in 0 .. DealMod - 1
      BY SizeFacts DEF SelectInv
    <2>4. Contest(t.cards) \in Copy
      BY <2>2, <2>3, ContestType
    <2> QED
      BY <2>1, <2>3, <2>4, PublishedType
  <1>19. FrameStages(b, a, t, s, l)
    BY <1>3, <1>5, <1>8, <1>9, <1>11, <1>14, <1>15, <1>16, <1>17, <1>18 DEF FrameStages
  <1> QED
    BY <1>19

\* A card in the table after the frame is the sender's, or one that was there
\* before, at k, and has not moved back.
Survivor(b, a, s, p, q, k) ==
    /\ p <= q /\ q <= k /\ slot'[p] = a[q] /\ a[q] = b[k] /\ slot[k].id = slot'[p].id
    /\ q > p \/ \A j \in 1 .. q : ~Marked(a[j])
    /\ silent'[slot'[p].id] = silent[slot[k].id] + 1

LEMMA Survivors ==
    ASSUME SelectInv, NEW s \in Std, NEW l \in Frames[s], Receive(s, l),
           NEW b, NEW a, NEW t, FrameStages(b, a, t, s, l), NEW p \in 1 .. Len(slot')
    PROVE  /\ slot'[p] \in Card
           /\ \/ slot'[p].id = s /\ silent'[s] = 0
              \/ slot'[p].id # s /\ \E q \in 1 .. Len(a), k \in 1 .. Len(slot) : Survivor(b, a, s, p, q, k)
  <1>1. slot' \in Seq(Card) /\ DOMAIN slot' = 1 .. Len(slot') /\ slot' = t.cards
    <2>1. slot' = t.cards /\ t.cards \in Seq(Card)
      BY DEF FrameStages, Aging, Table
    <2> QED
      BY <2>1, LenProperties
  <1>2. PICK d : d = slot'[p].id
    OBVIOUS
  <1>3. slot'[p] \in Card /\ d \in Std
    <2>1. slot'[p] \in Card
      BY <1>1, ElementOfSeq
    <2> QED
      BY <1>2, <2>1 DEF Card
  <1>4. d \in {slot'[i].id : i \in DOMAIN slot'}
    BY <1>1, <1>2
  <1>5. silent' = [c \in Std |-> IF c = s \/ c \notin {slot'[i].id : i \in DOMAIN slot'} THEN 0
                                 ELSE silent[c] + 1]
    BY DEF Receive
  <1>6. silent'[d] = IF d = s THEN 0 ELSE silent[d] + 1
    BY <1>3, <1>4, <1>5
  <1>7. CASE d = s
    BY <1>2, <1>3, <1>6, <1>7
  <1>8. CASE d # s
    <2>1. PICK q \in 1 .. Len(a) : /\ slot'[p] = a[q] /\ p <= q
                                   /\ q > p \/ \A j \in 1 .. q : ~Marked(a[j])
      BY <1>1 DEF FrameStages, Aging
    <2>2. PICK k \in 1 .. Len(b) : q <= k /\ a[q] = b[k]
      BY <1>2, <1>8, <2>1 DEF FrameStages, Taken
    <2>3. k \in 1 .. Len(slot) /\ slot[k].id = d
      BY <1>2, <2>1, <2>2 DEF FrameStages, Marking
    <2>4. silent'[slot'[p].id] = silent[slot[k].id] + 1
      BY <1>2, <1>6, <1>8, <2>3
    <2>5. Survivor(b, a, s, p, q, k)
      BY <1>2, <2>1, <2>2, <2>3, <2>4 DEF Survivor
    <2> QED
      BY <1>2, <1>3, <1>8, <2>3, <2>5
  <1> QED
    BY <1>7, <1>8

LEMMA SelectInvInit ==
    ASSUME SelectInit
    PROVE  SelectInv
  <1>1. slot = <<>> /\ rel = <<>> /\ Len(slot) = 0 /\ Len(rel) = 0
    BY DEF SelectInit
  <1>2. slot \in Seq(Card) /\ rel \in Seq(Relation)
    BY <1>1
  <1>3. \A i \in 1 .. 0 : FALSE
    OBVIOUS
  <1>4. free \in Counters /\ free[1] = 0 /\ 0 \in 0 .. DealMod - 1
    BY SizeFacts DEF SelectInit, Counters
  <1>5. SlotsOK
    BY <1>1, <1>2, <1>3, <1>4, SizeFacts DEF SlotsOK, Distinct
  <1>6. streak \in [std : Std \cup {NoStd}, n : Nat] /\ silent \in [Std -> Nat]
    BY DEF SelectInit
  <1> QED
    BY <1>1, <1>2, <1>3, <1>4, <1>5, <1>6, SizeFacts DEF SelectInv, SelectInit

LEMMA SelectInvStep ==
    ASSUME SelectInv, NEW s \in Std, NEW l \in Frames[s], Receive(s, l)
    PROVE  SelectInv'
  <1>1. PICK b, a, t : FrameStages(b, a, t, s, l)
    BY FrameStagesExist
  <1>2. /\ slot' \in Seq(Card) /\ Len(slot') <= StdMax /\ Distinct(slot') /\ free' \in Counters
        /\ Len(slot') \in Nat
    <2>1. slot' = t.cards /\ free' = t.left /\ t \in Table /\ Distinct(t.cards)
      BY <1>1 DEF FrameStages, Aging
    <2>2. t.cards \in Seq(Card) /\ Len(t.cards) <= StdMax /\ t.left \in Counters
      BY <2>1 DEF Table
    <2> QED
      BY <2>1, <2>2, LenProperties
  <1>3. streak' \in [std : Std \cup {NoStd}, n : Nat] /\ streak'.std = s
    BY DEF Receive, SelectInv
  <1>4. gdeal' \in 0 .. DealMod - 1
    <2>1. gdeal' = (gdeal + 1) % DealMod /\ gdeal \in 0 .. DealMod - 1
      BY DEF Receive, SelectInv
    <2> QED
      BY <2>1, SizeFacts
  <1>5. silent' \in [Std -> Nat]
    <2>1. silent' = [c \in Std |-> IF c = s \/ c \notin {slot'[i].id : i \in DOMAIN slot'} THEN 0
                                   ELSE silent[c] + 1]
      BY DEF Receive
    <2>2. \A c \in Std : silent[c] + 1 \in Nat
      BY DEF SelectInv
    <2> QED
      BY <2>1, <2>2
  <1>6. Len(slot') = 0 => /\ free'[1] = 0 /\ rel' = rel
                          /\ \A k \in 1 .. Len(rel) : rel[k].std = s
    <2> SUFFICES ASSUME Len(slot') = 0
                 PROVE  free'[1] = 0 /\ rel' = rel /\ \A k \in 1 .. Len(rel) : rel[k].std = s
      OBVIOUS
    <2>1. rel' = rel
      BY <1>1 DEF FrameStages
    <2>2. Len(a) = 1 /\ Marked(a[1]) /\ free'[1] = a[1].deal
      <3>1. Len(t.cards) = 0 /\ free' = t.left
        BY <1>1 DEF FrameStages
      <3>2. Len(a) # 0
        BY <1>1 DEF FrameStages, Taken
      <3> QED
        BY <1>1, <3>1, <3>2 DEF FrameStages, Aging
    <2>3. Len(slot) = 1 /\ slot[1].id = s
      <3>1. Len(b) = 1 /\ b[1].id = s
        BY <1>1, <2>2 DEF FrameStages, Taken
      <3> QED
        BY <1>1, <3>1 DEF FrameStages, Marking
    <2>4. free'[1] = 0
      <3>1. a[1].last = 0
        <4>1. 1 \in 1 .. Len(a)
          BY <2>2
        <4>2. \/ a[1].id = s /\ a[1].list = l /\ a[1].last = 0
              \/ a[1].id # s /\ \E k \in 1 .. Len(b) : a[1] = b[k]
          BY <1>1, <4>1 DEF FrameStages, Taken
        <4>3. \A k \in 1 .. Len(b) : b[k].id = s
          BY <1>1, <2>3 DEF FrameStages, Marking
        <4> QED
          BY <4>2, <4>3
      <3> QED
        BY <2>2, <3>1 DEF Marked
    <2>5. \A k \in 1 .. Len(rel) : rel[k].std = s
      <3>1. rel = RelationsOf(slot[1])
        BY <2>3 DEF SelectInv
      <3>2. slot[1] \in Card
        <4>1. slot \in Seq(Card) /\ 1 \in 1 .. Len(slot)
          BY <2>3 DEF SelectInv, SlotsOK
        <4> QED
          BY <4>1, ElementOfSeq
      <3> QED
        BY <2>3, <3>1, <3>2, RelationsOfType
    <2> QED
      BY <2>1, <2>4, <2>5
  <1>7. Len(slot') = 1 => /\ rel' = RelationsOf(slot'[1])
                          /\ rel' \in Seq(Relation) /\ Len(rel') <= TestMax
    <2> SUFFICES ASSUME Len(slot') = 1
                 PROVE  /\ rel' = RelationsOf(slot'[1])
                        /\ rel' \in Seq(Relation) /\ Len(rel') <= TestMax
      OBVIOUS
    <2>1. rel' = RelationsOf(slot'[1])
      BY <1>1 DEF FrameStages
    <2>2. slot'[1] \in Card
      <3>1. 1 \in 1 .. Len(slot')
        OBVIOUS
      <3> QED
        BY <1>2, <3>1, ElementOfSeq
    <2> QED
      BY <2>1, <2>2, RelationsOfType
  <1>8. rel' \in Seq(Relation) /\ Len(rel') <= TestMax
    <2>1. rel \in Seq(Relation) /\ Len(rel) <= TestMax
      BY DEF SelectInv
    <2>2. PICK n \in Nat : n = Len(slot')
      BY <1>2
    <2>3. n = 0 => rel' = rel
      BY <1>6, <2>2
    <2>4. n = 1 => rel' \in Seq(Relation) /\ Len(rel') <= TestMax
      BY <1>7, <2>2
    <2>5. n > 1 => rel' \in Seq(Relation) /\ Len(rel') = Len(rel)
      BY <1>1, <2>2 DEF FrameStages
    <2>6. n = 0 \/ n = 1 \/ n > 1
      BY <2>2
    <2> QED
      BY <2>1, <2>3, <2>4, <2>5, <2>6
  <1>9. ASSUME NEW p \in 1 .. Len(slot'), slot'[p].id # s
        PROVE  silent'[slot'[p].id] >= streak'.n
    <2>1. PICK q \in 1 .. Len(a), k \in 1 .. Len(slot) : Survivor(b, a, s, p, q, k)
      BY <1>1, <1>9, Survivors
    <2>2. slot[k].id # s /\ silent'[slot'[p].id] = silent[slot[k].id] + 1
      BY <1>9, <2>1 DEF Survivor
    <2>3. slot[k].id \in Std
      <3>1. slot[k] \in Card
        BY ElementOfSeq DEF SelectInv, SlotsOK
      <3> QED
        BY <3>1 DEF Card
    <2>4. PICK m \in Nat : m = silent[slot[k].id]
      BY <2>3 DEF SelectInv
    <2>5. PICK n \in Nat : n = streak.n
      BY DEF SelectInv
    <2>6. streak.std # s \/ m >= n
      BY <2>2, <2>4, <2>5 DEF SelectInv
    <2>7. streak'.n = IF streak.std # s THEN 1 ELSE IF n < StreakMax THEN n + 1 ELSE n
      BY <2>5 DEF Receive
    <2>8. PICK r : r = streak'.n
      OBVIOUS
    <2>9. r = 1 \/ (m >= n /\ (r = n + 1 \/ r = n))
      BY <2>6, <2>7, <2>8
    <2>10. m + 1 >= r
      BY <2>9
    <2> QED
      BY <2>2, <2>4, <2>8, <2>10
  <1>10. changes' = 0
    BY <1>1 DEF FrameStages
  <1>11. /\ Len(slot') = 0 => free'[1] = 0 /\ \A k \in 1 .. Len(rel') : rel'[k].std = streak'.std
         /\ Len(slot') = 1 => rel' = RelationsOf(slot'[1])
    BY <1>3, <1>6, <1>7
  <1>12. \A i \in 1 .. Len(slot') : slot'[i].id # streak'.std => silent'[slot'[i].id] >= streak'.n
    BY <1>3, <1>9
  <1> QED
    BY <1>2, <1>3, <1>4, <1>5, <1>8, <1>10, <1>11, <1>12 DEF SelectInv, SlotsOK, Distinct, RelationsOf

LEMMA SelectInvNext ==
    ASSUME SelectInv, [SelectNext]_selectVars
    PROVE  SelectInv'
  <1>1. CASE SelectNext
    BY <1>1, SelectInvStep DEF SelectNext
  <1>2. CASE UNCHANGED selectVars
    BY <1>2 DEF selectVars, SelectInv, SlotsOK, Distinct, RelationsOf
  <1> QED
    BY <1>1, <1>2

LEMMA SelectInvImpliesType ==
    ASSUME SelectInv
    PROVE  SelectTypeOK
  <1> DEFINE Lists == UNION {Entries(s) : s \in Std}
             C == [id : Std, list : Seq(Lists), deal : 0 .. DealMod - 1, last : 0 .. DealMod - 1]
  <1>1. ASSUME NEW c \in Card
        PROVE  c \in C
    <2>1. /\ c \in [id : Std, list : UNION {Frames[s] : s \in Std},
                    deal : 0 .. DealMod - 1, last : 0 .. DealMod - 1]
          /\ c.id \in Std /\ c.list \in Frames[c.id]
      BY DEF Card
    <2>2. c.list \in Seq(Entries(c.id))
      BY <2>1, FramesAssumption
    <2>3. Entries(c.id) \subseteq Lists
      BY <2>1, Zenon
    <2>4. c.list \in Seq(Lists)
      <3> HIDE DEF Lists
      <3>1. Len(c.list) \in Nat /\ c.list \in [1 .. Len(c.list) -> Entries(c.id)]
        BY <2>2, LenProperties
      <3>2. c.list \in [1 .. Len(c.list) -> Lists]
        BY <2>3, <3>1
      <3> QED
        BY <2>2, <2>3, <3>1, <3>2
    <2> HIDE DEF Lists
    <2> QED
      BY <2>1, <2>4
  <1>2. slot \in Seq(C)
    <2> HIDE DEF C
    <2>1. slot \in Seq(Card) /\ Len(slot) \in Nat /\ slot \in [1 .. Len(slot) -> Card]
      BY LenProperties DEF SelectInv, SlotsOK
    <2>2. slot \in [1 .. Len(slot) -> C]
      BY <1>1, <2>1
    <2> QED
      BY <2>1, <2>2
  <1>3. \A i, j \in DOMAIN slot : slot[i].id = slot[j].id => i = j
    BY LenProperties DEF SelectInv, SlotsOK, Distinct
  <1>4. changes \in 0 .. DealMod - 1
    BY SizeFacts DEF SelectInv
  <1> QED
    BY <1>2, <1>3, <1>4 DEF SelectTypeOK, SelectInv, SlotsOK, Counters

LEMMA SelectInvariant == SelectSpec => []SelectInv
  BY SelectInvInit, SelectInvNext, PTL DEF SelectSpec

\* The counts stay in their arrays and no standard card ever has two slots: the
\* uint8 counters and the slots of TdoaInstSaveStdCardMsgProc, whatever the cards
\* report.
THEOREM SelectTypes == SelectSpec => []SelectTypeOK
  BY SelectInvariant, SelectInvImpliesType, PTL

\* Every relation of the better-select table is one its standard card reported: no
\* overwriting, ageing, contest or partial copy combines parts of two reports.
THEOREM OnlyReported == SelectSpec => []RelationsReal
  <1>1. ASSUME SelectInv
        PROVE  RelationsReal
    <2>1. rel \in Seq(Relation) /\ DOMAIN rel = 1 .. Len(rel)
      BY <1>1, LenProperties DEF SelectInv
    <2>2. \A k \in DOMAIN rel : rel[k] \in Relation
      BY <2>1, ElementOfSeq
    <2> QED
      BY <2>2 DEF RelationsReal, Relation
  <1> QED
    BY <1>1, SelectInvariant, PTL

-----------------------------------------------------------------------------
(* A card that has fallen silent leaves.                                     *)

\* After c receptions of a round: a marked card, or any before the round, has
\* advanced a place with each frame it was silent; the others sent in this round.
AgesOK(c) ==
    /\ \A i \in 1 .. Len(slot) :
          /\ Marked(slot[i]) \/ c = 0 => silent[slot[i].id] + i <= StdMax + 1
          /\ ~Marked(slot[i]) /\ c # 0 => silent[slot[i].id] < c
          /\ ~Marked(slot[i]) /\ c >= 2 => silent[slot[i].id] + i <= c + 1
    /\ c = 1 => Len(slot) <= 3 /\ \E x \in Std : \A i \in 1 .. Len(slot) : slot[i].id # x => Marked(slot[i])
    /\ c >= 2 => Len(slot) <= c + 1

LEMMA RoundStep ==
    ASSUME StdMax <= 6, NEW g \in 0 .. DealMod - 1
    PROVE  /\ g % StdMax \in 0 .. StdMax - 1
           /\ \/ ((g + 1) % DealMod) % StdMax = 0
              \/ ((g + 1) % DealMod) % StdMax = (g % StdMax) + 1
  <1>1. PICK n \in 1 .. 6 : n = StdMax
    BY SizeFacts
  <1>2. (g + 1) % DealMod = 0 \/ (g + 1) % DealMod = g + 1
    BY SizeFacts
  <1>3. g \in Nat
    BY SizeFacts
  <1>4. ASSUME NEW h \in Nat
        PROVE  h % n \in 0 .. n - 1 /\ 0 % n = 0 /\ ((h + 1) % n = 0 \/ (h + 1) % n = (h % n) + 1)
    <2>1. n = 1 \/ n = 2 \/ n = 3 \/ n = 4 \/ n = 5 \/ n = 6
      BY <1>1
    <2>2. CASE n = 1
      BY <2>2
    <2>3. CASE n = 2
      BY <2>3
    <2>4. CASE n = 3
      BY <2>4
    <2>5. CASE n = 4
      BY <2>5
    <2>6. CASE n = 5
      BY <2>6
    <2>7. CASE n = 6
      BY <2>7
    <2> QED
      BY <2>1, <2>2, <2>3, <2>4, <2>5, <2>6, <2>7
  <1> QED
    BY <1>1, <1>2, <1>3, <1>4

\* Two cards that are not silent after the first reception of a round: one of
\* them is the sender's.
LEMMA OneUnmarked ==
    ASSUME NEW b, NEW a, NEW t, NEW s, NEW l, FrameStages(b, a, t, s, l), gdeal % StdMax = 1,
           NEW y, \A i \in 1 .. Len(slot) : slot[i].id # y => Marked(slot[i])
    PROVE  \A j \in 1 .. Len(a) : ~Marked(a[j]) => a[j].id = s \/ a[j].id = y
  <1> TAKE j \in 1 .. Len(a)
  <1> SUFFICES ASSUME ~Marked(a[j]), a[j].id # s PROVE a[j].id = y
    OBVIOUS
  <1>1. PICK k \in 1 .. Len(b) : a[j] = b[k]
    BY DEF FrameStages, Taken
  <1>2. k \in 1 .. Len(slot) /\ b[k] = slot[k]
    BY <1>1 DEF FrameStages, Marking
  <1> QED
    BY <1>1, <1>2

\* The table shrinks at the start of a round and grows by a card a frame.
LEMMA LengthOfRound ==
    ASSUME SelectInv, StdMax <= 6, NEW c \in 0 .. StdMax - 1, c = gdeal % StdMax, AgesOK(c),
           NEW s \in Std, NEW l \in Frames[s], NEW b, NEW a, NEW t, FrameStages(b, a, t, s, l)
    PROVE  /\ c <= 1 => Len(slot') <= 3
           /\ c >= 2 => Len(slot') <= c + 2
           /\ Len(slot') <= StdMax
  <1>1. PICK n \in Nat : n = Len(slot')
    <2>1. slot' \in Seq(Card)
      BY DEF FrameStages, Aging, Table
    <2> QED
      BY <2>1, LenProperties
  <1>2. PICK m \in Nat : m = Len(a) /\ n <= m /\ m <= StdMax
    <2>1. a \in Seq(Card) /\ Len(slot') <= Len(a) /\ Len(a) <= StdMax
      BY DEF FrameStages, Taken, Aging
    <2> QED
      BY <1>1, <2>1, LenProperties
  <1>3. PICK o \in Nat : o = Len(slot) /\ m <= o + 1
    <2>1. slot \in Seq(Card) /\ Len(a) <= Len(slot) + 1
      BY DEF FrameStages, Taken, Marking, SelectInv, SlotsOK
    <2> QED
      BY <1>2, <2>1, LenProperties
  <1>4. PICK w \in Nat : w = StdMax /\ w <= 6
    BY SizeFacts
  <1>5. c = 0 => n <= 3
    <2>1. c = 0 => 2 * n <= m + 1
      BY <1>1, <1>2 DEF FrameStages
    <2> QED
      BY <1>1, <1>2, <1>4, <2>1
  <1>6. c >= 2 => n <= c + 2
    <2>1. c >= 2 => o <= c + 1
      BY <1>3 DEF AgesOK
    <2> QED
      BY <1>2, <1>3, <2>1, SizeFacts
  <1>7. c = 1 => n <= 3
    <2> SUFFICES ASSUME c = 1, ~(n <= 3) PROVE FALSE
      OBVIOUS
    <2>1. o <= 3
      BY <1>3 DEF AgesOK
    <2>2. n = 4 /\ m = 4
      BY <1>2, <1>3, <2>1
    <2>3. PICK x \in Std : \A i \in 1 .. Len(slot) : slot[i].id # x => Marked(slot[i])
      BY DEF AgesOK
    <2>4. \A j \in 1 .. 4 : ~Marked(a[j])
      BY <1>1, <1>2, <2>2 DEF FrameStages, Aging
    <2>5. \A j \in 1 .. 4 : a[j].id = s \/ a[j].id = x
      <3>1. gdeal % StdMax = 1
        OBVIOUS
      <3>2. \A j \in 1 .. Len(a) : ~Marked(a[j]) => a[j].id = s \/ a[j].id = x
        BY <2>3, <3>1, OneUnmarked
      <3> QED
        BY <1>2, <2>2, <2>4, <3>2
    <2>6. \A i, j \in 1 .. 4 : a[i].id = a[j].id => i = j
      BY <1>2, <2>2 DEF FrameStages, Taken, Distinct
    <2>7. 1 \in 1 .. 4 /\ 2 \in 1 .. 4 /\ 3 \in 1 .. 4
      OBVIOUS
    <2> QED
      BY <2>5, <2>6, <2>7
  <1> QED
    BY <1>1, <1>2, <1>5, <1>6, <1>7, SizeFacts

\* The bounds of a card that stays, d its card number.
LEMMA SurvivorAges ==
    ASSUME SelectInv, StdMax <= 6, NEW c \in 0 .. StdMax - 1, c = gdeal % StdMax, AgesOK(c),
           NEW e, e = 0 \/ e = c + 1,
           NEW s \in Std, NEW l \in Frames[s], NEW b, NEW a, NEW t, FrameStages(b, a, t, s, l),
           NEW p \in 1 .. Len(slot'), slot'[p].id # s,
           NEW q \in 1 .. Len(a), NEW k \in 1 .. Len(slot), Survivor(b, a, s, p, q, k)
    PROVE  /\ silent'[slot'[p].id] \in Nat
           /\ Marked(slot'[p]) \/ e = 0 => silent'[slot'[p].id] + p <= StdMax + 1
           /\ ~Marked(slot'[p]) /\ e # 0 => silent'[slot'[p].id] < e
           /\ ~Marked(slot'[p]) /\ e >= 2 => silent'[slot'[p].id] + p <= e + 1
           /\ c = 0 => Marked(slot'[p])
  <1>1. /\ slot'[p] = a[q] /\ a[q] = b[k] /\ slot[k].id = slot'[p].id
        /\ q > p \/ \A j \in 1 .. q : ~Marked(a[j])
        /\ silent'[slot'[p].id] = silent[slot[k].id] + 1
    BY DEF Survivor
  <1>2. slot \in Seq(Card) /\ slot[k] \in Card /\ slot[k].id \in Std
    <2>1. slot \in Seq(Card)
      BY DEF SelectInv, SlotsOK
    <2>2. slot[k] \in Card
      BY <2>1, ElementOfSeq
    <2> QED
      BY <2>1, <2>2 DEF Card
  <1>3. PICK z \in Nat : z = silent[slot[k].id]
    BY <1>2 DEF SelectInv
  <1>4. silent'[slot'[p].id] = z + 1
    BY <1>1, <1>3
  <1>5. PICK w \in Nat : w = StdMax /\ w <= 6 /\ c \in Nat /\ c <= w - 1
    BY SizeFacts
  <1>6. Len(a) \in Nat /\ Len(slot) \in Nat /\ Len(slot') \in Nat
    <2>1. a \in Seq(Card) /\ slot' \in Seq(Card)
      BY DEF FrameStages, Taken, Aging, Table
    <2> QED
      BY <1>2, <2>1, LenProperties
  <1>7. p \in Nat /\ q \in Nat /\ k \in Nat /\ p >= 1 /\ p <= q /\ q <= k
    BY <1>6 DEF Survivor
  <1>8. PICK o \in Nat : o = Len(slot) /\ k <= o
    BY <1>6
  <1>9. PICK n \in Nat : n = Len(slot') /\ p <= n /\ n <= w /\ (c <= 1 => n <= 3)
    <2>1. Len(slot') <= StdMax /\ (c <= 1 => Len(slot') <= 3)
      BY LengthOfRound
    <2> QED
      BY <1>5, <1>6, <2>1
  <1>10. Marked(slot'[p]) => p + 1 <= k
    <2>1. Marked(slot'[p]) => q > p
      <3>1. q \in 1 .. q
        BY <1>7
      <3> QED
        BY <1>1, <3>1
    <2> QED
      BY <1>7, <2>1
  <1>11. /\ Marked(slot[k]) \/ c = 0 => z + k <= w + 1
         /\ ~Marked(slot[k]) /\ c # 0 => z < c
         /\ ~Marked(slot[k]) /\ c >= 2 => z + k <= c + 1
    BY <1>3, <1>5 DEF AgesOK
  <1>12. ASSUME c = 1, NEW x \in Std,
                \A i \in 1 .. Len(slot) : slot[i].id # x => Marked(slot[i])
         PROVE  \A j \in 1 .. Len(a) : ~Marked(a[j]) => a[j].id = s \/ a[j].id = x
    <2> SUFFICES ASSUME NEW j \in 1 .. Len(a), ~Marked(a[j]), a[j].id # s PROVE a[j].id = x
      OBVIOUS
    <2>1. gdeal % StdMax = 1
      BY <1>12
    <2>2. PICK i \in 1 .. Len(b) : a[j] = b[i]
      BY DEF FrameStages, Taken
    <2>3. i \in 1 .. Len(slot) /\ b[i] = slot[i]
      BY <2>1, <2>2 DEF FrameStages, Marking
    <2> QED
      BY <1>12, <2>2, <2>3
  <1>13. CASE c = 0
    <2>1. Marked(slot'[p])
      <3>1. gdeal % StdMax = 0
        BY <1>13
      <3> QED
        BY <1>1, <3>1 DEF FrameStages, Marking
    <2>2. z + 1 + p <= w + 1
      BY <1>5, <1>7, <1>10, <1>11, <1>13, <2>1
    <2> QED
      BY <1>4, <1>5, <2>1, <2>2
  <1>14. CASE c # 0
    <2>1. slot'[p] = slot[k]
      <3>1. gdeal % StdMax # 0
        BY <1>14
      <3> QED
        BY <1>1, <3>1 DEF FrameStages, Marking
    <2>2. CASE Marked(slot'[p])
      <3>1. z + k <= w + 1
        BY <1>11, <2>1, <2>2
      <3>2. z + 1 + p <= w + 1
        BY <1>5, <1>7, <1>10, <2>2, <3>1
      <3> QED
        BY <1>4, <1>5, <1>14, <2>2, <3>2
    <2>3. CASE ~Marked(slot'[p])
      <3>1. z < c /\ (c >= 2 => z + k <= c + 1)
        BY <1>11, <1>14, <2>1, <2>3
      <3>2. c = 1 => p <= 2
        <4> SUFFICES ASSUME c = 1, p = 3 PROVE FALSE
          BY <1>7, <1>9
        <4>1. o <= 3
          BY <1>8 DEF AgesOK
        <4>2. q = 3 /\ k = 3
          BY <1>7, <1>8, <4>1
        <4>3. \A j \in 1 .. 3 : ~Marked(a[j])
          BY <1>1, <4>2
        <4>4. PICK x \in Std : \A i \in 1 .. Len(slot) : slot[i].id # x => Marked(slot[i])
          BY DEF AgesOK
        <4>5. slot[k].id = x
          BY <2>1, <2>3, <4>4
        <4>6. a[3].id = x /\ \A j \in 1 .. 3 : j \in 1 .. Len(a)
          BY <1>1, <1>6, <4>2, <4>5
        <4>7. \A j \in 1 .. 3 : a[j].id = s \/ a[j].id = x
          <5>1. \A j \in 1 .. Len(a) : ~Marked(a[j]) => a[j].id = s \/ a[j].id = x
            BY <1>12, <4>4
          <5> QED
            BY <4>3, <4>6, <5>1
        <4>8. \A i, j \in 1 .. 3 : a[i].id = a[j].id => i = j
          BY <4>6 DEF FrameStages, Taken, Distinct
        <4>9. 1 \in 1 .. 3 /\ 2 \in 1 .. 3 /\ 3 \in 1 .. 3
          OBVIOUS
        <4> QED
          BY <4>6, <4>7, <4>8, <4>9
      <3>3. e = 0 => z + 1 + p <= w + 1
        <4>1. CASE c = 1
          <5>1. z = 0 /\ p <= 2 /\ p <= w /\ p \in Nat
            BY <1>7, <1>9, <3>1, <3>2, <4>1
          <5>2. w >= 2
            BY <1>5, <4>1
          <5> QED
            BY <5>1, <5>2
        <4>2. CASE c >= 2
          BY <1>5, <1>7, <3>1, <4>2
        <4> QED
          BY <1>5, <1>14, <4>1, <4>2
      <3>4. z + 1 < c + 1 /\ z + 1 + p <= c + 1 + 1
        <4>1. z + 1 < c + 1
          BY <1>5, <3>1
        <4>2. CASE c = 1
          <5>1. z = 0 /\ p <= 2 /\ p \in Nat
            BY <1>7, <3>1, <3>2, <4>2
          <5>2. z + 1 + p <= 3
            BY <5>1
          <5> QED
            BY <4>1, <4>2, <5>2
        <4>3. CASE c >= 2
          <5>1. z + k <= c + 1 /\ p <= k /\ p \in Nat /\ k \in Nat
            BY <1>7, <3>1, <4>3
          <5>2. z + 1 + p <= c + 1 + 1
            BY <1>5, <5>1
          <5> QED
            BY <4>1, <5>2
        <4>4. c = 1 \/ c >= 2
          BY <1>5, <1>14
        <4> QED
          BY <4>2, <4>3, <4>4
      <3> QED
        BY <1>4, <1>5, <1>14, <2>3, <3>3, <3>4
    <2> QED
      BY <2>2, <2>3
  <1> QED
    BY <1>13, <1>14

LEMMA AgesStep ==
    ASSUME SelectInv, StdMax <= 6, AgesOK(gdeal % StdMax),
           NEW s \in Std, NEW l \in Frames[s], Receive(s, l)
    PROVE  AgesOK(gdeal % StdMax)'
  <1>1. PICK b, a, t : FrameStages(b, a, t, s, l)
    BY FrameStagesExist
  <1>2. PICK c \in 0 .. StdMax - 1 : c = gdeal % StdMax
    BY RoundStep DEF SelectInv
  <1>3. PICK e \in Nat : e = gdeal' % StdMax /\ (e = 0 \/ e = c + 1)
    <2>1. gdeal' = (gdeal + 1) % DealMod /\ gdeal \in 0 .. DealMod - 1
      BY DEF Receive, SelectInv
    <2>2. PICK g : g = (gdeal + 1) % DealMod
      OBVIOUS
    <2>3. g % StdMax = 0 \/ g % StdMax = c + 1
      BY <1>2, <2>1, <2>2, RoundStep
    <2>4. c + 1 \in Nat /\ 0 \in Nat
      BY SizeFacts
    <2> QED
      BY <2>1, <2>2, <2>3, <2>4
  <1>4. AgesOK(c)
    BY <1>2
  <1>5. PICK w \in Nat : w = StdMax /\ w <= 6 /\ c \in Nat /\ c <= w - 1
    BY SizeFacts
  <1>6. PICK n \in Nat : n = Len(slot') /\ (c <= 1 => n <= 3) /\ (c >= 2 => n <= c + 2) /\ n <= w
    <2>1. slot' \in Seq(Card)
      BY <1>1 DEF FrameStages, Aging, Table
    <2>2. Len(slot') \in Nat
      BY <2>1, LenProperties
    <2> QED
      BY <1>1, <1>2, <1>4, <1>5, <2>2, LengthOfRound
  <1>7. ASSUME NEW p \in 1 .. n
        PROVE  /\ Marked(slot'[p]) \/ e = 0 => silent'[slot'[p].id] + p <= w + 1
               /\ ~Marked(slot'[p]) /\ e # 0 => silent'[slot'[p].id] < e
               /\ ~Marked(slot'[p]) /\ e >= 2 => silent'[slot'[p].id] + p <= e + 1
               /\ c = 0 /\ slot'[p].id # s => Marked(slot'[p])
    <2>1. CASE slot'[p].id = s
      <3>1. silent'[slot'[p].id] = 0
        BY <1>1, <1>6, <2>1, Survivors
      <3>2. p \in Nat /\ p <= n
        BY <1>6
      <3>3. 0 + p <= w + 1
        BY <1>5, <1>6, <3>2
      <3>4. e # 0 => 0 < e
        BY <1>3
      <3>5. e >= 2 => 0 + p <= e + 1
        BY <1>3, <1>5, <1>6, <3>2
      <3> QED
        BY <2>1, <3>1, <3>3, <3>4, <3>5
    <2>2. CASE slot'[p].id # s
      <3>1. PICK q \in 1 .. Len(a), k \in 1 .. Len(slot) : Survivor(b, a, s, p, q, k)
        BY <1>1, <1>6, <2>2, Survivors
      <3> QED
        BY <1>1, <1>2, <1>3, <1>4, <1>5, <1>6, <2>2, <3>1, SurvivorAges
    <2> QED
      BY <2>1, <2>2
  <1>8. e = 1 => n <= 3 /\ \E x \in Std : \A i \in 1 .. n : slot'[i].id # x => Marked(slot'[i])
    <2> SUFFICES ASSUME e = 1
                 PROVE  n <= 3 /\ \A i \in 1 .. n : slot'[i].id # s => Marked(slot'[i])
      OBVIOUS
    <2>1. c = 0
      BY <1>3, <1>5
    <2> QED
      BY <1>6, <1>7, <2>1
  <1>9. e >= 2 => n <= e + 1
    BY <1>3, <1>5, <1>6
  <1> QED
    BY <1>3, <1>5, <1>6, <1>7, <1>8, <1>9 DEF AgesOK, Marked

AgesInv == SelectInv /\ AgesOK(gdeal % StdMax)

LEMMA AgesInvInit ==
    ASSUME StdMax <= 6, SelectInit
    PROVE  AgesInv
  <1>1. SelectInv
    BY SelectInvInit
  <1>2. slot = <<>> /\ Len(slot) = 0 /\ gdeal = 0
    BY DEF SelectInit
  <1>3. 0 % StdMax = 0
    <2>1. PICK n \in 1 .. 6 : n = StdMax
      BY SizeFacts
    <2> QED
      BY <2>1
  <1>4. AgesOK(0)
    <2>1. \A i \in 1 .. 0 : FALSE
      OBVIOUS
    <2> QED
      BY <1>2, <2>1 DEF AgesOK
  <1> QED
    BY <1>1, <1>2, <1>3, <1>4 DEF AgesInv

LEMMA AgesInvNext ==
    ASSUME StdMax <= 6, AgesInv, [SelectNext]_selectVars
    PROVE  AgesInv'
  <1>1. SelectInv'
    BY SelectInvNext DEF AgesInv
  <1>2. CASE SelectNext
    BY <1>1, <1>2, AgesStep DEF AgesInv, SelectNext
  <1>3. CASE UNCHANGED selectVars
    BY <1>1, <1>3 DEF AgesInv, AgesOK, Marked, selectVars
  <1> QED
    BY <1>2, <1>3

LEMMA AgesInvImplies ==
    ASSUME StdMax <= 6, AgesInv
    PROVE  SilentCardLeaves
  <1>1. slot \in Seq(Card) /\ Len(slot) \in Nat /\ DOMAIN slot = 1 .. Len(slot)
    BY LenProperties DEF AgesInv, SelectInv, SlotsOK
  <1>2. PICK c \in 0 .. StdMax - 1 : c = gdeal % StdMax
    BY RoundStep DEF AgesInv, SelectInv
  <1>3. ASSUME NEW i \in 1 .. Len(slot)
        PROVE  silent[slot[i].id] <= StdMax
    <2>1. slot[i] \in Card
      BY <1>1, ElementOfSeq
    <2>2. slot[i].id \in Std
      BY <2>1 DEF Card
    <2>3. PICK z \in Nat : z = silent[slot[i].id]
      BY <2>2 DEF AgesInv, SelectInv
    <2>4. Marked(slot[i]) \/ c = 0 => z + i <= StdMax + 1
      BY <1>2, <2>3 DEF AgesInv, AgesOK
    <2>5. ~Marked(slot[i]) /\ c # 0 => z < c
      BY <1>2, <2>3 DEF AgesInv, AgesOK
    <2>6. z <= StdMax
      BY <1>1, <2>4, <2>5, SizeFacts
    <2> QED
      BY <2>3, <2>6
  <1> QED
    BY <1>1, <1>3 DEF SilentCardLeaves, Stored

\* A card silent for a whole round is stored no longer, although the ageing loop
\* skips the card behind each one it removes and the uint8 counters wrap: for
\* every number of frames, with the code's table of five cards or any up to six.
THEOREM SilentCardsGo ==
    ASSUME StdMax <= 6
    PROVE  SelectSpec => []SilentCardLeaves
  BY AgesInvInit, AgesInvNext, AgesInvImplies, PTL DEF SelectSpec

\* When one card alone is heard for a round and one frame more it decides for every
\* test card: the others have left the table, and the relations are its own.
THEOREM LoneCardAlone ==
    ASSUME StdMax <= 6
    PROVE  SelectSpec => []LoneCardDecides
  <1>1. ASSUME AgesInv, SilentCardLeaves
        PROVE  LoneCardDecides
    <2> SUFFICES ASSUME streak.n > StdMax,
                        NEW t \in Test, NEW s \in Std, Chosen(t, s)
                 PROVE  s = streak.std
      BY DEF LoneCardDecides
    <2>1. slot \in Seq(Card) /\ Len(slot) \in Nat /\ DOMAIN slot = 1 .. Len(slot) /\ Distinct(slot)
      BY <1>1, LenProperties DEF AgesInv, SelectInv, SlotsOK
    <2>2. \A i \in 1 .. Len(slot) : slot[i].id = streak.std
      <3> SUFFICES ASSUME NEW i \in 1 .. Len(slot), slot[i].id # streak.std PROVE FALSE
        OBVIOUS
      <3>1. slot[i] \in Card
        BY <2>1, ElementOfSeq
      <3>2. slot[i].id \in Std
        BY <3>1 DEF Card
      <3>3. PICK z \in Nat : z = silent[slot[i].id]
        BY <1>1, <3>2 DEF AgesInv, SelectInv
      <3>4. PICK n \in Nat : n = streak.n
        BY <1>1 DEF AgesInv, SelectInv
      <3>5. z >= n
        BY <1>1, <3>3, <3>4 DEF AgesInv, SelectInv
      <3>6. z <= StdMax
        BY <1>1, <2>1, <3>3 DEF SilentCardLeaves, Stored
      <3> QED
        BY <3>3, <3>4, <3>5, <3>6, SizeFacts
    <2>3. PICK n \in Nat : n = Len(slot)
      BY <2>1
    <2>4. n = 0 \/ n = 1
      <3> SUFFICES ASSUME n >= 2 PROVE FALSE
        BY <2>3
      <3>1. 1 \in 1 .. n /\ 2 \in 1 .. n
        BY <2>3
      <3>2. 1 = 2
        BY <2>1, <2>2, <2>3, <3>1 DEF Distinct
      <3> QED
        BY <3>2
    <2>5. \A k \in 1 .. Len(rel) : rel[k].std = streak.std
      <3>1. CASE n = 0
        BY <1>1, <2>3, <3>1 DEF AgesInv, SelectInv
      <3>2. CASE n = 1
        <4>1. rel = RelationsOf(slot[1]) /\ 1 \in 1 .. Len(slot)
          BY <1>1, <2>3, <3>2 DEF AgesInv, SelectInv
        <4>2. slot[1] \in Card /\ slot[1].id = streak.std
          BY <2>1, <2>2, <4>1, ElementOfSeq
        <4> QED
          BY <4>1, <4>2, RelationsOfType
      <3> QED
        BY <2>4, <3>1, <3>2
    <2>6. DOMAIN rel = 1 .. Len(rel)
      BY <1>1, LenProperties DEF AgesInv, SelectInv
    <2> QED
      BY <2>5, <2>6 DEF Chosen
  <1> QED
    BY <1>1, AgesInvInit, AgesInvNext, AgesInvImplies, PTL DEF SelectSpec

=============================================================================
