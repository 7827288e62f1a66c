------------------------- MODULE CardTransmitProofs -------------------------
(* Proofs about CardTransmit, for all cards, strengths and sizes.            *)
EXTENDS CardTransmit, TLAPS

Entry == [test : Cards, rssi : Levels]
Distinct(l) == \A i, j \in DOMAIN l : l[i].test = l[j].test => i = j

ListOK == list \in Seq(Entry) /\ Len(list) <= TestMax /\ Distinct(list)

\* The level in the registers belongs to a reception once there is a frame; what
\* is about to be saved is a card's address and a strength.
FrameOK ==
    /\ rx # NoCard => level \in Levels
    /\ pc = "save" => rx \in Cards /\ rssi \in Levels

\* Each entry written took a RAGING, each RAGING a reception: "credits" are the
\* entries that can still be written without another reception.
Credits == (IF raging THEN 1 ELSE 0) + (IF pc \in {"run", "save"} THEN 1 ELSE 0)
CountOK ==
    /\ saved \in Nat /\ deal = saved
    /\ saved + Credits <= TestMax + heard
    /\ list = <<>> => saved = 0

\* Where an undisturbed frame is on its way to the list.
AloneOK ==
    alone # Nothing =>
        /\ rx = alone.test /\ level = alone.rssi /\ rx \in Test
        /\ alone = [test |-> rx, rssi |-> level]
        /\ pc = "idle" /\ raging => state = "wait"
        /\ pc = "run" => state = "wait"
        /\ pc = "save" => rssi = level
        /\ pc \in {"done", "unset"} \/ (pc = "idle" /\ ~raging)
              => \E j \in DOMAIN list : list[j] = alone

IInv == TypeOK /\ FrameOK /\ CountOK /\ AloneOK /\ seq = air.seq

-----------------------------------------------------------------------------
(* TdoaInstSaveTestTagRssiProc keeps the list short and free of duplicates,  *)
(* and the card it saves is in it with its strength.                         *)
LEMMA WrittenOK ==
    ASSUME ListOK, NEW id \in Cards, rssi \in Levels
    PROVE  /\ Written(id) \in Seq(Entry)
           /\ Len(Written(id)) <= TestMax
           /\ Distinct(Written(id))
           /\ Len(Written(id)) # 0
           /\ \E j \in DOMAIN Written(id) : Written(id)[j] = [test |-> id, rssi |-> rssi]
<1> DEFINE e == [test |-> id, rssi |-> rssi]
<1>0. e \in Entry /\ TestMax \in Nat \ {0} /\ Len(list) \in Nat
  BY SizesAssumption DEF Entry, ListOK
<1>a. /\ DOMAIN list = 1 .. Len(list)
      /\ \A j \in 1 .. Len(list) : list[j] \in [test : Cards, rssi : Levels]
  <2>1. DOMAIN list = 1 .. Len(list) /\ \A j \in 1 .. Len(list) : list[j] \in Entry
    BY DEF ListOK
  <2> QED
    BY <2>1 DEF Entry
<1>1. CASE Positions(id) # {}
  <2> DEFINE new == [j \in DOMAIN list |->
                       IF j \in Positions(id) THEN [list[j] EXCEPT !.rssi = rssi] ELSE list[j]]
  <2>1. Written(id) = new
    BY <1>1 DEF Written
  <2>2. new \in Seq(Entry) /\ Len(new) = Len(list) /\ DOMAIN new = DOMAIN list
    <3>1. \A j \in 1 .. Len(list) : [list[j] EXCEPT !.rssi = rssi] \in [test : Cards, rssi : Levels]
      BY <1>a
    <3>2. \A j \in 1 .. Len(list) : new[j] \in Entry
      BY <3>1, <1>a DEF Entry
    <3> QED
      BY <3>2, <1>a, <1>0
  <2>3. \A j \in DOMAIN list : new[j].test = list[j].test
    BY DEF ListOK, Entry
  <2>4. Distinct(new)
    BY <2>2, <2>3 DEF Distinct, ListOK
  <2>5. PICK j \in DOMAIN list : list[j].test = id
    BY <1>1 DEF Positions
  <2>6. new[j] = e
    <3>1. j \in Positions(id) /\ new[j] = [list[j] EXCEPT !.rssi = rssi]
      BY <2>5 DEF Positions
    <3>2. list[j] \in [test : Cards, rssi : Levels]
      BY <1>a
    <3> QED
      BY <3>1, <3>2, <2>5
  <2> HIDE DEF new
  <2> QED
    BY <2>1, <2>2, <2>4, <2>5, <2>6 DEF ListOK
<1>2. CASE Positions(id) = {} /\ Len(list) < TestMax
  <2>1. Written(id) = Append(list, e)
    BY <1>2 DEF Written
  <2>2. \A j \in 1 .. Len(list) : list[j].test # id
    BY <1>2 DEF Positions, ListOK
  <2> DEFINE new == Append(list, e)
  <2>3. /\ new \in Seq(Entry) /\ Len(new) = Len(list) + 1
        /\ DOMAIN new = 1 .. Len(list) + 1 /\ new[Len(list) + 1] = e
        /\ \A j \in 1 .. Len(list) : new[j] = list[j]
    BY <1>0 DEF ListOK
  <2>4. Distinct(new)
    BY <2>2, <2>3, <1>0 DEF Distinct, ListOK
  <2> HIDE DEF new
  <2>5. Len(list) + 1 \in DOMAIN new /\ Len(new) # 0 /\ Len(new) <= TestMax
    BY <2>3, <1>0, <1>2
  <2>6. \E j \in DOMAIN new : new[j] = e
    BY <2>3, <2>5
  <2>7. Written(id) = new
    BY <2>1 DEF new
  <2> QED
    BY <2>3, <2>4, <2>5, <2>6, <2>7
<1>3. CASE Positions(id) = {} /\ ~(Len(list) < TestMax)
  <2> DEFINE new == Append(Tail(list), e)
  <2>1. Written(id) = new /\ Len(list) = TestMax
    BY <1>3, <1>0 DEF Written, ListOK
  <2>2. \A j \in 1 .. Len(list) : list[j].test # id
    BY <1>3 DEF Positions, ListOK
  <2>3. /\ Tail(list) \in Seq(Entry) /\ Len(Tail(list)) = Len(list) - 1
        /\ \A j \in 1 .. Len(list) - 1 : Tail(list)[j] = list[j + 1]
    BY <2>1, <1>0 DEF ListOK
  <2>4. /\ new \in Seq(Entry) /\ Len(new) = Len(list)
        /\ DOMAIN new = 1 .. Len(list) /\ new[Len(list)] = e
        /\ \A j \in 1 .. Len(list) - 1 : new[j] = list[j + 1]
    BY <1>0, <2>3
  <2> HIDE DEF new
  <2>5. Distinct(new)
    <3> SUFFICES ASSUME NEW i \in 1 .. Len(list), NEW j \in 1 .. Len(list), new[i].test = new[j].test
                 PROVE  i = j
      BY <2>4 DEF Distinct
    <3>1. CASE i < Len(list) /\ j < Len(list)
      <4>1. i \in 1 .. Len(list) - 1 /\ j \in 1 .. Len(list) - 1
        BY <3>1, <1>0
      <4>2. list[i + 1].test = list[j + 1].test
        BY <4>1, <2>4
      <4>a. i + 1 \in DOMAIN list /\ j + 1 \in DOMAIN list
        BY <4>1, <1>a, <1>0
      <4>3. i + 1 = j + 1
        BY <4>a, <4>2 DEF ListOK, Distinct
      <4> QED
        BY <4>1, <4>3, <1>0
    <3>2. CASE i = Len(list) /\ j < Len(list)
      BY <3>2, <2>2, <2>4, <1>0
    <3>3. CASE i < Len(list) /\ j = Len(list)
      BY <3>3, <2>2, <2>4, <1>0
    <3> QED
      BY <3>1, <3>2, <3>3, <1>0
  <2> QED
    BY <2>1, <2>4, <2>5, <1>0
<1> QED
  BY <1>1, <1>2, <1>3

\* With the type invariant the list is what WrittenOK asks for, and so is the
\* entry to be written.
LEMMA ListIsOK == ASSUME TypeOK PROVE ListOK
  BY DEF TypeOK, ListOK, Entry, Distinct

LEMMA ClearedOK ==
    ASSUME ListOK
    PROVE  /\ <<>> \in Seq(Entry) /\ Len(<<>>) <= TestMax /\ Distinct(<<>>)
           /\ TagOf(list) = tag \/ TagOf(list) \in 0 .. TestMax
           /\ Len(list) \in 0 .. TestMax
  BY SizesAssumption DEF ListOK, Distinct, TagOf

-----------------------------------------------------------------------------
(* The inductive invariant.                                                  *)

LEMMA InitIInv == Init => IInv
<1> SUFFICES ASSUME Init PROVE IInv
  OBVIOUS
<1>1. TypeOK
  <2>1. list \in Seq(Entry) /\ Len(list) = 0 /\ DOMAIN list = {}
    BY DEF Init
  <2>2. list \in Seq([test : Cards, rssi : Levels])
    BY <2>1 DEF Entry
  <2>3. \A i, j \in DOMAIN list : list[i].test = list[j].test => i = j
    BY <2>1
  <2>4. air \in [seq : 0 .. SeqMod - 1, tag : 0 .. TestMax, entries : 0 .. TestMax]
    BY SizesAssumption DEF Init
  <2>5. /\ 0 <= TestMax /\ 0 \in 0 .. DealMod - 1 /\ 0 \in 0 .. TestMax
        /\ 0 \in 0 .. SeqMod - 1 /\ 0 \in 0 .. PerPoll
    BY SizesAssumption
  <2> QED
    BY <2>1, <2>2, <2>3, <2>4, <2>5 DEF Init, TypeOK
<1>2. FrameOK /\ AloneOK /\ seq = air.seq
  BY DEF Init, FrameOK, AloneOK, Nothing
<1>3. CountOK
  BY SizesAssumption DEF Init, CountOK, Credits
<1> QED
  BY <1>1, <1>2, <1>3 DEF IInv

LEMMA RxGoodIInv ==
    ASSUME IInv, NEW l \in Levels, NEW id \in Cards, RxGood(id, l)
    PROVE  IInv'
<1>1. TypeOK'
  BY SizesAssumption DEF IInv, TypeOK, RxGood, GoodState, storeVars, sendVars
<1>2. FrameOK'
  BY DEF IInv, FrameOK, RxGood, storeVars, sendVars
<1>3. CountOK'
  BY SizesAssumption DEF IInv, TypeOK, CountOK, Credits, RxGood, storeVars, sendVars
<1>4. AloneOK'
  BY DEF AloneOK, RxGood, GoodState, Nothing, storeVars, sendVars
<1> QED
  BY <1>1, <1>2, <1>3, <1>4 DEF IInv, RxGood, sendVars

LEMMA RxFailIInv ==
    ASSUME IInv, NEW l \in Levels, RxFail(l)
    PROVE  IInv'
<1>1. TypeOK'
  BY SizesAssumption DEF IInv, TypeOK, RxFail, storeVars, sendVars
<1>2. FrameOK'
  BY DEF IInv, FrameOK, RxFail, storeVars, sendVars
<1>3. CountOK'
  BY SizesAssumption DEF IInv, TypeOK, CountOK, Credits, RxFail, storeVars, sendVars
<1>4. AloneOK'
  BY DEF AloneOK, RxFail, Nothing, storeVars, sendVars
<1> QED
  BY <1>1, <1>2, <1>3, <1>4 DEF IInv, RxFail, sendVars

\* A poll that clears the list also starts the count anew; one that does not has
\* fewer than TestMax entries written behind it.
LEMMA PollIInv ==
    ASSUME IInv, NEW ok \in BOOLEAN, Poll(ok)
    PROVE  IInv'
<1>1. TypeOK /\ CountOK /\ ListOK
  BY ListIsOK DEF IInv
<1>2. ListOK' /\ tag' \in 0 .. TestMax /\ Len(list) \in 0 .. TestMax
  <2>1. list' = list \/ list' = <<>>
    BY DEF Poll
  <2>2. tag' \in 0 .. TestMax
    BY <1>1, ClearedOK DEF Poll, TypeOK
  <2> QED
    BY <1>1, <2>1, <2>2, ClearedOK DEF ListOK, Distinct
<1>3. seq' \in 0 .. SeqMod - 1 /\ (seq + 1) % SeqMod \in 0 .. SeqMod - 1 /\ seq' = air'.seq
  BY <1>1, SizesAssumption DEF IInv, TypeOK, Poll, SeqAfter
<1>4. TypeOK'
  <2>1. deal' \in 0 .. DealMod - 1
    BY <1>1, SizesAssumption DEF TypeOK, Poll
  <2>2. air' \in [seq : 0 .. SeqMod - 1, tag : 0 .. TestMax, entries : 0 .. TestMax]
    BY <1>1, <1>2, <1>3 DEF TypeOK, Poll
  <2>3. heard' \in 0 .. PerPoll
    BY SizesAssumption DEF Poll
  <2> QED
    BY <1>1, <1>2, <1>3, <2>1, <2>2, <2>3 DEF TypeOK, Poll, ListOK, Entry, Distinct
<1>5. FrameOK'
  BY DEF IInv, FrameOK, Poll
<1>6. CountOK'
  <2>1. CASE Clear
    BY <2>1, SizesAssumption DEF Poll, CountOK, Credits
  <2>2. CASE ~Clear
    <3>1. saved < TestMax
      BY <1>1, <2>2, SizesAssumption DEF CountOK, Clear, Full
    <3> QED
      BY <1>1, <2>2, <3>1, SizesAssumption DEF Poll, CountOK, Credits
  <2> QED
    BY <2>1, <2>2
<1>7. AloneOK'
  BY DEF IInv, AloneOK, Poll, Nothing
<1> QED
  BY <1>3, <1>4, <1>5, <1>6, <1>7 DEF IInv

LEMMA TakeIInv == ASSUME IInv, TakeRaging PROVE IInv'
<1>1. TypeOK'
  BY DEF IInv, TypeOK, TakeRaging, radioVars, storeVars, sendVars
<1>2. FrameOK'
  BY DEF IInv, FrameOK, TakeRaging, radioVars, storeVars, sendVars
<1>3. CountOK'
  BY DEF IInv, CountOK, Credits, TakeRaging, radioVars, storeVars, sendVars
<1>4. AloneOK'
  BY DEF IInv, AloneOK, TakeRaging, radioVars, storeVars, sendVars
<1> QED
  BY <1>1, <1>2, <1>3, <1>4 DEF IInv, TakeRaging, sendVars

LEMMA RunIInv == ASSUME IInv, Run PROVE IInv'
<1>1. rx \in Test => level \in Levels
  BY CardsAssumption DEF IInv, FrameOK
<1>2. TypeOK'
  BY <1>1 DEF IInv, TypeOK, Run, radioVars, storeVars, sendVars
<1>3. FrameOK'
  BY <1>1 DEF IInv, FrameOK, Run, Cards, radioVars, storeVars, sendVars
<1>4. CountOK'
  BY SizesAssumption DEF IInv, TypeOK, CountOK, Credits, Run, radioVars, storeVars, sendVars
<1>5. AloneOK'
  BY DEF IInv, AloneOK, Run, radioVars, storeVars, sendVars
<1> QED
  BY <1>2, <1>3, <1>4, <1>5 DEF IInv, Run, sendVars

LEMMA SaveIInv == ASSUME IInv, Save PROVE IInv'
<1>1. ListOK /\ rx \in Cards /\ rssi \in Levels
  BY ListIsOK DEF IInv, FrameOK, Save
<1>2. ListOK' /\ list' # <<>>
  BY <1>1, WrittenOK DEF Save, ListOK, Distinct
<1>3. saved + 1 <= TestMax + heard /\ saved \in Nat /\ deal = saved /\ saved + 1 < DealMod
  BY SizesAssumption DEF IInv, TypeOK, CountOK, Credits, Save
<1>4. deal' = saved + 1 /\ saved' = saved + 1
  BY <1>3, SizesAssumption DEF Save
<1>5. TypeOK'
  BY <1>2, <1>3, <1>4, SizesAssumption
     DEF IInv, TypeOK, Save, ListOK, Entry, Distinct, radioVars, sendVars
<1>6. FrameOK'
  BY DEF IInv, FrameOK, Save, radioVars, sendVars
<1>7. CountOK'
  BY <1>2, <1>3, <1>4 DEF IInv, TypeOK, CountOK, Credits, Save, radioVars, sendVars
<1>8. AloneOK'
  <2>1. \E j \in DOMAIN list' : list'[j] = [test |-> rx, rssi |-> rssi]
    BY <1>1, WrittenOK DEF Save
  <2> QED
    BY <2>1 DEF IInv, AloneOK, Save, radioVars, sendVars
<1> QED
  BY <1>5, <1>6, <1>7, <1>8 DEF IInv, Save, sendVars

LEMMA DoneIInv == ASSUME IInv, Done PROVE IInv'
<1>1. TypeOK'
  BY DEF IInv, TypeOK, Done, radioVars, storeVars, sendVars
<1>2. FrameOK' /\ CountOK'
  BY DEF IInv, FrameOK, CountOK, Credits, Done, radioVars, storeVars, sendVars
<1>3. AloneOK'
  BY DEF IInv, AloneOK, Done, radioVars, storeVars, sendVars
<1> QED
  BY <1>1, <1>2, <1>3 DEF IInv, Done, sendVars

LEMMA UnsetIInv == ASSUME IInv, Unset PROVE IInv'
<1>1. TypeOK'
  BY DEF IInv, TypeOK, Unset, radioVars, storeVars, sendVars
<1>2. FrameOK'
  BY DEF IInv, FrameOK, Unset, radioVars, storeVars, sendVars
<1>3. CountOK'
  BY SizesAssumption DEF IInv, TypeOK, CountOK, Credits, Unset, radioVars, storeVars, sendVars
<1>4. AloneOK'
  BY DEF IInv, AloneOK, Unset, radioVars, storeVars, sendVars
<1> QED
  BY <1>1, <1>2, <1>3, <1>4 DEF IInv, Unset, sendVars

LEMMA NextIInv == IInv /\ [Next]_vars => IInv'
<1> SUFFICES ASSUME IInv, [Next]_vars PROVE IInv'
  OBVIOUS
<1>1. CASE Interrupt
  BY <1>1, RxGoodIInv, RxFailIInv DEF Interrupt
<1>2. CASE MainLoop
  BY <1>2, PollIInv, TakeIInv, RunIInv, SaveIInv, DoneIInv, UnsetIInv DEF MainLoop
<1>3. CASE UNCHANGED vars
  <2>1. TypeOK' /\ FrameOK'
    BY <1>3 DEF IInv, TypeOK, FrameOK, vars
  <2>2. CountOK' /\ AloneOK'
    BY <1>3 DEF IInv, CountOK, Credits, AloneOK, vars
  <2> QED
    BY <1>3, <2>1, <2>2 DEF IInv, vars
<1> QED
  BY <1>1, <1>2, <1>3 DEF Next

THEOREM Inductive == Spec => []IInv
BY InitIInv, NextIInv, PTL DEF Spec

-----------------------------------------------------------------------------
(* What follows from it.                                                     *)

\* The list of a standard card never holds a card twice nor more than TestMax
\* entries (TdoaInstSaveTestTagRssiProc), whenever the interrupt strikes.
THEOREM Typing == Spec => []TypeOK
<1>1. IInv => TypeOK
  BY DEF IInv
<1> QED
  BY <1>1, Inductive, PTL

\* The counter that decides on clearing the list does not wrap before it does
\* (u8Dealtime, instance.c:1458), for every number of receptions between polls
\* that the counter's width allows.
THEOREM ListStaysFresh == Spec => []FreshList
<1>1. IInv => FreshList
  BY SizesAssumption DEF IInv, TypeOK, CountOK, Credits, FreshList
<1> QED
  BY <1>1, Inductive, PTL

\* An undisturbed reception of a test card ends in the list with its own strength.
THEOREM AloneListed == Spec => []AloneIsListed
<1>1. IInv => AloneIsListed
  BY DEF IInv, AloneOK, AloneIsListed
<1> QED
  BY <1>1, Inductive, PTL

\* A failed transmission leaves no hole in the numbers on the air
\* (TdoaSendTagPoll, instance.c:714-738).
THEOREM NumbersConsecutive == Spec => ConsecutiveOnAir
<1>1. IInv /\ [Next]_vars => [air' # air => air'.seq = (air.seq + 1) % SeqMod]_vars
  <2> SUFFICES ASSUME IInv, [Next]_vars, air' # air
               PROVE  air'.seq = (air.seq + 1) % SeqMod
    OBVIOUS
  <2>1. PICK ok \in BOOLEAN : Poll(ok)
    BY DEF Next, Interrupt, MainLoop, RxGood, RxFail, TakeRaging, Run, Save, Done, Unset,
           vars, sendVars
  <2> QED
    BY <2>1 DEF IInv, Poll
<1> QED
  BY <1>1, Inductive, PTL DEF Spec, ConsecutiveOnAir
=============================================================================
