----------------------------- MODULE UartReport -----------------------------
(* How an anchor writes its send pack to the station's UART                  *)
(* (TdoaSendCardReportToUart of instance.c, bsmac.c).                        *)
(*                                                                           *)
(* At most GroupSize entries go into one frame.  A pack with more is sent in *)
(* groups, which are put together one after the other in ONE buffer; what is *)
(* left goes into a last frame.  A frame is written byte by byte with an     *)
(* index of 8 bits.  An entry is its position in the pack, or Garbage where  *)
(* the buffer, a local variable, was never written.                          *)
EXTENDS Integers, Sequences

CONSTANTS
    GroupSize,   \* TDOA_UART_SEND_MAX_TAG_NUM
    MaxEntries,  \* TDOA_MSG_TESTCARD_MAX_NUM: what one slot puts into the pack
    EntryLen,    \* sizeof(APP_UWB_TDOA_TIMESTAMP_S)
    FrameLen,    \* everything else in a frame: headers and checksum
    IndexMod     \* 2^8: the index of UwbWriteDataToStm32 is a uint8

ASSUME SizesAssumption ==
    /\ GroupSize \in Nat \ {0} /\ MaxEntries \in Nat
    /\ EntryLen \in Nat /\ FrameLen \in Nat \ {0} /\ IndexMod \in Nat \ {0}
    /\ GroupSize * EntryLen + FrameLen < IndexMod

Garbage == 0

VARIABLES
    count,   \* u16PackSendCount; the entries of the pack are 1 .. count
    rem,     \* u16TestTagNum: the entries still to be sent
    group,   \* u16SendGroupNum
    buf,     \* stAppTdoaData: [1 .. GroupSize -> entry]
    size,    \* how many entries of buf the present frame sends
    byte,    \* the index of UwbWriteDataToStm32
    phase,   \* "idle", "next" (frame) or "write"
    sent     \* the entries on the wire since the pack was filled

reportVars == <<count, rem, group, buf, size, byte, phase, sent>>

Positions == 1 .. GroupSize
Length(n) == n * EntryLen + FrameLen

ReportInit ==
    /\ count = 0 /\ rem = 0 /\ group = 0
    /\ buf = [j \in Positions |-> Garbage]
    /\ size = 0 /\ byte = 0 /\ phase = "idle" /\ sent = <<>>

-----------------------------------------------------------------------------
(* Defects a careless edit of the code would introduce (mutants).            *)
GroupOfNine == GroupSize + 1
NextGroup(g) == (g + 1) * GroupSize
OffByOne(g) == g * GroupSize + 1
-----------------------------------------------------------------------------

\* u16MaxSendNum
MaxSend == GroupSize

\* what the loop subtracts
LeftAfterGroup == rem - MaxSend

(* Where the entries of a group come from: i from the group's start, while i *)
(* is less than the number of entries STILL to be sent.                      *)
GroupEnd(g, r) == IF (g + 1) * MaxSend < r THEN (g + 1) * MaxSend ELSE r
GroupBuffer(g, r) ==
    [j \in Positions |-> IF g * MaxSend + j <= GroupEnd(g, r) THEN g * MaxSend + j ELSE buf[j]]

(* Where the last entries come from: pack[start + i] for i from start, again *)
(* while i is less than the number still to be sent.                         *)
RestIndex(g) == g * MaxSend + g * MaxSend
RestBuffer(g, r) ==
    [j \in Positions |-> IF g * MaxSend + j <= r THEN RestIndex(g) + j ELSE buf[j]]

\* EVENT_UART_SEND with n entries in the pack; the buffer is a local variable
Start(n) ==
    /\ phase = "idle"
    /\ count' = n /\ rem' = n /\ group' = 0
    /\ buf' = [j \in Positions |-> Garbage]
    /\ sent' = <<>>
    /\ phase' = "next"
    /\ UNCHANGED <<size, byte>>

SendGroup ==
    /\ phase = "next" /\ rem > MaxSend
    /\ buf' = GroupBuffer(group, rem)
    /\ size' = MaxSend
    /\ rem' = LeftAfterGroup
    /\ group' = group + 1
    /\ byte' = 0 /\ phase' = "write"
    /\ UNCHANGED <<count, sent>>

\* A frame of all that is left; then nothing is
SendRest ==
    /\ phase = "next" /\ rem \in 1 .. MaxSend
    /\ buf' = RestBuffer(group, rem)
    /\ size' = rem
    /\ rem' = 0
    /\ byte' = 0 /\ phase' = "write"
    /\ UNCHANGED <<count, group, sent>>

\* UwbWriteDataToStm32: one byte, and the index plus 1 as a uint8
WriteByte ==
    /\ phase = "write" /\ byte < Length(size)
    /\ byte' = (byte + 1) % IndexMod
    /\ UNCHANGED <<count, rem, group, buf, size, phase, sent>>

\* Every entry of the frame is on the wire; after the last frame the pack is
\* cleared
FrameWritten ==
    /\ phase = "write" /\ byte >= Length(size)
    /\ sent' = sent \o [j \in 1 .. size |-> buf[j]]
    /\ phase' = IF rem = 0 THEN "idle" ELSE "next"
    /\ UNCHANGED <<count, rem, group, buf, size, byte>>

Send == SendGroup \/ SendRest \/ WriteByte \/ FrameWritten
ReportNext == Send \/ \E n \in 1 .. MaxEntries : Start(n)

\* The main loop runs the function to its end.
ReportSpec == ReportInit /\ [][ReportNext]_reportVars /\ WF_reportVars(Send)

-----------------------------------------------------------------------------
(* Properties                                                                *)

\* Every variable keeps its type; the index of a frame's bytes never wraps
\* before the frame's end.
ReportTypeOK ==
    /\ count \in 0 .. MaxEntries /\ rem \in 0 .. count /\ group \in 0 .. MaxEntries
    /\ buf \in [Positions -> Garbage .. MaxEntries]
    /\ size \in 0 .. GroupSize /\ byte \in 0 .. Length(size)
    /\ phase \in {"idle", "next", "write"}
    /\ sent \in Seq(Garbage .. MaxEntries)

\* What goes to the wire is as many entries as the pack holds, each one of the
\* pack's: never a part of the buffer that was not written, nor what is behind
\* the pack's last entry.
OnlyTheRightNumber ==
    /\ \A k \in 1 .. Len(sent) : sent[k] \in 1 .. count
    /\ phase # "idle" => Len(sent) + rem + (IF phase = "write" THEN size ELSE 0) = count
    /\ phase = "idle" => Len(sent) = count

\* A pack that fits into one frame, and the first group of any, arrives in order.
FirstGroupInOrder ==
    \A k \in 1 .. Len(sent) : k <= GroupSize => sent[k] = k

\* Every frame is written to its end and the main loop goes on.
AlwaysReturns == phase # "idle" ~> phase = "idle"

\* "Is there anything left after the groups, it is taken from its right
\* position" (instance.c:2320): every entry of the pack is sent.
EverythingSent ==
    phase = "idle" => \A e \in 1 .. count : \E k \in 1 .. Len(sent) : sent[k] = e

=============================================================================
