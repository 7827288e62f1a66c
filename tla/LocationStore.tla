---------------------------- MODULE LocationStore ----------------------------
(* The station's store of packets that could not be sent (location_data.c).  *)
(*                                                                           *)
(* One file of BlockCnt blocks.  Packets are appended to the current block;  *)
(* when one does not fit, the next block round the ring becomes current and  *)
(* what is unread in it is discarded.  A load looks for the first unread     *)
(* packet from the block after the current one round to the current one.     *)
(*                                                                           *)
(* A packet is its number, in the order of the dumps, and its length in the  *)
(* file; the contents do not matter.  The file system is external: an open,  *)
(* a write or a read may fail, and the code looks at none of the results.    *)
EXTENDS Integers

CONSTANTS
    BlockCnt,   \* BLOCK_CNT
    BlockSize,  \* BLOCK_SIZE
    MaxLen,     \* the longest packet, header included
    MaxDumps,   \* bound of the model: how many packets are dumped
    MaxFaults,  \* bound of the model: how often the file system fails
    Nothing,    \* -RT_EEMPTY
    Junk        \* bytes that are not a packet

ASSUME SizesAssumption ==
    /\ BlockCnt \in Nat /\ BlockCnt >= 2
    /\ BlockSize \in Nat /\ MaxLen \in 1 .. BlockSize - 1
    /\ MaxDumps \in Nat /\ MaxFaults \in Nat
    /\ Nothing \notin Nat /\ Junk \notin Nat /\ Nothing # Junk

Blocks == 0 .. BlockCnt - 1
Lens == 1 .. MaxLen

VARIABLES
    current,  \* current_write_block
    block,    \* block_state: r (r_pos), w (w_pos) and state of each block
    fd,       \* sav_data_fd >= 0
    flash,    \* the packets that lie whole in each block of the file
    next,     \* ghost: the number of the next packet
    got,      \* what the last load returned
    faults    \* ghost: how many operations of the file system failed

vars == <<current, block, fd, flash, next, got, faults>>

Fresh == [r |-> 0, w |-> 0, state |-> 0]

Init ==
    /\ current = 0
    /\ block = [b \in Blocks |-> Fresh]
    /\ fd = FALSE
    /\ flash = [b \in Blocks |-> {}]
    /\ next = 0 /\ got = Nothing /\ faults = 0

-----------------------------------------------------------------------------
(* Defects a careless edit of the code would introduce (mutants).            *)
FitsExactly(len) == block[current].w + len <= BlockSize
FitsTwice(len) == block[current].w + 2 * len < BlockSize
NewestFirst(k) == (current + k) % BlockCnt
OneBlockShort == 0 .. BlockCnt - 2
-----------------------------------------------------------------------------
(* Dump.                                                                     *)

Fits(len) == block[current].w + len < BlockSize

\* the block a packet of length len goes to, and where in it
Target(len) == IF Fits(len) THEN current ELSE (current + 1) % BlockCnt
Place(len) == IF Fits(len) THEN block[current].w ELSE 0

\* the block's entry after the dump; a block that is entered anew starts over
Appended(len) ==
    [r |-> IF Fits(len) THEN block[current].r ELSE 0, w |-> Place(len) + len, state |-> 1]

\* what a write of len bytes at pos leaves of the packets in a block
Untouched(recs, pos, len) == {x \in recs : x.pos + x.len <= pos \/ pos + len <= x.pos}

\* the file the dump writes to: unlinked when it has to be opened first
File == IF fd THEN flash ELSE [b \in Blocks |-> {}]

Written(len) == [pos |-> Place(len), len |-> len, id |-> next]

(* dump_location_data.  When the open or the write fails, the position moves *)
(* on all the same and the caller is told that the data is stored.           *)
Dump(len, opened, written) ==
    /\ next < MaxDumps
    /\ fd => opened
    /\ fd' = opened
    /\ current' = Target(len)
    /\ block' = [block EXCEPT ![Target(len)] = Appended(len)]
    /\ flash' = IF opened
                THEN [File EXCEPT ![Target(len)] =
                        Untouched(@, Place(len), len)
                          \cup (IF written THEN {Written(len)} ELSE {})]
                ELSE File
    /\ next' = next + 1
    /\ faults' = IF opened /\ written THEN faults ELSE faults + 1
    /\ faults' <= MaxFaults
    /\ UNCHANGED got

-----------------------------------------------------------------------------
(* Load.                                                                     *)

\* a load looks at this many blocks
Looks == 0 .. BlockCnt - 1

\* the k-th of them
Ring(k) == (current + 1 + k) % BlockCnt

HasUnread(b) == block[b].state # 0 /\ block[b].r < block[b].w

\* the k-th block is the first with something unread
Found(k) == HasUnread(Ring(k)) /\ \A j \in 0 .. k - 1 : ~HasUnread(Ring(j))

\* those looked at before it have been read to the end and start over (one in
\* state 0 has not been written to since it did, and is Fresh already)
Cleared(looked) ==
    [b \in Blocks |-> IF \E j \in looked : b = Ring(j) THEN Fresh ELSE block[b]]

\* the packet that begins at the read position of block b
AtReadPos(b) == {x \in flash[b] : x.pos = block[b].r}

\* header and body come back from the file
Read(k) ==
    \E x \in AtReadPos(Ring(k)) :
        /\ got' = x.id
        /\ block' = [Cleared(0 .. k - 1) EXCEPT ![Ring(k)].r = @ + x.len]
        /\ UNCHANGED faults

(* A read fails, or no packet begins here: what is in the buffer is taken    *)
(* for a header, and its length is believed.                                 *)
Misread(k) ==
    \E len \in Lens :
        /\ got' = Junk
        /\ block' = [Cleared(0 .. k - 1) EXCEPT ![Ring(k)].r = @ + len]
        /\ faults' = IF AtReadPos(Ring(k)) = {} THEN faults ELSE faults + 1
        /\ faults' <= MaxFaults

\* load_location_data, the file open
Load ==
    /\ fd
    /\ \/ \E k \in Looks : Found(k) /\ (Read(k) \/ Misread(k))
       \/ /\ \A k \in Looks : ~HasUnread(Ring(k))
          /\ block' = Cleared(Looks)
          /\ got' = Nothing
          /\ UNCHANGED faults
    /\ UNCHANGED <<current, fd, flash, next>>

\* load_location_data, the file never opened
LoadClosed ==
    /\ ~fd
    /\ got' = Nothing
    /\ UNCHANGED <<current, block, fd, flash, next, faults>>

-----------------------------------------------------------------------------

Next ==
    \/ \E len \in Lens, opened, written \in BOOLEAN : Dump(len, opened, written)
    \/ Load
    \/ LoadClosed

\* net_app.c calls load again and again while the connection is up
Spec == Init /\ [][Next]_vars /\ WF_vars(Load)

-----------------------------------------------------------------------------
(* Properties.                                                               *)

Unread(b) == {x \in flash[b] : HasUnread(b) /\ block[b].r <= x.pos /\ x.pos < block[b].w}
UnreadIds == UNION {{x.id : x \in Unread(b)} : b \in Blocks}
Oldest == IF UnreadIds = {} THEN next
          ELSE CHOOSE i \in UnreadIds : \A j \in UnreadIds : i <= j

TypeOK ==
    /\ current \in Blocks
    /\ block \in [Blocks -> [r : Nat, w : 0 .. BlockSize - 1, state : {0, 1}]]
    /\ fd \in BOOLEAN /\ faults \in 0 .. MaxFaults
    /\ flash \in [Blocks -> SUBSET [pos : Nat, len : Lens, id : 0 .. next - 1]]
    /\ next \in 0 .. MaxDumps
    /\ got \in 0 .. MaxDumps - 1 \cup {Nothing, Junk}

(* The store is a lossy queue until the file system fails: loads return the  *)
(* packets in the order of the dumps, none twice and none that was not       *)
(* dumped, and what a full block discards is the oldest.                     *)
Queue == INSTANCE LossyQueue WITH
    lo <- Oldest, hi <- next, broken <- faults > 0
IsLossyQueue == Queue!Spec

(* Nothing is discarded while the store has room: when a dump throws unread  *)
(* packets away, every block but the one it enters is full, to less than one *)
(* packet, of packets that nobody has read.                                  *)
UnreadBytes(b) == IF HasUnread(b) THEN block[b].w - block[b].r ELSE 0
Discards(b) == HasUnread(b) /\ faults = 0 /\ current' = b /\ current # b
DiscardsOnlyWhenFull ==
    [][\A b \in Blocks : Discards(b) =>
          \A c \in Blocks \ {b} : UnreadBytes(c) > BlockSize - 1 - MaxLen]_vars

(* Every packet in the store leaves it: the scan of a load passes over no    *)
(* block, and what it finds is read, however the file system behaves.        *)
EverythingLeaves == next = MaxDumps ~> \A b \in Blocks : ~HasUnread(b)
=============================================================================
