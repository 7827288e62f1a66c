------------------------- MODULE LocationStoreProofs -------------------------
(* Proofs about LocationStore: it implements LossyQueue, and it discards     *)
(* nothing while it has room, for every number and size of blocks.           *)
EXTENDS LocationStore, TLAPS

-----------------------------------------------------------------------------
(* The inductive invariant.                                                  *)

\* the packets of a block that a load may still reach or has read
Live(b) == {x \in flash[b] : x.pos < block[b].w}

Apart(x, y) == x.pos + x.len <= y.pos \/ y.pos + y.len <= x.pos

(* The packets of a block lie end to end up to the write position, in the    *)
(* order of their numbers, and the read position is at the start of one.     *)
BlockOK(b) ==
    /\ block[b].r <= block[b].w
    /\ block[b].state = 0 => block[b] = Fresh
    /\ \A x \in Live(b) : x.pos + x.len <= block[b].w
    /\ \A x, y \in flash[b] : x = y \/ Apart(x, y)
    /\ \A x, y \in Live(b) : x.pos < y.pos => x.id < y.id
    /\ block[b].r < block[b].w => \E x \in flash[b] : x.pos = block[b].r
    /\ \A x \in Live(b) : x.pos + x.len < block[b].w =>
                              \E y \in flash[b] : y.pos = x.pos + x.len

Ids(b) == {x.id : x \in Unread(b)}

(* Round the ring the blocks hold consecutive intervals of numbers: the k-th *)
(* that a load looks at holds first[k] .. first[k + 1] - 1.                  *)
Consecutive(first) ==
    /\ first \in [0 .. BlockCnt -> Nat]
    /\ first[BlockCnt] = next
    /\ \A i, j \in 0 .. BlockCnt : i <= j => first[i] <= first[j]
    /\ \A k \in Blocks : Ids(Ring(k)) = first[k] .. first[k + 1] - 1
    /\ \A i \in first[0] .. next - 1 : \E k \in Blocks : i \in first[k] .. first[k + 1] - 1

\* Behind the first block with something unread nothing has been read, and
\* every block but the current one is full.
FullBehind ==
    \A j, k \in Blocks : j < k /\ HasUnread(Ring(j)) =>
        /\ HasUnread(Ring(k))
        /\ block[Ring(k)].r = 0
        /\ k # BlockCnt - 1 => block[Ring(k)].w > BlockSize - 1 - MaxLen

Sound ==
    /\ ~fd => /\ block = [b \in Blocks |-> Fresh]
              /\ flash = [b \in Blocks |-> {}]
              /\ next = 0
    /\ \A b \in Blocks : BlockOK(b)
    /\ \E first : Consecutive(first)
    /\ FullBehind

StoreInv == TypeOK /\ (faults = 0 => Sound)

-----------------------------------------------------------------------------
(* The ring.                                                                 *)

LEMMA RingIsSum ==
    ASSUME current \in Blocks
    PROVE  \A k \in Blocks :
             /\ Ring(k) = IF current + 1 + k < BlockCnt THEN current + 1 + k
                          ELSE current + 1 + k - BlockCnt
             /\ Ring(k) \in Blocks
  BY SizesAssumption, Z3 DEF Ring, Blocks

LEMMA RingOnto ==
    ASSUME current \in Blocks
    PROVE  /\ \A b \in Blocks : \E k \in Blocks : b = Ring(k)
           /\ \A j, k \in Blocks : Ring(j) = Ring(k) => j = k
           /\ Ring(BlockCnt - 1) = current
           /\ Ring(0) = (current + 1) % BlockCnt
           /\ Ring(0) # current
  <1>1. \A b \in Blocks : \E k \in Blocks : b = Ring(k)
    <2> TAKE b \in Blocks
    <2>1. CASE b > current
      <3>1. b - current - 1 \in Blocks /\ Ring(b - current - 1) = b
        BY <2>1, SizesAssumption, RingIsSum DEF Blocks
      <3> QED
        BY <3>1
    <2>2. CASE ~(b > current)
      <3>1. b + BlockCnt - current - 1 \in Blocks /\ Ring(b + BlockCnt - current - 1) = b
        BY <2>2, SizesAssumption, RingIsSum DEF Blocks
      <3> QED
        BY <3>1
    <2> QED
      BY <2>1, <2>2
  <1>2. \A j, k \in Blocks : Ring(j) = Ring(k) => j = k
    BY SizesAssumption, RingIsSum DEF Blocks
  <1>3. Ring(BlockCnt - 1) = current /\ Ring(0) # current
    BY SizesAssumption, RingIsSum DEF Blocks
  <1>4. Ring(0) = (current + 1) % BlockCnt
    BY SizesAssumption DEF Ring, Blocks
  <1> QED
    BY <1>1, <1>2, <1>3, <1>4

\* When the next block becomes current, every other one moves up by one.
LEMMA RingTurns ==
    ASSUME current \in Blocks, current' = Ring(0)
    PROVE  /\ \A k \in Blocks : k # BlockCnt - 1 =>
                k + 1 \in Blocks /\ Ring(k)' = Ring(k + 1)
           /\ Ring(BlockCnt - 1)' = Ring(0)
  <1>1. current' \in Blocks
    BY RingIsSum, SizesAssumption DEF Blocks
  <1>2. \A k \in Blocks :
             Ring(k)' = IF current' + 1 + k < BlockCnt THEN current' + 1 + k
                        ELSE current' + 1 + k - BlockCnt
    BY <1>1, SizesAssumption, Z3 DEF Ring, Blocks
  <1>3. current' = IF current + 1 < BlockCnt THEN current + 1 ELSE 0
    <2>1. 0 \in Blocks
      BY SizesAssumption DEF Blocks
    <2> QED
      BY <2>1, RingIsSum, SizesAssumption DEF Blocks
  <1>4. ASSUME NEW k \in Blocks, k # BlockCnt - 1
        PROVE  k + 1 \in Blocks /\ Ring(k)' = Ring(k + 1)
    <2>1. k + 1 \in Blocks
      BY <1>4, SizesAssumption DEF Blocks
    <2>2. Ring(k)' = IF current' + 1 + k < BlockCnt THEN current' + 1 + k
                     ELSE current' + 1 + k - BlockCnt
      BY <1>2
    <2>3. Ring(k + 1) = IF current + 1 + (k + 1) < BlockCnt THEN current + 1 + (k + 1)
                        ELSE current + 1 + (k + 1) - BlockCnt
      BY <2>1, RingIsSum
    <2> QED
      BY <1>3, <2>1, <2>2, <2>3, SizesAssumption DEF Blocks
  <1>5. Ring(BlockCnt - 1)' = Ring(0)
    <2>1. BlockCnt - 1 \in Blocks
      BY SizesAssumption DEF Blocks
    <2>2. Ring(BlockCnt - 1)' = IF current' + 1 + (BlockCnt - 1) < BlockCnt
                                THEN current' + 1 + (BlockCnt - 1)
                                ELSE current' + 1 + (BlockCnt - 1) - BlockCnt
      BY <1>2, <2>1
    <2> QED
      BY <1>1, <2>2, SizesAssumption DEF Blocks
  <1> QED
    BY <1>4, <1>5

-----------------------------------------------------------------------------
(* What the invariant says of the queue.                                     *)

LEMMA UnreadIsInterval ==
    ASSUME current \in Blocks, next \in Nat, NEW first, Consecutive(first)
    PROVE  /\ first[0] \in Nat /\ first[0] <= next
           /\ UnreadIds = first[0] .. next - 1
           /\ Oldest = first[0]
  <1>1. first[0] \in Nat /\ first[0] <= next /\ first[BlockCnt] = next
    BY SizesAssumption DEF Consecutive
  <1>2. \A i \in UnreadIds : i \in first[0] .. next - 1
    <2> SUFFICES ASSUME NEW b \in Blocks, NEW i \in Ids(b)
                 PROVE  i \in first[0] .. next - 1
      BY DEF UnreadIds, Ids
    <2>1. PICK k \in Blocks : b = Ring(k)
      BY RingOnto
    <2>2. i \in first[k] .. first[k + 1] - 1
      BY <2>1 DEF Consecutive
    <2>3. /\ 0 \in 0 .. BlockCnt /\ k \in 0 .. BlockCnt
          /\ k + 1 \in 0 .. BlockCnt /\ BlockCnt \in 0 .. BlockCnt
          /\ 0 <= k /\ k + 1 <= BlockCnt
      BY SizesAssumption DEF Blocks
    <2>4. first[0] <= first[k] /\ first[k + 1] <= first[BlockCnt]
      BY <2>3 DEF Consecutive
    <2>5. first[k] \in Nat /\ first[k + 1] \in Nat
      BY <2>3 DEF Consecutive
    <2> QED
      BY <1>1, <2>2, <2>4, <2>5
  <1>3. \A i \in first[0] .. next - 1 : i \in UnreadIds
    <2> TAKE i \in first[0] .. next - 1
    <2>1. PICK k \in Blocks : i \in first[k] .. first[k + 1] - 1
      BY DEF Consecutive
    <2>2. i \in Ids(Ring(k)) /\ Ring(k) \in Blocks
      BY <2>1, RingIsSum DEF Consecutive
    <2> QED
      BY <2>2 DEF UnreadIds, Ids
  <1>4. UnreadIds = first[0] .. next - 1
    BY <1>2, <1>3
  <1>5. CASE UnreadIds = {}
    BY <1>1, <1>4, <1>5 DEF Oldest
  <1>6. CASE UnreadIds # {}
    <2>1. first[0] \in UnreadIds /\ \A j \in UnreadIds : first[0] <= j
      BY <1>1, <1>4, <1>6
    <2>2. \A i \in UnreadIds : (\A j \in UnreadIds : i <= j) => i = first[0]
      BY <1>1, <1>4, <2>1
    <2> QED
      BY <1>1, <1>4, <1>6, <2>1, <2>2 DEF Oldest
  <1> QED
    BY <1>1, <1>4, <1>5, <1>6

-----------------------------------------------------------------------------
(* Dump.                                                                     *)

\* Where a packet is put, and what is there afterwards.
LEMMA DumpPlace ==
    ASSUME TypeOK, NEW len \in Lens
    PROVE  /\ Target(len) \in Blocks
           /\ Fits(len) => Target(len) = Ring(BlockCnt - 1) /\ Target(len) = current
           /\ ~Fits(len) => Target(len) = Ring(0) /\ Target(len) # current
           /\ Place(len) \in Nat
           /\ Place(len) + len < BlockSize
           /\ Appended(len) = [r |-> IF Fits(len) THEN block[current].r ELSE 0,
                               w |-> Place(len) + len, state |-> 1]
           /\ Appended(len) \in [r : Nat, w : 0 .. BlockSize - 1, state : {0, 1}]
           /\ Written(len).pos = Place(len) /\ Written(len).len = len
           /\ Written(len).id = next
  <1>1. block[current] \in [r : Nat, w : 0 .. BlockSize - 1, state : {0, 1}]
    BY DEF TypeOK
  <1>2. 0 \in Blocks
    BY SizesAssumption DEF Blocks
  <1>3. current \in Blocks
    BY DEF TypeOK
  <1>4. Target(len) \in Blocks
    BY <1>2, <1>3, RingIsSum, RingOnto DEF Target
  <1>5. /\ Fits(len) => Target(len) = Ring(BlockCnt - 1) /\ Target(len) = current
        /\ ~Fits(len) => Target(len) = Ring(0) /\ Target(len) # current
    BY <1>3, RingOnto DEF Target
  <1>6. Place(len) \in Nat /\ Place(len) + len < BlockSize
    BY <1>1, SizesAssumption DEF Place, Fits, Lens
  <1>7. Appended(len) = [r |-> IF Fits(len) THEN block[current].r ELSE 0,
                         w |-> Place(len) + len, state |-> 1]
    BY DEF Appended
  <1>8. Appended(len) \in [r : Nat, w : 0 .. BlockSize - 1, state : {0, 1}]
    BY <1>1, <1>6, <1>7, SizesAssumption DEF Lens
  <1> QED
    BY <1>4, <1>5, <1>6, <1>7, <1>8 DEF Written

\* The block that receives the packet stays in order and gains its number;
\* what an entered block held is gone.
LEMMA DumpBlock ==
    ASSUME TypeOK, Sound, NEW len \in Lens, Dump(len, TRUE, TRUE),
           NEW t \in Blocks, t = Target(len)
    PROVE  /\ \A b \in Blocks \ {t} : block'[b] = block[b] /\ flash'[b] = flash[b]
           /\ block'[t] = Appended(len)
           /\ BlockOK(t)'
           /\ HasUnread(t)'
           /\ Ids(t)' = (IF Fits(len) THEN Ids(t) ELSE {}) \cup {next}
  <1> DEFINE p == Place(len)
             q == Written(len)
  <1>1. /\ p \in Nat /\ p + len < BlockSize /\ len \in Nat /\ len > 0
        /\ q.pos = p /\ q.len = len /\ q.id = next
        /\ Appended(len).r = IF Fits(len) THEN block[current].r ELSE 0
        /\ Appended(len).w = p + len /\ Appended(len).state = 1
        /\ Fits(len) => t = current
    BY DumpPlace, SizesAssumption DEF Lens
  <1>2. block' = [block EXCEPT ![t] = Appended(len)]
    BY DEF Dump
  <1>3. block'[t] = Appended(len) /\ \A b \in Blocks \ {t} : block'[b] = block[b]
    BY <1>2 DEF TypeOK
  <1>4. File = flash
    BY DEF File, Sound
  <1>5. flash' = [flash EXCEPT ![t] = Untouched(flash[t], p, len) \cup {q}]
    BY <1>4 DEF Dump
  <1>6. /\ flash'[t] = Untouched(flash[t], p, len) \cup {q}
        /\ \A b \in Blocks \ {t} : flash'[b] = flash[b]
    BY <1>5 DEF TypeOK
  <1>7. /\ block[t] \in [r : Nat, w : 0 .. BlockSize - 1, state : {0, 1}]
        /\ \A x \in flash[t] : x.pos \in Nat /\ x.len \in Nat /\ x.len > 0
                               /\ x.id \in Nat /\ x.id < next
        /\ next \in Nat
    BY SizesAssumption DEF TypeOK, Lens
  <1>8. BlockOK(t)
    BY DEF Sound
  <1>9. Fits(len) => p = block[t].w
    BY <1>1 DEF Place
  <1>10. ~Fits(len) => p = 0
    BY DEF Place
  <1> HIDE DEF p, q
  \* what was in the block and lies before the new packet was live before
  <1>11. \A x \in flash'[t] : x = q \/
            /\ x \in flash[t]
            /\ x.pos + x.len <= p \/ p + len <= x.pos
    BY <1>6 DEF Untouched
  <1>12. \A x \in flash'[t] : x.pos < p + len => x = q \/
            /\ Fits(len) /\ x \in Live(t) /\ x.pos + x.len <= p
    BY <1>1, <1>7, <1>9, <1>10, <1>11 DEF Live
  <1>13. Fits(len) => \A x \in Live(t) : x \in flash'[t] /\ x.pos + x.len <= p
    BY <1>1, <1>6, <1>8, <1>9 DEF Untouched, Live, BlockOK
  <1>14. q \in flash'[t]
    BY <1>6
  <1>15. block'[t].w = p + len /\ block'[t].state = 1
    BY <1>1, <1>3
  <1>16. block'[t].r = (IF Fits(len) THEN block[t].r ELSE 0) /\ block'[t].r <= p
    BY <1>1, <1>3, <1>7, <1>8, <1>9, <1>10 DEF BlockOK
  <1>17. BlockOK(t)'
    <2>1. block'[t].r <= block'[t].w
      BY <1>1, <1>7, <1>15, <1>16
    <2>2. \A x \in Live(t)' : x.pos + x.len <= block'[t].w
      BY <1>1, <1>7, <1>12, <1>15 DEF Live
    <2>3. \A x, y \in flash'[t] : x = y \/ Apart(x, y)
      BY <1>1, <1>8, <1>11 DEF BlockOK, Apart
    <2>4. \A x, y \in Live(t)' : x.pos < y.pos => x.id < y.id
      <3> SUFFICES ASSUME NEW x \in flash'[t], NEW y \in flash'[t],
                          x.pos < p + len, y.pos < p + len, x.pos < y.pos
                   PROVE  x.id < y.id
        BY <1>15 DEF Live
      <3>1. CASE y = q
        BY <3>1, <1>1, <1>7, <1>12 DEF Live
      <3>2. CASE y # q
        <4>1. y \in Live(t) /\ y.pos + y.len <= p /\ Fits(len)
          BY <3>2, <1>12
        <4>2. x \in Live(t)
          BY <4>1, <1>1, <1>7, <1>12 DEF Live
        <4> QED
          BY <4>1, <4>2, <1>8 DEF BlockOK
      <3> QED
        BY <3>1, <3>2
    <2>5. \E x \in flash'[t] : x.pos = block'[t].r
      <3>1. CASE block'[t].r = p
        BY <3>1, <1>1, <1>14
      <3>2. CASE block'[t].r # p
        <4>1. Fits(len) /\ block[t].r < block[t].w /\ block'[t].r = block[t].r
          BY <3>2, <1>7, <1>9, <1>10, <1>16, <1>1
        <4>2. PICK x \in flash[t] : x.pos = block[t].r
          BY <4>1, <1>8 DEF BlockOK
        <4>3. x \in flash'[t]
          BY <4>1, <4>2, <1>13 DEF Live
        <4> QED
          BY <4>1, <4>2, <4>3
      <3> QED
        BY <3>1, <3>2
    <2>6. \A x \in Live(t)' : x.pos + x.len < block'[t].w =>
             \E y \in flash'[t] : y.pos = x.pos + x.len
      <3> SUFFICES ASSUME NEW x \in flash'[t], x.pos < p + len, x.pos + x.len < p + len
                   PROVE  \E y \in flash'[t] : y.pos = x.pos + x.len
        BY <1>15 DEF Live
      <3>1. x # q
        BY <1>1
      <3>2. Fits(len) /\ x \in Live(t) /\ x.pos + x.len <= p
        BY <3>1, <1>12
      <3>3. CASE x.pos + x.len = p
        BY <3>3, <1>1, <1>14
      <3>4. CASE x.pos + x.len # p
        <4>1. x.pos + x.len < block[t].w
          BY <3>2, <3>4, <1>1, <1>7, <1>9 DEF Live
        <4>2. PICK y \in flash[t] : y.pos = x.pos + x.len
          BY <3>2, <4>1, <1>8 DEF BlockOK
        <4>3. y \in flash'[t]
          BY <3>2, <4>1, <4>2, <1>13 DEF Live
        <4> QED
          BY <4>2, <4>3
      <3> QED
        BY <3>3, <3>4
    <2> QED
      BY <2>1, <2>2, <2>3, <2>4, <2>5, <2>6, <1>15 DEF BlockOK
  <1>18. HasUnread(t)'
    BY <1>1, <1>7, <1>15, <1>16 DEF HasUnread
  <1>19. Unread(t)' = {x \in flash'[t] : block'[t].r <= x.pos /\ x.pos < p + len}
    BY <1>15, <1>18 DEF Unread
  <1>20. q \in Unread(t)'
    BY <1>1, <1>7, <1>14, <1>16, <1>19
  <1>21. Unread(t)' = (IF Fits(len) THEN Unread(t) ELSE {}) \cup {q}
    <2>1. ASSUME NEW x \in Unread(t)', x # q
          PROVE  Fits(len) /\ x \in Unread(t)
      <3>1. Fits(len) /\ x \in Live(t) /\ x \in flash[t]
        BY <2>1, <1>12, <1>19 DEF Live
      <3>2. block[t].r <= x.pos /\ x.pos < block[t].w
        BY <2>1, <3>1, <1>16, <1>19 DEF Live
      <3>3. block[t].r < block[t].w
        BY <3>1, <3>2, <1>7
      <3>4. block[t].state # 0
        BY <3>3, <1>8 DEF BlockOK, Fresh
      <3> QED
        BY <3>1, <3>2, <3>3, <3>4 DEF Unread, HasUnread
    <2>2. ASSUME NEW x \in Unread(t), Fits(len)
          PROVE  x \in Unread(t)'
      <3>1. x \in Live(t)
        BY <2>2 DEF Unread, Live
      <3>2. x \in flash'[t]
        BY <2>2, <3>1, <1>13
      <3>3. block[t].r <= x.pos /\ x.pos < block[t].w
        BY <2>2 DEF Unread
      <3> QED
        BY <2>2, <3>1, <3>2, <3>3, <1>1, <1>7, <1>9, <1>16, <1>19 DEF Live
    <2> QED
      BY <2>1, <2>2, <1>20
  <1>22. Ids(t)' = (IF Fits(len) THEN Ids(t) ELSE {}) \cup {next}
    BY <1>1, <1>21 DEF Ids
  <1> QED
    BY <1>3, <1>6, <1>17, <1>18, <1>22

\* A block whose entry and packets stay is as before.
LEMMA SameBlock ==
    ASSUME NEW b \in Blocks, block'[b] = block[b], flash'[b] = flash[b]
    PROVE  /\ BlockOK(b) => BlockOK(b)'
           /\ Ids(b)' = Ids(b)
           /\ HasUnread(b)' <=> HasUnread(b)
  BY DEF BlockOK, Live, Apart, Ids, Unread, HasUnread

LEMMA IdsAt ==
    ASSUME NEW k \in Blocks, NEW b \in Blocks, Ring(k)' = b
    PROVE  Ids(Ring(k))' = Ids(b)'
  BY DEF Ids, Unread, HasUnread

\* The packet goes behind all others, and what is discarded is the oldest.
LEMMA DumpConsecutive ==
    ASSUME TypeOK, Sound, NEW len \in Lens, Dump(len, TRUE, TRUE),
           NEW first, Consecutive(first)
    PROVE  \E f : /\ Consecutive(f)'
                  /\ f[0] = IF Fits(len) THEN first[0] ELSE first[1]
  <1> DEFINE M == BlockCnt
             Last == M - 1
  <1>1. /\ M \in Nat /\ M >= 2 /\ Last \in Blocks /\ 0 \in Blocks
        /\ Blocks \subseteq 0 .. M /\ M \notin Blocks
        /\ \A k \in Blocks : k + 1 \in 0 .. M /\ k \in Nat
    BY SizesAssumption DEF Blocks
  <1>2. /\ first \in [0 .. M -> Nat] /\ first[M] = next /\ next \in Nat
        /\ \A i, j \in 0 .. M : i <= j => first[i] <= first[j]
    BY <1>1 DEF Consecutive
  <1>3. next' = next + 1 /\ current \in Blocks
    BY DEF Dump, TypeOK
  <1>4. PICK t \in Blocks : t = Target(len)
    BY DumpPlace
  <1>5. /\ \A b \in Blocks \ {t} : Ids(b)' = Ids(b)
        /\ Ids(t)' = (IF Fits(len) THEN Ids(t) ELSE {}) \cup {next}
    BY <1>4, DumpBlock, SameBlock
  <1>6. CASE Fits(len)
    <2> DEFINE f == [k \in 0 .. M |-> IF k = M THEN next + 1 ELSE first[k]]
    <2>1. t = current /\ t = Ring(Last) /\ current' = current
      BY <1>4, <1>6, DumpPlace DEF Dump, Target
    <2>2. \A k \in Blocks : Ring(k)' = Ring(k)
      BY <2>1 DEF Ring
    <2>3. f \in [0 .. M -> Nat] /\ f[M] = next'
      BY <1>1, <1>2, <1>3
    <2>4. \A i, j \in 0 .. M : i <= j => f[i] <= f[j]
      BY <1>1, <1>2
    <2>5. \A k \in Blocks : k # Last => f[k] = first[k] /\ f[k + 1] = first[k + 1]
      BY <1>1
    <2>6. f[Last] = first[Last] /\ f[Last + 1] = next + 1 /\ first[Last + 1] = next
      BY <1>1, <1>2
    <2> HIDE DEF f
    <2>7. ASSUME NEW k \in Blocks
          PROVE  Ids(Ring(k))' = f[k] .. f[k + 1] - 1
      <3>1. Ids(Ring(k)) = first[k] .. first[k + 1] - 1 /\ Ring(k) \in Blocks
        BY <1>3, RingIsSum DEF Consecutive
      <3>2. CASE k = Last
        <4>1. Ids(t)' = (first[Last] .. next - 1) \cup {next}
          BY <3>1, <3>2, <1>5, <1>6, <2>1, <2>6
        <4>2. first[Last] \in Nat /\ first[Last] <= next
          BY <1>1, <1>2
        <4>3. (first[Last] .. next - 1) \cup {next} = f[Last] .. f[Last + 1] - 1
          BY <4>2, <2>6, <1>2
        <4>4. Ring(k)' = t
          BY <3>2, <2>1, <2>2
        <4> QED
          BY <4>1, <4>3, <4>4, <3>2, IdsAt
      <3>3. CASE k # Last
        <4>1. Ring(k) # t
          BY <3>3, <1>1, <1>3, <2>1, RingOnto
        <4> QED
          BY <3>1, <3>3, <4>1, <2>2, <1>5, <2>5, IdsAt
      <3> QED
        BY <3>2, <3>3
    <2>8. ASSUME NEW i \in f[0] .. next' - 1
          PROVE  \E k \in Blocks : i \in f[k] .. f[k + 1] - 1
      <3>1. f[0] = first[0]
        BY <1>1, <2>5, <2>6
      <3>2. CASE i = next
        <4>1. i \in f[Last] .. f[Last + 1] - 1
          BY <3>2, <2>6, <1>1, <1>2
        <4> QED
          BY <4>1, <1>1
      <3>3. CASE i # next
        <4>1. i \in first[0] .. next - 1
          BY <3>1, <3>3, <1>2, <1>1, <1>3
        <4>2. PICK k \in Blocks : i \in first[k] .. first[k + 1] - 1
          BY <4>1 DEF Consecutive
        <4>3. i \in f[k] .. f[k + 1] - 1
          BY SMTT(20), <4>2, <2>5, <2>6, <1>2, <1>1
        <4> QED
          BY <4>3
      <3> QED
        BY <3>2, <3>3
    <2>9. f[0] = first[0]
      BY <1>1, <2>5, <2>6
    <2> QED
      BY <2>3, <2>4, <2>7, <2>8, <2>9, <1>6 DEF Consecutive
  <1>7. CASE ~Fits(len)
    <2> DEFINE f == [k \in 0 .. M |-> IF k = M THEN next + 1 ELSE first[k + 1]]
    <2>1. t = Ring(0) /\ current' = Ring(0)
      BY <1>4, <1>7, DumpPlace DEF Dump
    <2>2. /\ \A k \in Blocks : k # Last => k + 1 \in Blocks /\ Ring(k)' = Ring(k + 1)
          /\ Ring(Last)' = Ring(0)
      BY <1>3, <2>1, RingTurns
    <2>3. f \in [0 .. M -> Nat] /\ f[M] = next'
      BY <1>1, <1>2, <1>3
    <2>4. \A i, j \in 0 .. M : i <= j => f[i] <= f[j]
      BY <1>1, <1>2
    <2>5. \A k \in Blocks : k # Last => f[k] = first[k + 1] /\ f[k + 1] = first[(k + 1) + 1]
      BY <1>1
    <2>6. f[Last] = next /\ f[Last + 1] = next + 1
      BY <1>1, <1>2
    <2>7. f[0] = first[1]
      BY <1>1
    <2> HIDE DEF f
    <2>8. ASSUME NEW k \in Blocks
          PROVE  Ids(Ring(k))' = f[k] .. f[k + 1] - 1
      <3>1. CASE k = Last
        <4>1. next .. (next + 1) - 1 = {next}
          BY <1>2
        <4> QED
          BY <3>1, <4>1, <1>5, <1>7, <2>1, <2>2, <2>6, IdsAt
      <3>2. CASE k # Last
        <4>1. k + 1 \in Blocks /\ Ring(k)' = Ring(k + 1)
          BY <3>2, <2>2
        <4>2. Ring(k + 1) # t /\ Ring(k + 1) \in Blocks
          BY <4>1, <1>1, <1>3, <2>1, RingOnto, RingIsSum
        <4>3. Ids(Ring(k + 1)) = first[k + 1] .. first[(k + 1) + 1] - 1
          BY <4>1 DEF Consecutive
        <4> QED
          BY <3>2, <4>1, <4>2, <4>3, <1>5, <2>5, IdsAt
      <3> QED
        BY <3>1, <3>2
    <2>9. ASSUME NEW i \in f[0] .. next' - 1
          PROVE  \E k \in Blocks : i \in f[k] .. f[k + 1] - 1
      <3>1. CASE i = next
        <4>1. i \in f[Last] .. f[Last + 1] - 1
          BY <3>1, <2>6, <1>2
        <4> QED
          BY <4>1, <1>1
      <3>2. CASE i # next
        <4>1. first[0] <= first[1] /\ first[0] \in Nat /\ first[1] \in Nat
          BY <1>1, <1>2
        <4>2. i \in first[0] .. next - 1 /\ first[1] <= i
          BY <3>2, <4>1, <2>7, <1>2, <1>3
        <4>3. PICK k \in Blocks : i \in first[k] .. first[k + 1] - 1
          BY <4>2 DEF Consecutive
        <4>4. k # 0
          BY <4>1, <4>2, <4>3
        <4>5. k - 1 \in Blocks /\ k - 1 # Last /\ (k - 1) + 1 = k
          BY <4>4, SizesAssumption DEF Blocks
        <4>6. f[k - 1] = first[k] /\ f[(k - 1) + 1] = first[k + 1]
          BY <4>5, <2>5
        <4> QED
          BY <4>3, <4>5, <4>6
      <3> QED
        BY <3>1, <3>2
    <2> QED
      BY <2>3, <2>4, <2>7, <2>8, <2>9, <1>7 DEF Consecutive
  <1> QED
    BY <1>6, <1>7

LEMMA BlockAt ==
    ASSUME NEW k \in Blocks, NEW b \in Blocks, Ring(k)' = b
    PROVE  /\ HasUnread(Ring(k))' <=> HasUnread(b)'
           /\ block[Ring(k)]' = block'[b]
  BY DEF HasUnread

\* A block is left only when a packet does not fit: it is full then.
LEMMA DumpFull ==
    ASSUME TypeOK, Sound, NEW len \in Lens, Dump(len, TRUE, TRUE)
    PROVE  FullBehind'
  <1> DEFINE Last == BlockCnt - 1
  <1>1. /\ BlockCnt \in Nat /\ Last \in Blocks /\ Blocks \subseteq Nat
        /\ \A k \in Blocks : k <= Last
        /\ len \in Nat /\ len > 0 /\ len <= MaxLen /\ MaxLen \in Nat /\ BlockSize \in Nat
    BY SizesAssumption DEF Blocks, Lens
  <1>2. current \in Blocks /\ block \in [Blocks -> [r : Nat, w : 0 .. BlockSize - 1, state : {0, 1}]]
    BY DEF TypeOK
  <1>3. PICK t \in Blocks : t = Target(len)
    BY DumpPlace
  <1>4. /\ \A b \in Blocks \ {t} : block'[b] = block[b]
        /\ \A b \in Blocks \ {t} : HasUnread(b)' <=> HasUnread(b)
        /\ HasUnread(t)' /\ block'[t].r = IF Fits(len) THEN block[current].r ELSE 0
    <2>1. /\ \A b \in Blocks \ {t} : block'[b] = block[b] /\ flash'[b] = flash[b]
          /\ HasUnread(t)' /\ block'[t] = Appended(len)
      BY <1>3, DumpBlock
    <2>2. \A b \in Blocks \ {t} : HasUnread(b)' <=> HasUnread(b)
      BY <2>1, SameBlock
    <2>3. block'[t].r = IF Fits(len) THEN block[current].r ELSE 0
      BY <2>1 DEF Appended
    <2> QED
      BY <2>1, <2>2, <2>3
  <1> SUFFICES ASSUME NEW j \in Blocks, NEW k \in Blocks, j < k, HasUnread(Ring(j))'
               PROVE  /\ HasUnread(Ring(k))'
                      /\ block[Ring(k)]'.r = 0
                      /\ k # Last => block[Ring(k)]'.w > BlockSize - 1 - MaxLen
    BY DEF FullBehind
  <1>5. j # Last /\ j \in Nat /\ k \in Nat /\ Last \in Nat
    BY <1>1
  <1>6. CASE Fits(len)
    <2>1. t = current /\ t = Ring(Last) /\ current' = current
      BY <1>3, <1>6, DumpPlace DEF Dump, Target
    <2>2. /\ Ring(j)' = Ring(j) /\ Ring(k)' = Ring(k)
          /\ Ring(j) \in Blocks /\ Ring(k) \in Blocks /\ Ring(j) # t
      <3>1. Ring(j)' = Ring(j) /\ Ring(k)' = Ring(k)
        BY <2>1 DEF Ring
      <3>2. Ring(j) \in Blocks /\ Ring(k) \in Blocks
        BY <1>2, RingIsSum
      <3>3. Ring(j) # Ring(Last)
        BY <1>1, <1>2, <1>5, RingOnto
      <3> QED
        BY <2>1, <3>1, <3>2, <3>3
    <2>3. HasUnread(Ring(j))
      <3>1. PICK c \in Blocks : c = Ring(j)
        BY <2>2
      <3>2. HasUnread(Ring(j))' <=> HasUnread(c)'
        BY <3>1, <2>2, BlockAt
      <3> QED
        BY <3>1, <3>2, <1>4, <2>2
    <2>4. /\ HasUnread(Ring(k)) /\ block[Ring(k)].r = 0
          /\ k # Last => block[Ring(k)].w > BlockSize - 1 - MaxLen
      BY <2>3 DEF Sound, FullBehind
    <2>5. PICK c \in Blocks : c = Ring(k)
      BY <2>2
    <2>6. (HasUnread(Ring(k))' <=> HasUnread(c)') /\ block[Ring(k)]' = block'[c]
      BY <2>2, <2>5, BlockAt
    <2>7. CASE k = Last
      BY <2>1, <2>4, <2>5, <2>6, <2>7, <1>4, <1>6
    <2>8. CASE k # Last
      <3>1. c # t
        BY <2>1, <2>5, <2>8, <1>1, <1>2, RingOnto
      <3> QED
        BY <3>1, <2>4, <2>5, <2>6, <2>8, <1>4
    <2> QED
      BY <2>7, <2>8
  <1>7. CASE ~Fits(len)
    <2>1. t = Ring(0) /\ current' = Ring(0) /\ current = Ring(Last) /\ t # current
      BY <1>2, <1>3, <1>7, DumpPlace, RingOnto DEF Dump
    <2>2. /\ \A i \in Blocks : i # Last => i + 1 \in Blocks /\ Ring(i)' = Ring(i + 1)
          /\ Ring(Last)' = t
      BY <1>2, <2>1, RingTurns
    <2>3. \A i \in Blocks : i # Last => Ring(i + 1) \in Blocks /\ Ring(i + 1) # t
      <3>1. 0 \in Blocks
        BY SizesAssumption DEF Blocks
      <3> QED
        BY <3>1, <1>1, <1>2, <2>1, <2>2, RingOnto, RingIsSum
    <2>4. HasUnread(Ring(j + 1)) /\ j + 1 \in Blocks
      <3>1. PICK c \in Blocks : c = Ring(j + 1)
        BY <1>5, <2>3
      <3>2. HasUnread(Ring(j))' <=> HasUnread(c)'
        BY <3>1, <1>5, <2>2, BlockAt
      <3> QED
        BY <3>1, <3>2, <1>4, <1>5, <2>2, <2>3
    <2>5. CASE k = Last
      <3>1. (HasUnread(Ring(k))' <=> HasUnread(t)') /\ block[Ring(k)]' = block'[t]
        BY <2>2, <2>5, BlockAt
      <3> QED
        BY <3>1, <1>4, <1>7, <2>5
    <2>6. CASE k # Last
      <3>1. k + 1 \in Blocks /\ j + 1 < k + 1
        BY <2>2, <2>6, <1>5
      <3>2. /\ HasUnread(Ring(k + 1)) /\ block[Ring(k + 1)].r = 0
            /\ k + 1 # Last => block[Ring(k + 1)].w > BlockSize - 1 - MaxLen
        BY <3>1, <2>4 DEF Sound, FullBehind
      <3>3. k + 1 = Last => block[Ring(k + 1)].w > BlockSize - 1 - MaxLen
        BY <2>1, <1>1, <1>2, <1>7 DEF Fits
      <3>4. PICK c \in Blocks : c = Ring(k + 1)
        BY <2>3, <2>6
      <3>5. (HasUnread(Ring(k))' <=> HasUnread(c)') /\ block[Ring(k)]' = block'[c]
        BY <3>4, <2>2, <2>6, BlockAt
      <3>6. c # t
        BY <3>4, <2>3, <2>6
      <3> QED
        BY <3>2, <3>3, <3>4, <3>5, <3>6, <1>4, <2>6
    <2> QED
      BY <2>5, <2>6
  <1> QED
    BY <1>6, <1>7

LEMMA DumpSound ==
    ASSUME TypeOK, Sound, NEW len \in Lens, Dump(len, TRUE, TRUE)
    PROVE  Sound'
  <1>1. fd'
    BY DEF Dump
  <1>2. \A b \in Blocks : BlockOK(b)'
    <2>1. PICK t \in Blocks : t = Target(len)
      BY DumpPlace
    <2> QED
      BY <2>1, DumpBlock, SameBlock DEF Sound
  <1>3. \E first : Consecutive(first)'
    <2>1. PICK first : Consecutive(first)
      BY DEF Sound
    <2> QED
      BY <2>1, DumpConsecutive
  <1> QED
    BY <1>1, <1>2, <1>3, DumpFull DEF Sound

-----------------------------------------------------------------------------
(* Load.                                                                     *)

LEMMA FreshBlock ==
    ASSUME NEW b \in Blocks, BlockOK(b), ~HasUnread(b), TypeOK,
           block'[b] = Fresh, flash'[b] = flash[b]
    PROVE  BlockOK(b)' /\ Ids(b) = {} /\ Ids(b)' = {} /\ ~HasUnread(b)'
  <1>1. \A x \in flash[b] : x.pos \in Nat
    BY DEF TypeOK
  <1>2. block'[b].r = 0 /\ block'[b].w = 0 /\ block'[b].state = 0
    BY DEF Fresh
  <1>3. Live(b)' = {}
    BY <1>1, <1>2 DEF Live
  <1>4. BlockOK(b)'
    BY <1>2, <1>3 DEF BlockOK, Apart
  <1>5. ~HasUnread(b)'
    BY <1>2 DEF HasUnread
  <1> QED
    BY <1>4, <1>5 DEF Ids, Unread

\* The blocks a successful load leaves behind.
LEMMA ReadEffect ==
    ASSUME TypeOK, NEW k \in Blocks, Found(k), NEW c \in Blocks, c = Ring(k), NEW x,
           block' = [Cleared(0 .. k - 1) EXCEPT ![Ring(k)].r = @ + x.len]
    PROVE  /\ \A j \in 0 .. k - 1 : j \in Blocks /\ Ring(j) \in Blocks /\ Ring(j) # c
                                    /\ block'[Ring(j)] = Fresh
           /\ \A b \in Blocks : b # c /\ (\A j \in 0 .. k - 1 : b # Ring(j)) =>
                                    block'[b] = block[b]
           /\ block'[c].r = block[c].r + x.len
           /\ block'[c].w = block[c].w /\ block'[c].state = block[c].state
  <1>1. \A j \in 0 .. k - 1 : j \in Blocks /\ j # k
    BY SizesAssumption DEF Blocks
  <1>2. \A j \in 0 .. k - 1 : Ring(j) \in Blocks /\ Ring(j) # c
    BY <1>1, RingIsSum, RingOnto DEF TypeOK
  <1> DEFINE C == Cleared(0 .. k - 1)
  <1>3. /\ \A j \in 0 .. k - 1 : C[Ring(j)] = Fresh
        /\ \A b \in Blocks : (\A j \in 0 .. k - 1 : b # Ring(j)) => C[b] = block[b]
        /\ C[c] = block[c]
    BY <1>2 DEF Cleared
  <1>4. C = [b \in Blocks |-> C[b]]
    BY DEF Cleared
  <1>5. block[c] \in [r : Nat, w : 0 .. BlockSize - 1, state : {0, 1}]
    BY DEF TypeOK
  <1> HIDE DEF C
  <1>6. block' = [C EXCEPT ![c] = [C[c] EXCEPT !.r = C[c].r + x.len]]
    BY DEF C
  <1>7. /\ \A b \in Blocks : b # c => block'[b] = C[b]
        /\ block'[c] = [block[c] EXCEPT !.r = block[c].r + x.len]
    BY <1>3, <1>4, <1>6
  <1>8. /\ block'[c].r = block[c].r + x.len
        /\ block'[c].w = block[c].w /\ block'[c].state = block[c].state
    BY <1>5, <1>7
  <1> QED
    BY <1>1, <1>2, <1>3, <1>7, <1>8

\* The packet at the read position is the block's oldest; behind it lies the
\* next one, or the write position.
LEMMA ReadBlock ==
    ASSUME TypeOK, NEW c \in Blocks, BlockOK(c), HasUnread(c),
           NEW x \in AtReadPos(c), flash' = flash,
           block'[c].r = block[c].r + x.len,
           block'[c].w = block[c].w, block'[c].state = block[c].state
    PROVE  /\ BlockOK(c)'
           /\ x.id \in Ids(c)
           /\ \A i \in Ids(c) : x.id <= i
           /\ Ids(c)' = Ids(c) \ {x.id}
  <1>1. /\ \A y \in flash[c] : y.pos \in Nat /\ y.len \in Nat /\ y.len > 0 /\ y.id \in Nat
        /\ block[c].r \in Nat /\ block[c].w \in Nat
    BY SizesAssumption DEF TypeOK, Lens
  <1>2. /\ x \in flash[c] /\ x.pos = block[c].r
        /\ block[c].state # 0 /\ block[c].r < block[c].w
    BY DEF AtReadPos, HasUnread
  <1>3. x \in Live(c) /\ x.pos + x.len <= block[c].w
    BY <1>2 DEF Live, BlockOK
  <1>4. Live(c)' = Live(c)
    BY DEF Live
  <1>5. BlockOK(c)'
    <2>1. block'[c].r <= block'[c].w
      BY <1>2, <1>3
    <2>2. block'[c].r < block'[c].w => \E y \in flash'[c] : y.pos = block'[c].r
      BY <1>2, <1>3 DEF BlockOK
    <2>3. block'[c].state # 0
      BY <1>2
    <2>4. \A y, z \in flash'[c] : y = z \/ Apart(y, z)
      BY DEF BlockOK
    <2> QED
      BY <1>4, <2>1, <2>2, <2>3, <2>4 DEF BlockOK
  <1>6. Unread(c) = {y \in flash[c] : block[c].r <= y.pos /\ y.pos < block[c].w}
    BY DEF Unread
  <1>7. x \in Unread(c)
    BY <1>1, <1>2, <1>6
  <1>8. \A y \in Unread(c) : y = x \/ (x.id < y.id /\ x.pos + x.len <= y.pos)
    <2> SUFFICES ASSUME NEW y \in Unread(c), y # x
                 PROVE  x.id < y.id /\ x.pos + x.len <= y.pos
      OBVIOUS
    <2>1. y \in Live(c) /\ y \in flash[c] /\ x.pos <= y.pos
      BY <1>2, <1>6 DEF Live
    <2>2. x.pos + x.len <= y.pos
      BY <2>1, <1>1, <1>2 DEF BlockOK, Apart
    <2>3. x.pos < y.pos
      BY <2>1, <2>2, <1>1, <1>2
    <2> QED
      BY <2>1, <2>2, <2>3, <1>3 DEF BlockOK
  <1>9. Unread(c)' = Unread(c) \ {x}
    <2>1. ASSUME NEW y \in Unread(c)'
          PROVE  y \in Unread(c) /\ y # x
      <3>1. y \in flash[c] /\ x.pos + x.len <= y.pos /\ y.pos < block[c].w
        BY <1>2 DEF Unread
      <3>2. block[c].r <= y.pos /\ y.pos # x.pos
        BY <3>1, <1>1, <1>2
      <3> QED
        BY <3>1, <3>2, <1>6
    <2>2. ASSUME NEW y \in Unread(c), y # x
          PROVE  y \in Unread(c)'
      <3>1. block'[c].r <= y.pos /\ y.pos < block'[c].w /\ y \in flash'[c]
        BY <2>2, <1>2, <1>6, <1>8
      <3>2. block'[c].r < block'[c].w
        BY <3>1, <1>1, <1>2, <1>6
      <3> QED
        BY <3>1, <3>2, <1>2 DEF Unread, HasUnread
    <2> QED
      BY <2>1, <2>2
  <1>10. \A i \in Ids(c) : x.id <= i
    BY <1>1, <1>2, <1>8, <1>6 DEF Ids
  <1>11. Ids(c)' = Ids(c) \ {x.id}
    BY <1>1, <1>2, <1>6, <1>8, <1>9 DEF Ids
  <1> QED
    BY <1>5, <1>7, <1>10, <1>11 DEF Ids

\* In a sound store a packet begins at the read position: a load misreads it
\* only when the file system fails.
LEMMA FoundOK ==
    ASSUME TypeOK, Sound, NEW k \in Looks, Found(k)
    PROVE  k \in Blocks /\ Ring(k) \in Blocks /\ AtReadPos(Ring(k)) # {}
  <1>1. k \in Blocks /\ Ring(k) \in Blocks
    BY RingIsSum DEF Looks, Blocks, TypeOK
  <1> QED
    BY <1>1 DEF Sound, BlockOK, Found, HasUnread, AtReadPos

\* A load that reads a packet takes the oldest one.
LEMMA ReadSound ==
    ASSUME TypeOK, Sound, fd, NEW k \in Looks, Found(k), Read(k),
           UNCHANGED <<current, fd, flash, next>>,
           NEW first, Consecutive(first)
    PROVE  /\ Sound'
           /\ got' = first[0] /\ first[0] < next
           /\ \E f : Consecutive(f)' /\ f[0] = first[0] + 1
  <1>1. k \in Blocks /\ Ring(k) \in Blocks
    BY FoundOK
  <1>2. PICK c \in Blocks : c = Ring(k)
    BY <1>1
  <1>3. PICK x \in AtReadPos(c) :
            /\ got' = x.id
            /\ block' = [Cleared(0 .. k - 1) EXCEPT ![Ring(k)].r = @ + x.len]
    BY <1>2 DEF Read
  <1>4. /\ \A j \in 0 .. k - 1 : j \in Blocks /\ Ring(j) \in Blocks /\ Ring(j) # c
                                 /\ block'[Ring(j)] = Fresh
        /\ \A b \in Blocks : b # c /\ (\A j \in 0 .. k - 1 : b # Ring(j)) =>
                                 block'[b] = block[b]
        /\ block'[c].r = block[c].r + x.len
        /\ block'[c].w = block[c].w /\ block'[c].state = block[c].state
    BY <1>1, <1>2, <1>3, ReadEffect
  <1>5. HasUnread(c) /\ \A j \in 0 .. k - 1 : ~HasUnread(Ring(j))
    BY <1>2 DEF Found
  <1>6. flash' = flash /\ \A b \in Blocks : BlockOK(b)
    BY DEF Sound
  <1>7. /\ BlockOK(c)' /\ x.id \in Ids(c) /\ (\A i \in Ids(c) : x.id <= i)
        /\ Ids(c)' = Ids(c) \ {x.id}
    BY <1>4, <1>5, <1>6, ReadBlock
  <1>8. \A b \in Blocks : b # c =>
            /\ BlockOK(b)' /\ Ids(b)' = Ids(b) /\ (HasUnread(b)' <=> HasUnread(b))
            /\ HasUnread(b)' => block'[b] = block[b]
    <2> SUFFICES ASSUME NEW b \in Blocks, b # c
                 PROVE  /\ BlockOK(b)' /\ Ids(b)' = Ids(b)
                        /\ HasUnread(b)' <=> HasUnread(b)
                        /\ HasUnread(b)' => block'[b] = block[b]
      OBVIOUS
    <2>1. CASE \E j \in 0 .. k - 1 : b = Ring(j)
      <3>1. ~HasUnread(b) /\ block'[b] = Fresh
        BY <2>1, <1>4, <1>5
      <3> QED
        BY <3>1, <1>6, FreshBlock
    <2>2. CASE ~ \E j \in 0 .. k - 1 : b = Ring(j)
      <3>1. block'[b] = block[b]
        BY <2>2, <1>4
      <3> QED
        BY <3>1, <1>6, SameBlock
    <2> QED
      BY <2>1, <2>2
  <1>9. \A m \in Blocks : Ring(m)' = Ring(m) /\ Ring(m) \in Blocks
    BY RingIsSum DEF Ring, TypeOK
  <1> DEFINE M == BlockCnt
             f == [m \in 0 .. M |-> IF m <= k THEN first[0] + 1 ELSE first[m]]
  <1>10. /\ first \in [0 .. M -> Nat] /\ first[M] = next
         /\ \A i, j \in 0 .. M : i <= j => first[i] <= first[j]
         /\ M \in Nat /\ k \in Nat /\ k < M /\ k + 1 \in 0 .. M /\ k \in 0 .. M
         /\ 0 \in 0 .. M /\ M \in 0 .. M
         /\ \A m \in Blocks : m \in 0 .. M /\ m + 1 \in 0 .. M /\ m \in Nat
    <2>1. /\ M \in Nat /\ k \in Nat /\ k < M /\ k + 1 \in 0 .. M /\ k \in 0 .. M
          /\ 0 \in 0 .. M /\ M \in 0 .. M
          /\ \A m \in Blocks : m \in 0 .. M /\ m + 1 \in 0 .. M /\ m \in Nat
      BY <1>1, SizesAssumption DEF Blocks
    <2>2. /\ first \in [0 .. M -> Nat] /\ first[M] = next
          /\ \A i, j \in 0 .. M : i <= j => first[i] <= first[j]
      BY DEF Consecutive
    <2> QED
      BY <2>1, <2>2
  \* the blocks before it are empty, so its interval begins with the oldest
  <1>11. Ids(c) = first[k] .. first[k + 1] - 1
    BY <1>1, <1>2 DEF Consecutive
  <1>12. first[k] < first[k + 1] /\ first[k + 1] <= next
    BY <1>7, <1>10, <1>11
  <1>13. first[0] = first[k]
    <2>1. first[0] <= first[k] /\ first[0] \in Nat /\ first[k] \in Nat /\ next \in Nat
      BY <1>10
    <2>2. first[0] \in first[0] .. next - 1
      BY <2>1, <1>10, <1>12
    <2>3. PICK j \in Blocks : first[0] \in first[j] .. first[j + 1] - 1
      BY <2>2 DEF Consecutive
    <2>4. first[0] \in Ids(Ring(j))
      BY <2>3 DEF Consecutive
    <2>5. HasUnread(Ring(j))
      BY <2>4 DEF Ids, Unread
    <2>6. j \notin 0 .. k - 1
      BY <2>5, <1>5
    <2>7. k <= j
      BY <2>6, <1>10
    <2>8. first[k] <= first[j] /\ first[j] \in Nat
      BY <2>7, <1>10
    <2> QED
      BY <2>1, <2>3, <2>8, <1>10
  <1>14. x.id = first[0]
    <2>1. first[k] \in Ids(c)
      BY <1>10, <1>11, <1>12
    <2> QED
      BY <2>1, <1>7, <1>10, <1>11, <1>13
  <1>15. Consecutive(f)'
    <2>1. f \in [0 .. M -> Nat] /\ f[M] = next
      BY <1>10
    <2>2. \A i, j \in 0 .. M : i <= j => f[i] <= f[j]
      <3>1. \A j \in 0 .. M : ~(j <= k) => first[k + 1] <= first[j]
        BY <1>10
      <3> QED
        BY <3>1, <1>10, <1>12, <1>13
    <2>3. /\ \A m \in 0 .. M : m <= k => f[m] = first[0] + 1
          /\ \A m \in 0 .. M : ~(m <= k) => f[m] = first[m]
      OBVIOUS
    <2> HIDE DEF f
    <2>m. \A m \in Blocks : /\ m + 1 <= k => f[m] = first[0] + 1 /\ f[m + 1] = first[0] + 1
                            /\ m > k => f[m] = first[m]
                            /\ m >= k => f[m + 1] = first[m + 1]
      <3> SUFFICES ASSUME NEW m \in Blocks
                   PROVE  /\ m + 1 <= k => f[m] = first[0] + 1 /\ f[m + 1] = first[0] + 1
                          /\ m > k => f[m] = first[m]
                          /\ m >= k => f[m + 1] = first[m + 1]
        OBVIOUS
      <3>1. m \in 0 .. M /\ m + 1 \in 0 .. M /\ m \in Nat /\ k \in Nat
        BY <1>10
      <3> QED
        BY <3>1, <2>3
    <2>4. ASSUME NEW m \in Blocks
          PROVE  Ids(Ring(m))' = f[m] .. f[m + 1] - 1
      <3>1. Ids(Ring(m)) = first[m] .. first[m + 1] - 1
        BY DEF Consecutive
      <3>2. PICK b \in Blocks : b = Ring(m)
        BY <1>9
      <3>3. Ids(Ring(m))' = Ids(b)'
        BY <3>2, <1>9, IdsAt
      <3>4. CASE m < k
        <4>1. m \in 0 .. k - 1 /\ ~HasUnread(b) /\ b # c
          BY <3>2, <3>4, <1>4, <1>5, <1>10
        <4>2. Ids(b) = {}
          BY <4>1 DEF Ids, Unread
        <4>3. f[m] = first[0] + 1 /\ f[m + 1] = first[0] + 1
          <5>1. m + 1 <= k
            BY <3>4, <1>10
          <5> QED
            BY <5>1, <2>m
        <4>4. first[0] \in Nat
          BY <1>10
        <4>5. (first[0] + 1) .. (first[0] + 1) - 1 = {}
          BY <4>4
        <4>6. Ids(b)' = {}
          BY <4>1, <4>2, <1>8
        <4> QED
          BY <4>3, <4>5, <4>6, <3>3
      <3>5. CASE m = k
        <4>1. Ids(Ring(m))' = (first[k] .. first[k + 1] - 1) \ {first[k]}
          BY <3>2, <3>3, <3>5, <1>2, <1>7, <1>11, <1>13, <1>14
        <4>2. f[m] = first[k] + 1 /\ f[m + 1] = first[k + 1]
          BY <3>5, <1>10, <1>13, <2>3
        <4>3. first[k] \in Nat /\ first[k + 1] \in Nat
          BY <1>10
        <4> QED
          BY <4>1, <4>2, <4>3
      <3>6. CASE m > k
        <4>1. b # c
          BY <3>2, <3>6, <1>1, <1>2, <1>10, RingOnto DEF TypeOK
        <4>2. f[m] = first[m] /\ f[m + 1] = first[m + 1]
          <5>1. m >= k
            BY <3>6, <1>10
          <5> QED
            BY <5>1, <3>6, <2>m
        <4> QED
          BY <4>1, <4>2, <3>1, <3>2, <3>3, <1>8
      <3> QED
        BY <3>4, <3>5, <3>6, <1>10
    <2>5. ASSUME NEW i \in f[0] .. next - 1
          PROVE  \E m \in Blocks : i \in f[m] .. f[m + 1] - 1
      <3>1. f[0] = first[0] + 1 /\ first[0] \in Nat
        BY <1>10, <2>3
      <3>2. i \in first[0] .. next - 1 /\ first[0] < i
        BY <3>1, <1>10
      <3>3. PICK m \in Blocks : i \in first[m] .. first[m + 1] - 1
        BY <3>2 DEF Consecutive
      <3>4. ~(m < k)
        <4>1. m < k => first[m + 1] <= first[k] /\ first[m + 1] \in Nat
          BY <1>10
        <4> QED
          BY <4>1, <3>2, <3>3, <1>10, <1>13
      <3>5. f[m + 1] = first[m + 1]
        <4>1. m >= k
          BY <3>4, <1>10
        <4> QED
          BY <4>1, <2>m
      <3>6. f[m] <= i /\ f[m] \in Nat
        <4>1. m \in Nat /\ m \in 0 .. M /\ first[m] \in Nat /\ first[0] \in Nat
          BY <1>10
        <4>2. f[m] = first[0] + 1 \/ f[m] = first[m]
          BY <4>1, <2>3
        <4> QED
          BY <4>1, <4>2, <3>2, <3>3
      <3> QED
        BY SMTT(20), <3>3, <3>5, <3>6, <1>10
    <2> QED
      BY <2>1, <2>2, <2>4, <2>5 DEF Consecutive
  <1>16. FullBehind'
    <2> SUFFICES ASSUME NEW i \in Blocks, NEW j \in Blocks, i < j, HasUnread(Ring(i))'
                 PROVE  /\ HasUnread(Ring(j))'
                        /\ block[Ring(j)]'.r = 0
                        /\ j # BlockCnt - 1 => block[Ring(j)]'.w > BlockSize - 1 - MaxLen
      BY DEF FullBehind
    <2>1. PICK a \in Blocks, b \in Blocks : a = Ring(i) /\ b = Ring(j)
      BY <1>9
    <2>2. /\ HasUnread(Ring(i))' <=> HasUnread(a)'
          /\ HasUnread(Ring(j))' <=> HasUnread(b)'
          /\ block[Ring(j)]' = block'[b]
      BY <2>1, <1>9, BlockAt
    <2>3. HasUnread(a)
      BY <2>2, <1>5, <1>8
    <2>4. /\ HasUnread(b) /\ block[b].r = 0
          /\ j # BlockCnt - 1 => block[b].w > BlockSize - 1 - MaxLen
      BY <2>1, <2>3 DEF Sound, FullBehind
    <2>5. b # c
      <3>1. ~(i < k)
        BY <2>1, <2>3, <1>5, <1>10
      <3>2. j # k
        BY <3>1, <1>10
      <3> QED
        BY <3>2, <2>1, <1>1, <1>2, RingOnto DEF TypeOK
    <2> QED
      BY <2>2, <2>4, <2>5, <1>8
  <1>17. f[0] = first[0] + 1
    BY <1>10
  <1>18. Sound'
    BY <1>7, <1>8, <1>15, <1>16 DEF Sound
  <1>19. first[0] < next
    BY <1>10, <1>12, <1>13
  <1> QED
    BY <1>3, <1>14, <1>15, <1>17, <1>18, <1>19

\* A load that finds nothing changes nothing that could be read.
LEMMA NothingSound ==
    ASSUME TypeOK, Sound, fd, \A k \in Looks : ~HasUnread(Ring(k)),
           block' = Cleared(Looks), UNCHANGED <<current, fd, flash, next>>,
           NEW first, Consecutive(first)
    PROVE  Sound' /\ Consecutive(first)' /\ first[0] = next
  <1>1. Looks = Blocks /\ current \in Blocks
    BY DEF Looks, Blocks, TypeOK
  <1>2. \A b \in Blocks : ~HasUnread(b) /\ block'[b] = Fresh
    BY <1>1, RingOnto DEF Cleared
  <1>3. \A b \in Blocks : BlockOK(b)' /\ Ids(b) = {} /\ Ids(b)' = {} /\ ~HasUnread(b)'
    BY <1>2, FreshBlock DEF Sound
  <1>4. \A k \in Blocks : Ring(k)' = Ring(k) /\ Ring(k) \in Blocks
    BY <1>1, RingIsSum DEF Ring
  <1>5. \A k \in Blocks : Ids(Ring(k))' = Ids(Ring(k)) /\ ~HasUnread(Ring(k))'
    <2> TAKE k \in Blocks
    <2>1. PICK b \in Blocks : b = Ring(k)
      BY <1>4
    <2>2. Ids(Ring(k))' = Ids(b)' /\ (HasUnread(Ring(k))' <=> HasUnread(b)')
      BY <2>1, <1>4, IdsAt, BlockAt
    <2> QED
      BY <2>1, <2>2, <1>3
  <1>6. Consecutive(first)'
    BY <1>5 DEF Consecutive
  <1>7. FullBehind'
    BY <1>5 DEF FullBehind
  <1>8. UnreadIds = {}
    BY <1>3 DEF UnreadIds, Ids
  <1>9. first[0] = next
    BY <1>1, <1>8, UnreadIsInterval DEF TypeOK, Oldest
  <1> QED
    BY <1>3, <1>6, <1>7, <1>9 DEF Sound

-----------------------------------------------------------------------------
(* The invariant.                                                            *)

LEMMA InitInv == Init => StoreInv
  <1> SUFFICES ASSUME Init PROVE StoreInv
    OBVIOUS
  <1> USE SizesAssumption
  <1>1. \A b \in Blocks : block[b] = Fresh /\ flash[b] = {}
    BY DEF Init
  <1>2. /\ Fresh \in [r : Nat, w : 0 .. BlockSize - 1, state : {0, 1}]
        /\ Fresh.r = 0 /\ Fresh.w = 0 /\ Fresh.state = 0
    BY DEF Fresh
  <1>3. TypeOK
    <2>1. /\ current \in Blocks /\ fd \in BOOLEAN /\ faults \in 0 .. MaxFaults
          /\ next \in 0 .. MaxDumps /\ got \in 0 .. MaxDumps - 1 \cup {Nothing, Junk}
      <3>1. current \in Blocks
        BY DEF Init, Blocks
      <3>2. faults \in 0 .. MaxFaults /\ next \in 0 .. MaxDumps
        BY DEF Init
      <3> QED
        BY <3>1, <3>2 DEF Init
    <2>2. block \in [Blocks -> [r : Nat, w : 0 .. BlockSize - 1, state : {0, 1}]]
      BY <1>2 DEF Init
    <2>3. flash \in [Blocks -> SUBSET [pos : Nat, len : Lens, id : 0 .. next - 1]]
      BY DEF Init
    <2> QED
      BY <2>1, <2>2, <2>3 DEF TypeOK
  <1>4. \A b \in Blocks : BlockOK(b) /\ ~HasUnread(b) /\ Ids(b) = {}
    BY <1>1, <1>2 DEF BlockOK, Live, HasUnread, Ids, Unread
  <1>5. \A k \in Blocks : Ring(k) \in Blocks
    BY <1>3, RingIsSum DEF TypeOK
  <1> DEFINE first == [k \in 0 .. BlockCnt |-> 0]
  <1>6. Consecutive(first)
    <2>1. \A k \in Blocks : k \in 0 .. BlockCnt /\ k + 1 \in 0 .. BlockCnt
      BY DEF Blocks
    <2>2. \A k \in Blocks : first[k] = 0 /\ first[k + 1] = 0
      BY <2>1
    <2>3. first \in [0 .. BlockCnt -> Nat] /\ first[BlockCnt] = 0 /\ first[0] = 0
      OBVIOUS
    <2>4. \A i, j \in 0 .. BlockCnt : i <= j => first[i] <= first[j]
      OBVIOUS
    <2>5. next = 0
      BY DEF Init
    <2> HIDE DEF first
    <2>6. 0 .. 0 - 1 = {}
      OBVIOUS
    <2> QED
      BY <1>4, <1>5, <2>2, <2>3, <2>4, <2>5, <2>6 DEF Consecutive
  <1>7. FullBehind
    BY <1>4, <1>5 DEF FullBehind
  <1> QED
    BY <1>3, <1>4, <1>6, <1>7 DEF StoreInv, Sound, Init

LEMMA DumpType ==
    ASSUME TypeOK, NEW len \in Lens, NEW opened \in BOOLEAN, NEW written \in BOOLEAN,
           Dump(len, opened, written)
    PROVE  TypeOK'
  <1> USE SizesAssumption
  <1> DEFINE Rec(n) == [pos : Nat, len : Lens, id : 0 .. n - 1]
  <1>1. next' = next + 1 /\ next \in Nat /\ next' \in 0 .. MaxDumps
    BY DEF Dump, TypeOK
  <1>2. Rec(next) \subseteq Rec(next')
    BY <1>1
  <1>3. Written(len) \in Rec(next')
    BY <1>1, DumpPlace DEF Written
  <1>4. flash \in [Blocks -> SUBSET Rec(next')] /\ File \in [Blocks -> SUBSET Rec(next')]
    BY <1>2 DEF TypeOK, File
  <1>5. PICK t \in Blocks : t = Target(len)
    BY DumpPlace
  <1>6. flash' \in [Blocks -> SUBSET Rec(next')]
    <2>1. CASE ~opened
      BY <2>1, <1>4 DEF Dump
    <2>2. CASE opened
      <3> DEFINE S == Untouched(File[t], Place(len), len)
                        \cup (IF written THEN {Written(len)} ELSE {})
      <3>1. S \in SUBSET Rec(next')
        BY <1>3, <1>4 DEF Untouched
      <3>2. flash' = [File EXCEPT ![t] = S]
        BY <2>2, <1>5 DEF Dump
      <3> HIDE DEF S
      <3> QED
        BY <3>1, <3>2, <1>4
    <2> QED
      BY <2>1, <2>2
  <1>7. block' \in [Blocks -> [r : Nat, w : 0 .. BlockSize - 1, state : {0, 1}]]
    BY DumpPlace DEF Dump, TypeOK
  <1>8. current' \in Blocks /\ fd' \in BOOLEAN /\ faults' \in 0 .. MaxFaults
    BY DumpPlace DEF Dump, TypeOK
  <1>9. got' \in 0 .. MaxDumps - 1 \cup {Nothing, Junk}
    BY DEF Dump, TypeOK
  <1> QED
    BY <1>1, <1>6, <1>7, <1>8, <1>9 DEF TypeOK

\* The load leaves the blocks well typed, whatever length it believes.
LEMMA LoadType ==
    ASSUME TypeOK, Load
    PROVE  TypeOK'
  <1> USE SizesAssumption
  <1> DEFINE Entry == [r : Nat, w : 0 .. BlockSize - 1, state : {0, 1}]
  <1>1. \A looked : Cleared(looked) \in [Blocks -> Entry]
    BY DEF Cleared, TypeOK, Fresh
  <1>2. \A C \in [Blocks -> Entry], b \in Blocks, n \in Nat :
            [C EXCEPT ![b].r = @ + n] \in [Blocks -> Entry]
    <2> TAKE C \in [Blocks -> Entry], b \in Blocks, n \in Nat
    <2>1. C[b] \in Entry
      OBVIOUS
    <2>2. [C[b] EXCEPT !.r = C[b].r + n] \in Entry
      BY <2>1
    <2> QED
      BY <2>2
  <1>3. ASSUME NEW k \in Looks, Found(k), Read(k) \/ Misread(k)
        PROVE  /\ block' \in [Blocks -> Entry]
               /\ got' \in 0 .. MaxDumps - 1 \cup {Nothing, Junk}
               /\ faults' \in 0 .. MaxFaults
    <2>1. Ring(k) \in Blocks
      BY RingIsSum DEF Looks, Blocks, TypeOK
    <2>2. CASE Read(k)
      <3>1. PICK x \in AtReadPos(Ring(k)) :
                /\ got' = x.id
                /\ block' = [Cleared(0 .. k - 1) EXCEPT ![Ring(k)].r = @ + x.len]
                /\ UNCHANGED faults
        BY <2>2 DEF Read
      <3>2. x.len \in Nat /\ x.id \in 0 .. MaxDumps - 1
        BY <2>1 DEF AtReadPos, TypeOK, Lens
      <3> QED
        BY <2>1, <3>1, <3>2, <1>1, <1>2 DEF TypeOK
    <2>3. CASE Misread(k)
      <3>1. PICK n \in Lens :
                /\ got' = Junk
                /\ block' = [Cleared(0 .. k - 1) EXCEPT ![Ring(k)].r = @ + n]
                /\ faults' = IF AtReadPos(Ring(k)) = {} THEN faults ELSE faults + 1
                /\ faults' <= MaxFaults
        BY <2>3 DEF Misread
      <3>2. n \in Nat
        BY DEF Lens
      <3>3. block' \in [Blocks -> Entry]
        BY <2>1, <3>1, <3>2, <1>1, <1>2
      <3>4. faults' \in 0 .. MaxFaults
        BY <3>1 DEF TypeOK
      <3> QED
        BY <3>1, <3>3, <3>4
    <2> QED
      BY <1>3, <2>2, <2>3
  <1>4. /\ block' \in [Blocks -> Entry]
        /\ got' \in 0 .. MaxDumps - 1 \cup {Nothing, Junk}
        /\ faults' \in 0 .. MaxFaults
    BY <1>1, <1>3 DEF Load, TypeOK
  <1>5. UNCHANGED <<current, fd, flash, next>>
    BY DEF Load
  <1> QED
    BY <1>4, <1>5 DEF TypeOK

LEMMA StepInv ==
    ASSUME StoreInv, [Next]_vars
    PROVE  StoreInv'
  <1> USE DEF StoreInv
  <1>1. ASSUME NEW len \in Lens, NEW opened \in BOOLEAN, NEW written \in BOOLEAN,
               Dump(len, opened, written)
        PROVE  StoreInv'
    <2>1. TypeOK'
      BY <1>1, DumpType
    <2>2. ASSUME faults' = 0
          PROVE  Sound'
      <3>1. faults = 0 /\ opened = TRUE /\ written = TRUE
        BY <1>1, <2>2 DEF Dump, TypeOK
      <3>2. Dump(len, TRUE, TRUE)
        BY <1>1, <3>1
      <3> QED
        BY <3>1, <3>2, DumpSound
    <2> QED
      BY <2>1, <2>2
  <1>2. CASE Load
    <2>1. TypeOK'
      BY <1>2, LoadType
    <2>2. ASSUME faults' = 0
          PROVE  Sound'
      <3>1. PICK first : faults = 0 => Consecutive(first)
        BY DEF Sound
      <3>2. CASE \E k \in Looks : Found(k) /\ (Read(k) \/ Misread(k))
        <4>1. PICK k \in Looks : Found(k) /\ (Read(k) \/ Misread(k))
          BY <3>2
        <4>2. faults = 0
          BY <2>2, <4>1 DEF Read, Misread, TypeOK
        <4>3. Read(k)
          BY <2>2, <4>1, <4>2, FoundOK DEF Misread
        <4> QED
          BY <1>2, <3>1, <4>1, <4>2, <4>3, ReadSound DEF Load
      <3>3. CASE \A k \in Looks : ~HasUnread(Ring(k))
        <4>1. /\ block' = Cleared(Looks) /\ UNCHANGED faults /\ fd
              /\ UNCHANGED <<current, fd, flash, next>>
          BY <1>2, <3>3 DEF Load, Found
        <4> QED
          BY <2>2, <3>1, <3>3, <4>1, NothingSound
      <3> QED
        BY <1>2, <3>2, <3>3 DEF Load
    <2> QED
      BY <2>1, <2>2
  <1>3. CASE LoadClosed \/ UNCHANGED vars
    <2>1. UNCHANGED <<current, block, fd, flash, next, faults>>
      BY <1>3 DEF LoadClosed, vars
    <2>2. got' = Nothing \/ got' = got
      BY <1>3 DEF LoadClosed, vars
    <2>3. TypeOK'
      BY <2>1, <2>2 DEF TypeOK
    <2>4. Sound => Sound'
      <3>1. \A b \in Blocks : BlockOK(b) => BlockOK(b)'
        BY <2>1, SameBlock
      <3>2. \A first : Consecutive(first) => Consecutive(first)'
        BY <2>1 DEF Consecutive, Ids, Unread, HasUnread, Ring
      <3>3. FullBehind => FullBehind'
        BY <2>1 DEF FullBehind, HasUnread, Ring
      <3> QED
        BY <2>1, <3>1, <3>2, <3>3 DEF Sound
    <2> QED
      BY <2>1, <2>3, <2>4
  <1> QED
    BY <1>1, <1>2, <1>3 DEF Next

LEMMA Invariance == Spec => []StoreInv
  BY InitInv, StepInv, PTL DEF Spec

(* Types: in particular no packet is written across the end of its block     *)
(* (dump_location_data), whatever the file system does.                      *)
THEOREM TypeCorrect == Spec => []TypeOK
  BY Invariance, PTL DEF StoreInv

-----------------------------------------------------------------------------
(* Nothing is discarded while there is room.                                 *)

LEMMA DiscardStep ==
    ASSUME StoreInv, Next, NEW b \in Blocks, Discards(b), NEW c \in Blocks \ {b}
    PROVE  UnreadBytes(c) > BlockSize - 1 - MaxLen
  <1>1. TypeOK /\ Sound /\ faults = 0 /\ HasUnread(b) /\ current' = b /\ current # b
    BY DEF StoreInv, Discards
  <1>2. PICK len \in Lens, opened \in BOOLEAN, written \in BOOLEAN :
            Dump(len, opened, written)
    BY <1>1 DEF Next, Load, LoadClosed
  <1>3. ~Fits(len) /\ b = Ring(0)
    BY <1>1, <1>2, DumpPlace DEF Dump
  <1>4. PICK k \in Blocks : c = Ring(k)
    BY <1>1, RingOnto DEF TypeOK
  <1>5. 0 \in Blocks /\ 0 < k
    BY <1>3, <1>4, SizesAssumption DEF Blocks
  <1>6. /\ HasUnread(c) /\ block[c].r = 0
        /\ k # BlockCnt - 1 => block[c].w > BlockSize - 1 - MaxLen
    BY <1>1, <1>3, <1>4, <1>5 DEF Sound, FullBehind
  <1>7. k = BlockCnt - 1 => block[c].w > BlockSize - 1 - MaxLen
    <2>1. len <= MaxLen /\ len \in Nat /\ MaxLen \in Nat /\ BlockSize \in Nat
      BY SizesAssumption DEF Lens
    <2>2. k = BlockCnt - 1 => c = current
      BY <1>1, <1>4, RingOnto DEF TypeOK
    <2>3. block[current].w \in Nat
      BY <1>1, SizesAssumption DEF TypeOK
    <2> QED
      BY <1>3, <2>1, <2>2, <2>3 DEF Fits
  <1>8. block[c].w \in Nat
    BY SizesAssumption, <1>1 DEF TypeOK
  <1> QED
    BY <1>6, <1>7, <1>8 DEF UnreadBytes

(* When dump_location_data throws unread packets away, every other block is  *)
(* full of packets nobody has read, to less than one packet.                 *)
THEOREM RoomIsUsed == Spec => DiscardsOnlyWhenFull
  <1>1. StoreInv /\ [Next]_vars =>
          [\A b \in Blocks : Discards(b) =>
              \A c \in Blocks \ {b} : UnreadBytes(c) > BlockSize - 1 - MaxLen]_vars
    BY DiscardStep
  <1> QED
    BY <1>1, Invariance, PTL DEF Spec, DiscardsOnlyWhenFull

-----------------------------------------------------------------------------
(* The store implements the lossy queue.                                     *)

LEMMA InitQueue == Init => Queue!Init
  <1> SUFFICES ASSUME Init PROVE Queue!Init
    OBVIOUS
  <1>1. UnreadIds = {}
    BY DEF Init, UnreadIds, Unread
  <1> QED
    BY <1>1 DEF Init, Queue!Init, Oldest

LEMMA OldestIs ==
    \A first : TypeOK /\ Consecutive(first) =>
        Oldest = first[0] /\ first[0] \in Nat /\ first[0] <= next
  BY UnreadIsInterval DEF TypeOK

LEMMA OldestIsThen ==
    (\A first : TypeOK /\ Consecutive(first) =>
        Oldest = first[0] /\ first[0] \in Nat /\ first[0] <= next)'
  BY OldestIs, PTL

LEMMA OldestUnchanged ==
    ASSUME UNCHANGED <<block, flash, next>>
    PROVE  Oldest' = Oldest
  <1>1. UnreadIds' = UnreadIds
    BY DEF UnreadIds, Unread, HasUnread
  <1> QED
    BY <1>1 DEF Oldest

LEMMA StepQueue ==
    ASSUME StoreInv, StoreInv', [Next]_vars
    PROVE  [Queue!Next]_(Queue!vars)
  <1>1. TypeOK /\ TypeOK' /\ (faults = 0 => Sound) /\ faults' \in Nat
    BY SizesAssumption DEF StoreInv, TypeOK
  <1>2. CASE faults' # 0
    <2>1. faults' > 0
      BY <1>1, <1>2
    <2> QED
      BY <2>1 DEF Queue!Next, Queue!Anything
  <1>3. CASE faults' = 0 /\ UNCHANGED vars
    BY <1>3, OldestUnchanged DEF vars, Queue!vars
  <1>4. CASE faults' = 0 /\ Next
    <2>1. faults = 0 /\ Sound
      BY <1>1, <1>4 DEF Next, Dump, Load, LoadClosed, Read, Misread, TypeOK
    <2>2. PICK first : Consecutive(first)
      BY <2>1 DEF Sound
    <2>3. Oldest = first[0] /\ first[0] \in Nat /\ first[0] <= next /\ next \in Nat
      BY <1>1, <2>2, OldestIs DEF TypeOK
    <2>4. ASSUME NEW len \in Lens, NEW opened \in BOOLEAN, NEW written \in BOOLEAN,
                 Dump(len, opened, written)
          PROVE  Queue!Put
      <3>1. opened = TRUE /\ written = TRUE
        BY <1>4, <2>1, <2>4 DEF Dump
      <3>2. Dump(len, TRUE, TRUE)
        BY <2>4, <3>1
      <3>3. PICK f : Consecutive(f)' /\ f[0] = IF Fits(len) THEN first[0] ELSE first[1]
        BY <1>1, <2>1, <2>2, <3>2, DumpConsecutive
      <3>4. Oldest' = f[0]
        BY <1>1, <3>3, OldestIsThen
      <3>5. first[0] <= first[1] /\ first[1] <= next /\ first[1] \in Nat
        <4>1. 0 \in 0 .. BlockCnt /\ 1 \in 0 .. BlockCnt /\ BlockCnt \in 0 .. BlockCnt
              /\ 1 <= BlockCnt
          BY SizesAssumption
        <4> QED
          BY <4>1, <2>2 DEF Consecutive
      <3>6. Oldest' \in Oldest .. next
        BY <2>3, <3>3, <3>4, <3>5
      <3> QED
        BY <1>4, <2>1, <3>2, <3>6 DEF Dump, Queue!Put
    <2>5. CASE Load
      <3>1. CASE \E k \in Looks : Found(k) /\ (Read(k) \/ Misread(k))
        <4>1. PICK k \in Looks : Found(k) /\ (Read(k) \/ Misread(k))
          BY <3>1
        <4>2. Read(k)
          BY <1>1, <1>4, <2>1, <4>1, FoundOK DEF Misread
        <4>3. /\ got' = first[0] /\ first[0] < next
              /\ \E f : Consecutive(f)' /\ f[0] = first[0] + 1
          BY <1>1, <2>1, <2>2, <2>5, <4>1, <4>2, ReadSound DEF Load
        <4>4. Oldest' = first[0] + 1
          BY <1>1, <4>3, OldestIsThen
        <4> QED
          BY <1>4, <2>1, <2>3, <2>5, <4>3, <4>4 DEF Load, Queue!Next, Queue!Get
      <3>2. CASE \A k \in Looks : ~HasUnread(Ring(k))
        <4>1. /\ block' = Cleared(Looks) /\ got' = Nothing /\ fd
              /\ UNCHANGED <<current, fd, flash, next>>
          BY <2>5, <3>2 DEF Load, Found
        <4>2. Consecutive(first)' /\ first[0] = next
          BY <1>1, <2>1, <2>2, <3>2, <4>1, NothingSound
        <4>3. Oldest' = first[0]
          BY <1>1, <4>2, OldestIsThen
        <4> QED
          BY <1>4, <2>1, <2>3, <4>1, <4>2, <4>3 DEF Queue!Next, Queue!GetNothing
      <3> QED
        BY <2>5, <3>1, <3>2 DEF Load
    <2>6. CASE LoadClosed
      <3>1. \A b \in Blocks : flash[b] = {}
        BY <2>1, <2>6 DEF LoadClosed, Sound
      <3>2. UnreadIds = {}
        BY <3>1 DEF UnreadIds, Unread
      <3>3. Oldest = next /\ Oldest' = Oldest
        BY <2>6, <3>2, OldestUnchanged DEF Oldest, LoadClosed
      <3> QED
        BY <1>4, <2>1, <2>6, <3>3 DEF LoadClosed, Queue!Next, Queue!GetNothing
    <2> QED
      BY <1>4, <2>4, <2>5, <2>6 DEF Next, Queue!Next
  <1> QED
    BY <1>2, <1>3, <1>4

(* dump_location_data and load_location_data implement the lossy queue, for  *)
(* every number and size of blocks, until an operation of the file system    *)
(* fails.                                                                    *)
THEOREM ImplementsQueue == Spec => IsLossyQueue
  <1>1. StoreInv /\ StoreInv' /\ [Next]_vars => [Queue!Next]_(Queue!vars)
    BY StepQueue
  <1> QED
    BY <1>1, InitQueue, Invariance, PTL DEF Spec, IsLossyQueue, Queue!Spec

=============================================================================
