------------------------- MODULE StationSerialProofs -------------------------
(* Proofs about the station's serial receiver and router, for every size of   *)
(* the ring, the chunks and the queues, any payloads, and bytes lost anywhere. *)
EXTENDS StationSerial, SequenceTheorems, TLAPS

-----------------------------------------------------------------------------
(* The inductive invariant.                                                  *)

\* The position of the next byte the parser will see, if that one is not lost.
Pt == IF uart_buf # <<>> THEN uart_buf[1]
      ELSE IF ring # <<>> THEN ring[1] ELSE next

Free(lost, from, to) == \A p \in lost : ~(from <= p /\ p <= to)
Lossless(from, to) == Free(gone, from, to)

\* The bytes of the line, frame after frame.
LineOK ==
    /\ line \in Seq(Nat) /\ starts \in Seq(Nat)
    /\ next \in 1 .. Len(line) + 1
    /\ \A k \in Frames :
          /\ starts[k] \in 1 .. Len(line) /\ End(k) \in 1 .. Len(line)
          /\ line[starts[k]] = H /\ line[starts[k] + 1] = L
          /\ line[starts[k] + 2] \in 1 .. MaxLen
    /\ \A j, k \in Frames : j < k => End(j) < starts[k]
    /\ \A p \in 1 .. Len(line) : \E k \in Frames : starts[k] <= p /\ p <= End(k)

\* What was received is parsed in its order: every byte is parsed, lost, or waits.
Pending ==
    /\ ring \in Seq(Nat) /\ uart_buf \in Seq(Nat) /\ gone \subseteq 1 .. next - 1
    /\ \A i \in DOMAIN ring : ring[i] \in 1 .. next - 1
    /\ \A i \in DOMAIN uart_buf : uart_buf[i] \in 1 .. next - 1
    /\ \A i, j \in DOMAIN ring : i < j => ring[i] < ring[j]
    /\ \A i, j \in DOMAIN uart_buf : i < j => uart_buf[i] < uart_buf[j]
    /\ \A i \in DOMAIN uart_buf, j \in DOMAIN ring : uart_buf[i] < ring[j]
    /\ \A p \in 1 .. next - 1 : \/ p < Pt \/ p \in gone
                                \/ \E i \in DOMAIN ring : ring[i] = p
                                \/ \E i \in DOMAIN uart_buf : uart_buf[i] = p

\* The length of rx_buf is the state of the parser.
ParserOK ==
    /\ rx_buf \in Seq(Nat) /\ wantlen \in 0 .. MaxLen
    /\ \A i \in DOMAIN rx_buf : rx_buf[i] \in 1 .. Pt - 1
    /\ rx_buf # <<>> => line[rx_buf[1]] = H
    /\ \/ state = "preamble_H" /\ Len(rx_buf) = 0
       \/ state = "preamble_L" /\ Len(rx_buf) = 1
       \/ state = "header" /\ Len(rx_buf) = 2
       \/ /\ state = "data" /\ Len(rx_buf) >= 3 /\ wantlen = line[rx_buf[3]]
          /\ Len(rx_buf) = 3 \/ Len(rx_buf) < wantlen + 3

\* Without a loss since its first byte rx_buf is a piece of the line.
Contiguous ==
    rx_buf # <<>> /\ Lossless(rx_buf[1], Pt - 1) =>
        /\ Len(rx_buf) = Pt - rx_buf[1]
        /\ \A i \in DOMAIN rx_buf : rx_buf[i] = rx_buf[1] + i - 1

\* Every stretch without a loss is in rx_buf, once something is.
Covers ==
    \A w \in 1 .. Pt : rx_buf # <<>> /\ rx_buf[1] < w /\ Lossless(w, Pt - 1) =>
        Len(rx_buf) >= Pt - w + 1

\* Where frame k can be recognised, as far as the line is known up to q: nothing
\* was ever lost, or nothing since the length of the longest frame before k, and
\* nothing there looks like a start.
From(k) == starts[k] - HeaderLen - MaxLen
NoFalseStart(k) ==
    \A p \in 1 .. starts[k] - 1 : p >= From(k) /\ line[p] = H =>
        \E j \in Frames : starts[j] = p
Clean(k, q) == Lossless(1, q - 1) \/ (Lossless(From(k), q - 1) /\ NoFalseStart(k))

\* Until a byte is lost the parser begins at the starts of frames only.
InStep == rx_buf # <<>> /\ Lossless(1, Pt - 1) => \E j \in Frames : starts[j] = rx_buf[1]

\* Inside a frame that can be recognised, rx_buf began at its start.
Aligned ==
    \A k \in Frames : starts[k] < Pt /\ Pt <= End(k) /\ Clean(k, Pt) =>
        rx_buf # <<>> /\ rx_buf[1] = starts[k]

\* A frame that could be recognised was.
Recognised ==
    \A k \in Frames : End(k) < Pt /\ Clean(k, End(k) + 1) => Received(k)

\* Frames on their way are parsed ones, in the order in which they were sent.
InOrder ==
    /\ up \in Seq(Nat) /\ analyser_mq \in Seq(Nat)
    /\ msg \in Frames \cup {Cmd, None}
    /\ \A i \in DOMAIN up : up[i] \in Frames /\ End(up[i]) < Pt
    /\ msg \in Frames => End(msg) < Pt
    /\ \A i \in DOMAIN analyser_mq : analyser_mq[i] # Cmd =>
          analyser_mq[i] \in Frames /\ End(analyser_mq[i]) < Pt
    /\ \A i, j \in DOMAIN up : i < j => up[i] < up[j]
    /\ \A i \in DOMAIN up : msg \in Frames => up[i] < msg
    /\ \A i \in DOMAIN up, j \in DOMAIN analyser_mq : analyser_mq[j] # Cmd => up[i] < analyser_mq[j]
    /\ \A j \in DOMAIN analyser_mq : analyser_mq[j] # Cmd => msg < analyser_mq[j]
    /\ \A i, j \in DOMAIN analyser_mq : i < j /\ analyser_mq[j] # Cmd => analyser_mq[i] < analyser_mq[j]

Bounded ==
    /\ Len(ring) < RingSize /\ Len(uart_buf) <= ReadLen
    /\ rx_ind \in BOOLEAN /\ again \in BOOLEAN /\ pc \in {"loop", "read", "parse", "clear"}
    /\ Len(analyser_mq) <= AnalyserSize
    /\ bsmac_mq \in Seq(Nat) /\ Len(bsmac_mq) <= BsmacSize

SerialInv ==
    /\ LineOK /\ Pending /\ ParserOK /\ Bounded
    /\ Contiguous /\ Covers /\ InStep /\ Aligned /\ Recognised
    /\ InOrder

-----------------------------------------------------------------------------
(* The next byte to parse.                                                   *)

LEMMA EmptyLength == \A s \in Seq(Nat) : s = <<>> <=> Len(s) = 0
  OBVIOUS

LEMMA SeqOfElements ==
    ASSUME NEW S, NEW T, NEW s \in Seq(S), \A i \in DOMAIN s : s[i] \in T
    PROVE  s \in Seq(T)
  <1>1. s \in [1 .. Len(s) -> T] /\ Len(s) \in Nat
    BY LenProperties
  <1> QED
    BY <1>1, SeqDef

LEMMA PtFacts ==
    ASSUME LineOK, Pending
    PROVE  /\ Pt \in 1 .. next /\ next \in Nat
           /\ \A i \in DOMAIN ring : Pt <= ring[i]
           /\ \A i \in DOMAIN uart_buf : Pt <= uart_buf[i]
  <1>1. next \in Nat /\ next >= 1
    BY DEF LineOK
  <1>2. CASE uart_buf # <<>>
    <2>1. 1 \in DOMAIN uart_buf /\ Pt = uart_buf[1]
      BY <1>2 DEF Pending, Pt
    <2>2. \A i \in DOMAIN uart_buf : uart_buf[1] <= uart_buf[i]
      <3>1. \A i \in DOMAIN uart_buf : i \in Nat /\ i >= 1 /\ uart_buf[i] \in Nat
        BY DEF Pending
      <3>2. \A i \in DOMAIN uart_buf : 1 < i => uart_buf[1] < uart_buf[i]
        BY <2>1 DEF Pending
      <3> QED
        BY <2>1, <3>1, <3>2
    <2> QED
      BY <1>1, <2>1, <2>2 DEF Pending
  <1>3. CASE uart_buf = <<>> /\ ring # <<>>
    <2>1. 1 \in DOMAIN ring /\ Pt = ring[1] /\ DOMAIN uart_buf = {}
      BY <1>3 DEF Pending, Pt
    <2>2. \A i \in DOMAIN ring : ring[1] <= ring[i]
      BY <2>1 DEF Pending
    <2> QED
      BY <1>1, <2>1, <2>2 DEF Pending
  <1>4. CASE uart_buf = <<>> /\ ring = <<>>
    <2>1. Pt = next /\ DOMAIN uart_buf = {} /\ DOMAIN ring = {}
      BY <1>4 DEF Pt
    <2> QED
      BY <1>1, <2>1
  <1> QED
    BY <1>2, <1>3, <1>4

\* A step that parses nothing loses what it leaves out, and nothing parsed.
Slides ==
    /\ Pt' \in Nat /\ Pt' >= Pt /\ gone \subseteq gone'
    /\ \A p \in gone' : p \in Nat /\ (p \in gone \/ p >= Pt)
    /\ \A p \in Nat : Pt <= p /\ p < Pt' => p \in gone'

\* The byte that arrives is the last one of the ring; with a full ring the first
\* one is lost.
LEMMA ArriveRing ==
    ASSUME LineOK, Pending, Bounded, Arrive
    PROVE  /\ ring' \in Seq(Nat) /\ Len(ring') >= 1 /\ Len(ring') < RingSize
           /\ ring'[Len(ring')] = next
           /\ ~RingFull => /\ Len(ring') = Len(ring) + 1
                           /\ \A i \in 1 .. Len(ring) : ring'[i] = ring[i]
           /\ RingFull => /\ Len(ring') = Len(ring) /\ ring # <<>>
                          /\ gone' = gone \cup {ring[1]}
                          /\ \A i \in 1 .. Len(ring) - 1 : ring'[i] = ring[i + 1]
  <1>1. next \in Nat /\ ring \in Seq(Nat) /\ Len(ring) < RingSize /\ Len(ring) \in Nat
    BY DEF LineOK, Pending, Bounded
  <1>2. RingSize \in Nat /\ RingSize >= 2
    BY SizesAssumption
  <1>3. CASE ~RingFull
    <2>1. ring' = Append(ring, next)
      BY <1>3 DEF Arrive
    <2> QED
      BY <1>1, <1>2, <1>3, <2>1 DEF RingFull
  <1>4. CASE RingFull
    <2>1. ring' = Append(Tail(ring), next) /\ gone' = gone \cup {Head(ring)}
      BY <1>4 DEF Arrive
    <2>2. Len(ring) = RingSize - 1 /\ ring # <<>>
      BY <1>1, <1>2, <1>4 DEF RingFull
    <2>3. Tail(ring) \in Seq(Nat) /\ Len(Tail(ring)) = Len(ring) - 1
      BY <1>1, <2>2
    <2>4. \A i \in 1 .. Len(ring) - 1 : Tail(ring)[i] = ring[i + 1]
      BY <1>1, <2>2
    <2> HIDE DEF RingFull
    <2>5. Len(ring') = Len(ring) /\ ring' \in Seq(Nat) /\ ring'[Len(ring)] = next
      BY <1>1, <2>1, <2>3
    <2>6. \A i \in 1 .. Len(ring) - 1 : ring'[i] = ring[i + 1]
      BY <1>1, <2>1, <2>3, <2>4
    <2> QED
      BY <1>1, <1>2, <1>4, <2>1, <2>2, <2>5, <2>6
  <1> QED
    BY <1>3, <1>4

LEMMA ArrivePending ==
    ASSUME LineOK, Pending, Bounded, Arrive
    PROVE  Pending' /\ Slides
  <1> DEFINE n == Len(ring')
             m == Len(ring)
  <1>r. /\ ring' \in Seq(Nat) /\ n >= 1 /\ ring'[n] = next
        /\ ~RingFull => n = m + 1 /\ \A i \in 1 .. m : ring'[i] = ring[i]
        /\ RingFull => /\ n = m /\ gone' = gone \cup {ring[1]}
                       /\ \A i \in 1 .. m - 1 : ring'[i] = ring[i + 1]
    BY ArriveRing
  <1>d. /\ DOMAIN ring = 1 .. m /\ DOMAIN ring' = 1 .. n /\ m \in Nat /\ n \in Nat
    BY <1>r DEF Pending
  <1> HIDE DEF n, m
  <1>1. /\ next' = next + 1 /\ next \in Nat /\ uart_buf' = uart_buf
        /\ ring \in Seq(Nat) /\ uart_buf \in Seq(Nat) /\ gone \subseteq 1 .. next - 1
    BY DEF LineOK, Pending, Arrive, readVars
  <1>2. Pt \in 1 .. next
    BY PtFacts
  <1>3. \A i \in 1 .. n - 1 : \E j \in 1 .. m : ring'[i] = ring[j]
    <2> TAKE i \in 1 .. n - 1
    <2>1. CASE RingFull
      <3>1. ring'[i] = ring[i + 1] /\ i + 1 \in 1 .. m
        BY <1>d, <1>r, <2>1
      <3> QED
        BY <3>1
    <2>2. CASE ~RingFull
      <3>1. ring'[i] = ring[i] /\ i \in 1 .. m
        BY <1>d, <1>r, <2>2
      <3> QED
        BY <3>1
    <2> QED
      BY <2>1, <2>2
  <1>4. gone' \subseteq gone \cup {ring[1]} /\ gone \subseteq gone'
        /\ (gone' # gone => ring # <<>> /\ ring[1] \in gone')
    <2>1. CASE RingFull
      <3>1. m >= 1
        BY <1>d, <1>r, <2>1
      <3> QED
        BY <1>d, <1>r, <2>1, <3>1
    <2>2. CASE ~RingFull
      BY <2>2 DEF Arrive
    <2> QED
      BY <2>1, <2>2
  <1>5. gone' \subseteq 1 .. next' - 1
    <2>1. ring # <<>> => ring[1] \in 1 .. next - 1
      BY <1>1 DEF Pending
    <2> QED
      BY <1>1, <1>4, <2>1
  <1>p. /\ \A i \in 1 .. m : ring[i] \in 1 .. next - 1 /\ Pt <= ring[i]
        /\ \A i, j \in 1 .. m : i < j => ring[i] < ring[j]
        /\ \A i \in DOMAIN uart_buf, j \in 1 .. m : uart_buf[i] < ring[j]
        /\ \A i \in DOMAIN uart_buf : uart_buf[i] \in 1 .. next - 1
    BY <1>d, PtFacts DEF Pending
  <1>6. \A i \in 1 .. n : ring'[i] \in 1 .. next' - 1 /\ Pt <= ring'[i]
    <2> TAKE i \in 1 .. n
    <2>1. CASE i = n
      BY <1>1, <1>2, <1>r, <2>1
    <2>2. CASE i # n
      <3>1. PICK j \in 1 .. m : ring'[i] = ring[j]
        BY <1>3, <1>d, <2>2
      <3> QED
        BY <1>1, <1>p, <3>1
    <2> QED
      BY <2>1, <2>2
  <1>7. \A i, j \in 1 .. n : i < j => ring'[i] < ring'[j]
    <2> SUFFICES ASSUME NEW i \in 1 .. n, NEW j \in 1 .. n, i < j
                 PROVE  ring'[i] < ring'[j]
      OBVIOUS
    <2>1. CASE j = n
      <3>1. PICK k \in 1 .. m : ring'[i] = ring[k]
        BY <1>3, <1>d, <2>1
      <3> QED
        BY <1>1, <1>p, <1>r, <2>1, <3>1
    <2>2. CASE j # n /\ RingFull
      <3>1. /\ i \in 1 .. m - 1 /\ i + 1 \in 1 .. m
            /\ j \in 1 .. m - 1 /\ j + 1 \in 1 .. m /\ i + 1 < j + 1
        BY <1>d, <1>r, <2>2
      <3>2. ring'[i] = ring[i + 1] /\ ring'[j] = ring[j + 1]
        BY <1>r, <2>2, <3>1
      <3> QED
        BY <1>p, <3>1, <3>2
    <2>3. CASE j # n /\ ~RingFull
      <3>1. ring'[i] = ring[i] /\ ring'[j] = ring[j] /\ i \in 1 .. m /\ j \in 1 .. m
        BY <1>d, <1>r, <2>3
      <3> QED
        BY <1>p, <3>1
    <2> QED
      BY <2>1, <2>2, <2>3
  <1>8. \A i \in DOMAIN uart_buf, j \in 1 .. n : uart_buf[i] < ring'[j]
    <2> TAKE i \in DOMAIN uart_buf, j \in 1 .. n
    <2>1. CASE j = n
      BY <1>1, <1>p, <1>r, <2>1
    <2>2. CASE j # n
      <3>1. PICK k \in 1 .. m : ring'[j] = ring[k]
        BY <1>3, <1>d, <2>2
      <3> QED
        BY <1>p, <3>1
    <2> QED
      BY <2>1, <2>2
  <1>9. ring # <<>> => 1 \in 1 .. m /\ Pt <= ring[1]
    BY <1>1, <1>d, <1>p
  <1>10. Pt' \in 1 .. next' /\ Pt' >= Pt
    <2>1. CASE uart_buf # <<>>
      BY <1>1, <1>2, <2>1 DEF Pt
    <2>2. CASE uart_buf = <<>>
      <3>1. 1 \in 1 .. n /\ ring' # <<>>
        BY <1>d, <1>r
      <3>2. Pt' = ring'[1]
        BY <1>1, <2>2, <3>1 DEF Pt
      <3> QED
        BY <1>1, <1>2, <1>6, <3>1, <3>2
    <2> QED
      BY <2>1, <2>2
  \* what was at the head of the ring is still there or is lost
  <1>11. ASSUME NEW i \in 1 .. m
         PROVE  ring[i] \in gone' \/ \E j \in 1 .. n : ring'[j] = ring[i]
    <2>1. CASE RingFull /\ i = 1
      BY <1>r, <2>1
    <2>2. CASE RingFull /\ i # 1
      <3>1. i - 1 \in 1 .. m - 1 /\ (i - 1) + 1 = i
        BY <1>d, <2>2
      <3>2. ring'[i - 1] = ring[i] /\ i - 1 \in 1 .. n
        BY <1>d, <1>r, <2>2, <3>1
      <3> QED
        BY <3>2
    <2>3. CASE ~RingFull
      <3>1. ring'[i] = ring[i] /\ i \in 1 .. n
        BY <1>d, <1>r, <2>3
      <3> QED
        BY <3>1
    <2> QED
      BY <2>1, <2>2, <2>3
  <1>12. \A p \in 1 .. next' - 1 : \/ p < Pt \/ p \in gone'
                                   \/ \E i \in 1 .. n : ring'[i] = p
                                   \/ \E i \in DOMAIN uart_buf : uart_buf[i] = p
    <2> TAKE p \in 1 .. next' - 1
    <2>1. CASE p = next
      <3>1. n \in 1 .. n
        BY <1>d, <1>r
      <3> QED
        BY <1>r, <2>1, <3>1
    <2>2. CASE p # next
      <3>1. p \in 1 .. next - 1
        BY <1>1, <2>2
      <3>2. \/ p < Pt \/ p \in gone \/ \E i \in 1 .. m : ring[i] = p
            \/ \E i \in DOMAIN uart_buf : uart_buf[i] = p
        BY <1>d, <3>1 DEF Pending
      <3> QED
        BY <1>4, <1>11, <3>2
    <2> QED
      BY <2>1, <2>2
  <1>13. Pending'
    <2>1. \A p \in 1 .. next' - 1 : \/ p < Pt' \/ p \in gone'
                                    \/ \E i \in 1 .. n : ring'[i] = p
                                    \/ \E i \in DOMAIN uart_buf : uart_buf[i] = p
      <3> TAKE p \in 1 .. next' - 1
      <3>0. p \in Int /\ Pt \in Int /\ Pt' \in Int /\ Pt <= Pt'
        BY <1>1, <1>2, <1>10
      <3>1. p < Pt => p < Pt'
        BY <3>0
      <3> QED
        BY <1>12, <3>1
    <2>2. uart_buf \in Seq(Nat) /\ \A i, j \in DOMAIN uart_buf : i < j => uart_buf[i] < uart_buf[j]
      BY DEF Pending
    <2>3. \A i \in DOMAIN uart_buf : uart_buf[i] \in 1 .. next' - 1
      BY <1>1, <1>p
    <2>4. \A i \in 1 .. n : ring'[i] \in 1 .. next' - 1
      BY <1>6
    <2>5. uart_buf' = uart_buf /\ ring' \in Seq(Nat)
      BY <1>1, <1>r
    <2> QED
      BY <1>d, <1>5, <1>7, <1>8, <2>1, <2>2, <2>3, <2>4, <2>5 DEF Pending
  <1>14. ASSUME NEW p \in Nat, Pt <= p, p < Pt' PROVE p \in gone'
    <2>1. p \in 1 .. next' - 1
      BY <1>1, <1>2, <1>10, <1>14
    <2>3. \A i \in 1 .. n : ring'[i] # p
      <3>1. CASE uart_buf # <<>>
        BY <1>1, <1>14, <3>1 DEF Pt
      <3>2. CASE uart_buf = <<>>
        <4>1. 1 \in 1 .. n /\ ring' # <<>>
          BY <1>d, <1>r
        <4>2. Pt' = ring'[1]
          BY <1>1, <3>2, <4>1 DEF Pt
        <4>3. ASSUME NEW i \in 1 .. n PROVE p < ring'[i]
          <5>1. CASE i = 1
            BY <1>14, <4>2, <5>1
          <5>2. CASE i # 1
            <6>1. ring'[1] < ring'[i]
              BY <1>7, <1>d, <4>1, <5>2
            <6> QED
              BY <1>6, <1>1, <1>14, <4>1, <4>2, <6>1
          <5> QED
            BY <5>1, <5>2
        <4> QED
          BY <1>6, <4>3
      <3> QED
        BY <3>1, <3>2
    <2>4. \A i \in DOMAIN uart_buf : uart_buf[i] # p
      <3>1. CASE uart_buf # <<>>
        BY <1>1, <1>14, <3>1 DEF Pt
      <3>2. CASE uart_buf = <<>>
        BY <3>2
      <3> QED
        BY <3>1, <3>2
    <2> QED
      BY <1>2, <1>12, <1>14, <2>1, <2>3, <2>4
  <1>15. \A p \in gone' : p \in Nat /\ (p \in gone \/ p >= Pt)
    BY <1>1, <1>2, <1>4, <1>5, <1>9
  <1> QED
    BY <1>4, <1>10, <1>13, <1>14, <1>15 DEF Slides

LEMMA MissPending ==
    ASSUME LineOK, Pending, Miss
    PROVE  Pending' /\ Slides
  <1>1. /\ next' = next + 1 /\ next \in Nat /\ gone' = gone \cup {next} /\ gone \subseteq 1 .. next - 1
        /\ ring' = ring /\ uart_buf' = uart_buf
    BY DEF LineOK, Pending, Miss, readVars
  <1>2. Pt \in 1 .. next
    BY PtFacts
  <1>3. Pt' = Pt \/ (Pt = next /\ Pt' = next + 1)
    BY <1>1 DEF Pt
  <1>4. Slides
    BY <1>1, <1>2, <1>3 DEF Slides
  <1>5. ASSUME NEW p \in 1 .. next' - 1
        PROVE  \/ p < Pt' \/ p \in gone' \/ \E i \in DOMAIN ring : ring[i] = p
               \/ \E i \in DOMAIN uart_buf : uart_buf[i] = p
    <2>1. CASE p = next
      BY <1>1, <2>1
    <2>2. CASE p # next
      <3>1. p \in 1 .. next - 1
        BY <1>1, <2>2
      <3>2. p < Pt => p < Pt'
        BY <1>1, <1>2, <1>3
      <3> QED
        BY <1>1, <3>1, <3>2 DEF Pending
    <2> QED
      BY <2>1, <2>2
  <1>6. /\ gone' \subseteq 1 .. next' - 1
        /\ \A i \in DOMAIN ring : ring[i] \in 1 .. next' - 1
        /\ \A i \in DOMAIN uart_buf : uart_buf[i] \in 1 .. next' - 1
    <2>1. /\ \A i \in DOMAIN ring : ring[i] \in 1 .. next - 1
          /\ \A i \in DOMAIN uart_buf : uart_buf[i] \in 1 .. next - 1
      BY DEF Pending
    <2>2. \A p \in 1 .. next - 1 : p \in 1 .. next' - 1
      BY <1>1
    <2>3. next \in 1 .. next' - 1
      BY <1>1, PtFacts DEF LineOK
    <2> QED
      BY <1>1, <2>1, <2>2, <2>3
  <1>7. Pending'
    BY <1>1, <1>5, <1>6 DEF Pending
  <1> QED
    BY <1>4, <1>7

LEMMA ReadBytePending ==
    ASSUME LineOK, Pending, Bounded, ReadByte
    PROVE  Pending' /\ Pt' = Pt /\ Len(ring') < RingSize /\ Len(uart_buf') <= ReadLen
  <1> DEFINE m == Len(ring)
             k == Len(uart_buf)
  <1>1. /\ ring # <<>> /\ ring' = Tail(ring) /\ uart_buf' = Append(uart_buf, ring[1])
        /\ next' = next /\ gone' = gone /\ next \in Nat /\ k < ReadLen
        /\ ring \in Seq(Nat) /\ uart_buf \in Seq(Nat)
    BY DEF LineOK, Pending, ReadByte
  <1>2. /\ m \in Nat /\ m >= 1 /\ DOMAIN ring = 1 .. m /\ ring[1] \in Nat
        /\ k \in Nat /\ DOMAIN uart_buf = 1 .. k
    BY <1>1
  <1>3. /\ ring' \in Seq(Nat) /\ Len(ring') = m - 1 /\ DOMAIN ring' = 1 .. m - 1
        /\ \A i \in 1 .. m - 1 : ring'[i] = ring[i + 1]
    BY <1>1, <1>2
  <1>4. /\ uart_buf' \in Seq(Nat) /\ Len(uart_buf') = k + 1 /\ DOMAIN uart_buf' = 1 .. k + 1
        /\ \A i \in 1 .. k : uart_buf'[i] = uart_buf[i]
        /\ uart_buf'[k + 1] = ring[1]
    BY <1>1, <1>2
  <1>5. m < RingSize /\ RingSize \in Nat /\ ReadLen \in Nat
    BY SizesAssumption DEF Bounded
  <1> HIDE DEF m, k
  <1>p. /\ \A i \in 1 .. m : ring[i] \in 1 .. next - 1
        /\ \A i, j \in 1 .. m : i < j => ring[i] < ring[j]
        /\ \A i \in 1 .. k, j \in 1 .. m : uart_buf[i] < ring[j]
        /\ \A i, j \in 1 .. k : i < j => uart_buf[i] < uart_buf[j]
        /\ \A i \in 1 .. k : uart_buf[i] \in 1 .. next - 1
        /\ \A p \in 1 .. next - 1 : \/ p < Pt \/ p \in gone
                                    \/ \E i \in 1 .. m : ring[i] = p
                                    \/ \E i \in 1 .. k : uart_buf[i] = p
    BY <1>2 DEF Pending
  <1>6. Pt' = Pt
    <2>1. uart_buf' # <<>> /\ Pt' = uart_buf'[1]
      BY <1>2, <1>4 DEF Pt
    <2>2. CASE k = 0
      <3>1. uart_buf = <<>>
        BY <1>1, <2>2 DEF k
      <3> QED
        BY <1>1, <1>4, <2>1, <2>2, <3>1 DEF Pt
    <2>3. CASE k # 0
      <3>1. uart_buf # <<>> /\ 1 \in 1 .. k
        BY <1>2, <2>3 DEF k
      <3> QED
        BY <1>4, <2>1, <3>1 DEF Pt
    <2> QED
      BY <2>2, <2>3
  <1>7. \A i \in 1 .. m - 1 : ring'[i] \in 1 .. next - 1
    <2> TAKE i \in 1 .. m - 1
    <2>1. i + 1 \in 1 .. m
      BY <1>2
    <2> QED
      BY <1>3, <1>p, <2>1
  <1>8. \A i, j \in 1 .. m - 1 : i < j => ring'[i] < ring'[j]
    <2> TAKE i, j \in 1 .. m - 1
    <2>1. i + 1 \in 1 .. m /\ j + 1 \in 1 .. m /\ (i < j => i + 1 < j + 1)
      BY <1>2
    <2> QED
      BY <1>3, <1>p, <2>1
  <1>9. /\ \A i \in 1 .. k + 1 : uart_buf'[i] \in 1 .. next - 1
        /\ \A i \in 1 .. k + 1 : i \in 1 .. k \/ i = k + 1
    BY <1>2, <1>4, <1>p
  <1>10. \A i, j \in 1 .. k + 1 : i < j => uart_buf'[i] < uart_buf'[j]
    <2> TAKE i, j \in 1 .. k + 1
    <2> HAVE i < j
    <2>1. i \in 1 .. k /\ uart_buf'[i] = uart_buf[i]
      BY <1>2, <1>4
    <2>2. CASE j = k + 1
      BY <1>2, <1>4, <1>p, <2>1, <2>2
    <2>3. CASE j # k + 1
      BY <1>4, <1>9, <1>p, <2>1, <2>3
    <2> QED
      BY <2>2, <2>3
  <1>11. \A i \in 1 .. k + 1, j \in 1 .. m - 1 : uart_buf'[i] < ring'[j]
    <2> TAKE i \in 1 .. k + 1, j \in 1 .. m - 1
    <2>1. j + 1 \in 1 .. m /\ 1 \in 1 .. m /\ 1 < j + 1 /\ ring'[j] = ring[j + 1]
      BY <1>2, <1>3
    <2>2. CASE i = k + 1
      BY <1>4, <1>p, <2>1, <2>2
    <2>3. CASE i # k + 1
      BY <1>4, <1>9, <1>p, <2>1, <2>3
    <2> QED
      BY <2>2, <2>3
  <1>12. \A p \in 1 .. next - 1 : \/ p < Pt \/ p \in gone
                                  \/ \E i \in 1 .. m - 1 : ring'[i] = p
                                  \/ \E i \in 1 .. k + 1 : uart_buf'[i] = p
    <2> TAKE p \in 1 .. next - 1
    <2>1. ASSUME NEW i \in 1 .. m, ring[i] = p
          PROVE  (\E j \in 1 .. m - 1 : ring'[j] = p) \/ (\E j \in 1 .. k + 1 : uart_buf'[j] = p)
      <3>1. CASE i = 1
        <4>1. k + 1 \in 1 .. k + 1 /\ uart_buf'[k + 1] = p
          BY <1>2, <1>4, <2>1, <3>1
        <4> QED
          BY <4>1
      <3>2. CASE i # 1
        <4>1. i - 1 \in 1 .. m - 1 /\ (i - 1) + 1 = i
          BY <1>2, <3>2
        <4>2. ring'[i - 1] = p
          BY <1>3, <2>1, <4>1
        <4> QED
          BY <4>1, <4>2
      <3> QED
        BY <3>1, <3>2
    <2>2. ASSUME NEW i \in 1 .. k, uart_buf[i] = p
          PROVE  \E j \in 1 .. k + 1 : uart_buf'[j] = p
      <3>1. i \in 1 .. k + 1 /\ uart_buf'[i] = p
        BY <1>2, <1>4, <2>2
      <3> QED
        BY <3>1
    <2> QED
      BY <1>p, <2>1, <2>2
  <1>13. gone \subseteq 1 .. next - 1
    BY DEF Pending
  <1>14. Pending'
    BY <1>1, <1>3, <1>4, <1>6, <1>7, <1>8, <1>9, <1>10, <1>11, <1>12, <1>13 DEF Pending
  <1>15. Len(ring') < RingSize /\ Len(uart_buf') <= ReadLen
    <2>1. k < ReadLen
      BY <1>1 DEF k
    <2>2. m < RingSize
      BY <1>5
    <2> QED
      BY <1>2, <1>3, <1>4, <1>5, <2>1, <2>2
  <1> QED
    BY <1>6, <1>14, <1>15

\* Parsing takes the byte at Pt; the bytes up to the next one are lost.
LEMMA ParsePending ==
    ASSUME LineOK, Pending, ParseByte
    PROVE  /\ Pending' /\ uart_buf[1] = Pt /\ Pt \in 1 .. next - 1 /\ Pt' \in Nat /\ Pt' > Pt
           /\ Len(uart_buf') <= Len(uart_buf)
           /\ \A p \in Nat : Pt < p /\ p < Pt' => p \in gone
  <1> DEFINE k == Len(uart_buf)
             m == Len(ring)
  <1>1. /\ uart_buf # <<>> /\ uart_buf' = Tail(uart_buf) /\ uart_buf \in Seq(Nat) /\ ring \in Seq(Nat)
        /\ next' = next /\ ring' = ring /\ gone' = gone /\ next \in Nat
    BY DEF LineOK, Pending, ParseByte, uartVars
  <1>2. /\ k \in Nat /\ k >= 1 /\ DOMAIN uart_buf = 1 .. k
        /\ m \in Nat /\ DOMAIN ring = 1 .. m
    BY <1>1
  <1>3. /\ uart_buf' \in Seq(Nat) /\ Len(uart_buf') = k - 1 /\ DOMAIN uart_buf' = 1 .. k - 1
        /\ \A i \in 1 .. k - 1 : uart_buf'[i] = uart_buf[i + 1]
    BY <1>1, <1>2
  <1>4. Pt = uart_buf[1]
    BY <1>1 DEF Pt
  <1>5. ring = <<>> <=> m = 0
    BY <1>1, EmptyLength
  <1> HIDE DEF m, k
  <1>6. uart_buf' = <<>> <=> k = 1
    <2>1. uart_buf' = <<>> <=> Len(uart_buf') = 0
      BY <1>3, EmptyLength
    <2> QED
      BY <1>2, <1>3, <2>1
  <1>p. /\ \A i \in 1 .. m : ring[i] \in 1 .. next - 1
        /\ \A i, j \in 1 .. m : i < j => ring[i] < ring[j]
        /\ \A i \in 1 .. k, j \in 1 .. m : uart_buf[i] < ring[j]
        /\ \A i, j \in 1 .. k : i < j => uart_buf[i] < uart_buf[j]
        /\ \A i \in 1 .. k : uart_buf[i] \in 1 .. next - 1
        /\ \A p \in 1 .. next - 1 : \/ p < Pt \/ p \in gone
                                    \/ \E i \in 1 .. m : ring[i] = p
                                    \/ \E i \in 1 .. k : uart_buf[i] = p
    BY <1>2 DEF Pending
  <1>7. Pt \in 1 .. next - 1 /\ 1 \in 1 .. k
    BY <1>2, <1>4, <1>p
  <1>8. /\ \A i \in 1 .. k - 1 : uart_buf'[i] \in 1 .. next - 1 /\ i + 1 \in 1 .. k
        /\ \A i, j \in 1 .. k - 1 : i < j => uart_buf'[i] < uart_buf'[j]
        /\ \A i \in 1 .. k - 1, j \in 1 .. m : uart_buf'[i] < ring[j]
    <2>1. \A i \in 1 .. k - 1 : i + 1 \in 1 .. k
      BY <1>2
    <2>2. \A i, j \in 1 .. k - 1 : i < j => i + 1 < j + 1
      BY <1>2
    <2> QED
      BY <1>3, <1>p, <2>1, <2>2
  <1>9. Pt' = IF k = 1 THEN (IF m = 0 THEN next ELSE ring[1]) ELSE uart_buf'[1]
    BY <1>1, <1>5, <1>6 DEF Pt
  <1>10. /\ Pt' \in Nat /\ Pt' > Pt
         /\ \A i \in 1 .. k - 1 : Pt' <= uart_buf'[i]
         /\ \A i \in 1 .. m : Pt' <= ring[i]
    <2>1. CASE k = 1 /\ m = 0
      BY <1>1, <1>2, <1>7, <1>9, <2>1
    <2>2. CASE k = 1 /\ m # 0
      <3>1. 1 \in 1 .. m /\ Pt' = ring[1] /\ 1 .. k - 1 = {}
        BY <1>2, <1>9, <2>2
      <3>2. \A i \in 1 .. m : ring[1] <= ring[i]
        BY <1>p, <1>2, <3>1
      <3> QED
        BY <1>4, <1>7, <1>p, <3>1, <3>2
    <2>3. CASE k # 1
      <3>1. 1 \in 1 .. k - 1 /\ 2 \in 1 .. k /\ Pt' = uart_buf'[1] /\ uart_buf'[1] = uart_buf[2]
        BY <1>2, <1>3, <1>9, <2>3
      <3>2. uart_buf[1] < uart_buf[2] /\ uart_buf[2] \in Nat
        BY <1>7, <1>p, <3>1
      <3>3. \A i \in 1 .. k - 1 : uart_buf'[1] <= uart_buf'[i]
        BY <1>8, <1>2, <3>1
      <3>4. \A i \in 1 .. m : uart_buf'[1] <= ring[i]
        BY <1>8, <1>p, <3>1
      <3> QED
        BY <1>4, <3>1, <3>2, <3>3, <3>4
    <2> QED
      BY <2>1, <2>2, <2>3
  <1>11. ASSUME NEW p \in 1 .. next - 1
         PROVE  \/ p <= Pt \/ p \in gone \/ \E i \in 1 .. m : ring[i] = p
                \/ \E i \in 1 .. k - 1 : uart_buf'[i] = p
    <2>1. ASSUME NEW i \in 1 .. k, uart_buf[i] = p
          PROVE  p <= Pt \/ \E j \in 1 .. k - 1 : uart_buf'[j] = p
      <3>1. CASE i = 1
        BY <1>4, <2>1, <3>1
      <3>2. CASE i # 1
        <4>1. i - 1 \in 1 .. k - 1 /\ (i - 1) + 1 = i
          BY <1>2, <3>2
        <4>2. uart_buf'[i - 1] = p
          BY <1>3, <2>1, <4>1
        <4> QED
          BY <4>1, <4>2
      <3> QED
        BY <3>1, <3>2
    <2>2. p < Pt => p <= Pt
      BY <1>7
    <2> QED
      BY <1>p, <2>1, <2>2
  <1>12. \A p \in 1 .. next - 1 : \/ p < Pt' \/ p \in gone \/ \E i \in 1 .. m : ring[i] = p
                                  \/ \E i \in 1 .. k - 1 : uart_buf'[i] = p
    <2> TAKE p \in 1 .. next - 1
    <2>1. p \in Int /\ Pt \in Int /\ Pt' \in Int /\ Pt < Pt'
      BY <1>7, <1>10
    <2>2. p <= Pt => p < Pt'
      BY <2>1
    <2> QED
      BY <1>11, <2>2
  <1>13. ASSUME NEW p \in Nat, Pt < p, p < Pt' PROVE p \in gone
    <2>1. p \in 1 .. next - 1
      <3>1. Pt' <= next
        <4>1. CASE k = 1 /\ m = 0
          BY <1>9, <1>1, <4>1
        <4>2. CASE k = 1 /\ m # 0
          <5>1. Pt' = ring[1] /\ 1 \in 1 .. m
            BY <1>2, <1>9, <4>2
          <5> QED
            BY <1>1, <1>p, <5>1
        <4>3. CASE k # 1
          <5>1. Pt' = uart_buf'[1] /\ 1 \in 1 .. k - 1
            BY <1>2, <1>9, <4>3
          <5>2. uart_buf'[1] \in 1 .. next - 1
            BY <1>8, <5>1
          <5>3. next \in Nat
            BY <1>1
          <5> QED
            BY <5>1, <5>2, <5>3
        <4> QED
          BY <4>1, <4>2, <4>3
      <3> QED
        BY <1>1, <1>7, <1>10, <1>13, <3>1
    <2>2. \A i \in 1 .. m : ring[i] # p
      BY <1>10, <1>13, <1>p
    <2>3. \A i \in 1 .. k - 1 : uart_buf'[i] # p
      BY <1>10, <1>13, <1>8
    <2>4. ~(p <= Pt)
      BY <1>7, <1>13
    <2> QED
      BY <1>11, <2>1, <2>2, <2>3, <2>4
  <1>14. gone \subseteq 1 .. next - 1
    BY DEF Pending
  <1>15. Pending'
    BY <1>1, <1>2, <1>3, <1>8, <1>12, <1>14, <1>p DEF Pending
  <1>16. Len(uart_buf') <= Len(uart_buf)
    BY <1>2, <1>3 DEF k
  <1> QED
    BY <1>4, <1>7, <1>10, <1>13, <1>15, <1>16

-----------------------------------------------------------------------------
(* The parser, when no byte is parsed.                                       *)

LEMMA FrameFacts ==
    ASSUME LineOK, NEW k \in Frames
    PROVE  /\ k \in Nat /\ k >= 1 /\ starts[k] \in Nat /\ starts[k] >= 1
           /\ MaxLen \in Nat /\ line[starts[k] + 2] \in 1 .. MaxLen
           /\ End(k) \in Nat /\ End(k) = starts[k] + 2 + line[starts[k] + 2]
           /\ End(k) >= starts[k] + 3 /\ End(k) <= Len(line)
           /\ From(k) \in Int /\ From(k) = starts[k] - 3 - MaxLen
  <1>1. starts \in Seq(Nat) /\ k \in DOMAIN starts /\ Len(starts) \in Nat
    BY DEF LineOK, Frames
  <1>2. k \in Nat /\ k >= 1
    BY <1>1
  <1>3. /\ starts[k] \in 1 .. Len(line) /\ End(k) \in 1 .. Len(line) /\ line[starts[k] + 2] \in 1 .. MaxLen
        /\ line \in Seq(Nat) /\ Len(line) \in Nat
    BY DEF LineOK
  <1>4. starts[k] + HeaderLen - 1 = starts[k] + 2 /\ MaxLen \in Nat
    BY <1>3, BytesAssumption DEF HeaderLen
  <1>5. End(k) = starts[k] + 2 + line[starts[k] + 2]
    BY <1>4 DEF End
  <1>6. From(k) = starts[k] - 3 - MaxLen
    BY DEF From, HeaderLen
  <1>7. starts[k] \in Nat /\ starts[k] >= 1 /\ End(k) \in Nat /\ End(k) <= Len(line)
    BY <1>3
  <1>8. End(k) >= starts[k] + 3
    <2>1. PICK v \in Nat : v = line[starts[k] + 2] /\ v >= 1
      BY <1>3
    <2>2. End(k) = starts[k] + 2 + v
      BY <1>5, <2>1
    <2> QED
      BY <1>7, <2>1, <2>2
  <1>9. From(k) \in Int
    BY <1>4, <1>6, <1>7
  <1> QED
    BY <1>2, <1>3, <1>4, <1>5, <1>6, <1>7, <1>8, <1>9

LEMMA FrameBounds ==
    ASSUME LineOK, NEW k \in Frames
    PROVE  /\ starts[k] \in Nat /\ 1 <= starts[k]
           /\ End(k) \in Nat /\ starts[k] < End(k) /\ 1 <= End(k) /\ End(k) + 1 - 1 = End(k)
           /\ From(k) \in Int /\ From(k) < starts[k] /\ From(k) <= End(k)
  <1>1. PICK s, e, m \in Nat : s = starts[k] /\ e = End(k) /\ m = MaxLen
    BY FrameFacts
  <1>2. s >= 1 /\ e >= s + 3
    BY <1>1, FrameFacts
  <1>3. From(k) = s - 3 - m
    BY <1>1, FrameFacts
  <1>4. PICK f \in Int : f = s - 3 - m
    BY <1>1
  <1>5. f < s /\ f <= e /\ s < e /\ 1 <= s /\ 1 <= e /\ e + 1 - 1 = e
    BY <1>2, <1>4
  <1> QED
    BY <1>1, <1>3, <1>4, <1>5

\* Behind Pt nothing is lost later; what is left out is lost.
LEMMA SlidesFree ==
    ASSUME Slides, Pt \in Nat
    PROVE  /\ \A from, to \in Int : to < Pt => (Free(gone', from, to) <=> Free(gone, from, to))
           /\ \A from \in Int : Pt' # Pt /\ from < Pt' => ~Free(gone', from, Pt' - 1)
  <1>1. ASSUME NEW from \in Int, NEW to \in Int, to < Pt
        PROVE  Free(gone', from, to) <=> Free(gone, from, to)
    BY <1>1 DEF Slides, Free
  <1>2. ASSUME NEW from \in Int, Pt' # Pt, from < Pt'
        PROVE  ~Free(gone', from, Pt' - 1)
    <2>1. Pt' \in Nat /\ Pt' > Pt
      BY <1>2 DEF Slides
    <2>2. Pt' - 1 \in Nat /\ Pt <= Pt' - 1 /\ Pt' - 1 < Pt' /\ from <= Pt' - 1
      <3>1. PICK q \in Nat : q = Pt'
        BY <2>1
      <3>2. PICK r \in Nat : r = Pt
        OBVIOUS
      <3>3. r < q /\ from < q
        BY <1>2, <2>1, <3>1, <3>2
      <3>4. q - 1 \in Nat /\ r <= q - 1 /\ q - 1 < q /\ from <= q - 1
        BY <3>3
      <3> QED
        BY <3>1, <3>2, <3>4
    <2>3. Pt' - 1 \in gone'
      BY <2>2 DEF Slides
    <2> QED
      BY <2>2, <2>3 DEF Free
  <1> QED
    BY <1>1, <1>2

ParserInv == ParserOK /\ Contiguous /\ Covers /\ InStep /\ Aligned

LEMMA SlideParser ==
    ASSUME LineOK, Pending, ParserInv, Slides, UNCHANGED <<line, starts, rx_buf, state, wantlen>>
    PROVE  ParserInv'
  <1>1. Pt \in Nat /\ Pt' \in Nat /\ Pt' >= Pt /\ Pt >= 1
    BY PtFacts DEF Slides
  <1>2. /\ rx_buf' = rx_buf /\ line' = line /\ starts' = starts /\ state' = state /\ wantlen' = wantlen
    OBVIOUS
  <1>3. /\ rx_buf \in Seq(Nat) /\ Len(rx_buf) \in Nat /\ DOMAIN rx_buf = 1 .. Len(rx_buf)
        /\ rx_buf # <<>> => /\ 1 \in DOMAIN rx_buf /\ rx_buf[1] \in Nat /\ rx_buf[1] < Pt
                            /\ Len(rx_buf) >= 1 /\ rx_buf[1] >= 1
    <2>1. rx_buf \in Seq(Nat) /\ Len(rx_buf) \in Nat /\ DOMAIN rx_buf = 1 .. Len(rx_buf)
      BY DEF ParserInv, ParserOK
    <2>2. ASSUME rx_buf # <<>> PROVE 1 \in DOMAIN rx_buf /\ Len(rx_buf) >= 1
      BY <2>1, <2>2, EmptyLength
    <2>3. \A i \in DOMAIN rx_buf : rx_buf[i] \in 1 .. Pt - 1
      BY DEF ParserInv, ParserOK
    <2> QED
      BY <1>1, <2>1, <2>2, <2>3
  <1>4. ParserOK'
    <2>1. \A i \in DOMAIN rx_buf : rx_buf[i] \in 1 .. Pt' - 1
      <3>1. PICK q \in Nat, r \in Nat : q = Pt' /\ r = Pt
        BY <1>1
      <3>0. r <= q
        BY <1>1, <3>1
      <3>2. \A p \in 1 .. r - 1 : p \in 1 .. q - 1
        BY <3>0
      <3>3. \A i \in DOMAIN rx_buf : rx_buf[i] \in 1 .. r - 1
        BY <3>1 DEF ParserInv, ParserOK
      <3> QED
        BY <3>1, <3>2, <3>3
    <2> QED
      BY <1>2, <2>1 DEF ParserInv, ParserOK
  <1>5. Contiguous'
    <2> SUFFICES ASSUME rx_buf # <<>>, Free(gone', rx_buf[1], Pt' - 1)
                 PROVE  /\ Len(rx_buf) = Pt' - rx_buf[1]
                        /\ \A i \in DOMAIN rx_buf : rx_buf[i] = rx_buf[1] + i - 1
      BY <1>2 DEF Contiguous, Lossless
    <2>1. rx_buf[1] \in Int /\ rx_buf[1] < Pt' /\ Pt - 1 \in Int /\ Pt - 1 < Pt
      BY <1>1, <1>3
    <2>2. Pt' = Pt
      BY <2>1, <1>1, SlidesFree
    <2>3. Free(gone, rx_buf[1], Pt - 1)
      BY <1>1, <2>1, <2>2, SlidesFree
    <2> QED
      BY <2>2, <2>3 DEF ParserInv, Contiguous, Lossless
  <1>6. Covers'
    <2> SUFFICES ASSUME NEW w \in 1 .. Pt', rx_buf # <<>>, rx_buf[1] < w, Free(gone', w, Pt' - 1)
                 PROVE  Len(rx_buf) >= Pt' - w + 1
      BY <1>2 DEF Covers, Lossless
    <2>1. CASE w = Pt'
      BY <1>1, <1>3, <2>1
    <2>2. CASE w # Pt'
      <3>1. w \in Int /\ w < Pt' /\ Pt - 1 \in Int /\ Pt - 1 < Pt
        BY <1>1, <2>2
      <3>2. Pt' = Pt
        BY <3>1, <1>1, SlidesFree
      <3>3. Free(gone, w, Pt - 1)
        BY <1>1, <3>1, <3>2, SlidesFree
      <3> QED
        BY <3>2, <3>3 DEF ParserInv, Covers, Lossless
    <2> QED
      BY <2>1, <2>2
  <1>7. InStep'
    <2> SUFFICES ASSUME rx_buf # <<>>, Free(gone', 1, Pt' - 1)
                 PROVE  \E j \in Frames : starts[j] = rx_buf[1]
      BY <1>2 DEF InStep, Lossless, Frames
    <2>1. 1 < Pt' /\ Pt - 1 \in Int /\ Pt - 1 < Pt
      BY <1>1, <1>3
    <2>2. Pt' = Pt
      BY <2>1, <1>1, SlidesFree
    <2>3. Free(gone, 1, Pt - 1)
      BY <1>1, <2>1, <2>2, SlidesFree
    <2> QED
      BY <2>3 DEF ParserInv, InStep, Lossless
  <1>8. Aligned'
    <2> SUFFICES ASSUME NEW k \in Frames, starts[k] < Pt', Pt' <= End(k), Clean(k, Pt)'
                 PROVE  rx_buf # <<>> /\ rx_buf[1] = starts[k]
      BY <1>2 DEF Aligned, Frames, End
    <2>1. /\ From(k)' = From(k) /\ NoFalseStart(k)' = NoFalseStart(k)
      BY <1>2 DEF From, NoFalseStart, Frames
    <2>2. /\ starts[k] \in Nat /\ starts[k] >= 1 /\ From(k) \in Int /\ From(k) < Pt' /\ 1 < Pt'
          /\ Pt - 1 \in Int /\ Pt - 1 < Pt
      <3>1. From(k) \in Int /\ From(k) < starts[k] /\ 1 <= starts[k] /\ starts[k] \in Nat
        BY FrameBounds
      <3> QED
        BY <1>1, <3>1
    <2>3. Free(gone', 1, Pt' - 1) \/ (Free(gone', From(k), Pt' - 1) /\ NoFalseStart(k))
      BY <2>1 DEF Clean, Lossless
    <2>4. Pt' = Pt
      BY <1>1, <2>2, <2>3, SlidesFree
    <2>5. Clean(k, Pt)
      BY <1>1, <2>2, <2>3, <2>4, SlidesFree DEF Clean, Lossless
    <2> QED
      BY <2>4, <2>5 DEF ParserInv, Aligned
  <1> QED
    BY <1>4, <1>5, <1>6, <1>7, <1>8 DEF ParserInv

LEMMA SlideRecognised ==
    ASSUME LineOK, Pending, Recognised, Slides, UNCHANGED <<line, starts>>,
           \A k \in Frames : Received(k) => Received(k)'
    PROVE  Recognised'
  <1>1. Pt \in Nat /\ Pt' \in Nat /\ Pt' >= Pt /\ Pt >= 1
    BY PtFacts DEF Slides
  <1>2. line' = line /\ starts' = starts
    OBVIOUS
  <1> SUFFICES ASSUME NEW k \in Frames, End(k) < Pt', Clean(k, End(k) + 1)'
               PROVE  Received(k)'
    BY <1>2 DEF Recognised, Frames, End
  <1>3. From(k)' = From(k) /\ NoFalseStart(k)' = NoFalseStart(k) /\ End(k)' = End(k)
    BY <1>2 DEF From, NoFalseStart, Frames, End
  <1>4. /\ End(k) \in Nat /\ From(k) \in Int /\ From(k) <= End(k) /\ 1 <= End(k)
        /\ End(k) + 1 - 1 = End(k)
    BY FrameBounds
  <1>5. Free(gone', 1, End(k)) \/ (Free(gone', From(k), End(k)) /\ NoFalseStart(k))
    BY <1>3, <1>4 DEF Clean, Lossless
  <1>6. End(k) < Pt
    <2> SUFFICES ASSUME Pt <= End(k) PROVE FALSE
      BY <1>1, <1>4
    <2>1. End(k) \in gone'
      BY <1>4 DEF Slides
    <2> QED
      BY <1>4, <1>5, <2>1 DEF Free
  <1>7. Clean(k, End(k) + 1)
    BY <1>1, <1>4, <1>5, <1>6, SlidesFree DEF Clean, Lossless
  <1> QED
    BY <1>6, <1>7 DEF Recognised

-----------------------------------------------------------------------------
(* What the parser has when it comes to a frame that can be recognised.      *)

LEMMA RxBufType ==
    ASSUME LineOK, Pending, ParserOK
    PROVE  /\ rx_buf \in Seq(Nat) /\ Len(rx_buf) \in Nat /\ DOMAIN rx_buf = 1 .. Len(rx_buf)
           /\ (rx_buf = <<>> <=> Len(rx_buf) = 0)
           /\ wantlen \in Nat /\ wantlen <= MaxLen /\ MaxLen \in Nat
           /\ Len(rx_buf) <= HeaderLen + MaxLen
           /\ \A i \in DOMAIN rx_buf : rx_buf[i] \in Nat /\ rx_buf[i] >= 1 /\ rx_buf[i] < Pt
           /\ rx_buf # <<>> => rx_buf[1] \in Nat /\ rx_buf[1] >= 1 /\ rx_buf[1] < Pt
  <1>1. rx_buf \in Seq(Nat) /\ Len(rx_buf) \in Nat /\ DOMAIN rx_buf = 1 .. Len(rx_buf)
    BY DEF ParserOK
  <1>2. rx_buf = <<>> <=> Len(rx_buf) = 0
    BY <1>1, EmptyLength
  <1>3. MaxLen \in Nat /\ wantlen \in Nat /\ wantlen <= MaxLen
    BY BytesAssumption DEF ParserOK
  <1>4. Len(rx_buf) <= HeaderLen + MaxLen
    <2>1. Len(rx_buf) <= 2 \/ Len(rx_buf) = 3 \/ Len(rx_buf) < wantlen + 3
      <3>1. \/ Len(rx_buf) = 0 \/ Len(rx_buf) = 1 \/ Len(rx_buf) = 2
            \/ Len(rx_buf) = 3 \/ Len(rx_buf) < wantlen + 3
        BY DEF ParserOK
      <3> QED
        BY <1>1, <3>1
    <2>2. PICK n \in Nat : n = Len(rx_buf)
      BY <1>1
    <2>3. n <= 2 \/ n = 3 \/ n < wantlen + 3
      BY <2>1, <2>2
    <2>4. n <= HeaderLen + MaxLen
      BY <1>3, <2>3 DEF HeaderLen
    <2> QED
      BY <2>2, <2>4
  <1>5. \A i \in DOMAIN rx_buf : rx_buf[i] \in Nat /\ rx_buf[i] >= 1 /\ rx_buf[i] < Pt
    <2>1. Pt \in Nat
      BY PtFacts
    <2>2. \A i \in DOMAIN rx_buf : rx_buf[i] \in 1 .. Pt - 1
      BY DEF ParserOK
    <2> QED
      BY <2>1, <2>2
  <1>6. rx_buf # <<>> => 1 \in DOMAIN rx_buf
    BY <1>1, <1>2
  <1> QED
    BY <1>1, <1>2, <1>3, <1>4, <1>5, <1>6

\* A piece of the line that begins with frame j is inside j: at its end the
\* parser would have let it go.
LEMMA PieceEnds ==
    ASSUME LineOK, Pending, ParserOK, NEW j \in Frames, rx_buf # <<>>, rx_buf[1] = starts[j],
           Len(rx_buf) = Pt - rx_buf[1],
           \A i \in DOMAIN rx_buf : rx_buf[i] = rx_buf[1] + i - 1
    PROVE  Pt <= End(j)
  <1> DEFINE v == line[starts[j] + 2]
             n == Len(rx_buf)
  <1>1. Pt \in Nat /\ starts[j] \in Nat /\ v \in Nat /\ v >= 1 /\ End(j) = starts[j] + 2 + v
    <2>1. Pt \in Nat
      BY PtFacts
    <2>2. starts[j] \in Nat /\ v \in 1 .. MaxLen /\ End(j) = starts[j] + 2 + v
      BY FrameFacts
    <2> QED
      BY <2>1, <2>2
  <1>2. n \in Nat /\ n >= 1 /\ DOMAIN rx_buf = 1 .. n
    BY RxBufType
  <1>3. CASE n <= 2
    <2> HIDE DEF v
    <2> QED
      BY <1>1, <1>2, <1>3
  <1>4. CASE n >= 3
    <2>1. 3 \in DOMAIN rx_buf
      BY <1>2, <1>4
    <2>2. rx_buf[3] = starts[j] + 2
      BY <1>1, <2>1
    <2>3. wantlen = v /\ (n = 3 \/ n < wantlen + 3)
      BY <1>2, <1>4, <2>2 DEF ParserOK
    <2>4. n < v + 3
      BY <1>1, <2>3
    <2>5. Pt = starts[j] + n
      BY <1>1, <1>2
    <2> HIDE DEF v, n
    <2> QED
      BY <1>1, <1>2, <2>4, <2>5
  <1> QED
    BY <1>2, <1>3, <1>4

LEMMA AtStart ==
    ASSUME LineOK, Pending, ParserInv, NEW k \in Frames, Pt = starts[k], Clean(k, Pt)
    PROVE  rx_buf = <<>>
  <1> USE DEF ParserInv
  <1> SUFFICES ASSUME rx_buf # <<>> PROVE FALSE
    OBVIOUS
  <1> DEFINE s == rx_buf[1]
             n == Len(rx_buf)
  <1>1. /\ Pt \in Nat /\ Pt >= 1 /\ From(k) \in Int /\ From(k) = Pt - 3 - MaxLen /\ MaxLen \in Nat
        /\ s \in Nat /\ s >= 1 /\ s < Pt /\ n \in Nat /\ n <= 3 + MaxLen
    BY PtFacts, FrameFacts, RxBufType DEF HeaderLen
  \* the piece of an earlier frame would be a frame that is complete
  <1>2. ASSUME NEW j \in Frames, starts[j] = s, Lossless(s, Pt - 1)
        PROVE  FALSE
    <2>1. Len(rx_buf) = Pt - rx_buf[1] /\ \A i \in DOMAIN rx_buf : rx_buf[i] = rx_buf[1] + i - 1
      BY <1>2 DEF Contiguous
    <2>2. Pt <= End(j)
      BY <1>2, <2>1, PieceEnds
    <2>3. j < k
      <3>1. j \in Nat /\ k \in Nat /\ starts[j] \in Nat /\ starts[k] \in Nat
            /\ End(k) \in Nat /\ End(k) >= starts[k] + 3
        BY FrameFacts
      <3>2. CASE j = k
        BY <1>1, <1>2, <3>2
      <3>3. CASE j > k
        <4>1. End(k) < starts[j]
          BY <3>3, <3>1 DEF LineOK
        <4> QED
          <5>1. starts[j] < starts[k] /\ starts[k] < End(k)
            BY <1>1, <1>2, FrameBounds
          <5> QED
            BY <3>1, <4>1, <5>1
      <3> QED
        BY <3>1, <3>2, <3>3
    <2>4. End(j) < starts[k]
      BY <2>3 DEF LineOK
    <2> QED
      BY <1>1, <2>2, <2>4, FrameFacts
  <1>3. CASE Lossless(1, Pt - 1)
    <2>1. Lossless(s, Pt - 1)
      BY <1>1, <1>3 DEF Lossless, Free, Pending
    <2>2. PICK j \in Frames : starts[j] = rx_buf[1]
      BY <1>3 DEF InStep
    <2> QED
      BY <1>2, <2>1, <2>2
  <1>4. CASE Lossless(From(k), Pt - 1) /\ NoFalseStart(k)
    <2>1. CASE s < From(k)
      <3>1. From(k) \in 1 .. Pt
        BY <1>1, <2>1
      <3>2. n >= Pt - From(k) + 1
        BY <1>4, <2>1, <3>1 DEF Covers
      <3> HIDE DEF n
      <3> QED
        <4>1. PICK p, m \in Nat : p = Pt /\ m = MaxLen
          BY <1>1
        <4>2. PICK b \in Int : b = From(k) /\ b = p - 3 - m
          BY <1>1, <4>1
        <4>3. n \in Nat /\ n <= 3 + m /\ n >= p - b + 1
          BY <1>1, <3>2, <4>1, <4>2
        <4> QED
          BY <4>2, <4>3
    <2>2. CASE s >= From(k)
      <3>1. Lossless(s, Pt - 1)
        <4>1. \A p \in gone : p \in Nat
          BY PtFacts DEF Pending
        <4>2. \A p \in gone : s <= p => From(k) <= p
          BY <1>1, <2>2, <4>1
        <4> QED
          BY <1>4, <4>2 DEF Lossless, Free
      <3>2. line[s] = H /\ s \in 1 .. starts[k] - 1
        BY <1>1 DEF ParserOK
      <3>3. PICK j \in Frames : starts[j] = s
        BY <1>4, <2>2, <3>2 DEF NoFalseStart
      <3> QED
        BY <1>2, <3>1, <3>3
    <2> QED
      BY <1>1, <2>1, <2>2
  <1> QED
    BY <1>3, <1>4 DEF Clean

LEMMA Inside ==
    ASSUME LineOK, Pending, ParserInv, NEW k \in Frames, starts[k] < Pt, Pt <= End(k), Clean(k, Pt)
    PROVE  /\ rx_buf # <<>> /\ rx_buf[1] = starts[k] /\ Len(rx_buf) = Pt - starts[k]
           /\ \A i \in DOMAIN rx_buf : rx_buf[i] = starts[k] + i - 1
  <1>1. rx_buf # <<>> /\ rx_buf[1] = starts[k]
    BY DEF ParserInv, Aligned
  <1>2. Lossless(starts[k], Pt - 1)
    <2>1. \A p \in gone : p \in Nat
      BY PtFacts DEF Pending
    <2>2. \A p \in gone : starts[k] <= p => From(k) <= p /\ 1 <= p
      <3>1. From(k) \in Int /\ From(k) < starts[k] /\ 1 <= starts[k] /\ starts[k] \in Nat
        BY FrameBounds
      <3> QED
        BY <2>1, <3>1
    <2> QED
      BY <2>2 DEF Clean, Lossless, Free
  <1> QED
    BY <1>1, <1>2 DEF ParserInv, Contiguous

-----------------------------------------------------------------------------
(* The parser takes a byte.                                                  *)

\* It gives up or has a whole message, or it keeps the byte.
Dropped == rx_buf' = <<>> /\ state' = "preamble_H" /\ wantlen' = wantlen
Kept ==
    /\ rx_buf' = Append(rx_buf, Pt)
    /\ rx_buf = <<>> => line[Pt] = H
    /\ \/ state' = "preamble_L" /\ Len(rx_buf) = 0 /\ wantlen' = wantlen
       \/ state' = "header" /\ Len(rx_buf) = 1 /\ wantlen' = wantlen
       \/ state' = "data" /\ Len(rx_buf) = 2 /\ wantlen' = line[Pt] /\ line[Pt] <= MaxLen
       \/ /\ state' = "data" /\ Len(rx_buf) >= 3 /\ wantlen' = wantlen
          /\ wantlen = line[rx_buf[3]] /\ Len(rx_buf) + 1 < wantlen + 3

LEMMA ParseTakes ==
    ASSUME LineOK, Pending, ParseByte
    PROVE  /\ Preamble(Pt) \/ Header(Pt) \/ Data(Pt)
           /\ UNCHANGED <<line, starts, gone, up, msg>>
           /\ Pt \in 1 .. Len(line) /\ line[Pt] \in Nat
  <1>1. uart_buf # <<>> /\ uart_buf \in Seq(Nat)
    BY DEF ParseByte, Pending
  <1>2. Head(uart_buf) = Pt
    BY <1>1 DEF Pt
  <1>3. Pt \in 1 .. next - 1 /\ next \in 1 .. Len(line) + 1 /\ line \in Seq(Nat) /\ Len(line) \in Nat
    BY ParsePending DEF LineOK
  <1>4. Pt \in 1 .. Len(line) /\ line[Pt] \in Nat
    <2>1. PICK q \in Nat : q = Pt
      BY <1>3
    <2>2. q \in 1 .. Len(line)
      BY <1>3, <2>1
    <2> QED
      BY <1>3, <2>1, <2>2
  <1> QED
    BY <1>2, <1>4 DEF ParseByte, anchorVars, uartVars

LEMMA ParseOutcome ==
    ASSUME LineOK, Pending, ParserOK, ParseByte
    PROVE  Dropped \/ Kept
  <1>1. Preamble(Pt) \/ Header(Pt) \/ Data(Pt)
    BY ParseTakes
  <1>2. /\ Len(rx_buf) \in Nat /\ wantlen \in Nat /\ (rx_buf = <<>> <=> Len(rx_buf) = 0)
    BY RxBufType
  <1>3. CASE Preamble(Pt)
    <2>1. \/ state = "preamble_H" /\ Len(rx_buf) = 0
          \/ state = "preamble_L" /\ Len(rx_buf) = 1
      BY <1>3 DEF Preamble, ParserOK
    <2>2. state = "preamble_H" => (line[Pt] = H /\ Goes("preamble_L", Pt)) \/ GivesUp
      BY <1>3 DEF Preamble
    <2>3. state = "preamble_L" => Goes("header", Pt) \/ GivesUp
      BY <1>3 DEF Preamble
    <2>4. GivesUp => Dropped
      BY DEF GivesUp, Dropped
    <2>5. CASE state = "preamble_H" /\ line[Pt] = H /\ Goes("preamble_L", Pt)
      BY <1>2, <2>1, <2>5 DEF Goes, Kept
    <2>6. CASE state = "preamble_L" /\ Goes("header", Pt)
      BY <1>2, <2>1, <2>6 DEF Goes, Kept
    <2> QED
      BY <2>1, <2>2, <2>3, <2>4, <2>5, <2>6
  <1>4. CASE Header(Pt)
    <2>1. Len(rx_buf) = 2
      BY <1>4 DEF Header, ParserOK
    <2>2. CASE LengthOK(line[Pt])
      BY <1>2, <1>4, <2>1, <2>2 DEF Header, Kept, LengthOK
    <2>3. CASE ~LengthOK(line[Pt])
      BY <1>4, <2>3 DEF Header, GivesUp, Dropped
    <2> QED
      BY <2>2, <2>3
  <1>5. CASE Data(Pt)
    <2>1. Len(rx_buf) >= 3 /\ wantlen = line[rx_buf[3]]
      BY <1>5 DEF Data, ParserOK
    <2>2. CASE Len(rx_buf) + 1 - HeaderLen >= wantlen
      BY <1>5, <2>2 DEF Data, Dropped
    <2>3. CASE ~(Len(rx_buf) + 1 - HeaderLen >= wantlen)
      <3>1. Len(rx_buf) + 1 < wantlen + 3
        BY <1>2, <2>3 DEF HeaderLen
      <3>2. Goes("data", Pt)
        BY <1>5, <2>3 DEF Data
      <3> QED
        BY <1>2, <2>1, <3>1, <3>2 DEF Goes, Kept
    <2> QED
      BY <2>2, <2>3
  <1> QED
    BY <1>1, <1>3, <1>4, <1>5

\* The buffer that keeps the byte.
LEMMA KeptBuffer ==
    ASSUME LineOK, Pending, ParserOK, Pt \in Nat, Kept
    PROVE  /\ rx_buf' \in Seq(Nat) /\ Len(rx_buf') = Len(rx_buf) + 1 /\ rx_buf' # <<>>
           /\ DOMAIN rx_buf' = 1 .. Len(rx_buf) + 1
           /\ rx_buf'[Len(rx_buf) + 1] = Pt
           /\ \A i \in 1 .. Len(rx_buf) : rx_buf'[i] = rx_buf[i]
           /\ rx_buf # <<>> => rx_buf'[1] = rx_buf[1]
           /\ rx_buf = <<>> => rx_buf'[1] = Pt
  <1>1. rx_buf \in Seq(Nat) /\ Len(rx_buf) \in Nat /\ rx_buf' = Append(rx_buf, Pt)
        /\ (rx_buf = <<>> <=> Len(rx_buf) = 0)
    BY RxBufType DEF Kept
  <1>2. PICK q \in Nat : q = Pt
    OBVIOUS
  <1>3. PICK b \in Seq(Nat) : b = Append(rx_buf, q)
    BY <1>1, <1>2
  <1>4. /\ Len(b) = Len(rx_buf) + 1 /\ DOMAIN b = 1 .. Len(rx_buf) + 1 /\ b[Len(rx_buf) + 1] = q
        /\ \A i \in 1 .. Len(rx_buf) : b[i] = rx_buf[i]
    BY <1>1, <1>3
  <1>5. b # <<>>
    BY <1>1, <1>3, <1>4, EmptyLength
  <1>6. /\ rx_buf # <<>> => b[1] = rx_buf[1]
        /\ rx_buf = <<>> => b[1] = q
    <2>1. rx_buf # <<>> => 1 \in 1 .. Len(rx_buf)
      BY <1>1
    <2> QED
      BY <1>1, <1>4, <2>1
  <1>7. rx_buf' = b
    BY <1>1, <1>2, <1>3
  <1> QED
    BY <1>2, <1>4, <1>5, <1>6, <1>7

LEMMA ParseParserOK ==
    ASSUME LineOK, Pending, ParserOK, ParseByte
    PROVE  ParserOK'
  <1>1. /\ line' = line /\ Pt \in Nat /\ Pt >= 1 /\ Pt' \in Nat /\ Pt < Pt' /\ line[Pt] \in Nat
    BY ParsePending, ParseTakes
  <1>2. wantlen \in 0 .. MaxLen /\ Len(rx_buf) \in Nat /\ MaxLen \in Nat
    BY RxBufType DEF ParserOK
  <1>3. CASE Dropped
    BY <1>1, <1>2, <1>3 DEF Dropped, ParserOK
  <1>4. CASE Kept
    <2> DEFINE n == Len(rx_buf)
    <2>1. /\ rx_buf' \in Seq(Nat) /\ Len(rx_buf') = n + 1 /\ rx_buf' # <<>>
          /\ DOMAIN rx_buf' = 1 .. n + 1 /\ rx_buf'[n + 1] = Pt
          /\ \A i \in 1 .. n : rx_buf'[i] = rx_buf[i]
          /\ rx_buf # <<>> => rx_buf'[1] = rx_buf[1]
          /\ rx_buf = <<>> => rx_buf'[1] = Pt
      BY <1>1, <1>4, KeptBuffer
    <2>2. \A i \in DOMAIN rx_buf' : rx_buf'[i] \in 1 .. Pt' - 1
      <3> TAKE i \in DOMAIN rx_buf'
      <3>1. CASE i = n + 1
        BY <1>1, <2>1, <3>1
      <3>2. CASE i # n + 1
        <4>1. i \in 1 .. n
          BY <1>2, <2>1, <3>2
        <4>2. PICK r \in Nat : r = rx_buf[i] /\ r >= 1 /\ r < Pt
          BY <4>1, RxBufType
        <4>3. r \in 1 .. Pt' - 1
          BY <1>1, <4>2
        <4> QED
          BY <2>1, <4>1, <4>2, <4>3
      <3> QED
        BY <3>1, <3>2
    <2>3. line[rx_buf'[1]] = H
      BY <1>4, <2>1 DEF Kept, ParserOK
    <2>4. /\ wantlen' \in 0 .. MaxLen
          /\ \/ state' = "preamble_L" /\ Len(rx_buf') = 1
             \/ state' = "header" /\ Len(rx_buf') = 2
             \/ /\ state' = "data" /\ Len(rx_buf') >= 3 /\ wantlen' = line[rx_buf'[3]]
                /\ Len(rx_buf') = 3 \/ Len(rx_buf') < wantlen' + 3
      <3> HIDE DEF n
      <3>1. n \in Nat /\ Len(rx_buf') = n + 1
        BY <1>2, <2>1 DEF n
      <3>2. CASE n = 2 /\ state' = "data" /\ wantlen' = line[Pt] /\ line[Pt] <= MaxLen
        BY <1>1, <1>2, <2>1, <3>1, <3>2
      <3>3. CASE /\ state' = "data" /\ n >= 3 /\ wantlen' = wantlen
                 /\ wantlen = line[rx_buf[3]] /\ n + 1 < wantlen + 3
        <4>1. rx_buf'[3] = rx_buf[3]
          BY <2>1, <3>1, <3>3
        <4> QED
          BY <1>2, <3>1, <3>3, <4>1
      <3>4. CASE \/ state' = "preamble_L" /\ n = 0 /\ wantlen' = wantlen
                 \/ state' = "header" /\ n = 1 /\ wantlen' = wantlen
        BY <1>2, <3>1, <3>4
      <3> QED
        BY <1>4, <3>2, <3>3, <3>4 DEF Kept, n
    <2> QED
      BY <1>1, <2>1, <2>2, <2>3, <2>4 DEF ParserOK
  <1> QED
    BY <1>3, <1>4, ParseOutcome

\* Inside a frame the parser keeps every byte but the last.
LEMMA ParseInside ==
    ASSUME LineOK, Pending, ParserInv, ParseByte, NEW k \in Frames,
           starts[k] < Pt, Pt < End(k), Clean(k, Pt)
    PROVE  rx_buf' = Append(rx_buf, Pt)
  <1>1. Preamble(Pt) \/ Header(Pt) \/ Data(Pt)
    BY ParseTakes
  <1>2. PICK p \in Nat : p = Pt
    BY PtFacts
  <1>3. PICK s \in Nat : s = starts[k]
    BY FrameFacts
  <1>4. PICK v \in Nat : v = line[s + 2] /\ v <= MaxLen
    <2>1. line[s + 2] \in 1 .. MaxLen /\ MaxLen \in Nat
      BY <1>3, FrameFacts
    <2>2. line[s + 2] \in Nat /\ line[s + 2] <= MaxLen
      BY <2>1
    <2> QED
      BY <2>2
  <1>5. End(k) = s + 2 + v /\ End(k) \in Nat /\ s < p /\ p < s + 2 + v /\ MaxLen \in Nat
    BY <1>2, <1>3, <1>4, FrameFacts
  <1>6. /\ Len(rx_buf) = p - s /\ rx_buf # <<>>
        /\ \A i \in DOMAIN rx_buf : rx_buf[i] = s + i - 1
    BY <1>2, <1>3, <1>5, Inside
  <1>7. PICK n \in Nat : n = p - s
    BY <1>5
  <1>8. n >= 1 /\ Len(rx_buf) = n /\ p = s + n /\ DOMAIN rx_buf = 1 .. n
    <2>1. DOMAIN rx_buf = 1 .. Len(rx_buf)
      BY RxBufType DEF ParserInv
    <2> QED
      BY <1>5, <1>6, <1>7, <2>1
  <1>9. ParserOK
    BY DEF ParserInv
  <1>10. CASE n = 1
    <2>1. state = "preamble_L"
      BY <1>8, <1>9, <1>10 DEF ParserOK
    <2>2. line[p] = L
      BY <1>3, <1>8, <1>10 DEF LineOK
    <2> QED
      BY <1>1, <1>2, <2>1, <2>2 DEF Preamble, Header, Data, Goes
  <1>11. CASE n = 2
    <2>1. state = "header"
      BY <1>8, <1>9, <1>11 DEF ParserOK
    <2>2. LengthOK(line[p])
      BY <1>4, <1>8, <1>11 DEF LengthOK
    <2> QED
      BY <1>1, <1>2, <2>1, <2>2 DEF Preamble, Header, Data
  <1>12. CASE n >= 3
    <2>1. state = "data" /\ wantlen = line[rx_buf[3]]
      BY <1>8, <1>9, <1>12 DEF ParserOK
    <2>2. rx_buf[3] = s + 2
      BY <1>6, <1>8, <1>12
    <2>3. wantlen = v
      BY <1>4, <2>1, <2>2
    <2>4. n + 1 < v + 3
      BY <1>5, <1>8
    <2>5. ~(Len(rx_buf) + 1 - HeaderLen >= wantlen)
      BY <1>8, <2>3, <2>4 DEF HeaderLen
    <2> QED
      BY <1>1, <1>2, <2>1, <2>5 DEF Preamble, Header, Data, Goes
  <1> QED
    BY <1>8, <1>10, <1>11, <1>12

\* The last byte of a frame completes it.
LEMMA ParseEnd ==
    ASSUME LineOK, Pending, ParserInv, ParseByte, NEW k \in Frames,
           starts[k] < Pt, Pt = End(k), Clean(k, Pt)
    PROVE  Deliver(Append(rx_buf, Pt)) /\ Whole(Append(rx_buf, Pt), k)
  <1>1. Preamble(Pt) \/ Header(Pt) \/ Data(Pt)
    BY ParseTakes
  <1>2. PICK p \in Nat : p = Pt
    BY PtFacts
  <1>3. PICK s \in Nat : s = starts[k]
    BY FrameFacts
  <1>4. PICK v \in Nat : v = line[s + 2] /\ v >= 1
    <2>1. line[s + 2] \in 1 .. MaxLen /\ MaxLen \in Nat
      BY <1>3, FrameFacts
    <2>2. line[s + 2] \in Nat /\ line[s + 2] >= 1
      BY <2>1
    <2> QED
      BY <2>2
  <1>5. End(k) = s + 2 + v /\ p = s + 2 + v
    BY <1>2, <1>3, <1>4, FrameFacts
  <1>6. /\ Len(rx_buf) = p - s /\ rx_buf # <<>>
        /\ \A i \in DOMAIN rx_buf : rx_buf[i] = s + i - 1
    BY <1>2, <1>3, <1>5, Inside
  <1>7. PICK n \in Nat : n = v + 2
    BY <1>5
  <1>8. n >= 3 /\ Len(rx_buf) = n /\ p = s + n /\ DOMAIN rx_buf = 1 .. n /\ rx_buf \in Seq(Nat)
    <2>1. DOMAIN rx_buf = 1 .. Len(rx_buf) /\ rx_buf \in Seq(Nat)
      BY RxBufType DEF ParserInv
    <2>2. Len(rx_buf) = n
      BY <1>4, <1>5, <1>6, <1>7
    <2> QED
      <3>1. n >= 3 /\ p = s + n
        BY <1>4, <1>5, <1>7
      <3> QED
        BY <2>1, <2>2, <3>1
  <1>9. state = "data" /\ wantlen = v
    <2>1. state = "data" /\ wantlen = line[rx_buf[3]]
      BY <1>8 DEF ParserInv, ParserOK
    <2>2. rx_buf[3] = s + 2
      BY <1>6, <1>8
    <2> QED
      BY <1>4, <2>1, <2>2
  <1>10. Deliver(Append(rx_buf, Pt))
    <2>1. Len(rx_buf) + 1 - HeaderLen >= wantlen
      BY <1>7, <1>8, <1>9 DEF HeaderLen
    <2> QED
      BY <1>1, <1>9, <2>1 DEF Preamble, Header, Data
  <1>11. Whole(Append(rx_buf, p), k)
    <2> DEFINE b == Append(rx_buf, p)
               f == [i \in 1 .. n + 1 |-> s + i - 1]
    <2>1. b \in Seq(Nat) /\ Len(b) = n + 1 /\ DOMAIN b = 1 .. n + 1 /\ b[n + 1] = p
          /\ \A i \in 1 .. n : b[i] = rx_buf[i]
      BY <1>8
    <2>2. ASSUME NEW i \in 1 .. n + 1 PROVE b[i] = s + i - 1
      <3>1. CASE i = n + 1
        BY <1>8, <2>1, <3>1
      <3>2. CASE i # n + 1
        <4>1. i \in 1 .. n
          BY <3>2
        <4> QED
          BY <1>6, <1>8, <2>1, <4>1
      <3> QED
        BY <3>1, <3>2
    <2>3. b = [i \in 1 .. n + 1 |-> b[i]]
      BY <1>8
    <2> HIDE DEF b
    <2>4. b = f
      BY <2>2, <2>3
    <2>5. End(k) - starts[k] + 1 = n + 1
      BY <1>3, <1>5, <1>7
    <2>6. Whole(b, k)
      BY <1>3, <2>4, <2>5 DEF Whole
    <2> QED
      BY <2>6 DEF b
  <1> QED
    BY <1>2, <1>10, <1>11

\* Without a loss the next byte to parse is the next byte of the line.
LEMMA ParseFree ==
    ASSUME LineOK, Pending, ParseByte, NEW from \in Int, from < Pt', Free(gone, from, Pt' - 1)
    PROVE  Pt' = Pt + 1 /\ Free(gone, from, Pt - 1)
  <1>1. PICK p \in Nat : p = Pt
    BY PtFacts
  <1>2. PICK q \in Nat : q = Pt'
    BY ParsePending
  <1>3. p < q /\ from < q /\ \A r \in Nat : p < r /\ r < q => r \in gone
    BY <1>1, <1>2, ParsePending
  <1>4. \A r \in gone : ~(from <= r /\ r <= q - 1)
    BY <1>2 DEF Free
  <1>5. q = p + 1
    <2> SUFFICES ASSUME q # p + 1 PROVE FALSE
      OBVIOUS
    <2>1. q - 1 \in Nat /\ p < q - 1 /\ q - 1 < q /\ from <= q - 1 /\ q - 1 <= q - 1
      BY <1>3
    <2>2. q - 1 \in gone
      BY <1>3, <2>1
    <2> QED
      BY <1>4, <2>1, <2>2
  <1>6. \A r \in gone : r \in Nat
    BY PtFacts DEF Pending
  <1>7. \A r \in gone : ~(from <= r /\ r <= p - 1)
    BY <1>4, <1>5, <1>6
  <1> QED
    BY <1>1, <1>2, <1>5, <1>7 DEF Free

LEMMA ParseContiguous ==
    ASSUME LineOK, Pending, ParserInv, ParseByte
    PROVE  Contiguous' /\ Covers'
  <1> USE DEF ParserInv
  <1>1. PICK p \in Nat : p = Pt
    BY PtFacts
  <1>2. PICK q \in Nat : q = Pt'
    BY ParsePending
  <1>3. p < q /\ gone' = gone
    BY <1>1, <1>2, ParsePending, ParseTakes
  <1>4. CASE Dropped
    BY <1>4 DEF Dropped, Contiguous, Covers
  <1>5. CASE Kept
    <2>1. PICK n \in Nat : n = Len(rx_buf)
      BY RxBufType
    <2>2. PICK b \in Seq(Nat) : b = rx_buf'
      BY <1>1, <1>5, KeptBuffer
    <2>3. /\ Len(b) = n + 1 /\ b # <<>> /\ DOMAIN b = 1 .. n + 1 /\ b[n + 1] = p
          /\ \A i \in 1 .. n : b[i] = rx_buf[i]
          /\ rx_buf # <<>> => b[1] = rx_buf[1]
          /\ rx_buf = <<>> => b[1] = p
      BY <1>1, <1>5, <2>1, <2>2, KeptBuffer
    <2>4. /\ rx_buf = <<>> <=> n = 0
          /\ DOMAIN rx_buf = 1 .. n
          /\ b[1] \in Nat /\ b[1] >= 1 /\ b[1] <= p
          /\ rx_buf # <<>> => b[1] < p
      <3>1. /\ rx_buf = <<>> <=> n = 0
            /\ DOMAIN rx_buf = 1 .. n
            /\ rx_buf # <<>> => rx_buf[1] \in Nat /\ rx_buf[1] >= 1 /\ rx_buf[1] < p
        BY <1>1, <2>1, RxBufType
      <3>2. p >= 1
        BY <1>1, PtFacts
      <3> QED
        BY <2>3, <3>1, <3>2
    <2>5. ASSUME Free(gone, b[1], q - 1)
          PROVE  Len(b) = q - b[1] /\ \A i \in DOMAIN b : b[i] = b[1] + i - 1
      <3>1. b[1] \in Int /\ b[1] < q
        BY <1>3, <2>4
      <3>2. q = p + 1 /\ Free(gone, b[1], p - 1)
        BY <1>1, <1>2, <2>5, <3>1, ParseFree
      <3>3. CASE n = 0
        BY <2>3, <2>4, <3>2, <3>3
      <3>4. CASE n # 0
        <4>1. n = p - b[1] /\ \A i \in 1 .. n : rx_buf[i] = b[1] + i - 1
          BY <1>1, <2>1, <2>3, <2>4, <3>2, <3>4 DEF Contiguous, Lossless
        <4>2. b[n + 1] = b[1] + (n + 1) - 1
          BY <2>3, <2>4, <4>1
        <4>3. ASSUME NEW i \in 1 .. n + 1 PROVE b[i] = b[1] + i - 1
          <5>1. CASE i = n + 1
            BY <4>2, <5>1
          <5>2. CASE i # n + 1
            <6>1. i \in 1 .. n
              BY <5>2
            <6> QED
              BY <2>3, <4>1, <6>1
          <5> QED
            BY <5>1, <5>2
        <4>4. n + 1 = q - b[1]
          BY <2>4, <3>2, <4>1
        <4> QED
          BY <2>3, <4>3, <4>4
      <3> QED
        BY <3>3, <3>4
    <2>6. Contiguous'
      BY <1>2, <1>3, <2>2, <2>5 DEF Contiguous, Lossless
    <2>7. ASSUME NEW w \in 1 .. q, b[1] < w, Free(gone, w, q - 1)
          PROVE  Len(b) >= q - w + 1
      <3>1. CASE w = q
        BY <2>3, <3>1
      <3>2. CASE w # q
        <4>1. w \in Int /\ w < q
          BY <3>2
        <4>2. q = p + 1 /\ Free(gone, w, p - 1)
          BY <1>1, <1>2, <2>7, <4>1, ParseFree
        <4>3. w \in 1 .. p
          BY <4>1, <4>2
        <4>4. n # 0 /\ rx_buf # <<>> /\ rx_buf[1] = b[1]
          BY <2>3, <2>4, <2>7, <4>3
        <4>5. n >= p - w + 1
          BY <1>1, <2>1, <2>7, <4>2, <4>3, <4>4 DEF Covers, Lossless
        <4> QED
          BY <2>3, <4>2, <4>3, <4>5
      <3> QED
        BY <3>1, <3>2
    <2>8. Covers'
      BY <1>2, <1>3, <2>2, <2>7 DEF Covers, Lossless
    <2> QED
      BY <2>6, <2>8
  <1> QED
    BY <1>4, <1>5, ParseOutcome

\* A byte that begins something is the start of a frame, as long as no byte is lost.
LEMMA ParseInStep ==
    ASSUME LineOK, Pending, ParserInv, ParseByte
    PROVE  InStep'
  <1> USE DEF ParserInv
  <1> SUFFICES ASSUME rx_buf' # <<>>, Free(gone, 1, Pt' - 1)
               PROVE  \E j \in Frames : starts[j] = rx_buf'[1]
    BY ParseTakes DEF InStep, Lossless, Frames
  <1>1. Pt \in Nat /\ Pt >= 1 /\ Pt' \in Nat /\ Pt < Pt' /\ Pt \in 1 .. Len(line)
    BY ParsePending, ParseTakes
  <1>2. Free(gone, 1, Pt - 1)
    <2>1. 1 \in Int /\ 1 < Pt'
      BY <1>1
    <2> QED
      BY <2>1, ParseFree
  <1>3. Kept
    BY ParseOutcome DEF Dropped
  <1>4. CASE rx_buf # <<>>
    <2>1. rx_buf'[1] = rx_buf[1]
      BY <1>1, <1>3, <1>4, KeptBuffer
    <2> QED
      BY <1>2, <1>4, <2>1 DEF InStep, Lossless
  <1>5. CASE rx_buf = <<>>
    <2>1. rx_buf'[1] = Pt
      BY <1>1, <1>3, <1>5, KeptBuffer
    <2>2. PICK k \in Frames : starts[k] <= Pt /\ Pt <= End(k)
      BY <1>1 DEF LineOK
    <2>3. Clean(k, Pt)
      BY <1>2 DEF Clean, Lossless
    <2>4. ~(starts[k] < Pt)
      BY <1>5, <2>2, <2>3 DEF Aligned
    <2>5. starts[k] = Pt
      BY <1>1, <2>2, <2>4, FrameFacts
    <2> QED
      BY <2>1, <2>5
  <1> QED
    BY <1>4, <1>5

\* A frame that can be recognised up to the next byte could be up to this one.
LEMMA CleanBefore ==
    ASSUME LineOK, Pending, ParseByte, NEW k \in Frames, starts[k] < Pt', Clean(k, Pt')
    PROVE  Pt' = Pt + 1 /\ Clean(k, Pt)
  <1>1. From(k) \in Int /\ 1 \in Int /\ From(k) < Pt' /\ 1 < Pt'
    <2>1. From(k) \in Int /\ From(k) < starts[k] /\ 1 <= starts[k] /\ starts[k] \in Nat
      BY FrameBounds
    <2>2. Pt' \in Nat
      BY ParsePending
    <2> QED
      BY <2>1, <2>2
  <1> QED
    BY <1>1, ParseFree DEF Clean, Lossless

LEMMA ParseAligned ==
    ASSUME LineOK, Pending, ParserInv, ParseByte
    PROVE  Aligned'
  <1>1. /\ Pt \in Nat /\ Pt' \in Nat
        /\ line' = line /\ starts' = starts /\ gone' = gone
        /\ Preamble(Pt) \/ Header(Pt) \/ Data(Pt)
    BY ParsePending, ParseTakes
  <1> SUFFICES ASSUME NEW k \in Frames, starts[k] < Pt', Pt' <= End(k), Clean(k, Pt')
               PROVE  rx_buf' # <<>> /\ rx_buf'[1] = starts[k]
    BY <1>1 DEF Aligned, Frames, End, Clean, From, NoFalseStart, Lossless
  <1>2. Pt' = Pt + 1 /\ Clean(k, Pt)
    BY CleanBefore
  <1>3. /\ starts[k] \in Nat /\ starts[k] <= Pt /\ Pt < End(k) /\ End(k) \in Nat
    BY <1>1, <1>2, FrameFacts
  <1>4. Kept \/ Dropped
    BY ParseOutcome DEF ParserInv
  <1>5. CASE starts[k] = Pt
    <2>1. rx_buf = <<>>
      BY <1>2, <1>5, AtStart
    <2>2. state = "preamble_H"
      BY <2>1 DEF ParserInv, ParserOK
    <2>3. line[Pt] = H
      BY <1>5 DEF LineOK
    <2>4. rx_buf' = Append(rx_buf, Pt)
      BY <1>1, <2>2, <2>3 DEF Preamble, Header, Data, Goes
    <2>5. rx_buf' # <<>>
      <3>1. Len(rx_buf') = 1
        BY <1>1, <2>1, <2>4
      <3> QED
        BY <3>1
    <2>6. Kept
      BY <1>4, <2>5 DEF Dropped
    <2> QED
      BY <1>1, <1>5, <2>1, <2>6, KeptBuffer DEF ParserInv
  <1>6. CASE starts[k] < Pt
    <2>1. /\ rx_buf # <<>> /\ rx_buf[1] = starts[k] /\ Len(rx_buf) = Pt - starts[k]
          /\ \A i \in DOMAIN rx_buf : rx_buf[i] = starts[k] + i - 1
      BY <1>1, <1>2, <1>3, <1>6, Inside
    <2>2. rx_buf' = Append(rx_buf, Pt)
      BY <1>1, <1>2, <1>3, <1>6, ParseInside
    <2>3. rx_buf' # <<>>
      <3>1. rx_buf \in Seq(Nat) /\ Len(rx_buf) \in Nat
        BY RxBufType DEF ParserInv
      <3>2. Len(rx_buf') = Len(rx_buf) + 1
        BY <1>1, <2>2, <3>1
      <3> QED
        BY <3>1, <3>2
    <2>4. Kept
      BY <1>4, <2>3 DEF Dropped
    <2> QED
      BY <1>1, <2>1, <2>4, KeptBuffer DEF ParserInv
  <1> QED
    BY <1>1, <1>3, <1>5, <1>6

-----------------------------------------------------------------------------
(* The way of a frame to the server.                                         *)

LEMMA PostFacts ==
    ASSUME NEW mq \in Seq(Nat), NEW size \in Nat, NEW x \in Nat, Len(mq) <= size
    PROVE  /\ Post(mq, size, x) \in Seq(Nat) /\ Len(Post(mq, size, x)) <= size
           /\ \A i \in DOMAIN mq : i \in Nat /\ i < Len(mq) + 1 /\ Post(mq, size, x)[i] = mq[i]
                                   /\ i \in DOMAIN Post(mq, size, x)
           /\ \A i \in DOMAIN Post(mq, size, x) :
                 i \in DOMAIN mq \/ (i = Len(mq) + 1 /\ Post(mq, size, x)[i] = x)
           /\ Len(mq) < size => \E i \in DOMAIN Post(mq, size, x) : Post(mq, size, x)[i] = x
  <1>1. CASE Len(mq) < size
    <2> DEFINE b == Append(mq, x)
    <2>1. Post(mq, size, x) = b
      BY <1>1 DEF Post
    <2>2. /\ b \in Seq(Nat) /\ Len(b) = Len(mq) + 1 /\ DOMAIN b = 1 .. Len(mq) + 1
          /\ b[Len(mq) + 1] = x /\ \A i \in 1 .. Len(mq) : b[i] = mq[i]
      OBVIOUS
    <2>3. Len(mq) \in Nat /\ DOMAIN mq = 1 .. Len(mq)
      OBVIOUS
    <2> HIDE DEF b
    <2>4. Len(mq) + 1 \in DOMAIN b
      BY <2>2, <2>3
    <2>5. \A i \in DOMAIN b : i \in 1 .. Len(mq) \/ i = Len(mq) + 1
      BY <2>2, <2>3
    <2>6. Len(b) <= size
      BY <1>1, <2>2, <2>3
    <2>7. \A i \in 1 .. Len(mq) : i \in Nat /\ i < Len(mq) + 1 /\ i \in 1 .. Len(mq) + 1
      BY <2>3
    <2> QED
      BY <2>1, <2>2, <2>3, <2>4, <2>5, <2>6, <2>7
  <1>2. CASE ~(Len(mq) < size)
    <2>1. Post(mq, size, x) = mq
      BY <1>2 DEF Post
    <2>2. \A i \in DOMAIN mq : i \in Nat /\ i < Len(mq) + 1
      OBVIOUS
    <2> QED
      BY <1>2, <2>1, <2>2
  <1> QED
    BY <1>1, <1>2

LEMMA TailFacts ==
    ASSUME NEW mq \in Seq(Nat), mq # <<>>
    PROVE  /\ Tail(mq) \in Seq(Nat) /\ Len(Tail(mq)) <= Len(mq) /\ Head(mq) = mq[1] /\ 1 \in DOMAIN mq
           /\ \A i \in DOMAIN Tail(mq) : i \in Nat /\ i + 1 \in DOMAIN mq /\ 1 < i + 1
                                         /\ Tail(mq)[i] = mq[i + 1]
           /\ \A i \in DOMAIN mq : mq[i] = Head(mq) \/ \E j \in DOMAIN Tail(mq) : Tail(mq)[j] = mq[i]
  <1>1. /\ Tail(mq) \in Seq(Nat) /\ Len(mq) \in Nat /\ Len(mq) >= 1 /\ Len(Tail(mq)) = Len(mq) - 1
        /\ DOMAIN Tail(mq) = 1 .. Len(mq) - 1 /\ DOMAIN mq = 1 .. Len(mq) /\ Head(mq) = mq[1]
        /\ \A i \in 1 .. Len(mq) - 1 : Tail(mq)[i] = mq[i + 1]
    BY EmptyLength
  <1>2. PICK n \in Nat : n = Len(mq)
    BY <1>1
  <1>3. \A i \in 1 .. n - 1 : i \in Nat /\ i + 1 \in 1 .. n /\ 1 < i + 1
    OBVIOUS
  <1>4. ASSUME NEW i \in 1 .. n
        PROVE  mq[i] = Head(mq) \/ \E j \in DOMAIN Tail(mq) : Tail(mq)[j] = mq[i]
    <2>1. CASE i = 1
      BY <1>1, <2>1
    <2>2. CASE i # 1
      <3>1. i - 1 \in 1 .. n - 1 /\ (i - 1) + 1 = i
        BY <2>2
      <3>2. Tail(mq)[i - 1] = mq[i]
        BY <1>1, <1>2, <3>1
      <3> QED
        BY <1>1, <1>2, <3>1, <3>2
    <2> QED
      BY <2>1, <2>2
  <1> QED
    BY <1>1, <1>2, <1>3, <1>4

LEMMA FrameOrder ==
    ASSUME LineOK, NEW j \in Frames, NEW k \in Frames, End(j) < End(k)
    PROVE  j < k
  <1>1. /\ j \in Nat /\ k \in Nat /\ starts[j] \in Nat /\ starts[k] \in Nat
        /\ End(j) \in Nat /\ End(k) \in Nat /\ End(j) >= starts[j] + 3
    BY FrameFacts
  <1>2. CASE j = k
    BY <1>1, <1>2
  <1>3. CASE k < j
    <2>1. End(k) < starts[j]
      BY <1>3 DEF LineOK
    <2> QED
      BY <1>1, <2>1
  <1> QED
    BY <1>1, <1>2, <1>3

LEMMA QueueSizes == AnalyserSize \in Nat /\ BsmacSize \in Nat /\ Cmd \in Nat
  BY SizesAssumption DEF Cmd

\* What leaves the queues and the message alone.
LEMMA InOrderSlide ==
    ASSUME InOrder, Pt \in Nat, Pt' \in Nat, Pt' >= Pt, LineOK,
           UNCHANGED <<line, starts, up, analyser_mq, msg>>
    PROVE  InOrder'
  <1>1. \A k \in Frames : End(k) \in Nat /\ End(k)' = End(k)
    BY FrameFacts DEF End
  <1>2. \A k \in Frames : End(k) < Pt => End(k) < Pt'
    BY <1>1
  <1>3. Frames' = Frames
    BY DEF Frames
  <1>4. \A i \in DOMAIN up : up[i] \in Frames /\ End(up[i])' < Pt'
    BY <1>1, <1>2 DEF InOrder
  <1>5. msg \in Frames => End(msg)' < Pt'
    BY <1>1, <1>2 DEF InOrder
  <1>6. \A i \in DOMAIN analyser_mq : analyser_mq[i] # Cmd =>
           analyser_mq[i] \in Frames /\ End(analyser_mq[i])' < Pt'
    BY <1>1, <1>2 DEF InOrder
  <1> QED
    BY <1>3, <1>4, <1>5, <1>6 DEF InOrder, End

\* A message behind all the others keeps the order.
LEMMA InOrderPost ==
    ASSUME InOrder, Bounded, LineOK, Pt \in Nat, Pt' \in Nat, Pt' >= Pt, NEW x \in Frames \cup {Cmd},
           x # Cmd => End(x) = Pt /\ Pt < Pt',
           analyser_mq' = Post(analyser_mq, AnalyserSize, x),
           UNCHANGED <<line, starts, up, msg>>
    PROVE  InOrder' /\ Len(analyser_mq') <= AnalyserSize
  <1>1. x \in Nat /\ analyser_mq \in Seq(Nat) /\ Len(analyser_mq) <= AnalyserSize
    BY QueueSizes, FrameFacts DEF InOrder, Bounded
  <1>2. PICK mq \in Seq(Nat) : mq = analyser_mq'
    BY <1>1, QueueSizes, PostFacts
  <1>3. /\ Len(mq) <= AnalyserSize
        /\ \A i \in DOMAIN analyser_mq : i \in Nat /\ i < Len(analyser_mq) + 1 /\ mq[i] = analyser_mq[i]
        /\ \A i \in DOMAIN mq : i \in DOMAIN analyser_mq \/ (i = Len(analyser_mq) + 1 /\ mq[i] = x)
    BY <1>1, <1>2, QueueSizes, PostFacts
  <1>4. \A k \in Frames : End(k) \in Nat /\ (End(k) < Pt => End(k) < Pt') /\ k \in Nat
                          /\ (End(k) < Pt /\ x # Cmd => k < x)
    <2> TAKE k \in Frames
    <2>1. End(k) \in Nat /\ k \in Nat
      BY FrameFacts
    <2>2. ASSUME End(k) < Pt, x # Cmd PROVE k < x
      BY <2>2, FrameOrder
    <2>3. End(k) < Pt => End(k) < Pt'
      BY <2>1
    <2> QED
      BY <2>1, <2>2, <2>3
  <1>5. \A i \in DOMAIN mq : mq[i] # Cmd => mq[i] \in Frames /\ End(mq[i]) < Pt'
    <2> TAKE i \in DOMAIN mq
    <2>1. CASE i \in DOMAIN analyser_mq
      BY <1>3, <1>4, <2>1 DEF InOrder
    <2>2. CASE i \notin DOMAIN analyser_mq
      BY <1>3, <2>2
    <2> QED
      BY <2>1, <2>2
  <1>6. \A i \in DOMAIN up : up[i] \in Frames /\ End(up[i]) < Pt'
    BY <1>4 DEF InOrder
  <1>7. msg \in Frames => End(msg) < Pt'
    BY <1>4 DEF InOrder
  <1>8. \A i \in DOMAIN up, j \in DOMAIN mq : mq[j] # Cmd => up[i] < mq[j]
    <2> TAKE i \in DOMAIN up, j \in DOMAIN mq
    <2>1. CASE j \in DOMAIN analyser_mq
      BY <1>3, <2>1 DEF InOrder
    <2>2. CASE j \notin DOMAIN analyser_mq
      BY <1>3, <1>4, <2>2 DEF InOrder
    <2> QED
      BY <2>1, <2>2
  <1>9. \A j \in DOMAIN mq : mq[j] # Cmd => msg < mq[j]
    <2> TAKE j \in DOMAIN mq
    <2>1. CASE j \in DOMAIN analyser_mq
      BY <1>3, <2>1 DEF InOrder
    <2>2. CASE j \notin DOMAIN analyser_mq
      <3>1. CASE msg \in Frames
        BY <1>3, <1>4, <2>2, <3>1 DEF InOrder
      <3>2. CASE msg \notin Frames
        <4>1. msg \in {Cmd, None}
          BY <3>2 DEF InOrder
        <4>2. x # Cmd => x \in Nat /\ x >= 1
          BY FrameFacts
        <4> QED
          BY <1>3, <2>2, <4>1, <4>2 DEF Cmd, None
      <3> QED
        BY <3>1, <3>2
    <2> QED
      BY <2>1, <2>2
  <1>10. \A i, j \in DOMAIN mq : i < j /\ mq[j] # Cmd => mq[i] < mq[j]
    <2> SUFFICES ASSUME NEW i \in DOMAIN mq, NEW j \in DOMAIN mq, i < j, mq[j] # Cmd
                 PROVE  mq[i] < mq[j]
      OBVIOUS
    <2>0. Len(analyser_mq) \in Nat
      BY <1>1
    <2>1. CASE j \in DOMAIN analyser_mq
      <3>1. i \in DOMAIN analyser_mq
        <4>1. i # Len(analyser_mq) + 1
          BY <1>3, <2>0, <2>1
        <4> QED
          BY <1>3, <4>1
      <3> QED
        BY <1>3, <2>1, <3>1 DEF InOrder
    <2>2. CASE j \notin DOMAIN analyser_mq
      <3>1. j = Len(analyser_mq) + 1 /\ mq[j] = x
        BY <1>3, <2>2
      <3>2. i \in DOMAIN analyser_mq
        BY <1>3, <2>0, <3>1
      <3>3. CASE mq[i] = Cmd
        <4>1. x \in Nat /\ x >= 1
          BY <2>2, <3>1, FrameFacts
        <4> QED
          BY <3>1, <3>3, <4>1 DEF Cmd
      <3>4. CASE mq[i] # Cmd
        BY <1>3, <1>4, <3>1, <3>2, <3>4 DEF InOrder
      <3> QED
        BY <3>3, <3>4
    <2> QED
      BY <2>1, <2>2
  <1>11. InOrder'
    BY <1>2, <1>5, <1>6, <1>7, <1>8, <1>9, <1>10 DEF InOrder, Frames, End
  <1> QED
    BY <1>2, <1>3, <1>11

\* A message that is put behind the others hides none of them.
LEMMA ReceivedPost ==
    ASSUME NEW k, Received(k), analyser_mq \in Seq(Nat), Len(analyser_mq) <= AnalyserSize, NEW x \in Nat,
           analyser_mq' = analyser_mq \/ analyser_mq' = Post(analyser_mq, AnalyserSize, x),
           answered \subseteq answered', refused \subseteq refused', UNCHANGED <<up, msg>>
    PROVE  Received(k)'
  <1>1. \A i \in DOMAIN analyser_mq : i \in DOMAIN analyser_mq' /\ analyser_mq'[i] = analyser_mq[i]
    <2>1. CASE analyser_mq' = Post(analyser_mq, AnalyserSize, x)
      BY <2>1, QueueSizes, PostFacts
    <2> QED
      BY <2>1
  <1>2. Range(analyser_mq) \subseteq Range(analyser_mq')
    BY <1>1 DEF Range
  <1>3. Range(up') = Range(up) /\ msg' = msg
    OBVIOUS
  <1> QED
    BY <1>2, <1>3 DEF Received

\* The frames end at different positions, and a recognised one where the parser is.
LEMMA SameEnd ==
    ASSUME LineOK, NEW j \in Frames, NEW k \in Frames, End(j) = End(k)
    PROVE  j = k
  <1>1. /\ j \in Nat /\ k \in Nat /\ starts[j] \in Nat /\ starts[k] \in Nat
        /\ End(j) \in Nat /\ End(k) \in Nat /\ End(j) >= starts[j] + 3 /\ End(k) >= starts[k] + 3
    BY FrameFacts
  <1>2. CASE j < k
    <2>1. End(j) < starts[k]
      BY <1>2 DEF LineOK
    <2> QED
      BY <1>1, <2>1
  <1>3. CASE k < j
    <2>1. End(k) < starts[j]
      BY <1>3 DEF LineOK
    <2> QED
      BY <1>1, <2>1
  <1> QED
    BY <1>1, <1>2, <1>3

LEMMA WholeEnds ==
    ASSUME LineOK, NEW p \in Nat, NEW buf \in Seq(Nat), NEW k \in Frames, Whole(Append(buf, p), k)
    PROVE  End(k) = p
  <1>1. PICK s \in Nat : s = starts[k]
    BY FrameFacts
  <1>2. PICK e \in Nat : e = End(k) /\ e >= s + 3
    BY <1>1, FrameFacts
  <1>3. PICK n \in Nat : n = Len(buf)
    OBVIOUS
  <1>4. PICK b \in Seq(Nat) : b = Append(buf, p)
    <2>1. Append(buf, p) \in Seq(Nat)
      OBVIOUS
    <2> QED
      BY <2>1
  <1>5. Len(b) = n + 1 /\ b[n + 1] = p /\ DOMAIN b = 1 .. n + 1
    BY <1>3, <1>4
  <1>6. b = [i \in 1 .. e - s + 1 |-> s + i - 1]
    BY <1>1, <1>2, <1>4 DEF Whole
  <1>7. DOMAIN b = 1 .. e - s + 1
    BY <1>6
  <1>8. e - s + 1 \in Nat /\ n + 1 \in 1 .. n + 1 /\ e - s + 1 \in 1 .. e - s + 1
    BY <1>2
  <1>9. n + 1 \in 1 .. e - s + 1 /\ e - s + 1 \in 1 .. n + 1
    BY <1>5, <1>7, <1>8
  <1>10. n + 1 = e - s + 1
    BY <1>8, <1>9
  <1>11. b[n + 1] = s + (n + 1) - 1
    BY <1>6, <1>9
  <1>12. p = s + (n + 1) - 1
    BY <1>5, <1>11
  <1>13. e = p
    BY <1>10, <1>12
  <1> QED
    BY <1>2, <1>13

\* What the parser does to the queue: nothing, or it recognises the frame that
\* ends at Pt.
Recognises(k) ==
    /\ End(k) = Pt
    /\ Payload(k) \in Local => answered' = answered \cup {k} /\ UNCHANGED <<analyser_mq, refused>>
    /\ Payload(k) \notin Local =>
          /\ analyser_mq' = Post(analyser_mq, AnalyserSize, k)
          /\ refused' = IF Len(analyser_mq) < AnalyserSize THEN refused ELSE refused \cup {k}
          /\ UNCHANGED answered

LEMMA ParseFlow ==
    ASSUME LineOK, Pending, ParserOK, ParseByte
    PROVE  \/ UNCHANGED <<analyser_mq, answered, refused>>
           \/ \E k \in Frames : Recognises(k)
  <1>1. Preamble(Pt) \/ Header(Pt) \/ Data(Pt)
    BY ParseTakes
  <1>2. Pt \in Nat /\ rx_buf \in Seq(Nat)
    BY PtFacts DEF ParserOK
  <1>3. UNCHANGED <<analyser_mq, answered, refused>> \/ Deliver(Append(rx_buf, Pt))
    BY <1>1 DEF Preamble, Header, Data, Goes, GivesUp
  <1>4. ASSUME NEW k \in Frames, Whole(Append(rx_buf, Pt), k)
        PROVE  End(k) = Pt
    BY <1>2, <1>4, WholeEnds
  <1> QED
    BY <1>3, <1>4 DEF Deliver, Recognises

LEMMA RecognisesReceived ==
    ASSUME LineOK, InOrder, Bounded, NEW k \in Frames, Recognises(k)
    PROVE  Received(k)'
  <1>1. k \in Nat /\ analyser_mq \in Seq(Nat) /\ Len(analyser_mq) <= AnalyserSize
    BY FrameFacts DEF InOrder, Bounded
  <1>2. CASE Payload(k) \in Local
    <2>1. k \in answered'
      BY <1>2 DEF Recognises
    <2> QED
      BY <2>1 DEF Received
  <1>3. CASE Payload(k) \notin Local /\ Len(analyser_mq) < AnalyserSize
    <2>1. analyser_mq' = Post(analyser_mq, AnalyserSize, k)
      BY <1>3 DEF Recognises
    <2>2. \E i \in DOMAIN analyser_mq' : analyser_mq'[i] = k
      BY <1>1, <1>3, <2>1, QueueSizes, PostFacts
    <2>3. k \in Range(analyser_mq')
      BY <2>2 DEF Range
    <2> QED
      BY <2>3 DEF Received
  <1>4. CASE Payload(k) \notin Local /\ ~(Len(analyser_mq) < AnalyserSize)
    <2>1. k \in refused'
      BY <1>4 DEF Recognises
    <2> QED
      BY <2>1 DEF Received
  <1> QED
    BY <1>2, <1>3, <1>4

LEMMA ParseReceived ==
    ASSUME LineOK, Pending, ParserOK, Bounded, InOrder, ParseByte, NEW k, Received(k)
    PROVE  Received(k)'
  <1>1. UNCHANGED <<up, msg>> /\ analyser_mq \in Seq(Nat) /\ Len(analyser_mq) <= AnalyserSize
    BY ParseTakes DEF InOrder, Bounded
  <1>2. CASE UNCHANGED <<analyser_mq, answered, refused>>
    BY <1>1, <1>2, QueueSizes, ReceivedPost
  <1>3. ASSUME NEW j \in Frames, Recognises(j)
        PROVE  Received(k)'
    <2>1. j \in Nat
      BY FrameFacts
    <2>2. /\ analyser_mq' = analyser_mq \/ analyser_mq' = Post(analyser_mq, AnalyserSize, j)
          /\ answered \subseteq answered' /\ refused \subseteq refused'
      BY <1>3 DEF Recognises
    <2> QED
      BY <1>1, <2>1, <2>2, ReceivedPost
  <1> QED
    BY <1>2, <1>3, ParseFlow

LEMMA ParseOrder ==
    ASSUME LineOK, Pending, ParserOK, Bounded, InOrder, ParseByte
    PROVE  InOrder' /\ Len(analyser_mq') <= AnalyserSize
  <1>1. UNCHANGED <<line, starts, up, msg>> /\ Pt \in Nat /\ Pt' \in Nat /\ Pt < Pt' /\ Pt' >= Pt
    BY ParseTakes, ParsePending
  <1>2. CASE UNCHANGED analyser_mq
    BY <1>1, <1>2, InOrderSlide DEF Bounded
  <1>3. ASSUME NEW k \in Frames, Recognises(k), Payload(k) \notin Local
        PROVE  InOrder' /\ Len(analyser_mq') <= AnalyserSize
    <2>1. k \in Frames \cup {Cmd} /\ End(k) = Pt /\ analyser_mq' = Post(analyser_mq, AnalyserSize, k)
      BY <1>3 DEF Recognises
    <2> QED
      BY <1>1, <2>1, InOrderPost
  <1>4. ASSUME NEW k \in Frames, Recognises(k), Payload(k) \in Local
        PROVE  UNCHANGED analyser_mq
    BY <1>4 DEF Recognises
  <1> QED
    BY <1>2, <1>3, <1>4, ParseFlow

LEMMA ParseRecognised ==
    ASSUME LineOK, Pending, ParserInv, Bounded, InOrder, Recognised, ParseByte
    PROVE  Recognised'
  <1>1. PICK p \in Nat : p = Pt
    BY PtFacts
  <1>2. PICK q \in Nat : q = Pt'
    BY ParsePending
  <1>3. /\ line' = line /\ starts' = starts /\ gone' = gone
        /\ \A r \in Nat : p < r /\ r < q => r \in gone
    BY <1>1, <1>2, ParsePending, ParseTakes
  <1> SUFFICES ASSUME NEW k \in Frames, End(k) < q, Clean(k, End(k) + 1)
               PROVE  Received(k)'
    BY <1>2, <1>3 DEF Recognised, Frames, End, Clean, From, NoFalseStart, Lossless
  <1>4. PICK e \in Nat : e = End(k) /\ 1 <= e /\ From(k) <= e
    BY FrameBounds
  <1>5. Lossless(1, e) \/ (Lossless(From(k), e) /\ NoFalseStart(k))
    <2>1. e + 1 - 1 = e
      OBVIOUS
    <2> QED
      BY <1>4, <2>1 DEF Clean
  <1>6. CASE e < p
    <2>1. Received(k)
      BY <1>1, <1>4, <1>6 DEF Recognised
    <2> QED
      BY <2>1, ParseReceived DEF ParserInv
  <1>7. CASE p < e
    <2>1. e \in gone
      BY <1>3, <1>4, <1>7
    <2> QED
      BY <1>4, <1>5, <2>1 DEF Lossless, Free
  <1>8. CASE p = e
    <2>1. starts[k] < Pt /\ Pt = End(k)
      BY <1>1, <1>4, <1>8, FrameFacts
    <2>2. Clean(k, Pt)
      <3>1. \A r \in gone : r \in Nat
        BY PtFacts DEF Pending
      <3>2. \A r \in gone, f \in Int : f <= r /\ r <= e - 1 => f <= r /\ r <= e
        BY <3>1
      <3>3. From(k) \in Int /\ 1 \in Int
        BY FrameFacts
      <3>4. Lossless(1, e - 1) \/ (Lossless(From(k), e - 1) /\ NoFalseStart(k))
        BY <1>5, <3>2, <3>3 DEF Lossless, Free
      <3> QED
        BY <1>1, <1>8, <3>4 DEF Clean
    <2>3. Deliver(Append(rx_buf, Pt)) /\ Whole(Append(rx_buf, Pt), k)
      BY <2>1, <2>2, ParseEnd
    <2>4. \A j \in Frames : Whole(Append(rx_buf, Pt), j) => j = k
      BY <2>1, PtFacts, WholeEnds, SameEnd DEF ParserInv, ParserOK
    <2>5. Recognises(k)
      BY <2>1, <2>3, <2>4 DEF Deliver, Recognises
    <2> QED
      BY <2>5, RecognisesReceived
  <1> QED
    BY <1>6, <1>7, <1>8

-----------------------------------------------------------------------------
(* The steps, one by one; first what those have in common that parse nothing. *)

LEMMA LineKept ==
    ASSUME LineOK, UNCHANGED <<line, starts>>, next' \in 1 .. Len(line) + 1
    PROVE  LineOK'
  BY DEF LineOK, Frames, End

LEMMA BytesKept ==
    ASSUME LineOK, Pending, UNCHANGED <<line, starts, next, gone, ring, uart_buf>>
    PROVE  LineOK' /\ Pending' /\ Slides /\ Pt' = Pt
  <1>1. Pt' = Pt
    BY DEF Pt
  <1>2. Pending'
    BY <1>1 DEF Pending
  <1>3. LineOK'
    BY LineKept DEF LineOK
  <1>4. PICK p \in Nat : p = Pt
    BY PtFacts
  <1>5. gone \subseteq Nat
    BY PtFacts DEF Pending
  <1>6. Slides
    BY <1>1, <1>4, <1>5 DEF Slides
  <1> QED
    BY <1>1, <1>2, <1>3, <1>6

\* What is left to show of a step that parses nothing.
LEMMA ParserIdle ==
    ASSUME SerialInv, Slides, LineOK', Pending', Bounded', InOrder',
           UNCHANGED <<line, starts, rx_buf, state, wantlen>>,
           \A k \in Frames : Received(k) => Received(k)'
    PROVE  SerialInv'
  <1>1. ParserInv
    BY DEF SerialInv, ParserInv
  <1>2. ParserInv'
    BY <1>1, SlideParser DEF SerialInv
  <1>3. Recognised'
    BY SlideRecognised DEF SerialInv
  <1> QED
    BY <1>2, <1>3 DEF SerialInv, ParserInv

LEMMA ParseStep ==
    ASSUME SerialInv, ParseByte
    PROVE  SerialInv'
  <1> USE DEF SerialInv
  <1>1. ParserInv
    BY DEF ParserInv
  <1>2. /\ UNCHANGED <<line, starts, next, ring, rx_ind, pc, again, bsmac_mq>>
    BY DEF ParseByte, anchorVars, uartVars
  <1>3. LineOK'
    BY <1>2, LineKept DEF LineOK
  <1>4. Pending' /\ Len(uart_buf') <= Len(uart_buf)
    BY ParsePending
  <1>5. ParserInv'
    BY <1>1, ParseParserOK, ParseContiguous, ParseInStep, ParseAligned DEF ParserInv
  <1>6. Recognised'
    BY <1>1, ParseRecognised
  <1>7. InOrder' /\ Len(analyser_mq') <= AnalyserSize
    BY ParseOrder
  <1>8. Bounded'
    <2>1. PICK n \in Nat : n = Len(uart_buf)
      BY DEF Pending
    <2>2. PICK m \in Nat : m = Len(uart_buf')
      BY <1>4 DEF Pending
    <2>3. ReadLen \in Nat
      BY SizesAssumption
    <2>4. n <= ReadLen /\ m <= n
      BY <1>4, <2>1, <2>2 DEF Bounded
    <2>5. m <= ReadLen
      BY <2>3, <2>4
    <2> QED
      BY <1>2, <1>7, <2>2, <2>5 DEF Bounded
  <1> QED
    BY <1>3, <1>4, <1>5, <1>6, <1>7, <1>8 DEF ParserInv

LEMMA ArriveStep ==
    ASSUME SerialInv, Arrive
    PROVE  SerialInv'
  <1> USE DEF SerialInv
  <1>1. /\ UNCHANGED <<line, starts, uart_buf, pc, again, state, wantlen, rx_buf, answered, refused,
                       analyser_mq, bsmac_mq, msg, up>>
        /\ next' = next + 1 /\ next <= Len(line) /\ rx_ind' = TRUE
    BY DEF Arrive, anchorVars, readVars, parserVars
  <1>2. LineOK'
    <2>1. next \in Nat /\ next >= 1 /\ Len(line) \in Nat
      BY DEF LineOK
    <2>2. next' \in 1 .. Len(line) + 1
      BY <1>1, <2>1
    <2> QED
      BY <1>1, <2>2, LineKept
  <1>3. Pending' /\ Slides
    BY ArrivePending
  <1>4. Bounded'
    BY <1>1, ArriveRing DEF Bounded
  <1>5. InOrder'
    BY <1>1, <1>3, PtFacts, InOrderSlide DEF Slides
  <1>6. \A k \in Frames : Received(k) => Received(k)'
    BY <1>1 DEF Received
  <1> QED
    BY <1>1, <1>2, <1>3, <1>4, <1>5, <1>6, ParserIdle

LEMMA MissStep ==
    ASSUME SerialInv, Miss
    PROVE  SerialInv'
  <1> USE DEF SerialInv
  <1>1. /\ UNCHANGED <<line, starts, uart_buf, pc, again, state, wantlen, rx_buf, answered, refused,
                       analyser_mq, bsmac_mq, msg, up, rx_ind, ring>>
        /\ next' = next + 1 /\ next <= Len(line)
    BY DEF Miss, anchorVars, readVars, parserVars
  <1>2. LineOK'
    <2>1. next \in Nat /\ next >= 1 /\ Len(line) \in Nat
      BY DEF LineOK
    <2>2. next' \in 1 .. Len(line) + 1
      BY <1>1, <2>1
    <2> QED
      BY <1>1, <2>2, LineKept
  <1>3. Pending' /\ Slides
    BY MissPending
  <1>4. Bounded'
    BY <1>1 DEF Bounded
  <1>5. InOrder'
    BY <1>1, <1>3, PtFacts, InOrderSlide DEF Slides
  <1>6. \A k \in Frames : Received(k) => Received(k)'
    BY <1>1 DEF Received
  <1> QED
    BY <1>1, <1>2, <1>3, <1>4, <1>5, <1>6, ParserIdle

LEMMA ReadByteStep ==
    ASSUME SerialInv, ReadByte
    PROVE  SerialInv'
  <1> USE DEF SerialInv
  <1>1. UNCHANGED <<line, starts, next, gone, pc, again, state, wantlen, rx_buf, answered, refused,
                    analyser_mq, bsmac_mq, msg, up, rx_ind>>
    BY DEF ReadByte, anchorVars, parserVars
  <1>2. LineOK'
    BY <1>1, LineKept DEF LineOK
  <1>3. Pending' /\ Pt' = Pt /\ Len(ring') < RingSize /\ Len(uart_buf') <= ReadLen
    BY ReadBytePending
  <1>4. PICK p \in Nat : p = Pt
    BY PtFacts
  <1>5. gone \subseteq Nat
    BY PtFacts DEF Pending
  <1>6. Slides
    BY <1>1, <1>3, <1>4, <1>5 DEF Slides
  <1>7. Bounded'
    BY <1>1, <1>3 DEF Bounded
  <1>8. InOrder'
    BY <1>1, <1>6, PtFacts, InOrderSlide DEF Slides
  <1>9. \A k \in Frames : Received(k) => Received(k)'
    BY <1>1 DEF Received
  <1> QED
    BY <1>1, <1>2, <1>3, <1>6, <1>7, <1>8, <1>9, ParserIdle

\* The thread only goes on.
LEMMA ThreadStep ==
    ASSUME SerialInv, StartRead \/ ReadDone \/ ParseDone \/ ClearInd \/ UNCHANGED vars
    PROVE  SerialInv'
  <1> USE DEF SerialInv
  <1>1. UNCHANGED <<line, starts, next, gone, ring, uart_buf, state, wantlen, rx_buf, answered, refused,
                    analyser_mq, bsmac_mq, msg, up>>
    BY DEF StartRead, ReadDone, ParseDone, ClearInd, vars, anchorVars, uartVars, readVars, parserVars
  <1>2. pc' \in {"loop", "read", "parse", "clear"} /\ rx_ind' \in BOOLEAN
    BY DEF StartRead, ReadDone, ParseDone, ClearInd, vars, uartVars, readVars, Bounded
  <1>3. again' \in BOOLEAN
    BY DEF StartRead, ReadDone, ParseDone, ClearInd, vars, uartVars, readVars, Bounded, ReadAgain
  <1>4. LineOK' /\ Pending' /\ Slides
    BY <1>1, BytesKept
  <1>5. Bounded'
    BY <1>1, <1>2, <1>3 DEF Bounded
  <1>6. InOrder'
    BY <1>1, <1>4, PtFacts, InOrderSlide DEF Slides
  <1>7. \A k \in Frames : Received(k) => Received(k)'
    BY <1>1 DEF Received
  <1> QED
    BY <1>1, <1>4, <1>5, <1>6, <1>7, ParserIdle

LEMMA TransmitStep ==
    ASSUME SerialInv, Transmit
    PROVE  SerialInv'
  <1> USE DEF SerialInv
  <1>1. /\ UNCHANGED <<line, starts, next, gone, ring, uart_buf, pc, again, state, wantlen, rx_buf, answered,
                       refused, analyser_mq, msg, up, rx_ind>>
        /\ bsmac_mq # <<>> /\ bsmac_mq' = Tail(bsmac_mq)
    BY DEF Transmit, anchorVars, uartVars, readVars, parserVars
  <1>2. LineOK' /\ Pending' /\ Slides
    BY <1>1, BytesKept
  <1>3. Bounded'
    <2>1. bsmac_mq \in Seq(Nat) /\ Len(bsmac_mq) <= BsmacSize
      BY DEF Bounded
    <2>2. bsmac_mq' \in Seq(Nat) /\ Len(bsmac_mq') <= Len(bsmac_mq)
      BY <1>1, <2>1, TailFacts
    <2>3. Len(bsmac_mq') <= BsmacSize
      BY <2>1, <2>2, QueueSizes
    <2> QED
      BY <1>1, <2>2, <2>3 DEF Bounded
  <1>4. InOrder'
    BY <1>1, <1>2, PtFacts, InOrderSlide DEF Slides
  <1>5. \A k \in Frames : Received(k) => Received(k)'
    BY <1>1 DEF Received
  <1> QED
    BY <1>1, <1>2, <1>3, <1>4, <1>5, ParserIdle

LEMMA CommandStep ==
    ASSUME SerialInv, Command
    PROVE  SerialInv'
  <1> USE DEF SerialInv
  <1>1. /\ UNCHANGED <<line, starts, next, gone, ring, uart_buf, pc, again, state, wantlen, rx_buf, answered,
                       refused, bsmac_mq, msg, up, rx_ind>>
        /\ analyser_mq' = Post(analyser_mq, AnalyserSize, Cmd)
    BY DEF Command, anchorVars, uartVars, readVars, parserVars
  <1>2. LineOK' /\ Pending' /\ Slides
    BY <1>1, BytesKept
  <1>3. InOrder' /\ Len(analyser_mq') <= AnalyserSize
    BY <1>1, <1>2, PtFacts, InOrderPost DEF Slides
  <1>4. Bounded'
    BY <1>1, <1>3 DEF Bounded
  <1>5. \A k \in Frames : Received(k) => Received(k)'
    BY <1>1, QueueSizes, ReceivedPost DEF InOrder, Bounded
  <1> QED
    BY <1>1, <1>2, <1>3, <1>4, <1>5, ParserIdle

LEMMA TakeMsgStep ==
    ASSUME SerialInv, TakeMsg
    PROVE  SerialInv'
  <1> USE DEF SerialInv
  <1>1. /\ UNCHANGED <<line, starts, next, gone, ring, uart_buf, pc, again, state, wantlen, rx_buf, answered,
                       refused, bsmac_mq, up, rx_ind>>
        /\ msg = None /\ analyser_mq # <<>> /\ msg' = Head(analyser_mq) /\ analyser_mq' = Tail(analyser_mq)
    BY DEF TakeMsg, anchorVars, uartVars, readVars, parserVars
  <1>2. LineOK' /\ Pending' /\ Slides /\ Pt' = Pt
    BY <1>1, BytesKept
  <1>3. PICK q \in Seq(Nat) : q = Tail(analyser_mq)
    BY <1>1, TailFacts DEF InOrder
  <1>4. /\ Len(q) <= Len(analyser_mq) /\ msg' = analyser_mq[1] /\ 1 \in DOMAIN analyser_mq
        /\ \A i \in DOMAIN q : /\ i \in Nat /\ i + 1 \in DOMAIN analyser_mq /\ 1 < i + 1
                               /\ q[i] = analyser_mq[i + 1]
        /\ \A i \in DOMAIN analyser_mq : analyser_mq[i] = msg' \/ \E j \in DOMAIN q : q[j] = analyser_mq[i]
    BY <1>1, <1>3, TailFacts DEF InOrder
  <1>5. \A k \in Frames : k \in Nat /\ k >= 1 /\ k # Cmd /\ k # None
    <2> TAKE k \in Frames
    <2>1. k \in Nat /\ k >= 1
      BY FrameFacts
    <2> QED
      BY <2>1 DEF Cmd, None
  <1>6. msg' \in Frames \cup {Cmd, None} /\ (msg' \in Frames => End(msg') < Pt)
    BY <1>4, <1>5 DEF InOrder
  <1>7. \A i \in DOMAIN q : q[i] # Cmd => q[i] \in Frames /\ End(q[i]) < Pt
    BY <1>4 DEF InOrder
  <1>8. \A i \in DOMAIN up : msg' \in Frames => up[i] < msg'
    BY <1>4, <1>5 DEF InOrder
  <1>9. \A i \in DOMAIN up, j \in DOMAIN q : q[j] # Cmd => up[i] < q[j]
    BY <1>4 DEF InOrder
  <1>10. \A j \in DOMAIN q : q[j] # Cmd => msg' < q[j]
    BY <1>4 DEF InOrder
  <1>11. \A i, j \in DOMAIN q : i < j /\ q[j] # Cmd => q[i] < q[j]
    <2> SUFFICES ASSUME NEW i \in DOMAIN q, NEW j \in DOMAIN q, i < j, q[j] # Cmd
                 PROVE  q[i] < q[j]
      OBVIOUS
    <2>1. i + 1 < j + 1 /\ i + 1 \in DOMAIN analyser_mq /\ j + 1 \in DOMAIN analyser_mq
      BY <1>4
    <2> QED
      BY <1>4, <2>1 DEF InOrder
  <1>12. analyser_mq' = q /\ up' = up /\ Frames' = Frames /\ \A k : End(k)' = End(k)
    BY <1>1, <1>3 DEF Frames, End
  <1>13. InOrder'
    BY <1>2, <1>6, <1>7, <1>8, <1>9, <1>10, <1>11, <1>12 DEF InOrder
  <1>14. Bounded'
    <2>1. Len(analyser_mq) \in Nat /\ Len(analyser_mq) <= AnalyserSize
      BY DEF InOrder, Bounded
    <2>2. Len(q) <= AnalyserSize
      BY <1>4, <2>1, QueueSizes
    <2> QED
      BY <1>1, <1>3, <2>2 DEF Bounded
  <1>15. \A k \in Frames : Received(k) => Received(k)'
    BY <1>1, <1>4, <1>5, <1>12 DEF Received, Range
  <1> QED
    BY <1>1, <1>2, <1>13, <1>14, <1>15, ParserIdle

LEMMA HandleMsgStep ==
    ASSUME SerialInv, HandleMsg
    PROVE  SerialInv'
  <1> USE DEF SerialInv
  <1>1. /\ UNCHANGED <<line, starts, next, gone, ring, uart_buf, pc, again, state, wantlen, rx_buf, answered,
                       refused, analyser_mq, rx_ind>>
        /\ msg # None /\ msg' = None
    BY DEF HandleMsg, anchorVars, uartVars, readVars, parserVars
  <1>2. LineOK' /\ Pending' /\ Slides /\ Pt' = Pt /\ Frames' = Frames /\ \A k : End(k)' = End(k)
    BY <1>1, BytesKept DEF Frames, End
  <1>3. \A k \in Frames : k \in Nat /\ k >= 1 /\ k # Cmd /\ k # None /\ None < k
    <2> TAKE k \in Frames
    <2>1. k \in Nat /\ k >= 1
      BY FrameFacts
    <2> QED
      BY <2>1 DEF Cmd, None
  <1>4. None \notin Frames
    BY <1>3
  <1>5. \A j \in DOMAIN analyser_mq : analyser_mq[j] # Cmd => None < analyser_mq[j]
    BY <1>3 DEF InOrder
  <1>6. CASE msg = Cmd
    <2>1. up' = up /\ bsmac_mq' = Post(bsmac_mq, BsmacSize, Cmd)
      BY <1>6 DEF HandleMsg
    <2>2. InOrder'
      BY <1>1, <1>2, <1>4, <1>5, <2>1 DEF InOrder
    <2>3. bsmac_mq' \in Seq(Nat) /\ Len(bsmac_mq') <= BsmacSize
      BY <2>1, QueueSizes, PostFacts DEF Bounded
    <2>4. Bounded'
      BY <1>1, <2>3 DEF Bounded
    <2>5. \A k \in Frames : Received(k) => Received(k)'
      BY <1>1, <1>3, <1>6, <2>1 DEF Received
    <2> QED
      BY <1>1, <1>2, <2>2, <2>4, <2>5, ParserIdle
  <1>7. CASE msg # Cmd
    <2>1. up' = Append(up, msg) /\ bsmac_mq' = bsmac_mq /\ msg \in Frames
      BY <1>1, <1>7 DEF HandleMsg, InOrder
    <2>2. msg \in Nat /\ up \in Seq(Nat)
      BY <1>3, <2>1 DEF InOrder
    <2>3. PICK u \in Seq(Nat) : u = Append(up, msg)
      <3>1. Append(up, msg) \in Seq(Nat)
        BY <2>2
      <3> QED
        BY <3>1
    <2>4. /\ \A i \in DOMAIN up : i \in Nat /\ i < Len(up) + 1 /\ u[i] = up[i] /\ i \in DOMAIN u
          /\ \A i \in DOMAIN u : i \in DOMAIN up \/ (i = Len(up) + 1 /\ u[i] = msg)
          /\ Len(up) + 1 \in DOMAIN u /\ u[Len(up) + 1] = msg /\ Len(up) + 1 \in Nat
      <3>1. /\ Len(u) = Len(up) + 1 /\ DOMAIN u = 1 .. Len(up) + 1 /\ u[Len(up) + 1] = msg
            /\ \A i \in 1 .. Len(up) : u[i] = up[i]
        BY <2>2, <2>3
      <3>2. Len(up) \in Nat /\ DOMAIN up = 1 .. Len(up)
        BY <2>2
      <3> QED
        BY <3>1, <3>2
    <2>5. \A i \in DOMAIN u : u[i] \in Frames /\ End(u[i]) < Pt
      BY <2>1, <2>4 DEF InOrder
    <2>6. \A i, j \in DOMAIN u : i < j => u[i] < u[j]
      <3> SUFFICES ASSUME NEW i \in DOMAIN u, NEW j \in DOMAIN u, i < j PROVE u[i] < u[j]
        OBVIOUS
      <3>1. CASE j \in DOMAIN up
        <4>1. i \in DOMAIN up
          BY <2>4, <3>1
        <4> QED
          BY <2>4, <3>1, <4>1 DEF InOrder
      <3>2. CASE j \notin DOMAIN up
        <4>1. j = Len(up) + 1 /\ u[j] = msg
          BY <2>4, <3>2
        <4>2. i \in DOMAIN up
          BY <2>4, <4>1
        <4> QED
          BY <2>1, <2>4, <4>1, <4>2 DEF InOrder
      <3> QED
        BY <3>1, <3>2
    <2>7. \A i \in DOMAIN u, j \in DOMAIN analyser_mq : analyser_mq[j] # Cmd => u[i] < analyser_mq[j]
      BY <2>4 DEF InOrder
    <2>8. up' = u
      BY <2>1, <2>3
    <2>9. InOrder'
      BY <1>1, <1>2, <1>4, <1>5, <2>5, <2>6, <2>7, <2>8 DEF InOrder
    <2>10. Bounded'
      BY <1>1, <2>1 DEF Bounded
    <2>11. \A k \in Frames : Received(k) => Received(k)'
      BY <1>1, <2>4, <2>8 DEF Received, Range
    <2> QED
      BY <1>1, <1>2, <2>9, <2>10, <2>11, ParserIdle
  <1> QED
    BY <1>6, <1>7

\* A frame that the anchor begins to send comes behind the others.
LEMMA JoinThree ==
    ASSUME NEW a \in Seq(Nat), NEW d \in Seq(Nat), NEW x \in Nat, NEW y \in Nat, NEW z \in Nat
    PROVE  LET j == a \o <<x, y, z>> \o d
           IN  /\ j \in Seq(Nat) /\ Len(j) = Len(a) + 3 + Len(d)
               /\ \A p \in 1 .. Len(a) : j[p] = a[p]
               /\ j[Len(a) + 1] = x /\ j[Len(a) + 2] = y /\ j[Len(a) + 3] = z
  <1> DEFINE b == <<x, y, z>>
  <1>1. b \in Seq(Nat) /\ Len(b) = 3 /\ b[1] = x /\ b[2] = y /\ b[3] = z
    OBVIOUS
  <1> HIDE DEF b
  <1>2. PICK n \in Nat : n = Len(a)
    OBVIOUS
  <1>3. PICK c \in Seq(Nat) : c = a \o b
    <2>1. a \o b \in Seq(Nat)
      BY <1>1, ConcatProperties
    <2> QED
      BY <2>1
  <1>4. Len(c) = n + 3 /\ \A p \in 1 .. n + 3 : c[p] = IF p <= n THEN a[p] ELSE b[p - n]
    <2>1. /\ Len(a \o b) = Len(a) + Len(b)
          /\ \A p \in 1 .. Len(a) + Len(b) : (a \o b)[p] = IF p <= Len(a) THEN a[p] ELSE b[p - Len(a)]
      BY <1>1, ConcatProperties
    <2> QED
      BY <1>1, <1>2, <1>3, <2>1
  <1>5. /\ c \o d \in Seq(Nat) /\ Len(c \o d) = n + 3 + Len(d)
        /\ \A p \in 1 .. n + 3 + Len(d) : (c \o d)[p] = IF p <= n + 3 THEN c[p] ELSE d[p - (n + 3)]
    <2>1. Len(c) = n + 3
      BY <1>4
    <2>2. /\ c \o d \in Seq(Nat) /\ Len(c \o d) = Len(c) + Len(d)
          /\ \A p \in 1 .. Len(c) + Len(d) : (c \o d)[p] = IF p <= Len(c) THEN c[p] ELSE d[p - Len(c)]
      BY ConcatProperties
    <2> QED
      BY <2>1, <2>2
  <1>6. PICK m \in Nat : m = Len(d)
    OBVIOUS
  <1>7. \A p \in 1 .. n + 3 : p \in 1 .. n + 3 + m /\ p <= n + 3
    OBVIOUS
  <1>8. \A p \in 1 .. n + 3 : (c \o d)[p] = c[p]
    BY <1>5, <1>6, <1>7
  <1>9. /\ \A p \in 1 .. n : p \in 1 .. n + 3 /\ p <= n
        /\ n + 1 \in 1 .. n + 3 /\ ~(n + 1 <= n) /\ n + 1 - n = 1
        /\ n + 2 \in 1 .. n + 3 /\ ~(n + 2 <= n) /\ n + 2 - n = 2
        /\ n + 3 \in 1 .. n + 3 /\ ~(n + 3 <= n) /\ n + 3 - n = 3
    OBVIOUS
  <1>10. \A p \in 1 .. n : (c \o d)[p] = a[p]
    BY <1>4, <1>8, <1>9
  <1>11. (c \o d)[n + 1] = b[1] /\ (c \o d)[n + 2] = b[2] /\ (c \o d)[n + 3] = b[3]
    BY <1>4, <1>8, <1>9
  <1>12. c \o d = a \o b \o d
    BY <1>3
  <1> QED
    BY <1>1, <1>2, <1>5, <1>10, <1>11, <1>12 DEF b

LEMMA BeginLine ==
    ASSUME LineOK, NEW d \in Payloads, Begin(d), NEW n \in Nat, n = Len(starts) + 1
    PROVE  /\ Len(line) \in Nat /\ next = Len(line) + 1
           /\ line' \in Seq(Nat) /\ Len(line') \in Nat /\ Len(line') > Len(line) + 3
           /\ \A p \in 1 .. Len(line) : line'[p] = line[p]
           /\ starts' \in Seq(Nat) /\ Frames' = Frames \cup {n}
           /\ starts'[n] = Len(line) + 1 /\ End(n)' = Len(line')
           /\ line'[starts'[n]] = H /\ line'[starts'[n] + 1] = L /\ line'[starts'[n] + 2] \in 1 .. MaxLen
           /\ \A k \in Frames : k < n /\ starts'[k] = starts[k] /\ End(k)' = End(k)
  <1>1. /\ next > Len(line) /\ line' = line \o <<H, L, Len(d)>> \o d
        /\ starts' = Append(starts, Len(line) + 1)
    BY DEF Begin
  <1>2. d \in Seq(Nat) /\ Len(d) \in 1 .. MaxLen /\ H \in Nat /\ L \in Nat /\ MaxLen \in Nat
    BY BytesAssumption
  <1>3. /\ line \in Seq(Nat) /\ starts \in Seq(Nat) /\ next \in 1 .. Len(line) + 1
        /\ Len(line) \in Nat /\ Len(starts) \in Nat
    BY DEF LineOK
  <1>4. PICK e \in Nat : e = Len(line)
    BY <1>3
  <1>5. PICK m \in Nat : m = Len(d) /\ m >= 1
    BY <1>2
  <1>6. /\ line' \in Seq(Nat) /\ Len(line') = e + 3 + m /\ \A p \in 1 .. e : line'[p] = line[p]
        /\ line'[e + 1] = H /\ line'[e + 2] = L /\ line'[e + 3] = m
    <2> DEFINE j == line \o <<H, L, m>> \o d
    <2>1. line' = j
      BY <1>1, <1>5
    <2>2. m \in Nat /\ H \in Nat /\ L \in Nat /\ d \in Seq(Nat) /\ line \in Seq(Nat)
      BY <1>2, <1>3
    <2>3. /\ j \in Seq(Nat) /\ Len(j) = Len(line) + 3 + Len(d)
          /\ \A p \in 1 .. Len(line) : j[p] = line[p]
          /\ j[Len(line) + 1] = H /\ j[Len(line) + 2] = L /\ j[Len(line) + 3] = m
      BY <2>2, JoinThree
    <2> QED
      BY <1>4, <1>5, <2>1, <2>3
  <1>7. /\ starts' \in Seq(Nat) /\ Frames = 1 .. Len(starts) /\ Frames' = 1 .. n
        /\ \A k \in 1 .. Len(starts) : starts'[k] = starts[k]
        /\ starts'[n] = e + 1
    <2>1. PICK b \in Seq(Nat) : b = Append(starts, e + 1)
      <3>1. Append(starts, e + 1) \in Seq(Nat)
        BY <1>3
      <3> QED
        BY <3>1
    <2>2. /\ Len(b) = Len(starts) + 1 /\ DOMAIN b = 1 .. Len(starts) + 1 /\ b[Len(starts) + 1] = e + 1
          /\ \A k \in 1 .. Len(starts) : b[k] = starts[k]
      BY <1>3, <2>1
    <2>3. starts' = b /\ DOMAIN starts = 1 .. Len(starts)
      BY <1>1, <1>3, <1>4, <2>1
    <2> QED
      BY <2>2, <2>3 DEF Frames
  <1>8. Frames' = Frames \cup {n} /\ \A k \in Frames : k < n /\ k \in 1 .. Len(starts)
    <2>1. PICK r \in Nat : r = Len(starts)
      BY <1>3
    <2>2. Frames = 1 .. r /\ Frames' = 1 .. r + 1 /\ n = r + 1
      BY <1>7, <2>1
    <2>3. 1 .. r + 1 = (1 .. r) \cup {r + 1} /\ \A k \in 1 .. r : k < r + 1
      OBVIOUS
    <2> QED
      BY <2>1, <2>2, <2>3
  <1>9. ASSUME NEW k \in Frames'
        PROVE  End(k)' = starts'[k] + 2 + line'[starts'[k] + 2]
    <2>1. starts'[k] \in Nat
      BY <1>7 DEF Frames
    <2>2. starts'[k] + HeaderLen - 1 = starts'[k] + 2
      BY <2>1 DEF HeaderLen
    <2> QED
      BY <2>2 DEF End
  <1>10. ASSUME NEW k \in Frames
         PROVE  starts'[k] = starts[k] /\ End(k)' = End(k)
    <2>1. k \in Frames' /\ starts'[k] = starts[k]
      BY <1>7, <1>8
    <2>2. PICK s \in Nat : s = starts[k]
      BY FrameFacts
    <2>3. s + 2 \in 1 .. e
      <3>1. starts[k] \in Nat /\ End(k) \in Nat /\ End(k) >= starts[k] + 3 /\ End(k) <= Len(line)
        BY FrameFacts
      <3>2. PICK f \in Nat : f = End(k)
        BY <3>1
      <3>3. f >= s + 3 /\ f <= e
        BY <1>4, <2>2, <3>1, <3>2
      <3> QED
        BY <3>3
    <2>4. line'[s + 2] = line[s + 2]
      BY <1>6, <2>3
    <2>5. End(k) = s + 2 + line[s + 2]
      BY <2>2, FrameFacts
    <2>6. End(k)' = s + 2 + line'[s + 2]
      BY <1>9, <2>1, <2>2
    <2> QED
      BY <2>1, <2>4, <2>5, <2>6
  <1>11. End(n)' = e + 3 + m
    <2>1. n \in Frames' /\ starts'[n] = e + 1
      BY <1>7, <1>8
    <2>2. End(n)' = starts'[n] + 2 + line'[starts'[n] + 2]
      BY <1>9, <2>1
    <2>3. starts'[n] + 2 = e + 3
      BY <2>1
    <2> QED
      BY <1>6, <2>2, <2>3
  <1>12. e + 1 + 1 = e + 2 /\ e + 1 + 2 = e + 3 /\ e + 3 + m > e + 3 /\ e + 3 + m \in Nat
    BY <1>5
  <1>13. m \in 1 .. MaxLen
    BY <1>2, <1>5
  <1>14. next = e + 1
    BY <1>1, <1>3, <1>4
  <1>15. /\ line'[starts'[n]] = H /\ line'[starts'[n] + 1] = L /\ line'[starts'[n] + 2] \in 1 .. MaxLen
    BY <1>6, <1>7, <1>12, <1>13
  <1>16. /\ Len(line') \in Nat /\ Len(line') > e + 3 /\ End(n)' = Len(line')
    BY <1>6, <1>11, <1>12
  <1>17. \A k \in Frames : k < n /\ starts'[k] = starts[k] /\ End(k)' = End(k)
    BY <1>8, <1>10
  <1>18. starts' \in Seq(Nat) /\ Frames' = Frames \cup {n} /\ starts'[n] = e + 1
    BY <1>7, <1>8
  <1>19. line' \in Seq(Nat) /\ \A p \in 1 .. e : line'[p] = line[p]
    BY <1>6
  <1> QED
    BY <1>4, <1>14, <1>15, <1>16, <1>17, <1>18, <1>19

LEMMA BeginStep ==
    ASSUME SerialInv, NEW d \in Payloads, Begin(d)
    PROVE  SerialInv'
  <1> USE DEF SerialInv
  <1>1. UNCHANGED <<next, gone, ring, uart_buf, pc, again, state, wantlen, rx_buf, answered,
                    refused, analyser_mq, bsmac_mq, msg, up, rx_ind>>
    BY DEF Begin, anchorVars, uartVars, readVars, parserVars
  <1>2. PICK n \in Nat : n = Len(starts) + 1
    <2>1. Len(starts) \in Nat
      BY DEF LineOK
    <2> QED
      BY <2>1
  <1>3. PICK e \in Nat : e = Len(line)
    BY DEF LineOK
  <1>4. /\ next = e + 1 /\ line' \in Seq(Nat)
        /\ \A p \in 1 .. e : line'[p] = line[p]
        /\ starts' \in Seq(Nat) /\ Frames' = Frames \cup {n} /\ starts'[n] = e + 1 /\ End(n)' = Len(line')
        /\ line'[starts'[n]] = H /\ line'[starts'[n] + 1] = L /\ line'[starts'[n] + 2] \in 1 .. MaxLen
        /\ \A k \in Frames : k < n /\ starts'[k] = starts[k] /\ End(k)' = End(k)
    BY <1>2, <1>3, BeginLine
  <1>5. PICK f \in Nat : f = Len(line') /\ f > e + 3
    <2>1. Len(line') \in Nat /\ Len(line') > Len(line) + 3
      BY <1>2, BeginLine
    <2> QED
      BY <1>3, <2>1
  \* what is known of the frames before
  <1>6. \A k \in Frames : /\ k \in Nat /\ starts[k] \in Nat /\ starts[k] >= 1 /\ End(k) \in Nat
                          /\ starts[k] + 3 <= End(k) /\ End(k) <= e /\ k # n
                          /\ starts[k] + 1 \in 1 .. e /\ starts[k] + 2 \in 1 .. e /\ starts[k] \in 1 .. e
    <2> TAKE k \in Frames
    <2>1. PICK a \in Nat : a = starts[k]
      BY FrameFacts
    <2>2. PICK b \in Nat : b = End(k)
      BY FrameFacts
    <2>3. k \in Nat /\ starts[k] >= 1 /\ End(k) >= starts[k] + 3 /\ End(k) <= Len(line)
      BY FrameFacts
    <2>4. a >= 1 /\ b >= a + 3 /\ b <= e
      BY <1>3, <2>1, <2>2, <2>3
    <2>5. a + 1 \in 1 .. e /\ a + 2 \in 1 .. e /\ a \in 1 .. e /\ a + 3 <= b
      BY <2>4
    <2>6. k # n
      BY <1>4, <2>3
    <2> QED
      BY <2>1, <2>2, <2>3, <2>4, <2>5, <2>6
  <1>7. Pt' = Pt
    BY <1>1 DEF Pt
  <1>8. PICK p \in Nat : p = Pt /\ p <= e + 1
    <2>1. Pt \in 1 .. next
      BY PtFacts
    <2> QED
      BY <1>4, <2>1
  <1>9. LineOK'
    <2>1. next' \in 1 .. f + 1
      BY <1>1, <1>4, <1>5
    <2>2. ASSUME NEW k \in Frames'
          PROVE  /\ starts'[k] \in 1 .. f /\ End(k)' \in 1 .. f
                 /\ line'[starts'[k]] = H /\ line'[starts'[k] + 1] = L
                 /\ line'[starts'[k] + 2] \in 1 .. MaxLen
      <3>1. CASE k = n
        <4>1. e + 1 \in 1 .. f /\ f \in 1 .. f
          BY <1>5
        <4>2. starts'[k] \in 1 .. f
          BY <1>4, <3>1, <4>1
        <4>3. End(k)' \in 1 .. f
          BY <1>4, <1>5, <3>1, <4>1
        <4> QED
          BY <1>4, <3>1, <4>2, <4>3
      <3>2. CASE k \in Frames
        <4>1. line[starts[k]] = H /\ line[starts[k] + 1] = L /\ line[starts[k] + 2] \in 1 .. MaxLen
          BY <3>2 DEF LineOK
        <4>2. line'[starts[k]] = H /\ line'[starts[k] + 1] = L /\ line'[starts[k] + 2] \in 1 .. MaxLen
          BY <1>4, <1>6, <3>2, <4>1
        <4>3. starts[k] \in 1 .. f /\ End(k) \in 1 .. f
          <5>1. /\ starts[k] \in Nat /\ starts[k] >= 1 /\ starts[k] + 3 <= End(k)
                /\ End(k) \in Nat /\ End(k) <= e
            BY <1>6, <3>2
          <5>2. PICK a, b \in Nat : a = starts[k] /\ b = End(k)
            BY <5>1
          <5>3. a >= 1 /\ a + 3 <= b /\ b <= e
            BY <5>1, <5>2
          <5> QED
            BY <1>5, <5>2, <5>3
        <4> QED
          BY <1>4, <3>2, <4>2, <4>3
      <3> QED
        BY <1>4, <3>1, <3>2
    <2>3. ASSUME NEW j \in Frames', NEW k \in Frames', j < k
          PROVE  End(j)' < starts'[k]
      <3>1. CASE k = n
        <4>1. j \in Frames
          BY <1>2, <1>4, <2>3, <3>1
        <4> QED
          BY <1>4, <1>6, <3>1, <4>1
      <3>2. CASE k \in Frames
        <4>1. j \in Frames
          BY <1>4, <1>6, <2>3, <3>2
        <4>2. End(j) < starts[k]
          BY <2>3, <3>2, <4>1 DEF LineOK
        <4> QED
          BY <1>4, <3>2, <4>1, <4>2
      <3> QED
        BY <1>4, <3>1, <3>2
    <2>4. ASSUME NEW q \in 1 .. f
          PROVE  \E k \in Frames' : starts'[k] <= q /\ q <= End(k)'
      <3>1. CASE q <= e
        <4>1. PICK k \in Frames : starts[k] <= q /\ q <= End(k)
          BY <1>3, <3>1 DEF LineOK
        <4> QED
          BY <1>4, <4>1
      <3>2. CASE ~(q <= e)
        <4>1. starts'[n] <= q /\ q <= End(n)'
          BY <1>4, <1>5, <3>2
        <4> QED
          BY <1>4, <4>1
      <3> QED
        BY <3>1, <3>2
    <2> QED
      BY <1>4, <1>5, <2>1, <2>2, <2>3, <2>4 DEF LineOK
  <1>10. Pending'
    BY <1>1, <1>7 DEF Pending
  <1>11. ParserOK'
    <2>1. \A i \in DOMAIN rx_buf : rx_buf[i] \in 1 .. e
      <3>1. \A i \in DOMAIN rx_buf : rx_buf[i] \in 1 .. p - 1
        BY <1>8 DEF ParserOK
      <3> QED
        BY <1>8, <3>1
    <2>2. \A i \in DOMAIN rx_buf : line'[rx_buf[i]] = line[rx_buf[i]]
      BY <1>4, <2>1
    <2>3. /\ rx_buf \in Seq(Nat) /\ (rx_buf # <<>> => 1 \in DOMAIN rx_buf)
          /\ (Len(rx_buf) >= 3 => 3 \in DOMAIN rx_buf)
      BY RxBufType
    <2> QED
      BY <1>1, <1>7, <2>2, <2>3 DEF ParserOK
  <1>12. Bounded'
    BY <1>1 DEF Bounded
  <1>13. Contiguous' /\ Covers'
    BY <1>1, <1>7 DEF Contiguous, Covers, Lossless
  <1>14. InStep'
    <2>1. \A j \in Frames : j \in Frames' /\ starts'[j] = starts[j]
      BY <1>4
    <2> QED
      BY <1>1, <1>7, <2>1 DEF InStep, Lossless
  \* a frame that can be recognised could be before
  <1>15. ASSUME NEW k \in Frames
         PROVE  \A q : Clean(k, q)' => Clean(k, q)
    <2>1. From(k)' = From(k)
      BY <1>4 DEF From
    <2>2. NoFalseStart(k)' => NoFalseStart(k)
      <3> SUFFICES ASSUME NoFalseStart(k)', NEW r \in 1 .. starts[k] - 1, r >= From(k), line[r] = H
                   PROVE  \E j \in Frames : starts[j] = r
        BY DEF NoFalseStart
      <3>1. r \in 1 .. e /\ r # e + 1
        BY <1>6
      <3>2. line'[r] = H /\ r \in 1 .. starts'[k] - 1 /\ r >= From(k)'
        BY <1>4, <2>1, <3>1
      <3>3. PICK j \in Frames' : starts'[j] = r
        BY <3>2 DEF NoFalseStart
      <3>4. j \in Frames
        BY <1>4, <3>1, <3>3
      <3> QED
        BY <1>4, <3>3, <3>4
    <2> QED
      BY <1>1, <2>1, <2>2 DEF Clean, Lossless
  <1>16. Aligned'
    <2> SUFFICES ASSUME NEW k \in Frames', starts'[k] < p, p <= End(k)', Clean(k, p)'
                 PROVE  rx_buf' # <<>> /\ rx_buf'[1] = starts'[k]
      BY <1>7, <1>8 DEF Aligned
    <2>1. k \in Frames
      BY <1>4, <1>8
    <2>2. starts[k] < Pt /\ Pt <= End(k) /\ Clean(k, Pt)
      BY <1>4, <1>8, <1>15, <2>1
    <2> QED
      BY <1>1, <1>4, <2>1, <2>2 DEF Aligned
  <1>17. \A k : Received(k)' = Received(k)
    BY <1>1 DEF Received
  <1>18. Recognised'
    <2> SUFFICES ASSUME NEW k \in Frames', End(k)' < p, Clean(k, End(k) + 1)'
                 PROVE  Received(k)
      BY <1>7, <1>8, <1>17 DEF Recognised
    <2>1. k \in Frames
      BY <1>4, <1>5, <1>8
    <2>2. End(k) < Pt /\ Clean(k, End(k) + 1)
      BY <1>4, <1>8, <1>15, <2>1
    <2> QED
      BY <2>1, <2>2 DEF Recognised
  <1>19. InOrder'
    <2>1. \A k \in Frames : End(k) < Pt => End(k)' < Pt'
      BY <1>4, <1>7
    <2>3. msg' \in Frames' \cup {Cmd, None} /\ (msg' \in Frames' => msg \in Frames)
      <3>1. Cmd # n /\ None # n
        <4>1. Len(starts) \in Nat
          BY DEF LineOK
        <4> QED
          BY <1>2, <4>1 DEF Cmd, None
      <3> QED
        BY <1>1, <1>4, <3>1 DEF InOrder
    <2>4. (\A i \in DOMAIN up : up[i] \in Frames /\ End(up[i]) < Pt)'
      BY <1>1, <1>4, <2>1 DEF InOrder
    <2>5. (\A i \in DOMAIN analyser_mq : analyser_mq[i] # Cmd =>
              analyser_mq[i] \in Frames /\ End(analyser_mq[i]) < Pt)'
      BY <1>1, <1>4, <2>1 DEF InOrder
    <2>6. (msg \in Frames => End(msg) < Pt)'
      BY <1>1, <2>1, <2>3 DEF InOrder
    <2> QED
      BY <1>1, <2>3, <2>4, <2>5, <2>6 DEF InOrder
  <1> QED
    BY <1>9, <1>10, <1>11, <1>12, <1>13, <1>14, <1>16, <1>18, <1>19

-----------------------------------------------------------------------------
(* The theorems.                                                             *)

LEMMA SerialStart == Init => SerialInv
  <1> SUFFICES ASSUME Init PROVE SerialInv
    OBVIOUS
  <1> USE DEF Init
  <1>1. Frames = {} /\ DOMAIN ring = {} /\ DOMAIN uart_buf = {} /\ DOMAIN rx_buf = {} /\ DOMAIN up = {}
        /\ DOMAIN analyser_mq = {}
    BY DEF Frames
  <1>2. Pt = 1
    BY DEF Pt
  <1>3. LineOK
    <2>1. Len(line) = 0 /\ line \in Seq(Nat) /\ starts \in Seq(Nat)
      OBVIOUS
    <2> QED
      BY <1>1, <2>1 DEF LineOK
  <1>4. Pending
    BY <1>1, <1>2 DEF Pending
  <1>5. ParserOK
    BY <1>1, BytesAssumption DEF ParserOK
  <1>6. Bounded
    <2>1. Len(ring) = 0 /\ Len(uart_buf) = 0 /\ Len(analyser_mq) = 0 /\ Len(bsmac_mq) = 0 /\ bsmac_mq \in Seq(Nat)
      OBVIOUS
    <2>2. 0 < RingSize /\ 0 <= ReadLen /\ 0 <= AnalyserSize /\ 0 <= BsmacSize
      BY SizesAssumption
    <2>3. rx_ind \in BOOLEAN /\ again \in BOOLEAN
      OBVIOUS
    <2> QED
      BY <2>1, <2>2, <2>3 DEF Bounded
  <1>7. Contiguous /\ Covers /\ InStep /\ Aligned /\ Recognised
    BY <1>1 DEF Contiguous, Covers, InStep, Aligned, Recognised
  <1>8. InOrder
    BY <1>1 DEF InOrder, Cmd, None
  <1> QED
    BY <1>3, <1>4, <1>5, <1>6, <1>7, <1>8 DEF SerialInv

LEMMA SerialStep == SerialInv /\ [Next]_vars => SerialInv'
  <1> SUFFICES ASSUME SerialInv, [Next]_vars PROVE SerialInv'
    OBVIOUS
  <1>1. ASSUME NEW d \in Payloads, Begin(d) PROVE SerialInv'
    BY <1>1, BeginStep
  <1>2. CASE Arrive
    BY <1>2, ArriveStep
  <1>3. CASE Miss
    BY <1>3, MissStep
  <1>4. CASE Command
    BY <1>4, CommandStep
  <1>5. CASE BsmacThread
    BY <1>5, TransmitStep, ReadByteStep, ParseStep, ThreadStep DEF BsmacThread
  <1>6. CASE AnalyserThread
    BY <1>6, TakeMsgStep, HandleMsgStep DEF AnalyserThread
  <1>7. CASE UNCHANGED vars
    BY <1>7, ThreadStep
  <1> QED
    BY <1>1, <1>2, <1>3, <1>4, <1>5, <1>6, <1>7 DEF Next

LEMMA SerialInvariant == Spec => []SerialInv
  BY SerialStart, SerialStep, PTL DEF Spec

\* The state has its types: in particular frames pass the queue, the analyser
\* and the server's connection in the order in which the anchor sent them and
\* none twice, and the ring is never so full that it looks empty.
THEOREM SerialTypes == Spec => []TypeOK
  <1>1. ASSUME SerialInv PROVE TypeOK
    <2> USE <1>1 DEF SerialInv
    <2>1. PICK e \in Nat : e = Len(line)
      BY DEF LineOK
    <2>2. PICK x \in Nat : x = next /\ x >= 1 /\ x <= e + 1
      BY <2>1 DEF LineOK
    <2>3. \A q \in 1 .. x - 1 : q \in 1 .. e
      BY <2>2
    <2>4. gone \subseteq 1 .. e
      BY <2>2, <2>3 DEF Pending
    <2>5. ring \in Seq(1 .. e) /\ uart_buf \in Seq(1 .. e)
      <3>1. ring \in Seq(Nat) /\ uart_buf \in Seq(Nat)
        BY DEF Pending
      <3>2. \A i \in DOMAIN ring : ring[i] \in 1 .. e
        BY <2>2, <2>3 DEF Pending
      <3>3. \A i \in DOMAIN uart_buf : uart_buf[i] \in 1 .. e
        BY <2>2, <2>3 DEF Pending
      <3> QED
        BY <3>1, <3>2, <3>3, SeqOfElements
    <2>6. /\ state \in {"preamble_H", "preamble_L", "header", "data"} /\ wantlen \in 0 .. MaxLen
          /\ Len(rx_buf) <= HeaderLen + MaxLen
      BY RxBufType DEF ParserOK
    <2>7. next \in 1 .. Len(line) + 1
      BY DEF LineOK
    <2> QED
      BY <2>1, <2>4, <2>5, <2>6, <2>7 DEF TypeOK, Bounded, InOrder
  <1> QED
    BY <1>1, SerialInvariant, PTL

\* What was parsed was not lost on the way lies before the next byte.
LEMMA ParsedBefore ==
    ASSUME SerialInv, NEW k \in Frames, Parsed(k), End(k) \notin gone
    PROVE  End(k) < Pt
  <1> USE DEF SerialInv
  <1>1. PICK e \in Nat : e = End(k) /\ e >= 1
    <2>1. End(k) \in Nat /\ starts[k] \in Nat /\ End(k) >= starts[k] + 3
      BY FrameFacts
    <2>2. End(k) >= 1
      BY <2>1
    <2> QED
      BY <2>1, <2>2
  <1>2. PICK x \in Nat : x = next
    BY PtFacts
  <1>3. e < x
    BY <1>1, <1>2 DEF Parsed
  <1>4. e \in 1 .. next - 1
    <2>1. e \in 1 .. x - 1
      BY <1>1, <1>3
    <2> QED
      BY <1>2, <2>1
  <1>5. ~(\E i \in DOMAIN ring : ring[i] = e) /\ ~(\E i \in DOMAIN uart_buf : uart_buf[i] = e)
    BY <1>1 DEF Parsed, Range
  <1> QED
    BY <1>1, <1>4, <1>5 DEF Pending

\* As long as no byte was lost the parser recognises every frame, whatever the
\* frames carry and however the chunks cut them (bsmac_parser.c): a frame of which
\* nothing waits any more is on its way, answered, or found the queue full.
THEOREM NothingUnseen == Spec => []NoFrameUnseen
  <1>1. ASSUME SerialInv PROVE NoFrameUnseen
    <2> SUFFICES ASSUME NEW k \in Frames, Parsed(k), gone \cap 1 .. End(k) = {}
                 PROVE  Received(k)
      BY DEF NoFrameUnseen
    <2> USE <1>1 DEF SerialInv
    <2>1. PICK e \in Nat : e = End(k) /\ e >= 1 /\ e + 1 - 1 = e
      <3>1. End(k) \in Nat /\ starts[k] \in Nat /\ End(k) >= starts[k] + 3
        BY FrameFacts
      <3>2. End(k) >= 1
        BY <3>1
      <3> QED
        BY <3>1, <3>2
    <2>2. \A p \in gone : p \in Nat
      BY PtFacts DEF Pending
    <2>3. \A p \in gone : ~(1 <= p /\ p <= e)
      BY <2>1, <2>2
    <2>4. End(k) < Pt
      BY <2>1, <2>3, ParsedBefore
    <2>5. Clean(k, End(k) + 1)
      BY <2>1, <2>3 DEF Clean, Lossless, Free
    <2> QED
      BY <2>4, <2>5 DEF Recognised
  <1> QED
    BY <1>1, SerialInvariant, PTL

\* After any loss the parser finds the frames again: a frame is recognised when
\* nothing was lost in it, nor in the length of the longest frame before it, and
\* nothing there only looks like the start of a frame.
THEOREM BackInStep == Spec => []Resynchronises
  <1>1. ASSUME SerialInv PROVE Resynchronises
    <2> DEFINE window(k) == {p \in 1 .. starts[k] - 1 : p >= starts[k] - HeaderLen - MaxLen}
    <2> SUFFICES ASSUME NEW k \in Frames, Parsed(k),
                        gone \cap (window(k) \cup starts[k] .. End(k)) = {},
                        \A p \in window(k) : line[p] = H => p \in Range(starts)
                 PROVE  Received(k)
      BY DEF Resynchronises
    <2> USE <1>1 DEF SerialInv
    <2>1. PICK e \in Nat : e = End(k) /\ e + 1 - 1 = e
      BY FrameFacts
    <2>2. PICK s \in Nat : s = starts[k] /\ s + 3 <= e
      BY <2>1, FrameFacts
    <2>3. \A p \in gone : p \in Nat /\ p >= 1
      BY PtFacts DEF Pending
    <2>4. \A p \in gone : p >= From(k) /\ p <= e => FALSE
      <3> SUFFICES ASSUME NEW p \in gone, p >= From(k), p <= e PROVE FALSE
        OBVIOUS
      <3>1. CASE p < s
        <4>1. p \in 1 .. s - 1
          BY <2>3, <3>1
        <4>2. p \in window(k)
          BY <2>2, <4>1 DEF From
        <4> QED
          BY <4>2
      <3>2. CASE ~(p < s)
        <4>1. p \in s .. e
          BY <2>3, <3>2
        <4> QED
          BY <2>1, <2>2, <4>1
      <3> QED
        BY <3>1, <3>2
    <2>5. e \notin gone
      BY <2>1, <2>2, <2>3
    <2>6. End(k) < Pt
      BY <2>1, <2>5, ParsedBefore
    <2>7. NoFalseStart(k)
      BY DEF NoFalseStart, From, Range, Frames
    <2>8. Clean(k, End(k) + 1)
      BY <2>1, <2>4, <2>7 DEF Clean, Lossless, Free
    <2> QED
      BY <2>6, <2>8 DEF Recognised
  <1> QED
    BY <1>1, SerialInvariant, PTL

=============================================================================
