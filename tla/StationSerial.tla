---------------------------- MODULE StationSerial ----------------------------
(* How the station reads what an anchor writes, and routes messages between  *)
(* its serial ports and the server (bsmac_parser.c, msg_center.c, the routing *)
(* of net_app.c; usart.c and serial.c of RT-Thread, as external code).        *)
(*                                                                           *)
(* The UART interrupt puts each byte into a ring and sets rx_ind.  The bsmac *)
(* thread sends what waits in bsmac_mq, else reads the ring in chunks, parses *)
(* them byte by byte and clears rx_ind.  Frames go to msg_analyser_mq, which *)
(* the server's commands share; the analyser thread passes frames on to the  *)
(* server and commands to bsmac_mq.  No thread waits for room in a queue.     *)
(*                                                                           *)
(* A byte is known by its position on the line.  A header is three bytes     *)
(* long, the two of the preamble and the length; the checksum detects every  *)
(* damage.  One port of the three is modelled: they share only the threads.  *)
EXTENDS Integers, Sequences, Functions

CONSTANTS
    RingSize,      \* SERIAL_RBUFFER_SIZE
    ReadLen,       \* BSMAC_RX_LEN
    MaxLen,        \* UWB_RX_LEN_DEFAULT - sizeof(bsmac_header_t)
    AnalyserSize,  \* messages msg_analyser_mq holds
    BsmacSize,     \* messages bsmac_mq holds
    H, L,          \* BSMAC_PREAMBLE_H and _L
    Payloads,      \* what a frame may carry, its checksum included: Seq of bytes
    Local,         \* those that the bsmac thread answers itself
    MaxFrames, LossyFrames, MaxCommands  \* bounds: frames sent, those of them
                   \* that may lose bytes, commands sent

Cmd == 0
None == -1
HeaderLen == 3

ASSUME SizesAssumption ==
    /\ RingSize \in Nat \ {0, 1} /\ ReadLen \in 1 .. RingSize - 1
    /\ AnalyserSize \in Nat \ {0} /\ BsmacSize \in Nat \ {0}
ASSUME BytesAssumption ==
    /\ H \in Nat /\ L \in Nat /\ H # L /\ MaxLen \in Nat /\ H > MaxLen
    /\ Payloads \subseteq Seq(Nat) /\ Local \subseteq Payloads
    /\ \A d \in Payloads : Len(d) \in 1 .. MaxLen

VARIABLES
    line,         \* the bytes of the frames the anchor has begun to send
    starts,       \* where they start
    next,         \* the position of the next byte
    gone,         \* ghost: the bytes that were lost
    ring,         \* int_rx: positions, oldest first
    rx_ind,
    pc,           \* where the bsmac thread is: "loop", "read", "parse" or "clear"
    uart_buf,     \* the positions read and not yet parsed
    again,        \* read_continue
    state, wantlen, rx_buf,  \* the parser; rx_buf has the header too
    analyser_mq, bsmac_mq,
    msg,          \* msg_buf of the analyser thread, or None
    commands,     \* ghost: the number of commands the server has sent
    up,           \* ghost: the frames given to the server, in order
    answered,     \* ghost: the frames the bsmac thread answered
    refused       \* ghost: the frames that found msg_analyser_mq full

anchorVars == <<line, starts>>
uartVars == <<next, gone, ring>>
readVars == <<pc, uart_buf, again>>
parserVars == <<state, wantlen, rx_buf, answered, refused>>
vars == <<anchorVars, uartVars, rx_ind, readVars, parserVars, analyser_mq, bsmac_mq, msg, commands, up>>

Frames == DOMAIN starts
End(k) == starts[k] + HeaderLen - 1 + line[starts[k] + HeaderLen - 1]
Payload(k) == SubSeq(line, starts[k] + HeaderLen, End(k))

Init ==
    /\ line = <<>> /\ starts = <<>> /\ next = 1 /\ gone = {}
    /\ ring = <<>> /\ rx_ind = FALSE
    /\ pc = "loop" /\ uart_buf = <<>> /\ again = FALSE
    /\ state = "preamble_H" /\ wantlen = 0 /\ rx_buf = <<>>
    /\ analyser_mq = <<>> /\ bsmac_mq = <<>> /\ msg = None
    /\ commands = 0 /\ up = <<>> /\ answered = {} /\ refused = {}

-----------------------------------------------------------------------------
(* Defects a careless edit of the code would introduce (mutants).            *)
RingFilled == Len(ring) = RingSize
ReadOnce == FALSE
LengthBelow(b) == b < MaxLen
AnyLength(b) == TRUE
-----------------------------------------------------------------------------
(* The anchor and the UART, which may interrupt any thread.                  *)

Begin(d) ==
    /\ next > Len(line) /\ Len(starts) < MaxFrames
    /\ line' = line \o <<H, L, Len(d)>> \o d
    /\ starts' = Append(starts, Len(line) + 1)
    /\ UNCHANGED <<uartVars, rx_ind, readVars, parserVars, analyser_mq, bsmac_mq, msg, commands, up>>

RingFull == Len(ring) = RingSize - 1

\* bound: bytes are lost in the first frames only
MayLose == Len(starts) <= LossyFrames

\* serial_ringbuffer_putc discards the oldest byte of a full ring; bsmac_rx_ind
Arrive ==
    /\ next <= Len(line) /\ (RingFull => MayLose)
    /\ ring' = Append(IF RingFull THEN Tail(ring) ELSE ring, next)
    /\ gone' = IF RingFull THEN gone \cup {Head(ring)} ELSE gone
    /\ rx_ind' = TRUE
    /\ next' = next + 1
    /\ UNCHANGED <<anchorVars, readVars, parserVars, analyser_mq, bsmac_mq, msg, commands, up>>

\* the UART overruns
Miss ==
    /\ next <= Len(line) /\ MayLose
    /\ gone' = gone \cup {next}
    /\ next' = next + 1
    /\ UNCHANGED <<anchorVars, ring, rx_ind, readVars, parserVars, analyser_mq, bsmac_mq, msg, commands, up>>

-----------------------------------------------------------------------------
(* The bsmac thread.                                                         *)

\* bsmac_send_packet for what comes from the server, which goes first
Transmit ==
    /\ pc = "loop" /\ bsmac_mq # <<>>
    /\ bsmac_mq' = Tail(bsmac_mq)
    /\ UNCHANGED <<anchorVars, uartVars, rx_ind, readVars, parserVars, analyser_mq, msg, commands, up>>

StartRead ==
    /\ pc = "loop" /\ bsmac_mq = <<>> /\ rx_ind
    /\ pc' = "read"
    /\ UNCHANGED <<anchorVars, uartVars, rx_ind, uart_buf, again, parserVars, analyser_mq, bsmac_mq, msg,
                   commands, up>>

\* serial_ringbuffer_getc
ReadByte ==
    /\ pc = "read" /\ Len(uart_buf) < ReadLen /\ ring # <<>>
    /\ uart_buf' = Append(uart_buf, Head(ring)) /\ ring' = Tail(ring)
    /\ UNCHANGED <<anchorVars, next, gone, rx_ind, pc, again, parserVars, analyser_mq, bsmac_mq, msg,
                   commands, up>>

\* there may be more than was asked for
ReadAgain == Len(uart_buf) = ReadLen

ReadDone ==
    /\ pc = "read" /\ (Len(uart_buf) = ReadLen \/ ring = <<>>)
    /\ again' = ReadAgain /\ pc' = "parse"
    /\ UNCHANGED <<anchorVars, uartVars, rx_ind, uart_buf, parserVars, analyser_mq, bsmac_mq, msg, commands, up>>

\* bsmac_parse_rx: the checksum is that of a whole frame
Whole(buf, k) == buf = [i \in 1 .. End(k) - starts[k] + 1 |-> starts[k] + i - 1]

Post(mq, size, m) == IF Len(mq) < size THEN Append(mq, m) ELSE mq

Deliver(buf) ==
    \/ /\ \A k \in Frames : ~Whole(buf, k)
       /\ UNCHANGED <<analyser_mq, answered, refused>>
    \/ \E k \in Frames :
         /\ Whole(buf, k)
         /\ IF Payload(k) \in Local
            THEN answered' = answered \cup {k} /\ UNCHANGED <<analyser_mq, refused>>
            ELSE /\ analyser_mq' = Post(analyser_mq, AnalyserSize, k)
                 /\ refused' = IF Len(analyser_mq) < AnalyserSize THEN refused ELSE refused \cup {k}
                 /\ UNCHANGED answered

LengthOK(b) == b <= MaxLen

\* the parser goes on to s with the byte at p
Goes(s, p) ==
    /\ state' = s /\ rx_buf' = Append(rx_buf, p)
    /\ UNCHANGED <<wantlen, analyser_mq, answered, refused>>
GivesUp ==
    /\ state' = "preamble_H" /\ rx_buf' = <<>>
    /\ UNCHANGED <<wantlen, analyser_mq, answered, refused>>

Preamble(p) ==
    \/ state = "preamble_H" /\ line[p] = H /\ Goes("preamble_L", p)
    \/ state = "preamble_H" /\ line[p] # H /\ GivesUp
    \/ state = "preamble_L" /\ line[p] = L /\ Goes("header", p)
    \/ state = "preamble_L" /\ line[p] # L /\ GivesUp

Header(p) ==
    /\ state = "header"
    /\ IF LengthOK(line[p])
       THEN /\ state' = "data" /\ rx_buf' = Append(rx_buf, p) /\ wantlen' = line[p]
            /\ UNCHANGED <<analyser_mq, answered, refused>>
       ELSE GivesUp

\* a length of 0 takes a byte too
Data(p) ==
    /\ state = "data"
    /\ IF Len(rx_buf) + 1 - HeaderLen >= wantlen
       THEN /\ Deliver(Append(rx_buf, p))
            /\ state' = "preamble_H" /\ rx_buf' = <<>> /\ UNCHANGED wantlen
       ELSE Goes("data", p)

ParseByte ==
    /\ pc = "parse" /\ uart_buf # <<>>
    /\ LET p == Head(uart_buf) IN Preamble(p) \/ Header(p) \/ Data(p)
    /\ uart_buf' = Tail(uart_buf)
    /\ UNCHANGED <<anchorVars, uartVars, rx_ind, pc, again, bsmac_mq, msg, commands, up>>

ParseDone ==
    /\ pc = "parse" /\ uart_buf = <<>>
    /\ pc' = IF again THEN "read" ELSE "clear"
    /\ UNCHANGED <<anchorVars, uartVars, rx_ind, uart_buf, again, parserVars, analyser_mq, bsmac_mq, msg,
                   commands, up>>

ClearInd ==
    /\ pc = "clear" /\ pc' = "loop"
    /\ rx_ind' = FALSE
    /\ UNCHANGED <<anchorVars, uartVars, uart_buf, again, parserVars, analyser_mq, bsmac_mq, msg, commands, up>>

BsmacThread == Transmit \/ StartRead \/ ReadByte \/ ReadDone \/ ParseByte \/ ParseDone \/ ClearInd

-----------------------------------------------------------------------------
(* The network's receive thread and the analyser thread.                     *)

\* _net_sendto_analyser
Command ==
    /\ commands < MaxCommands /\ commands' = commands + 1
    /\ analyser_mq' = Post(analyser_mq, AnalyserSize, Cmd)
    /\ UNCHANGED <<anchorVars, uartVars, rx_ind, readVars, parserVars, bsmac_mq, msg, up>>

TakeMsg ==
    /\ msg = None /\ analyser_mq # <<>>
    /\ msg' = Head(analyser_mq) /\ analyser_mq' = Tail(analyser_mq)
    /\ UNCHANGED <<anchorVars, uartVars, rx_ind, readVars, parserVars, bsmac_mq, commands, up>>

\* msg_handle: _net_analyser_callback or _bsmac_analyser_callback
HandleMsg ==
    /\ msg # None /\ msg' = None
    /\ IF msg = Cmd
       THEN bsmac_mq' = Post(bsmac_mq, BsmacSize, Cmd) /\ UNCHANGED up
       ELSE up' = Append(up, msg) /\ UNCHANGED bsmac_mq
    /\ UNCHANGED <<anchorVars, uartVars, rx_ind, readVars, parserVars, analyser_mq, commands>>

AnalyserThread == TakeMsg \/ HandleMsg

Next == (\E d \in Payloads : Begin(d)) \/ Arrive \/ Miss \/ Command \/ BsmacThread \/ AnalyserThread

\* Both threads have priority 9 and a time slice.
Spec == Init /\ [][Next]_vars /\ WF_vars(BsmacThread) /\ WF_vars(AnalyserThread)

-----------------------------------------------------------------------------
(* Properties                                                                *)

\* Frames pass in the order in which they were sent, and none twice; the ring
\* never looks empty when it is full.
TypeOK ==
    /\ next \in 1 .. Len(line) + 1 /\ gone \subseteq 1 .. Len(line)
    /\ ring \in Seq(1 .. Len(line)) /\ Len(ring) < RingSize
    /\ uart_buf \in Seq(1 .. Len(line)) /\ Len(uart_buf) <= ReadLen
    /\ rx_ind \in BOOLEAN /\ again \in BOOLEAN /\ pc \in {"loop", "read", "parse", "clear"}
    /\ state \in {"preamble_H", "preamble_L", "header", "data"} /\ wantlen \in 0 .. MaxLen
    /\ Len(rx_buf) <= HeaderLen + MaxLen
    /\ Len(analyser_mq) <= AnalyserSize /\ Len(bsmac_mq) <= BsmacSize
    /\ msg \in Frames \cup {Cmd, None}
    /\ \A i, j \in DOMAIN up : i < j => up[i] < up[j]

\* the whole of frame k has been through the parser, as far as it was not lost
Parsed(k) == End(k) < next /\ End(k) \notin Range(ring) \cup Range(uart_buf)

\* frame k was received, and is on its way or was refused
Received(k) == k \in Range(up) \cup Range(analyser_mq) \cup {msg} \cup answered \cup refused

\* As long as no byte is lost, every frame is recognised, whatever it carries and
\* however its bytes are cut into chunks: only a full queue loses a frame.
NoFrameUnseen ==
    \A k \in Frames : Parsed(k) /\ gone \cap 1 .. End(k) = {} => Received(k)

\* After a loss the parser is back in step within the length of the longest
\* frame, if nothing in that stretch looks like the start of one.
Resynchronises ==
    \A k \in Frames :
        LET window == {p \in 1 .. starts[k] - 1 : p >= starts[k] - HeaderLen - MaxLen}
        IN  /\ Parsed(k)
            /\ gone \cap (window \cup starts[k] .. End(k)) = {}
            /\ \A p \in window : line[p] = H => p \in Range(starts)
            => Received(k)

\* What is there when the bsmac thread finds an indication is read to the end,
\* however much follows, and no queue makes it wait.
IndicationServed == (pc = "loop" /\ rx_ind) ~> (ring = <<>>)
=============================================================================
