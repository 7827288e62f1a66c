# TLA+ models of the UWB TDOA location firmware

The repository holds the firmware of a mine location system. Its current core
is a pair of programs:

* the **small firmware** on an STM32L1 with a DW1000 radio
  (`src/Zigbee/stm32/stm32l1xx/decave_uwb_tdoa_Modify`), which is built as one of
  three devices: a *test card* (slow, its position is wanted), a *standard card*
  (quick, at a known place) or an *anchor* (it hears both);
* the **station** on an STM32F2 with RT-Thread
  (`src/Zigbee/stm32/stm32f20x/UWB_station_Modify`), which reads the anchor's reports
  from a UART, adds the time and sends them to a server, or stores them while the
  server is away.

An anchor measures, for each poll of a test card, the time since the last poll of a
standard card (SQ) and the time between the two polls of that standard card around
it (QQ). The server needs both to be right, and from the same card.

Paths below are relative to the small firmware's `Application/` directory unless they
say otherwise.

## Inventory

| component | state | operations | interacts with | what is hard | what makes it correct |
|---|---|---|---|---|---|
| event/timer module (`timer_event.c`) | event bits, 32 timers, counter, `min_timer` | take, take_all, set, unset, add, add_reload, del, update, next_tick | interrupts set events; the main loop updates and takes | one clock reading per pass, interrupts inside a pass, wrap of the 32-bit clock, 0 as a mark | no early event, no lost or unboundedly late one, exact counter |
| pairing (`dotie.c`, `instance.c`) | one slot per standard card: last poll (Pre), entries, flag; the send pack | quick poll, slow poll, close, clear, move to pack | fed by CHECK, feeds UART_SEND | lost polls, card restarts, wraps of stamp and sequence number, full table | entries measured from one Pre, closed by the same card, right status, exact intervals |
| event pipeline (`application.c`, `instance.c`, `deca_device.c`) | received frame and stamp, state, event type, card message, pack, event bits | receive callback, NEWSLOT, RAGING, CHECK, UART_SEND | interrupt and main loop share all of it | interrupt between any two accesses; unset after handling; one-item mailboxes | no filled buffer without its event, no replay, delivery |
| UART report (`instance.c`, `bsmac.c`) | loop counters, buffer of 8 entries, byte index | group, remainder, byte loop | reads the pack, writes to the station | index arithmetic, uint8 index | every entry once, every frame ends |
| better-select and standard-card tables (`instance.c` 799-1354) | signal strengths per standard card, ages, relation table | save, age out, select | fed by frames of standard cards, asked by pairing | removal while iterating, wrap of ages, partial copies | relations are real reports, silent cards leave, a lone card decides |
| card transmission (`instance.c` 400-499, 693-762, 1409-1656) | sequence number, list of signal strengths, outgoing frame | send poll, fill, clear, receive, save | radio interrupt, anchors | failed transmissions, a frame overwritten while it is handled, bytes left from the poll before | consecutive numbers on the air, a fresh list without doubles, right strengths |
| DW1000 driver, board support, frames (`deca_device.c`, `port.c`, `deca_spi.c`, `mac_msg.c`, `mem.c`, `main.c`) | registers | I/O | - | - | - |
| station: serial receiver and router (`bsmac_parser.c`) | per port: ring, `rx_ind`, parse state, buffer, link | read in chunks, parse, answer locally, route | UART interrupt, `msg_analyser_mq`, `bsmac_mq` | lost indication, lost bytes, payloads like headers, full queues | each frame routed once, in step again after a loss |
| station: network threads (`net_app.c`) | socket, `net_IsOk`, error flag | connect, receive, send, replay | queues, location store, server | broken connections, a full send buffer, a check before the mutex | order, nothing silently lost, the store empties |
| station: location store (`location_data.c`) | 12 blocks with read and write positions | dump, load | send thread | full store, a block both read and written, unchecked file operations | first in first out, losing the oldest only |
| station: message centre (`msg_center.c`, `open_transmit.c`) | handler table | dispatch | serial and network threads | queues in a circle | every message handled, in order |
| station: watchdog (`3g_watchdog.c`) | report flags of two threads, a count of turns | feed, look at the flags | network threads, the chip's watchdog | a waiting thread must count as alive, one that hangs must not be covered by the other | no restart of a station that works, a restart of one that hangs |
| station: Modbus, boot configuration, upgrade flag, LEDs, start-up | - | - | - | - | - |
| older copies and other products (ZigBee, JN51xx, CC2xxx, PIC), RT-Thread, lwIP, STM32 libraries, TIMAC | - | - | - | - | not part of the UWB system, or third-party |

Data flow of an anchor:

    radio interrupt --frame, RAGING--> TdoaInstRunState --card message, CHECK-->
    TdoaRxCardMsgProc --send pack, UART_SEND--> TdoaSendCardReportToUart --bytes--> station

The main loop is `event_timer_update(); AppEventsProcess();` for ever.

Data flow of the station:

    UART interrupt --ring--> bsmac thread --msg_analyser_mq--> analyser thread
                                 ^   ^                           |   |
                                 |   +---------bsmac_mq----------+   | net_mq
                       (commands) receive thread -> msg_analyser_mq  v
                                                                send thread --socket--> server
                                                                  |      ^
                                                 failed live send v      | replay, one packet a turn
                                                                location store

## Modules

| module | models | checked by | proved in |
|---|---|---|---|
| `TimerEvent` | `timer_event.c` | `MCTimerEvent` | `TimerEventProofs` |
| `TdoaPairing` | `dotie.c`, `TdoaRxCardMsgProc`, `TdoaMsgPackInsetUartBuff` | `MCTdoaPairing` (two configurations) | `TdoaPairingProofs` |
| `AnchorEvents` | `TDOARxGoodCallback`, `AppEventsProcess`, `TdoaInstRunState` | `MCAnchorEvents` | `AnchorProofs` |
| `UartReport` | `TdoaSendCardReportToUart`, `bsmac.c` | `MCUartReport` (two configurations) | `AnchorProofs` |
| `BetterSelect` | `TdoaInstSaveStdCardMsgProc` and what it calls | `MCBetterSelect` | `AnchorProofs` |
| `CardTransmit` | a standard card: `TdoaSendTagPoll`, `TdoaInstRxTestMsgProc`, their helpers and callback | `MCCardTransmit` | `CardTransmitProofs` |
| `LossyQueue` | abstract: what the store promises | as a property of `MCLocationStore` | (refined in `LocationStoreProofs`) |
| `LocationStore` | the station's `location_data.c` | `MCLocationStore` | `LocationStoreProofs` |
| `StoreForward` | the station's `net_app.c`: receive and send thread; uses `LossyQueue` for the store | `MCStoreForward` | `StoreForwardProofs` |
| `Watchdog` | the station's `3g_watchdog.c` with the waits of the network threads, in time | `MCWatchdog` | `WatchdogProofs` |
| `StationSerial` | the station's `bsmac_parser.c`, `msg_center.c`, routing of `net_app.c`, ring of RT-Thread's `serial.c` | `MCStationSerial` | `StationSerialProofs` |

### TimerEvent

Variables carry the names of the code. Every public function is an action;
`event_timer_update` is `UpdateStart` (the reading of the clock) and one `Visit` per
timer, which is one critical section of the loop: `Skip`, `Fire` or `Wait`. `Tick` and
`SetEvent` (an interrupt) may come between any two. The calls of the main loop are
possible between two passes only, because the main loop makes both.
The ghost `age` counts true ticks since the current period began.

The one assumption on scheduling is `L`: a pass starts within `L` ticks of the start
of the one before, and so ends within `L` of its start. Without it the code cannot
work: half the range of the clock is its horizon. `L` may be anything up to that half.

Only the timer of an event whose interval is a constant is modelled, as in the code's
callers: each event is always started with the same interval.

### TdoaPairing

One tick of `now` passes with each thing that happens on the air. A standard card
sends its next poll, and the anchor hears it (`RxQuickNew`, `RxQuickFull`,
`RxQuickKnown`) or not (`LosePoll`); a test card is heard (`RxSlow`); a card restarts
(`Restart`). Each reception includes what `TdoaRxCardMsgProc` does afterwards: every
slot that may be sent is moved to the pack and cleared. Ghost fields record the true
number, time and power-up of each poll, and the properties compare the report with them.

Assumed of the environment: a standard card sends at least once in `Period`, which is
much less than half a turn of the radio's clock (100 ms against 17 s), and no card is
unheard for a whole turn of its sequence number (65536 polls, about two hours) and then
heard again with entries still in its slot. Card number 0 is not used: the code takes 0
for a free slot.

`Reselect` lets the better-select table name any standard card, or none, for a test
card at any time; that covers whatever `instance.c` 1029-1354 computes. The average
interval `avgTie` is not modelled: nothing in the code ever raises its count, so the
branch that uses it is dead. `max_tie` and `u16StandCardLost` are only counted.

### AnchorEvents

`pc` says what the main loop does next. What it does without touching shared data is
one step; between the copy of the frame (`CopyAddress`), of the time stamp
(`CopyStamp`), the clearing (`ClearFrame`) and the last write of the state (`DataDone`)
the interrupt may come. The four reads at the head of `TdoaInstRunState` are one step:
an interrupt among them changes the state, the event type and the frame to values
that lead to the same branch as an interrupt before or after.
`RxFail` stands for all outcomes `dwt_isr` reports that are not a good data frame:
the callback then looks at the old frame.

The receiver is on from `TdoaAnchorInit` on (automatic re-enable), and the first period
of UART_SEND ends after the start-up passes (1000 ms against one pass). The branch
that calls `AppInstanceInit` again is modelled and unreachable; see the findings.

### UartReport

`SendGroup` and `SendRest` prepare a frame, `WriteByte` is one turn of the byte loop,
`FrameWritten` its end. `buf` is the local buffer that survives from group to group;
`Garbage` is what it holds before it is written. Sizes are those of the code, so
`Length(8) = 250` bytes must be below 256.

### BetterSelect

One action, `Receive`, is one call of `TdoaInstSaveStdCardMsgProc` with a frame of a standard card;
no interrupt matters inside it, since the frame was copied before. It is composed as the code
is: `AtRound` (every fifth reception the counters of all cards are noted), `Received` (the
slot is overwritten, a new one taken, or the first given up), `Aged` (cards whose counter did not
move are removed, by a loop that skips the card after a removed one) and `Select`.

What the code does there differs from its comments in several ways the model keeps. `Saved`
overwrites `u8LastDealtime` with 0, so a card that was heard in a round stays to the
next mark, and one heard just before a mark and not in the round leaves. A slot beyond the
count keeps its counter (`free`), and a new card in it counts on from there. With several
cards the contest runs on a copy, of which only the first relation is copied back
(`Published`): neither more relations nor the count nor the number of changes get into the
table. The branch behind it, which would clear the table of cards, is modelled (`over`) and
unreachable for that reason. Inside the contest an entry that is new is appended once per
relation before the one of its test card, since the test stands inside the loop (`Compare`).

### CardTransmit

The card's main loop, with `pc` for its place, and the radio interrupt between any two steps:
`Poll` is NEWSLOT (fill the frame, count, transmit, take the count back on failure), `TakeRaging`,
`Run`, `Save`, `Done` and `Unset` are RAGING. The strength of a frame is in the radio until
`Run` reads it; the sender is in memory until `Save` reads it; the interrupt may change both in
between. `RxFail` is any outcome but a good frame: the callback looks at the frame left in memory,
which a standard card never clears, and sets RAGING for it again.
A transmission may fail in the model because `TdoaSendTagPoll` handles it; the driver's
immediate transmission does not fail in the present build.
`PerPoll` bounds the receptions between two polls, as the time between them does.

### LossyQueue and LocationStore

`LossyQueue` says what the rest of the station may rely on: packets are numbered in the
order of the dumps, the queue holds the numbers from `lo` to `hi - 1`, a get returns `lo`, and a
put may first drop any number of the OLDEST. The promise ends with the first operation
of the file system that fails (`broken`).

`LocationStore` is the code: a ring of blocks, each with the two positions `r` and `w` and a
state, one of them current. `Dump` and `Load` are whole functions, since the send thread
alone calls them. `Dump` takes the current block when the packet fits and else the next one,
whatever is unread there. `Load` goes from the block after the current one round to
the current one, starts every block it finds read to the end over, and reads one packet
from the first with something unread. `flash` is the file: which packets lie whole in
each block. An open, a write and a read may each fail, and the code goes on as if they had
not: the positions move, and a later load may take any bytes for a header
(`Misread`, whose length is bounded by `MaxLen`).

The refinement maps `lo` to the smallest number among the unread packets, `hi` to `next` and
`broken` to "some operation failed".

### StoreForward

`pc` is the place of the send thread in `_net_send_work_loop`: it takes one message of
`net_mq` (`Take`), looks at `net_IsOk` (`CheckLive`), waits for the mutex and sends
(`SendLive`), or fails and dumps the packet (`FailLive`); then it loads one stored packet and
sends that (`Load`, `CheckStored`, `SendStored`, `FailStored`), then it may report its state
(`Report`). The receive thread connects (`Connect`), reports it while it still has the
mutex (`Greet`) and closes (`Close`) between any two of these steps. The serial thread adds
packets (`Make`) and error reports (`Alarm`).

A send is all or nothing: `do_writemore` of the lwIP in the tree refuses a non-blocking write that
does not fit as a whole. The store is `LossyQueue`, by INSTANCE, which
`LocationStore` implements; its file system is taken to work here. The ghosts
`refused`, `discarded` and `lost` hold the packets of the three losses: a full `net_mq`, a
full store, a failed replay.

### StationSerial

A byte is its position on the line, so that order and identity are seen; what it holds is
`line[p]`. The anchor's frames (`Begin`) go into the UART byte by byte (`Arrive`, `Miss`); the ring drops its
oldest byte when it is full. The bsmac thread (`Transmit`, `StartRead`, `ReadByte`, `ReadDone`, `ParseByte`,
`ParseDone`, `ClearInd`) is interrupted between any two of these. The parser's states are those of the
code, with the bytes of the header between preamble and length left out; a frame is accepted when
its checksum fits, which is taken to mean that it is exactly one frame that was sent. The parser
stores each header byte in its own field and rewinds by going back to the first state; `rx_buf` is that
buffer as far as it is filled.

`TakeMsg` and `HandleMsg` are the analyser thread, which sends frames on to the server and commands of
the server (`Command`) to `bsmac_mq`. No send waits: `rt_mq_send` fails when the queue is full.

One port is modelled. The three share only the thread and the static read buffer, which is empty between
two calls. Frames are shorter than 256 bytes, as those of `UartReport` are: `bsmac_parse_rx`
keeps the length in a byte. The bytes that arrive between the last read and the clearing
of `rx_ind` wait for the next byte; the anchor's UART_SEND every second brings it.

### Watchdog

Time passes in units of one second (`Tick`); the chip restarts the station (`Restart`) when `iwdg`,
the time left, is 0. `stage` says who feeds: the bsmac thread in every pass, then the wait for an address
(`LoopFeeds`), then the timer's `Handler`, which feeds when both threads have reported since its last turn and,
`Tries - 1` times, when they have not. The receive thread reports at the start of each try to
connect (`BeginTry`), holds the socket's mutex until it is connected or not (`Connected`,
`TryFails`, at most `ConnectTime`), sleeps `RetrySleep` between tries, and reports and sleeps whenever it
has polled the connection (`Poll`). The send thread looks at `net_IsOk` (`Look`), takes the mutex (`TakeMutex`), sends
(`Sent`) and reports at the end of a round (`Report`). Either may hang anywhere, with the mutex too (`Hang`).

Two assumptions on scheduling: a thread that can run does so before the unit ends (`RecvReady`,
`SendReady` hold `Tick` back), and a sleep of less than a unit (20 and 100 ms in the receive thread, and the send thread's)
ends with it. They are what makes `NeverBehindConnect` true: between the look at `net_IsOk` and the
mutex the send thread may lose the connection, and then only the receive thread's short sleep lets
it pass before a connect of 13 s. Were it kept from running through that sleep, it would be silent for the whole
connect; with the turns the receive thread has missed in a full connect before it, that can
use up the five turns of a station nothing is wrong with.

The times are parameters: a try to connect and the sleep after it together must be shorter than the turns of
the timer (14 s against 20 s here), and the watchdog's time between one and two turns.
The threads that feed nothing (bsmac, analyser, Modbus) are not watched once the network
runs: the code has no flags for them, so the model has no place for them.

## Runs

| run | result | states | what it shows |
|---|---|---|---|
| `timer_event` | holds | 2.05 million | no event early, none later than `4L`, the counter exact, periodic timers for ever, `next_tick` safe to sleep for |
| `tdoa_pairing` | holds | 0.9 million | one slot per card, entries from the present Pre, reports bracketed by two polls of one card and exact to one tick |
| `tdoa_seq_wrap` | violated | - | an interval whose two polls are consecutive is dropped when the number wraps |
| `anchor_events` | holds | 11 thousand | events never lost for a filled buffer, no replay, a lone poll is delivered with its own stamp |
| `uart_report` | holds | 7 thousand | the right number of entries, the first group in order, every frame ends |
| `uart_rest` | violated | - | with more than eight entries some are never sent |
| `better_select` | holds | 42 thousand | relations are real reports, a silent card leaves within a round, a lone card decides alone, no card has two slots |
| `card_transmit` | holds | 362 thousand | consecutive numbers on the air, no test card listed twice, a fresh list, right strengths |
| `location_store` | holds | 178 thousand | the ring of blocks is a lossy queue, discards only when all other blocks are full, and is emptied by loads even after failures |
| `store_forward` | holds | 454 thousand | every packet in exactly one place, live and replayed packets each in order, a lasting connection empties the store |
| `watchdog` | holds | 131 thousand | no restart while the threads work, the send thread does not wait through a connect, a thread that hangs is seen within 26 s and ends in a restart |
| `station_serial` | holds | 548 thousand | no frame missed without a loss, in step again after one, frames in order, everything indicated is read |

The type invariants of `TimerEvent`, `TdoaPairing`, `UartReport`, `StoreForward` and `Watchdog` are not
checked again by these runs: they are proved for all values of the constants.

Bounds, and why they are enough:

* `timer_event`: three timers on a clock of 10 values with `L = 2`, intervals 2, 3 and 0.
  The clock starts anywhere and wraps without end, so every phase of interval,
  pass and wrap occurs, deadline 0 included. Nothing is bounded but the sizes.
* `tdoa_pairing`: three standard cards for two slots (a full table), one test card, slots
  of two entries (a full slot), a radio clock of 10 values, sequence numbers modulo 4,
  10 ticks of time from a phase in which the clock wraps, one restart per card. An
  interval takes at most `2 * Period = 8` ticks. The cards are interchangeable (symmetry).
  `MaxNow` and `MaxEpoch` only bound the exploration; the theorems do not need them small.
* `anchor_events`: four frames, so that one can be in each of the three buffers while a
  fourth arrives. `LostMax = 2` instead of 5: the counter never leaves 0.
* `uart_report`: the sizes of the code.
* `better_select`: four cards for three slots, so that a table is full and two cards can fall silent
  behind each other (the one the loop skips); two test cards for a table of two; counters
  modulo 4, which is 1 more than a round, as 256 is 1 more than 51 rounds of 5. `streak` is
  counted up to two rounds. Nothing else is bounded.
* `card_transmit`: two test cards and another standard card for a list of two; three receptions
  between two polls; numbers modulo 3, the list's counter modulo 6, which is the least the
  assumption allows: more than `TestMax + PerPoll`. In the code that is 256 against 20 entries and what
  the air carries in one interval between two polls.
* `station_serial`: three frames, with a payload that is a preamble itself and one that is answered
  locally; a ring for three bytes read two at a time, so that a chunk ends anywhere and the
  ring overflows; queues of one. Bytes may be lost while the first frame is on the line
  only (`LossyFrames`): the two after it are what `Resynchronises` is about. One command.
* `location_store`: three blocks (one current, one before and one after it, which differ),
  blocks of 5 bytes and packets of 1 or 2, so that blocks fill with different
  numbers of packets and with a rest; eight dumps go round the ring with reads anywhere.
  One failure (`MaxFaults`) at any operation.
* `watchdog`: the times of the code in seconds (6, 4, five turns, 13 and 1) and up to three packets in a round. Nothing is
  bounded but the ghost `silence`, which stops counting one past its limit.
* `store_forward`: four packets and a queue of two, so that a packet can be in the hand, the
  queue, the store and on the wire at once, and the queue overflows. Connects, closes,
  hours and alarms are not bounded.

Fairness. On the anchor only the main loop is fair (`WF_vars(MainLoop)`, `WF_vars(Send)`): it has no
wait and no blocking call, and interrupts do not starve it, since a frame takes longer
to receive than its handler runs. Nothing is assumed of interrupts, the air or the cards.
In `LocationStore` loads are fair (`WF_vars(Load)`), because the send thread makes one in
every turn while the connection is up; before the first dump has opened the file a load
returns at once. In `StoreForward` the threads run (`WF_vars(SendThread)`, `WF_vars(Greet)`:
RT-Thread schedules them, every wait has a timeout or ends when the mutex is
released, which a thread does before it sleeps), hours pass (`WF_vars(HourPasses)`, the
clock behind `time()`), and a packet that is tried again and again over a live
connection is accepted once (`SF_vars(SendLive)`: TCP frees the send buffer as the server
acknowledges). Connecting is not fair: the server may never come back, and `StoreDrains` speaks
of connections that stay up.

In `StationSerial` both threads run (`WF_vars(BsmacThread)`, `WF_vars(AnalyserThread)`): they have the same
priority (9) with time slices of 20 and 10 ticks, the bsmac thread sleeps a tick whenever there is nothing to do, and
neither waits for room in a queue. Nothing is assumed of the anchor, the UART and the server.

In `Watchdog` the whole system is fair (`WF_vars(Next)`): the processor and its clocks go on, and a thread that can run comes
before the next tick. That suffices for `HangEnds`; no thread, connect or server has a fairness of its own.

Deadlock is checked in all runs but `station_serial`, whose anchor stops after its last frame while all
threads wait; elsewhere the last frame and the end of time are followed by steps that leave time
alone (`Reselect`, the main loop).

## Findings

1. **Sequence wrap** (`dotie.c:371`, `:400`): the difference of two `uint16` is an `int`.
2. **Remainder after groups** (`instance.c:2324`): the loop compares a position with the
   number still to be sent and adds the start twice.

Also seen, and modelled as they are (no run is spent on them):

* The reset after five lost polls (`application.c:134`) is unreachable: the callback never stores an event
  type other than `DWT_SIG_RX_OKAY`. `AnchorProofs!NeverCounted` proves the counter is always 0.
* A stored packet whose replay fails is gone (`net_app.c:649`): `load_location_data` has moved the
  read position, the failure is only logged, and since the error flag stays clear the
  next packet follows. `StoreForward` keeps such packets in `lost`.
* **Stale count** (`instance.c:1430`): with an empty list the function that fills a standard card's
  poll returns before it writes the number of entries (byte 15, by the comment in line 1435), so the frame keeps the
  number of the poll before. `CardTransmit` keeps it (`air.tag` against `air.entries`), and `BetterSelect` has the
  entry an anchor then takes from a frame that has none (`Junk`).
* With several standard cards the better-select table is updated in its first relation only
  (`instance.c:1193`).
* After a restart a card's new poll can close an interval of its previous life (`ReportBracketed` excludes
  it by the power-up number), and a pack can be overwritten before it is sent.

## Proofs

All theorems hold for every value of the constants that satisfies the named ASSUMEs,
and are checked to the last leaf; two, about the better-select tables, also suppose tables of at most six cards.

* **TimerEventProofs**. `TimerInv` joins the types, the counter, `StartedWithInterval` (a
  timer that runs was started with its event's interval, and restarts with it) and
  `OnTime`, which relates each deadline on the wrapped clock to the true age: before a
  deadline is known the age is at most the time since the pass in which it was
  started; after that, deadline minus clock is interval minus age, up to a
  lateness of one, two or three `L` depending on whether the current pass has visited
  the timer. `BoundedLateness` alone is not inductive: a step needs to know that the
  deadline on the wrapped clock and the true time agree. Lemmas on `Later` and `Elapsed`
  give the modular arithmetic. `SleepsInTime` needs one invariant more, `SleepInv`: inside a
  pass the minimum so far is at most the time left to every running timer the pass has visited and that was not
  started anew since (`MinCovers`); it says nothing once the pass is over, when timers may be added freely.
* **TdoaPairingProofs**. `PairInv` says that every stored poll is genuine (its stamp and
  number are those of a poll its card sent, at that time), that the entries of a slot
  follow from its Pre, that a Pre is less than `SeqMod` polls older than its card's last poll, and at most `Period` older
  in time when it is the one before, and
  that the pack is bracketed and measured. `TiesAccurate` is the arithmetic lemma: the
  difference modulo `2^40 - 1` of two stamps less than a turn apart is the true one or
  one less. `SeqDifference` turns a difference of 1 or 2 of numbers into one of polls.
* **LocationStoreProofs**. `StoreInv` is `TypeOK` and, until the first failure, `Sound`: in each
  block the packets lie end to end in the order of their numbers and the read position is
  at the start of one (`BlockOK`); round the ring, from the block after the current one, the
  blocks hold consecutive intervals of numbers (`Consecutive`); and behind the first block with
  unread data nothing has been read and all blocks but the current one are full
  (`FullBehind`). The refinement needs the first two, since the oldest packet of the queue
  must be what the scan finds first, and what a dump throws away must be a
  prefix of the unread; `RoomIsUsed` needs the third. Failures are an `Anything` step of the queue.
* **AnchorProofs**, the interrupt pipeline. `PipeInv` relates each stage of the main loop to the buffers:
  which frame can be in the card message while it is copied, and which event is
  pending, taken or about to be set.
* **AnchorProofs**, the report. `ReportInv` adds to the types how far the report has come: how many entries
  were sent and are left at each stage (`Progress`), what the buffer holds (`BufferOK`) and that what was
  sent before the remainder is the pack's own beginning (`SentOK`). It is proved for every
  size of pack and group for which a full frame is shorter than 256 bytes.
* **AnchorProofs**, the better-select tables. The module's loops are recursive functions of the number of turns. The
  library's induction theorems take an operator as a parameter, so the proof has its own for a set
  (`NatSetInduction`, from `WFMin`), and from it that a loop's function exists with its equations (`LoopExists`)
  and stays in a set its body stays in (`LoopStays`). For the ageing loop this gives `AgeInv`: after `i` turns every
  card that is left has not moved back, and has moved forward by one place for each card removed or was found not silent. For the
  contest it gives that every relation of the copy is one a card reported. `SelectInv` then holds for tables of any size and any reports:
  `SelectTypeOK` and `RelationsReal` follow. It also says that the relations of a card alone are that card's list, and that a table becomes
  empty only when a card alone has counted its frames round to 0 again.
  `SilentCardLeaves` is not inductive: the loop skips a card, so what a marked card has left depends on its
  place. `AgesInv` says that such a card's silence and its place together stay within one round and one
  (`AgesOK`), and how many cards there can be after each reception of a round. Of a table in which all but the sender are marked the loop
  leaves half (`AgedShort`); that this is at most three cards, so that after the second reception no
  unmarked card is left in a place behind the skipped one, is what `StdMax <= 6` is for. The code has
  `TDOA_STANDCARD_MAX_NUM` 5 (`instance.h:314`). For larger tables these two theorems say nothing. `LoneCardDecides` follows, since the
  silence of every other card is at least as long as the streak of the last one.
* **CardTransmitProofs**. `IInv` adds to the types that the frame on the air was counted (`seq = air.seq`), that the
  list's counter follows the ghost `saved` (`CountOK`), and, for a card heard in peace, where its strength is at
  each stage of the main loop (`AloneOK`): in the registers, in `i8Rssi`, in the list.
* **StoreForwardProofs**. `OnePlace` and `OrderKept` are not inductive. `IInv` adds to the types that packets
  flow from old to young (`FlowOK`: what was dumped or sent is older than what is in the hand, and that is older than
  what is in the queue), from which disjointness and order follow; that each packet made is in exactly one first place
  (`FirstPlace`) and each that has left the store in exactly one second place (`SecondPlace`); and that the packet being
  replayed is younger than all that were (`WireOK`). A put may discard any number of the oldest packets, as `LossyQueue` lets it.

* **WatchdogProofs**. `NoFalseAlarm` needs to know how old the last reports are. `IInv` adds to the types what the time left follows
  from (`FedOK`: the last feeding was at the last turn, or the one before it), that the send thread reports in every unit
  (`SendOK`) since it never meets a connect (`LookOK`), that the turns which missed a report are covered by
  the age of the receive thread's last one (`RecvOK`), and, once a thread hangs, that no turn after its last report
  is a good one (`HungOK`). Proved for all times that satisfy `TimesAssumption`.

* **StationSerialProofs**. `SerialInv`, for every size of the ring, the chunks and the queues, any payloads, and
  bytes lost anywhere on the line, not only in the first frame. Its parts: the line is frame after frame (`LineOK`); every byte received
  so far is parsed, lost, or waits, and those that wait do so in order (`Pending`); the length of the parser's buffer is its state (`ParserOK`).
  `Pt` is the position of the next byte to parse. What no queue size and no chunk disturbs is then a statement about the
  stretch of line before `Pt`: without a loss since its first byte the buffer is a piece of the line (`Contiguous`), and whatever was lost
  before, a stretch without a loss is in the buffer as a whole (`Covers`); as long as nothing was ever lost the buffer begins at the start of
  a frame (`InStep`). `Resynchronises` is not inductive by itself: it speaks of frames that have been parsed. `Aligned` is what it must be
  strengthened to, that inside a frame before which enough was received the buffer began at the start of that very frame. It
  follows from `Covers`, since a buffer that began earlier would be longer than any frame, and a later one would leave bytes out.
  `Recognised` and `InOrder` carry the result through the queues to the server's side. `NoFrameUnseen` and
  `Resynchronises` are the two ways in which a frame can be `Clean`.

Checked by TLC only: the liveness properties `DeliversAlone`, `AlwaysReturns`, `EverythingLeaves`, `StoreDrains`,
`IndicationServed` and `HangEnds`, since the prover cannot reason about fairness.

## Plan

Built, in this order: `TimerEvent`, `TdoaPairing`, `AnchorEvents`, `UartReport`, `LocationStore`,
`StoreForward`, `BetterSelect`, `CardTransmit`, `StationSerial`, `Watchdog`. What is left, the most important first:

1. `AnchorSystem`: `AnchorEvents` with the slots of `TdoaPairing` behind CHECK, so that lost
   and mixed frames meet the pairing.
2. The link state of the serial ports (`bsmac_live_poll`, 30 turns without an answer) and the frames the bsmac thread
   answers itself.

## Not modelled

Register I/O, SPI, LEDs, logging, header contents and CRC (no state a property is about); the
Modbus sensors' data formats and boot configuration (parsing and formatting); the configuration server, which
handles one request at a time and restarts the station; third-party code but for the
queues and the ring the station relies on; the older copies of the firmware and the other
products, which share only protocol headers with this system. Those products and libraries are
nearly all of the repository's lines, so the share of them that is modelled is small.
