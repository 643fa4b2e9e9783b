# Seraph-BLE heater node: verification models

TLA+ models of the CSRmesh 2.1 heater module in `src/applications`
(`csr_mesh_heater-module` and the parts of `mesh_common` it is linked with,
built for the CSR101x). The tree under `src/xIDE/apps` is a copy of the same
sources. The CSRmesh stack, the CSR SDK and the tools are external.

The firmware is single-threaded: every handler (mesh event, UART callback,
timer) runs to completion. So each handler is one action, and the concurrency
is the order in which handlers run, the two ends of a link, the timers, and the
moments at which power may go.

## The system

A module sits between a host (on the UART) and the mesh. A frame from the host
becomes a *block message* of up to four mesh packets; the module at the other
end puts the packets together and reports the frame to its own host. Next to
that the node joins and leaves a network, keeps its settings in NVM, and lets a
central connect to it as a bridge.

| component | source | state | operations | what makes it correct | module |
|---|---|---|---|---|---|
| byte queues | `byte_queue.c` | ring of cells, `g_head`, `g_peek`, `g_tail` | force, safe, peek, commit, pop, clear | is a bounded FIFO, through every wrap-around and overflow | `ByteQueue` |
| software timers | `time_uart.c`, `define.h` | one word each: count, running bit, overflow bit | tick of each time base | one overflow per arming | `SoftTimer` (partly) |
| block receiver | `data_model_handler.c`, `main_app.c` | `f_Block_Buffer_Empty`, source and message id, `f_rxmeshdata01..04`, `BLE_RX_DATA`, two timers | a packet arrives, ticks, 1 ms handler | reports are whole frames under the right address, as far as the buffer they are made of allows; never stays closed | `BlockRx` |
| block sender | `data_model_handler.c`, `main_app.c`, `uart_time.c` | waiting frame, `Tx_Data_Buffer`, offset, packet timer, two timers | frame accepted, transfer started, packet timer, ticks | nothing cut short, packets paced, waiting frame started | `BlockTx` |
| block link | both | | | the pauses of both ends fit together | `BlockLink` |
| UART framing | `uart_time.c` | receive and transmit machines, gap timers, queue, driver | driver callbacks, `processuartdata` | a timely frame is taken; a report is taken in time; an idle driver leaves nothing in the queue | `UartBridge` |
| stream messages | `data_model_handler.c` | stream states, sequence numbers, retry counter | flush, data, confirmations, timeouts | a stream arrives whole or is given up | `StreamTransfer` |
| main loop | `main_app.c` | the four time bases | 1, 10, 100 ms and 1 s handlers, start-up | time bases never stop | in the modules that use it (partly) |
| saved status | `Flash_Run.c` | `FlashWrite`, `FlashRead`, delays | `flash_run` | what is stored is the last status | `NodeStorage` (partly) |
| node storage | `app_mesh_handler.c`, `nvm_access.c` | NVM words, group tables | start-up, write, remove association | wherever power goes, the node starts with what it ran on | `NodeStorage` (partly) |
| association | `core_mesh_handler.c`, `app_mesh_handler.c` | association state, advert timers | mesh events, timeouts | associated exactly when the stack is | `NodeStorage`, `AppConnection` (partly) |
| connection | `connection_handler.c` | application state, GATT data, bearer state | connection manager events, bearer events | follows the link; the stack has the bearers that fit | `AppConnection` (partly) |
| advertising | `advertisement_handler.c` | advert timer | advert timer, start, stop | goes on until a central connects | `AppConnection` (partly) |
| connection parameters | `conn_param_update.c` | update timers, attempt counter | requests, confirmations | bounded attempts; ends with its connection | `ConnParamUpdate` (partly) |
| connection manager | `connection_manager/cm_*.c` | link, bonding, HAL state | GATT and LS events | | link only, in `AppConnection` |
| services, board drivers, other models | see `PROJECT.json` | | | not part of the core | |

Interactions: the UART driver calls back into `uart_time.c`, which uses a byte
queue and leaves a frame in `BLE_TX_DATA` with `f_Mesh_Tx_Ready`; the 10 ms
handler of `main_app.c` polls that flag and calls `StartBlockSendData`; mesh
data events reach `handleCSRmeshDataBlockInd`, which leaves the frame in
`BLE_RX_DATA` with `UartTxDataType`; the 1 ms handler polls that and builds
the report. The timer words are global and written by all of these. Mesh events
change RAM, then NVM; the bearer state of an event goes to NVM, to the stack and
into the adverts, depending on whether a central is connected.

What is hard: the buffers are shared by successive frames and cleared by
whoever uses them last; packets are lost and reordered; the four timers that
separate one frame from the next count ticks of free running time bases, so
their real length depends on phase; the flags of a reception survive its
timeout; NVM words that belong together are written one at a time; the state of
the application, the adverts and the link are changed by three parties. The
hazards are listed line by line in `PROJECT.json`.

## Modules

| module | models | notes |
|---|---|---|
| `ByteFifo` | what a byte queue promises | abstract |
| `ByteQueue` | `byte_queue.c` | one action per public call |
| `ByteQueueProofs` | proofs about it | with the refinement of `ByteFifo` |
| `SoftTimer` | a timer word and its tick | used by all that count ticks |
| `BlockRx` | the block receiver | |
| `BlockRxProofs` | proofs about it | |
| `BlockTx` | the block sender, timed | |
| `BlockTxProofs` | proofs about it | |
| `FrameChannel` | what the link promises the hosts | abstract |
| `BlockLink` | composes `BlockTx` and `BlockRx` | |
| `BlockLinkProofs` | the refinement of `FrameChannel` | extends `BlockTxProofs` |
| `UartBridge` | the UART at byte level | |
| `UartBridgeProofs` | proofs about it | |
| `StreamTransfer` | stream messages, both ends | |
| `StreamTransferProofs` | proofs about it | |
| `NodeStorage` | NVM, association, status, loss of power | |
| `NodeStorageProofs` | proofs about it | |
| `ConnParamUpdate` | the parameter update procedure | |
| `AppConnection` | application state, adverts, bearers | extends `ConnParamUpdate` |
| `AppConnectionProofs` | proofs about both | |
| `MC...` | constants for TLC | |

Definitions keep the names of the functions and variables of the source.
Definitions marked "Mutant" are wrong on purpose: each is a plausible mistake
in the definition that follows it, and one of the properties catches it when it
takes that definition's place. No specification uses them.

**ByteQueue.** The indexes are those of the code; a cell holds one byte.
`copyIntoBuffer` writes in up to two `MemCopy` parts in the code and in one
function update here; `Wrap` is the index coming back to the start. `ret` and
`accepted` are the results of the calls.

**BlockRx.** A packet is its frame, its sequence number, the number of packets
in its header and its length. `BLE_RX_DATA` is four slots of seven bytes, each
holding the frame last written to it: no property tells single bytes apart. The
8 bit check is modelled by what it can do: it accepts the bytes of one frame,
and if the first slot holds a frame of `Colliding` it may accept any mixture.
The mesh brings the packets of one of the sets in `Deliveries`, in any order, at
most once (the stack drops repeated messages), or never. The UART takes a report
whenever it likes. The buffer reopens on its timer alone, which may overflow at
once, while the UART may need six ticks, or three seconds after power on; so the
report may still wait, and a packet that opens a reception then is written into
the report. That is what the code does. `disturbed` is the history of it (a report
waited when the reception began, or a header without data opened it), and the
properties make no claim about a report that was spoilt so, or one that such a
reception leaves. `pieces` and `accepted` are
history, too. The kinds `0x7E` and `0xE7` differ in the form of the report only
and are not told apart.

**BlockTx.** Time advances in steps of 50 ms, the largest unit that divides the
packet time (150 ms) and the tick of the 100 ms base; within a step the
handlers take any order. The 1 s base starts at any phase. A frame is its
length; a packet in `Tx_Data_Buffer` is the frame, number and total of the
header that was written there, so a slot that was not rewritten still shows the
earlier frame. The driver callback sets `BLE_TX_DATA_LENGTH` before the frame is
checked, as the code does. The host sends whenever it likes, also over a frame that
waits. The callback is enabled only while no complete frame is unread: the code
ignores the UART for 20 ms after a frame and reads it within two 1 ms ticks. Left
out are the first three seconds after power on, when nothing is read, and a second
frame behind the first in one callback. `measured` is the history of whether the
transfer began with the length of its own frame.

**BlockLink.** `BlockTx` and `BlockRx` with their own time bases; a packet is
received within the 50 ms in which it is sent, and the receiver's UART takes a report
within the 50 ms in which it is made (six ticks, once both modules are on for three
seconds). The host sends whenever it likes. `FrameChannel` says what it may then
expect. The sending module keeps one frame that is `waiting`; the next one that is
accepted takes its place, and the one replaced is lost. A frame that has come in
behind it and is not accepted has left its length (`marred`). What a transfer begins
with is `carried`, and comes out at the other host once, whole, in order, under the
sender's address. If a transfer begins `marred`, the channel is `spoilt` and promises
nothing from there on.

**UartBridge.** The receive machine (`CommRxState`, with the gap timer of five
ticks and the 20 ms after a frame) and the transmit machine (`CommState`,
`sendPendingData`, the heartbeat) between the callbacks of the driver. Of
`WifiRxData` the model keeps how many of its first bytes are, in place, the first
bytes of one frame; the driver may bring any byte of a frame at any time, so
fragments, gaps and frames that follow too soon are all there. A callback brings one
byte or several (`inCallback`, `joined`): the bar of 20 ms is looked at with the first
only, and the others are stored even over a frame just completed. Nothing keeps the
callback from storing behind the end of `WifiRxData`, and in the first three seconds
nothing clears the count, which wraps with its byte; what such a byte overwrites
depends on the linker and is not modelled, but `outside` tells that it happened and
whether the byte was one of a timely frame. Sizes are scaled: `LengthAt` stands for
the fifth byte, a frame has five bytes, reports, the queue and the driver's buffer
count units of ten bytes, so that a chunk is three units and a report of 6 to 40 bytes
one to four. `WifiTxData` and the queue are counts, and a report the queue has no
room for is dropped whole. The driver finishes a transmission whenever it likes. At
most `Requests` reports are asked for before everything has been sent, a bound on the
state space only: they overfill queue and driver. `quiet`, `timely`, `due`, `outside`,
`waits` and `padding` are history.

**StreamTransfer.** Several senders, one receiver and the messages between them.
Sequence numbers and offsets count packets instead of bytes; `last` is the number
of packets outstanding (a stale retry timer may fire with none). Timers fire
whenever they are armed, so a message may take any time; messages are lost,
overtake each other and are delivered at most once; the mesh keeps at most
`InFlight` of them and loses what is too much, and copies on their way at the same
time count as one. `BLE_RX_DATA` is one slot per packet and the check accepts
exactly whole frames. A report is taken by the UART before the next message comes.
Nothing in the repository calls `startStream`, so the caller is an assumption:
with `Patient` it starts a stream of a node only when the last one and its
messages have come to an end (the 2 s timeout that `startStream` arms suggests
it); without, at any time. `outcome` stands for `f_SendMSGOK` and `f_SendMSGNG`.

**NodeStorage.** A handler changes its variables when it begins and leaves its
writes in `todo`; one call of `Nvm_Write` is one step, and `Crash` may come
before any of them: the variables are gone, the words stay. `AppMeshInit` starts
the node from the words. The first start finds a blank chip, the words of an
earlier version (associated or not), or a damaged sanity word. The word
`network` is the mesh stack's own (external): it is set before the association
event and cleared by `CSRmeshRemoveNetwork`. The ticks of the 100 ms and 1 s bases
take any order with all else. The status block is cleared by the first start
although no code says so: it lies within the words the connection manager clears
for its bonds (`main_app.h:143`). Configuration messages come only from inside a
network. Two history variables name exceptions: `torn`, power went in the middle
of an association or its removal, when stack and application cannot agree;
`lost`, the association came before the power-on read of the status, or power went
within the half second before the status is written.

**ConnParamUpdate.** Timers are seen by what they call when they expire; `tid` is
the one id the procedure knows, and is overwritten as in the code. The pauses
have any length. The link layer answers each request by a confirmation that
accepts or refuses, and a central may set an interval of its own (at most
`MaxActivity` times in a connection). `overlapped` is the history of whether that
made the node ask again before it was answered.

**AppConnection.** The heater has no central role and one connection, so the
node is the peripheral of one `Peer`. `link` is the connection manager's: made,
closing, lost. `AppSetState` is an operator that every handler calling it applies
as part of its own step. The stack's bearer state (`transmit_state`) and the one
that is kept (`bearer_tx_state`) are pairs of the GATT bit and the promiscuous
bit. The callers of `AppUpdateBearerState` check for a connection first
(`updateWhenApart`). `g_cskey_flags` is the bridge enabled by the user key.
`unmanaged` and `silenced` name an exception: a connection made in the idle state
(below, limits).

## Runs

| run | instance | shows | states |
|---|---|---|---|
| `byte_queue` | 4 cells, 2 byte values, chunks of 0 to 4 bytes, requests of 0 to 4 | `TypeOK`, `PeekWithinQueue`, `ImplementsFifo` | 6,144 |
| `rx` | one of four deliveries: frames of 2, 2, 2, 1 packets with collisions; 3, 2, 3; 3, 1, 2; 4, 3 with stray headers; a UART that takes its time | `TypeOK`, `NeverWedged`, `ReportIsOneFrame`, `CompleteIsAccepted`, `Reopens` | 249,727 |
| `tx_any` | 3 frames of 1, 2 and 4 packets in any order, all phases, any host | `TypeOK`, `SentWhole`, `NeverCutShort`, `PacketsSpaced`, `WaitingIsSent` | 130,812 |
| `tx_total` | the same | `TotalIsCount` is violated (finding) | – |
| `link` | 3 frames of 1, 2 and 3 packets in any order and at any time, both phases of each 100 ms base | `ImplementsChannel` | 725,063 |
| `uart` | frames of 5 bytes into 6 cells, a count that wraps at 8, reports of 1 to 4 units, 3 requests, one side busy | `TypeOK`, `FrameIsTaken`, `ReportIsTaken`, `NothingStays` | 1,125,080 |
| `uart_long` | the same | `OnlyReports` is violated (finding) | – |
| `stream` | frames of 2 and 1 packets from one node, of 1 from another, 2 messages in flight, patient callers | `TypeOK`, `StreamIsTimed`, `ReportIsOneFrame`, `OKIsDelivered`, `StreamEnds` | 341,231 |
| `stream_sent` | the same | `OKMeansSent` is violated (finding) | – |
| `storage` | 2 ids (one in the reported range), 1 group, 2 TTLs, 2 losses of power | `TypeOK`, `VersionIsLast`, `SavedIsInUse`, `AssociationMatchesStack`, `NothingLeftBehind`, `UnassociatedIsAdvertised`, `StatusIsStored`, `ReportsOwnId`, `StatusGetsStored` | 176,845 |
| `storage_sanity` | the same | `StartsOnWrittenData` is violated (finding) | – |
| `connection` | 2 timers, 1 interval set by the central in each connection | `TypeOK`, `PromiscuousWhileConnected`, `StoredWhenApart`, `StateFollowsLink`, `NoTimerOutlivesConnection`, `ResetIsKept`, `AdvertisesOn`, `ProcedureEnds` | 280,021 |

Why the bounds are enough. A ring of four cells has every relation of the three
indexes, wraps within two calls and overflows with the second chunk; the proofs
lift it to any size. Two frames of one source and one of another make every way
of mixing packets (same source and other id, other source and same id), and the
fourth frame follows a reception that a mixture has spoilt; the next two sets of
`rx` put receptions of three packets before, between and after short ones,
whose flags they leave behind; the last has the longest frame and headers without
data. The code treats at most four packets. In `BlockTx`
the longest transfer is four packets with the surplus fifth, and every phase of
the 1 s base is taken, so each order of its timers occurs. In `link` both 1 s
bases have a fixed phase (20 and 8 units), because the host sends at any time, so that
transfers begin anywhere between their ticks; both phases of the 100 ms bases are
taken. In `uart` the machines of the two sides share nothing but the millisecond (no
variable of one is read by the other), so one side is busy in each behaviour. Six
cells take a frame and one byte more, and the count gets past them and around; three
requests of up to four units overfill the queue of seven units and the driver of six,
and end in chunks of every size, the last of them short; the 20 ticks are the code's.
`FrameIsTaken` and `ReportIsTaken` are tight: with limits one smaller they fail. In `stream` a node with two streams
meets one of another node before, between and after them, and a late packet or
acknowledgement can pass the newer message beside it; with three messages in
flight the same properties hold (not kept as a run, for its length). In `storage`
a second loss of power interrupts the start that repairs the first, and the words
it may leave are those the third start finds; the proofs lift the number. In
`connection` a second timer is the one that an overlapping request loses.

Fairness. `TimerCreate` timers always fire and each handler re-creates its own,
so the time bases, and what the 1 ms and 10 ms handlers do when enabled, are
weakly fair. Nothing forces the host to send, or the mesh to deliver (`BlockRx`).
`BlockLink` adds that a packet sent is received: it is about timing, not loss.
`StreamTransfer` assumes that armed timers fire and that the UART takes a report;
delivery is never assumed. `NodeStorage` assumes that writes are made, that a node
without power starts again, and, strongly, that the time bases tick and that
`flash_run` (polled by the 10 ms handler) gets its turn: mesh events may come
between any two of them, but not instead of all of them. `AppConnection` assumes
that timers expire and that the link layer answers each request; no central has to
connect, to accept or to disconnect.

Deadlock checking is off in `stream`, because a sender whose flush was lost waits
for ever and nothing else may be left to do, and in `storage`, because a node that
lost power while it was removed from its network may take itself for associated in
no network, without anything left to happen when no power loss is left. In the
others ticks always go on.

## Findings

- `tx_total`: for a frame whose last packet is full, one packet more than the
  header announces is sent, three bytes of an earlier frame
  (`data_model_handler.c:733`). Received while the buffer is open, such a header
  opens a reception of nothing that lasts up to two seconds; with a frame of nine
  bytes among those of `link`, the channel fails for that reason, so the
  frames of that run have a last packet that is not full.
- `uart_long`: a report of more than 30 bytes is followed by bytes of its own
  beginning. Every chunk has the size the queue gave at first (`uart_time.c:72`), and
  the number `BQPeekBytes` returns, which `byte_queue.c:471` says may be fewer than
  requested, is looked at for zero only (`uart_time.c:78`). A frame of 28 bytes makes
  a report of 31, which is sent as 60.
- `stream_sent`: a stream that was given up after its retries is ended like a
  complete one, and the acknowledgement of that flush sets `f_SendMSGOK`
  (`data_model_handler.c:1112`). `OKIsDelivered` states what does hold: if no packet
  was given up, OK means delivered.
- `storage_sanity`: `nvmReadSanity` writes the sanity word before any other word
  (`nvm_access.c:162`), although the comment at `app_mesh_handler.c:441` says that it
  is written last. A power cut in between makes a node that takes itself for
  associated and never sends its device UUID.

Limits the properties respect, visible in the models:

- The comment at `data_model_handler.c:580` promises that the buffer stays closed for
  100 ms after a reception; the code waits for the next tick of a running 100 ms base,
  which may come at once. Between two modules `ImplementsChannel` holds all the same.
- `CompleteIsAccepted` does not hold for three packet frames. A flag left on by a
  reception that timed out ends the next one a packet early; the frame fails its
  check and leaves, in turn, a flag for the next one. With packets in order, one
  loss makes every later three packet frame fail. `ReportIsOneFrame` shows that the
  check then still keeps the mixture from the host.
- A four packet frame whose fourth packet is not the last to arrive is lost; the
  timeout reopens the buffer (`NeverWedged`, `Reopens`).
- The report is built from the reassembly buffer itself. `ReportIsOneFrame` and
  `CompleteIsAccepted` make no claim about a reception that began while a report
  waited (`disturbed`): its packets are written into the report, and taking the report
  clears those of its packets that are there.
- Both leave out a reception that a header without data opened (see `tx_total`), too.
  Slots and flags outlive the receptions that time out, so all of a three packet frame
  may lie in the buffer without having been accepted. If a stray header of another node
  opens a reception and the fourth packet of its frame comes late, that packet finds
  three flags on, the check passes, and the first node's frame is reported under the
  second one's address.
- The next frame overwrites the length of the one that waits (`uart_time.c:146`) when
  its last byte comes, and takes its place when its check is good. A frame replaced
  so is lost. A transfer that begins between the two has the wrong length (`SentWhole`
  leaves it out by `measured`, `ImplementsChannel` ends with it).
- Bytes that come without a gap of five ticks, and all bytes of the first three
  seconds, are counted and stored without regard to the end of `WifiRxData`
  (`uart_time.c:137`). `FrameIsTaken` says that no timely frame is the one to run over
  the end, and makes no further claim once other bytes have.
- Bytes behind a complete frame in the same callback are stored over it before its
  check (`uart_time.c:123`): such a frame may be lost.
- The flushes of a stream are sent once: when one or its acknowledgement is lost
  the sender stays where it is until `startStream` is called again.
- After a stream has ended its source is still accepted: late data of it sets
  `stream_receive_in_progress` without a timer (`data_model_handler.c:1014`), and
  flushes of other nodes are then ignored until that node sends again.
  `StreamIsTimed` speaks of streams with an expected sequence number.
- `ReportIsOneFrame` and `OKIsDelivered` of streams need patient callers: every
  stream counts from 0, so messages of the last one fit into the next. Without
  patience a frame may even be reported under the address of another node.
- Power that goes between the stack's own record of a network and the
  application's leaves them apart (`torn`); nothing in the code compares them.
- The power-on read of the status, up to three seconds after start, overwrites the
  id of an association that came before it (`Flash_Run.c:49`, `lost`).
- A bearer event may start adverts in the idle state (`core_mesh_handler.c:252`). Only
  the advertising state stops the advert timer when it is left, so if a central
  connects to such adverts the timer runs on in the connection; if the GATT bearer is
  then disabled, its expiry makes the application idle during the connection, and the
  end of the connection panics ("Control should never come here"). `StateFollowsLink`
  and `ResetIsKept` name this exception.
- Two refusals of requests that overlap arm two timers with one id; the end of the
  connection stops one of them (`NoTimerOutlivesConnection` excludes it).

## Proofs

For all values of the constants, under the assumptions the modules state:

- `ByteQueueProofs`: `TypeCorrect` and `PeekStaysWithinQueue`, for any ring of at
  least two cells. The inductive invariant is `TypeOK /\ PeekWithinQueue`: that
  the peek lies between head and tail is needed to commit it. The argument rests
  on lemmas about distances around the ring (`RingDistance` to `RingLengthen`).
  `RingImplementsFifo` is the refinement, `Spec => ImplementsFifo`: contents are read
  back with `RingReads`; `CopyKeepsOld` and `CopyWritesNew` say which bytes survive a
  write and which are new, `CopyRefines` joins them into "the last bytes of the old
  contents followed by the chunk", `AdvanceRefines` removes bytes at the front.
- `BlockRxProofs`: `TypeCorrect` and `ReceiverNeverWedged`, for any frames, any
  traffic and any UART; the invariant is their conjunction.
  `ShortFramesReportedWhole` and `ShortFramesAccepted`, under `ShortFrames`:
  distinct (source, id) pairs, at most two packets to a frame, each in its place.
  Nothing is assumed of when the UART takes a report: what both properties leave out
  is the reception that begins while one waits. `PairInv` adds what the flags and
  slots hold in the course of a reception that was not disturbed: neither invariant is
  inductive without it, because a stale flag is harmless only as the packet it stands
  for is still to come. `ReceptionReports` gets the report from it.
- `BlockTxProofs`: `TypeCorrect`, `TransfersComplete` and `PacketsKeepDistance`, for
  any frames of up to 40 bytes and any phases, also when one frame overwrites
  another. The core of `Inv` is `TimerInv`: the 2 s timeout overflows at least two
  units of 50 ms after the end of the transfer in progress. A transfer of six packets
  takes 18 units; the first tick of the 1 s base may come at once, which leaves 20.
  `GapInv` says that the distance to the last packet is the time its timer has run.
  `FramesSentWhole` (`SentWhole`) is under `FramesFit`, every frame in at most four
  packets, since a longer one is not copied. `Underway` relates what was sent, what
  the four slots hold and the offset; `SentInv` is that it holds of every transfer that
  began with the length of its own frame.
- `BlockLinkProofs`: `LinkImplementsChannel`, `Link!Spec => Link!Channel!InOrder`, that
  is, `ImplementsChannel` without its fairness, under `FramesSuit`: every frame has at
  most four packets, the last one not full (a frame of five is not copied, and what
  follows a full last packet opens the receiver again, see the findings).
  The module declares the variables of both ends, takes those of the sender from
  `BlockTxProofs`, and shows that a step of the link is one of the sender or leaves it
  alone; so `SenderInv` is what is proved there. The host is free, so nothing relates the frames to come to
  the transfer; `GivenInv` says only that what waits is a frame. `MeshInv` says that at most the packet sent last is on
  its way. Then the receiver is followed by the number of packets it got (`Got`).
  `BeforeInv`: it is open and holds nothing. `DuringInv`: it holds the packets so far,
  and its timeout overflows 20 units of 50 ms after the first packet or later, although
  its two ticks may begin at once; four packets take nine. `AfterInv`: the report is
  taken in the unit of the last packet, and the buffer is open after at most two units
  more, while the sender waits for three (`PacketsSpaced`). `OrderInv`: what the channel
  carries is the frame in transfer, until its report is taken. `MarredEnds` and
  `SpoiltStays` are the steps after which the channel promises nothing.
- `UartBridgeProofs`: `TypeCorrect`, for frames, buffers and reports of any size; it
  says that queue and driver are given no more than they hold, and of `WifiDataCount`
  no more than the width of its byte.
  `FrameTaken` (`FrameIsTaken`) is under `SilenceIsEnough`: the host keeps silent for
  more than 13 ticks between two frames (20 in the code). 13 is the longest way of
  the receive machine back to waiting (`WayBack`), which `RxInv` bounds whatever the
  host sends; with that, `FrameInv` and `DueInv` follow a timely frame byte by byte
  until it is taken, and show that it is stored within `WifiRxData`.
  `ReportTaken` (`ReportIsTaken`) needs no hypothesis: reports of any size, any number of
  them, any driver. `Ahead` counts the ticks until the transmit machine is free.
  `QueueIsEmptied` (`NothingStays`) is under `ChunkFits`: an idle driver has room for a
  chunk. `SendEffect` says what a call of `sendPendingData` leaves, `QueuedFits` that
  a report is queued whole or not at all.
- `StreamTransferProofs`: `TypeCorrect` and `StreamAlwaysTimed`, for any nodes and
  frames, any number of messages in flight and both kinds of callers. `Inv` adds
  `Consistent` (in a stream the sequence number is the offset and one packet of the
  frame is outstanding), without which a sender could read past its frame, and
  `Receiving` (an idle receiver expects nothing, and data in progress is expected),
  without which the flush that begins a stream could stop the timer.
  `ReportsAreFrames` (`ReportIsOneFrame`) and `OKMeansDelivered` (`OKIsDelivered`) are
  for patient callers, whatever is lost, delayed and overtaken. `StreamInv` is about
  both ends and each message between them: `AloneAtStart`, while a stream starts there
  is one message of its node on its way at most, so that a late one cannot pass for
  the new; `Heard`, the receiver has copied what the sender has had acknowledged, and
  at most one packet more; `OnWay`, which acknowledgements may still be on their way,
  and what they mean to the sender when they come.
- `NodeStorageProofs`: `TypeCorrect`, `VersionCorrect`, `SavedCorrect`,
  `AdvertisedCorrect`, `MatchesCorrect`, `LeftCorrect`, `StatusCorrect` and
  `OwnIdCorrect`, for any ids, groups and TTLs that differ from the marks of words
  not written (`MarkAssumption`), and any number of losses of power. `StorageInv` is
  about the writes a handler has left. `WritesOK`: they are of proper values, and
  the version comes behind every setting that is not written yet. `Settled`: each
  word of the settings *settles* to its variable, that is, holds its value or will
  be given it last; a start settles the version. No property is inductive without
  that, because power may go, and a handler may end, with any part of the list done;
  `WriteEffect` says that a write changes nothing that a word settles to. `MatchInv`
  adds what application and stack settle to (`InNetwork`, or `AsNew` with the
  settings of a new node), what a start has to finish (`Fresh`, `Resetting`), and
  why power may go around a single write (`Configured`); its words without power are
  `WordsAgree`. `Stored` and `OwnInv` say the same of the status block, which is
  read later than all else. The types need `Noted`: a status that was never written
  is read and reported, but a node that reports it is in no network and cannot join
  one, so it is never written back.
- `AppConnectionProofs`: `TypeCorrect`, `PromiscuousCorrect`, `StoredCorrect`,
  `StateCorrect`, `ResetCorrect` and `ProcedureCorrect`, for any number of timers
  and any activity of the central. `ConnInv` relates state, link, GATT data and both
  bearer states; that an advert timer in a connection means `unmanaged`, and a
  disabled bearer `silenced`, is what confines the exception, also for
  `ResetCorrect`, an action property. `ProcInv`, the invariant of the procedure,
  says that, without overlapping requests, at most the timer named by `tid` runs,
  and none while a request is unanswered. The types need `Bounded`: running timers
  and unanswered requests are together no more than there are timers, so there is
  always one to be created.

Assumptions on constants are those the modules name. `MarkAssumption` says that the
marks of words not written are no values of them, `LoadAssumption` that sizes are
numbers and a report has at least one unit, `LengthAssumption` that a frame fits into
`WifiRxData` and the count of its bytes reaches further than its cells. The hypotheses of single theorems are
named where they are used; all of them hold in the runs (`SilenceIsEnough` with 20,
`ChunkFits` with a driver of 6 units and chunks of 3, `FramesFit` with 4 packets,
`FramesSuit` with frames of 5, 12 and 22 bytes).

Model-checked only: liveness (`Reopens`, `StreamEnds`, `WaitingIsSent`,
`StatusGetsStored`, `AdvertisesOn`, `ProcedureEnds`, and the fairness in
`ImplementsChannel`: a frame that waits is sent, and one that is sent arrives), which is
out of the prover's reach, and what `ReportIsOneFrame` says of frames of three and
four packets, and both of short frames among them.

## Not modelled

- Of the modelled components: the attention timer, the transmit power and the light
  of the association; the contents of adverts and of the heartbeat; `Mesh_status`,
  `Gateway_MsgID` and `ModWorkMode`, which share the status block with the id and are
  written and read with it; the reset branch of `flash_run`, as nothing sets
  `f_Ble_Reset`; `RequestConnParamsUpdateOnce`, which nothing calls; user keys and
  system events other than the bridge key.
- Frames of more than four packets: `Mesh_TxData_Handle` does not copy them, and
  what is sent then lies beyond the buffer. The model keeps the branch, the runs
  stay below it, as nothing in the repository states the lengths a host uses.
- The connection manager beyond the link: bonding, discovery, the hardware layer.
  Services: attribute handlers that keep next to no state. Board drivers: input and
  output. The mesh stack, the GATT and link layers are external.
- Models compiled out of the heater build, GAIA and the tools under `xIDE`: not
  linked into this program. They, and the second copy of the sources, are most of
  the repository, so the models cover a small share of all its lines.

## Plan

1. Done: byte queue, UART, block receiver, sender and link, stream messages, node
   storage with association and status, connection with bearers, adverts and
   parameter update.
2. Done, proofs: every invariant and action property of the passing runs, and both
   refinements, of the byte queue and of the link.
3. Next, proofs: `BlockRx` with frames of three and four packets, where the check byte
   is what keeps mixtures from the host.
4. Then: stream and block messages in one `BLE_RX_DATA`; `UartBridge` composed with
   the block modules, so that the ticks of the UART say which receptions are
   `disturbed`.

Not planned: services, bonding, board drivers, models compiled out of the heater
build, GAIA update.
