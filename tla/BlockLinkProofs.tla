--------------------------- MODULE BlockLinkProofs ---------------------------
(***************************************************************************)
(* The link of BlockLink carries frames as FrameChannel says, for any      *)
(* number of frames of up to four packets, sent by the host whenever it    *)
(* likes, and any phases of the four time bases.  What the sender does is  *)
(* taken from BlockTxProofs, whose variables these are; the receiver and   *)
(* the mesh are followed here.                                             *)
(***************************************************************************)
EXTENDS BlockTxProofs

CONSTANTS Node, RxPhase1s

VARIABLES
  net, f_Block_Buffer_Empty, rx_src_id, Rx_MessageID, f_rxmeshdata,
  BLE_RX_DATA, RX_MESH_ID, UartTxDataType, tRxMeshTimeOut2s,
  tmeshfinishdataWait100ms, pieces, accepted, disturbed, rx_100ms, rx_1s,
  carried, delivered, spoilt

Link == INSTANCE BlockLink

(* The frames the link is for: they fit the four slots, and their last     *)
(* packet is not full, so that nothing follows it.                         *)
FramesSuit ==
  \A f \in Frame : /\ Block_Send_Num(FrameLen[f]) <= 4
                   /\ Block_Send_Mod(FrameLen[f]) # 0

------------------------------------------------------------------------------
(* The steps of the link are steps of the sender, or leave it alone.       *)

LEMMA HostSteps ==
  ASSUME Link!HostSends
  PROVE  /\ \/ \E f \in unsent : uartRxDataCallback(f)
            \/ WifiRxdCheckFails
            \/ WifiRxdDataDo_New
         /\ UNCHANGED <<Link!rxVars, Link!linkVars>>
<1>1. \A f : Link!Tx!uartRxDataCallback(f) = uartRxDataCallback(f)
  BY DEF Link!Tx!uartRxDataCallback, uartRxDataCallback, Link!Tx!txTransfer,
     txTransfer, Link!Tx!txTimers, txTimers, Link!Tx!txClock, txClock,
     Link!Tx!txHistory, txHistory, Link!Tx!txTrace, txTrace
<1>2. Link!Tx!WifiRxdCheckFails = WifiRxdCheckFails
  BY DEF Link!Tx!WifiRxdCheckFails, WifiRxdCheckFails, Link!Tx!txTransfer,
     txTransfer, Link!Tx!txTimers, txTimers, Link!Tx!txClock, txClock,
     Link!Tx!txPending, txPending, Link!Tx!txHistory, txHistory,
     Link!Tx!txTrace, txTrace
<1>3. Link!Tx!WifiRxdDataDo_New = WifiRxdDataDo_New
  BY DEF Link!Tx!WifiRxdDataDo_New, WifiRxdDataDo_New, Link!Tx!txTransfer,
     txTransfer, Link!Tx!txTimers, txTimers, Link!Tx!txClock, txClock,
     Link!Tx!txHistory, txHistory, Link!Tx!txTrace, txTrace
<1> QED BY <1>1, <1>2, <1>3 DEF Link!HostSends

LEMMA TickSteps ==
  ASSUME Link!TxTicks
  PROVE  /\ timer_100ms_RBINT \/ timer_1s_RBINT
         /\ UNCHANGED <<Link!rxVars, Link!linkVars>>
<1>1. Link!Tx!timer_100ms_RBINT = timer_100ms_RBINT
  BY DEF Link!Tx!timer_100ms_RBINT, timer_100ms_RBINT, Link!Tx!txTransfer,
     txTransfer, Link!Tx!txHost, txHost, Link!Tx!txPending, txPending,
     Link!Tx!txHistory, txHistory, Link!Tx!txTrace, txTrace,
     Link!Tx!TIME100MS, TIME100MS, Link!Tx!Tick, Tick,
     Link!Tx!Overflow, Overflow
<1>2. Link!Tx!timer_1s_RBINT = timer_1s_RBINT
  BY DEF Link!Tx!timer_1s_RBINT, timer_1s_RBINT, Link!Tx!txTransfer,
     txTransfer, Link!Tx!txHost, txHost, Link!Tx!txPending, txPending,
     Link!Tx!txHistory, txHistory, Link!Tx!txTrace, txTrace,
     Link!Tx!TIME1S, TIME1S, Link!Tx!Tick, Tick,
     Link!Tx!Overflow, Overflow
<1> QED BY <1>1, <1>2 DEF Link!TxTicks

LEMMA TransferSteps ==
  ASSUME Link!TxTransfers
  PROVE  /\ time10mshandle \/ blockSendRetryTimer
         /\ net' = IF sent' # sent THEN net \cup {sent'[Len(sent')]} ELSE net
         /\ carried' = IF f_Mesh_Tx_Ready /\ ~f_Mesh_Tx_Ready'
                       THEN BLE_TX_DATA ELSE carried
         /\ spoilt' = (spoilt \/ ~measured')
         /\ UNCHANGED <<Link!rxOwn, rx_100ms, rx_1s, delivered>>
<1>1. Link!Tx!time10mshandle = time10mshandle
  BY DEF Link!Tx!time10mshandle, time10mshandle, Link!Tx!txHost, txHost,
     Link!Tx!txClock, txClock, Link!Tx!Idle, Idle,
     Link!Tx!C_T_tMeshTimeOut2s, C_T_tMeshTimeOut2s,
     Link!Tx!Mesh_TxData_Handle, Mesh_TxData_Handle,
     Link!Tx!Block_Send_Num, Block_Send_Num, Link!Tx!Block_Send_Mod,
     Block_Send_Mod, Link!Tx!Tx_Data_Buffer_len, Tx_Data_Buffer_len,
     Link!Tx!PacketAt, PacketAt, Link!Tx!PacketLen, PacketLen,
     Link!Tx!Blank, Blank, Link!Tx!DataBlockSend, DataBlockSend,
     Link!Tx!BLOCK_SEND_RETRY_TIME, BLOCK_SEND_RETRY_TIME,
     Link!Tx!MAX_DATA_BLACK_PACKET_SIZE, MAX_DATA_BLACK_PACKET_SIZE,
     Link!Tx!previousIsOver, previousIsOver, Link!Tx!fov, fov,
     Link!Tx!Overflow, Overflow
<1>2. Link!Tx!blockSendRetryTimer = blockSendRetryTimer
  BY DEF Link!Tx!blockSendRetryTimer, blockSendRetryTimer, Link!Tx!txHost,
     txHost, Link!Tx!txPending, txPending, Link!Tx!txClock, txClock,
     Link!Tx!C_T_tmfTxdataWait100ms, C_T_tmfTxdataWait100ms,
     Link!Tx!PacketAt, PacketAt, Link!Tx!PacketLen, PacketLen,
     Link!Tx!Blank, Blank, Link!Tx!DataBlockSend, DataBlockSend,
     Link!Tx!BLOCK_SEND_RETRY_TIME, BLOCK_SEND_RETRY_TIME,
     Link!Tx!MAX_DATA_BLACK_PACKET_SIZE, MAX_DATA_BLACK_PACKET_SIZE,
     Link!Tx!TIMER_INVALID, TIMER_INVALID
<1> QED BY <1>1, <1>2 DEF Link!TxTransfers, Link!Last

LEMMA PassSteps ==
  ASSUME Link!Pass
  PROVE  /\ txPass /\ net = {} /\ rx_100ms > 0 /\ rx_1s > 0
         /\ ~Link!Rx!reopens /\ ~UartTxDataType
         /\ rx_100ms' = rx_100ms - 1 /\ rx_1s' = rx_1s - 1
         /\ UNCHANGED <<Link!rxVars, carried, delivered, spoilt>>
<1>1. Link!Tx!txPass = txPass
  BY DEF Link!Tx!txPass, txPass, Link!Tx!txIdle, txIdle,
     Link!Tx!previousIsOver, previousIsOver, Link!Tx!fov, fov,
     Link!Tx!Overflow, Overflow, Link!Tx!TIMER_INVALID, TIMER_INVALID,
     Link!Tx!BLOCK_SEND_RETRY_TIME, BLOCK_SEND_RETRY_TIME,
     Link!Tx!txHost, txHost, Link!Tx!txPending, txPending,
     Link!Tx!txTimers, txTimers
<1> QED BY <1>1 DEF Link!Pass

------------------------------------------------------------------------------
(* What the receiver makes of the packets of a frame, in their order.      *)

(* The slots when the first n packets of f are in.                         *)
Filled(f, n) == [i \in 1 .. 4 |-> IF i <= n THEN f ELSE None]

(* The frame is complete, and left for the UART.                           *)
Completes ==
  /\ f_rxmeshdata' = {}
  /\ tmeshfinishdataWait100ms' = 1
  /\ RX_MESH_ID' = Node /\ UartTxDataType' = TRUE

(* The k-th of the n packets of a frame.                                   *)
PacketOf(p, f, k, n) ==
  p.frame = f /\ p.seq = k /\ p.total = n /\ p.len > 3

LEMMA WholeIsAccepted ==
  ASSUME NEW f \in Frame, NEW n \in 1 .. 4,
         Block_Send_Num(FrameLen[f]) = n
  PROVE  Link!Rx!MeshRxdCheck_New(Filled(f, n)) = {TRUE}
<1>1. Filled(f, n)[1] = f /\ \A i \in 1 .. n : Filled(f, n)[i] = f
  BY DEF Filled
<1>2. Link!Tx!Block_Send_Num(FrameLen[f]) = n
  BY DEF Link!Tx!Block_Send_Num, Link!Tx!Block_Send_Mod, Block_Send_Num,
     Block_Send_Mod
<1>3. Link!Rx!Pure(Filled(f, n))
  BY <1>1, <1>2, FrameAssumption DEF Link!Rx!Pure
<1> QED BY <1>3 DEF Link!Rx!MeshRxdCheck_New

LEMMA FirstPacket ==
  ASSUME NEW f \in Frame, NEW n \in 1 .. 4, Block_Send_Num(FrameLen[f]) = n,
         NEW p \in net, PacketOf(p, f, 1, n), Link!Rx!Receive(p),
         f_Block_Buffer_Empty, f_rxmeshdata = {},
         BLE_RX_DATA = Link!Rx!Cleared
  PROVE  /\ net' = net \ {p} /\ f_Block_Buffer_Empty' = FALSE
         /\ rx_src_id' = Node /\ Rx_MessageID' = f
         /\ tRxMeshTimeOut2s' = 2
         /\ BLE_RX_DATA' = Filled(f, 1)
         /\ IF n = 1 THEN Completes
            ELSE /\ f_rxmeshdata' = 1 .. 1
                 /\ UNCHANGED <<tmeshfinishdataWait100ms, RX_MESH_ID,
                                UartTxDataType>>
<1>1. f # None
  BY FrameAssumption
<1>2. net' = net \ {p} /\ Link!Rx!open(p) /\ Link!Rx!take(p)
  BY <1>1 DEF Link!Rx!Receive, Link!Rx!handleCSRmeshDataBlockInd, PacketOf
<1>3. /\ f_Block_Buffer_Empty' = FALSE /\ rx_src_id' = Node
      /\ Rx_MessageID' = f /\ tRxMeshTimeOut2s' = 2
  BY <1>2 DEF Link!Rx!open, PacketOf, Link!Rx!C_T_tRxMeshTimeOut2s
<1>4. Link!Rx!stored(p) = Filled(f, 1)
  BY DEF Link!Rx!stored, Link!Rx!Cleared, Link!Rx!Slot, PacketOf, Filled
<1>5. Link!Rx!lastOf(p) <=> n = 1
  BY DEF Link!Rx!lastOf, PacketOf
<1>6. CASE n = 1
  <2>1. /\ BLE_RX_DATA' = Filled(f, 1)
        /\ f_rxmeshdata' = ({} \cup {1}) \ 1 .. 1
        /\ Link!Rx!finish(Filled(f, 1), Node)
    BY <1>2, <1>3, <1>4, <1>5, <1>6 DEF Link!Rx!take, PacketOf
  <2>2. Link!Rx!MeshRxdCheck_New(Filled(f, 1)) = {TRUE}
    BY <1>6, WholeIsAccepted
  <2>3. /\ tmeshfinishdataWait100ms' = 1 /\ RX_MESH_ID' = Node
        /\ UartTxDataType' = TRUE
    BY <2>1, <2>2 DEF Link!Rx!finish, Link!Rx!C_T_tmeshfinishdataWait100ms
  <2> QED BY <1>2, <1>3, <1>6, <2>1, <2>3 DEF Completes
<1>7. CASE n # 1
  BY <1>2, <1>3, <1>4, <1>5, <1>7 DEF Link!Rx!take, PacketOf, Link!Rx!rxReport
<1> QED BY <1>6, <1>7

LEMMA NextPacket ==
  ASSUME NEW f \in Frame, NEW n \in 1 .. 4, Block_Send_Num(FrameLen[f]) = n,
         NEW k \in 2 .. n,
         NEW p \in net, PacketOf(p, f, k, n), Link!Rx!Receive(p),
         ~f_Block_Buffer_Empty, rx_src_id = Node, Rx_MessageID = f,
         f_rxmeshdata = 1 .. k - 1, BLE_RX_DATA = Filled(f, k - 1)
  PROVE  /\ net' = net \ {p}
         /\ UNCHANGED <<f_Block_Buffer_Empty, rx_src_id, Rx_MessageID,
                        tRxMeshTimeOut2s>>
         /\ BLE_RX_DATA' = Filled(f, k)
         /\ IF k = n THEN Completes
            ELSE /\ f_rxmeshdata' = 1 .. k
                 /\ UNCHANGED <<tmeshfinishdataWait100ms, RX_MESH_ID,
                                UartTxDataType>>
<1>1. f # None
  BY FrameAssumption
<1>2. Link!Rx!belongs(p)
  BY DEF Link!Rx!belongs, PacketOf
<1>3. net' = net \ {p} /\ Link!Rx!open(p) /\ Link!Rx!take(p)
  BY <1>1, <1>2
  DEF Link!Rx!Receive, Link!Rx!handleCSRmeshDataBlockInd, PacketOf
<1>4. UNCHANGED <<f_Block_Buffer_Empty, rx_src_id, Rx_MessageID,
                  tRxMeshTimeOut2s>>
  BY <1>3 DEF Link!Rx!open
<1>5. Link!Rx!stored(p) = Filled(f, k)
  BY DEF Link!Rx!stored, PacketOf, Filled
<1>6. Link!Rx!lastOf(p) <=> k = n
  BY DEF Link!Rx!lastOf, PacketOf
<1>7. (1 .. k - 1) \cup {k} = 1 .. k
  OBVIOUS
<1>8. CASE k = n
  <2>1. /\ BLE_RX_DATA' = Filled(f, k)
        /\ f_rxmeshdata' = ((1 .. k - 1) \cup {k}) \ 1 .. n
        /\ Link!Rx!finish(Filled(f, k), Node)
    BY <1>3, <1>4, <1>5, <1>6, <1>8 DEF Link!Rx!take, PacketOf
  <2>2. Link!Rx!MeshRxdCheck_New(Filled(f, k)) = {TRUE}
    BY <1>8, WholeIsAccepted
  <2>3. /\ tmeshfinishdataWait100ms' = 1 /\ RX_MESH_ID' = Node
        /\ UartTxDataType' = TRUE
    BY <2>1, <2>2 DEF Link!Rx!finish, Link!Rx!C_T_tmeshfinishdataWait100ms
  <2>4. f_rxmeshdata' = {}
    BY <1>7, <1>8, <2>1
  <2> QED BY <1>3, <1>4, <1>8, <2>1, <2>3, <2>4 DEF Completes
<1>9. CASE k # n
  BY <1>3, <1>4, <1>5, <1>6, <1>7, <1>9
  DEF Link!Rx!take, PacketOf, Link!Rx!rxReport
<1> QED BY <1>8, <1>9

------------------------------------------------------------------------------
(* What the receiver sees of the sender.                                   *)

SenderInv == Inv /\ SentInv /\ measured

Num == Block_Send_Num(FrameLen[sending])

(* A transfer sends no more packets than its frame has.                    *)
CountInv == IF sending = None THEN sent = <<>> ELSE Len(sent) <= Num

LEMMA FrameNumbers ==
  ASSUME FramesSuit, NEW f \in Frame
  PROVE  /\ Block_Send_Num(FrameLen[f]) \in 1 .. 4
         /\ Tx_Data_Buffer_len(FrameLen[f])
              <= 10 * (Block_Send_Num(FrameLen[f]) - 1) + 9
         /\ Block_Send_Mod(FrameLen[f]) \in 1 .. 6
<1>1. FrameLen[f] \in 3 .. 37
  BY FrameLenAssumption
<1>2. Block_Send_Mod(FrameLen[f]) # 0 /\ Block_Send_Num(FrameLen[f]) <= 4
  BY DEF FramesSuit
<1> QED BY <1>1, <1>2
        DEF Block_Send_Num, Block_Send_Mod, Tx_Data_Buffer_len

LEMMA SentPacketOf ==
  ASSUME FramesSuit, NEW f \in Frame,
         NEW k \in 1 .. Block_Send_Num(FrameLen[f])
  PROVE  PacketOf(PacketsOf(f)[k], f, k, Block_Send_Num(FrameLen[f]))
<1> DEFINE num == Block_Send_Num(FrameLen[f])
           mod == Block_Send_Mod(FrameLen[f])
           len == IF k = num /\ mod # 0 THEN mod + 3 ELSE 10
<1>1. mod \in 1 .. 6
  BY FrameNumbers
<1>2. PacketsOf(f)[k] = [frame |-> f, seq |-> k, total |-> num, len |-> len]
  BY DEF PacketsOf
<1>3. len > 3
  BY <1>1
<1> QED BY <1>2, <1>3 DEF PacketOf

(* A packet that was sent is the next of its frame.                        *)
LEMMA SentIsPacket ==
  FramesSuit /\ SenderInv /\ CountInv /\ sending # None =>
    /\ sending \in Frame /\ Num \in 1 .. 4
    /\ Len(sent) \in 1 .. Num
    /\ PacketOf(sent[Len(sent)], sending, Len(sent), Num)
    /\ ~Sending => Len(sent) = Num
<1> SUFFICES ASSUME FramesSuit, SenderInv, CountInv, sending # None
             PROVE  /\ sending \in Frame /\ Num \in 1 .. 4
                    /\ Len(sent) \in 1 .. Num
                    /\ PacketOf(sent[Len(sent)], sending, Len(sent), Num)
                    /\ ~Sending => Len(sent) = Num
  OBVIOUS
<1>1. sending \in Frame
  BY DEF SenderInv, Inv, HostTypes
<1>2. Num \in 1 .. 4
  BY <1>1, FrameNumbers DEF Num
<1>3. sent \in Seq(SentPacket) /\ Underway
  BY DEF SenderInv, Inv, SentTypes, SentInv
<1>4. Len(sent) \in 1 .. Num /\ (~Sending => Len(sent) = Num)
  BY <1>2, <1>3 DEF CountInv, Underway, Num
<1>5. sent[Len(sent)] = PacketsOf(sending)[Len(sent)]
  <2>1. \A i \in 1 .. Num : i <= Len(sent) => sent[i] = PacketsOf(sending)[i]
    BY <1>3 DEF Underway, Num
  <2>2. Len(sent) <= Len(sent)
    BY <1>2, <1>4
  <2> QED BY <1>4, <2>1, <2>2
<1> QED BY <1>1, <1>2, <1>4, <1>5, SentPacketOf DEF Num

LEMMA SendingCounts ==
  FramesSuit /\ SenderInv /\ Sending /\ sending # None => Len(sent) <= Num
<1> SUFFICES ASSUME FramesSuit, SenderInv, Sending, sending # None
             PROVE  Len(sent) <= Num
  OBVIOUS
<1>1. sending \in Frame
  BY DEF SenderInv, Inv, HostTypes
<1>2. /\ Num \in 1 .. 4
      /\ Tx_Data_Buffer_len(FrameLen[sending]) <= 10 * (Num - 1) + 9
  BY <1>1, FrameNumbers DEF Num
<1>3. /\ device_info_length = Tx_Data_Buffer_len(FrameLen[sending])
      /\ tx_stream_offset = 10 * (Len(sent) - 1)
      /\ tx_stream_offset < device_info_length
      /\ Len(sent) \in Nat
  BY DEF SenderInv, Inv, SentInv, Underway, TransferInv, SentTypes
<1>4. device_info_length \in Nat
  BY DEF SenderInv, Inv, NumberTypes
<1> QED BY <1>2, <1>3, <1>4

LEMMA StepsKeepSender ==
  FramesSuit /\ SenderInv /\ [Next]_vars /\ measured' => SenderInv'
<1>1. FramesSuit => FramesFit
  BY DEF FramesSuit, FramesFit
<1> QED BY <1>1, StepKeeps, SentStepKeeps DEF SenderInv

(* A transfer starts, goes on or ends.                                     *)
Starts ==
  /\ f_Mesh_Tx_Ready /\ f_Mesh_Tx_Ready' = FALSE
  /\ sending' = BLE_TX_DATA /\ BLE_TX_DATA \in Frame
  /\ ~Sending /\ gap = 3 /\ gap' = 0 /\ Len(sent') = 1
  /\ measured' = (BLE_TX_DATA_LENGTH = FrameLen[BLE_TX_DATA])
Continues ==
  /\ UNCHANGED <<sending, measured, f_Mesh_Tx_Ready>> /\ sending # None
  /\ gap = 3 /\ gap' = 0 /\ Len(sent') = Len(sent) + 1
Ends == UNCHANGED <<sending, measured, f_Mesh_Tx_Ready, sent, gap>>

LEMMA TransferSends ==
  ASSUME SenderInv, time10mshandle \/ blockSendRetryTimer
  PROVE  /\ Starts \/ Continues \/ Ends
         /\ UNCHANGED <<unsent, f_rxdataOK, WifiRxData, BLE_TX_DATA,
                        BLE_TX_DATA_LENGTH>>
<1>1. CASE time10mshandle
  <2>1. ~Sending /\ gap = 3
    BY <1>1, OverMeansOver
    DEF SenderInv, time10mshandle, BLOCK_SEND_RETRY_TIME
  <2>2. Len(sent') = 1 /\ gap' = 0
    BY <1>1 DEF time10mshandle, DataBlockSend
  <2>3. f_Mesh_Tx_Ready /\ BLE_TX_DATA \in Frame
    BY <1>1 DEF time10mshandle, SenderInv, Inv, PendingInv
  <2> QED BY <1>1, <2>1, <2>2, <2>3 DEF time10mshandle, Starts, txHost
<1>2. CASE blockSendRetryTimer
  <2>1. Sending /\ gap = 3 /\ sending # None /\ sent \in Seq(SentPacket)
    BY <1>2 DEF SenderInv, Inv, GapInv, TransferInv, SentTypes, Sending,
       blockSendRetryTimer, BLOCK_SEND_RETRY_TIME, TIMER_INVALID
  <2>2. Continues \/ Ends
    <3>1. CASE UNCHANGED <<sent, gap>>
      BY <1>2, <3>1 DEF blockSendRetryTimer, Ends, txPending
    <3>2. CASE ~UNCHANGED <<sent, gap>>
      <4>1. PICK q : sent' = Append(sent, q) /\ gap' = 0
        BY <1>2, <3>2 DEF blockSendRetryTimer, DataBlockSend
      <4>2. Len(sent') = Len(sent) + 1
        BY <2>1, <4>1
      <4> QED BY <1>2, <2>1, <4>1, <4>2
              DEF blockSendRetryTimer, Continues, txPending
    <3> QED BY <3>1, <3>2
  <2> QED BY <1>2, <2>2 DEF blockSendRetryTimer, txHost, txPending
<1> QED BY <1>1, <1>2

LEMMA TransferCounts ==
  ASSUME FramesSuit, SenderInv, CountInv, SenderInv',
         time10mshandle \/ blockSendRetryTimer
  PROVE  CountInv'
<1>1. Starts \/ Continues \/ Ends
  BY TransferSends
<1>2. CASE Ends
  BY <1>2 DEF Ends, CountInv, Num
<1>3. CASE Starts
  <2>1. sending' \in Frame /\ sending' # None /\ Len(sent') = 1
    BY <1>3, FrameAssumption DEF Starts
  <2>2. Block_Send_Num(FrameLen[sending']) \in 1 .. 4
    BY <2>1, FrameNumbers
  <2> QED BY <2>1, <2>2 DEF CountInv, Num
<1>4. CASE Continues
  <2>1. sending' # None
    BY <1>4 DEF Continues
  <2>2. Sending'
    <3>1. block_send_retry_tid' = BLOCK_SEND_RETRY_TIME \/ UNCHANGED gap
      BY DEF time10mshandle, blockSendRetryTimer, DataBlockSend
    <3>2. ~UNCHANGED gap
      BY <1>4 DEF Continues
    <3> QED BY <3>1, <3>2 DEF Sending, BLOCK_SEND_RETRY_TIME, TIMER_INVALID
  <2>3. (FramesSuit /\ SenderInv /\ Sending /\ sending # None
           => Len(sent) <= Num)'
    BY SendingCounts, PTL
  <2> QED BY <2>1, <2>2, <2>3 DEF CountInv, FramesSuit
<1> QED BY <1>1, <1>2, <1>3, <1>4

------------------------------------------------------------------------------
(* The invariant of the link.                                              *)

(* The frames given to the sending module: each comes once, so the one in  *)
(* transfer, the one that waits and the one not checked yet differ.        *)
GivenInv ==
  /\ sending \notin unsent
  /\ f_rxdataOK => WifiRxData \notin unsent /\ WifiRxData # sending
  /\ f_Mesh_Tx_Ready => BLE_TX_DATA \notin unsent /\ BLE_TX_DATA # sending
  /\ f_rxdataOK /\ f_Mesh_Tx_Ready => WifiRxData # BLE_TX_DATA

(* On its way is at most the packet sent last, in the unit it was sent in. *)
MeshInv ==
  net # {} => sending # None /\ net = {sent[Len(sent)]} /\ gap = 0

(* Packets of the frame in transfer that the receiver got.                 *)
Got == IF net = {} THEN Len(sent) ELSE Len(sent) - 1

(* Units to the overflow of the receiver's timeout, and since the first    *)
(* packet of the transfer was sent.                                        *)
UnitsToReopen == rx_1s + 20 * (tRxMeshTimeOut2s - 1)
UnitsGone == 3 * (Len(sent) - 1) + gap

ClockInv ==
  /\ rx_100ms \in 0 .. 2 /\ rx_1s \in 0 .. 20
  /\ tRxMeshTimeOut2s \in -1 .. 2
  /\ f_Block_Buffer_Empty \in BOOLEAN /\ UartTxDataType \in BOOLEAN
  /\ f_Block_Buffer_Empty =>
       tRxMeshTimeOut2s = 0 /\ tmeshfinishdataWait100ms = 0

(* Before the first packet, the buffer is open and holds nothing of an     *)
(* earlier frame.                                                          *)
BeforeInv ==
  Got = 0 => /\ f_Block_Buffer_Empty /\ UartTxDataType = FALSE
             /\ f_rxmeshdata = {} /\ BLE_RX_DATA = Link!Rx!Cleared

(* Until the last one, the packets so far are in their slots, and the      *)
(* timeout is far: it comes 20 units after the first packet at the least.  *)
DuringInv ==
  sending # None /\ Got > 0 /\ Got < Num =>
    /\ f_Block_Buffer_Empty = FALSE /\ UartTxDataType = FALSE
    /\ rx_src_id = Node /\ Rx_MessageID = sending
    /\ f_rxmeshdata = 1 .. Got /\ BLE_RX_DATA = Filled(sending, Got)
    /\ tmeshfinishdataWait100ms = 0 /\ tRxMeshTimeOut2s > 0
    /\ UnitsToReopen + UnitsGone >= 20

(* After the last one, the frame is reported in the same unit, and the     *)
(* buffer is open again before the sender has waited for three units.      *)
AfterInv ==
  sending # None /\ Got = Num =>
    /\ f_rxmeshdata = {}
    /\ UartTxDataType => /\ BLE_RX_DATA = Filled(sending, Num)
                         /\ RX_MESH_ID = Node
                         /\ gap = 0
    /\ ~UartTxDataType => BLE_RX_DATA = Link!Rx!Cleared
    /\ ~f_Block_Buffer_Empty =>
         \/ tmeshfinishdataWait100ms = 1 /\ gap + rx_100ms <= 2
         \/ tmeshfinishdataWait100ms = -1 /\ gap <= 2

ReceiverInv == ClockInv /\ BeforeInv /\ DuringInv /\ AfterInv

(* What the channel carries is the frame in transfer until its report is   *)
(* taken.                                                                  *)
UnderWay == sending # None /\ (Got < Num \/ UartTxDataType)

OrderInv == spoilt = FALSE /\ carried = IF UnderWay THEN sending ELSE None

LEMMA GotNumbers ==
  ASSUME FramesSuit, SenderInv, CountInv, MeshInv
  PROVE  /\ sending = None => net = {} /\ Got = 0
         /\ sending # None =>
              /\ sending \in Frame /\ Num \in 1 .. 4
              /\ Got \in 0 .. Num /\ Len(sent) \in 1 .. Num
              /\ PacketOf(sent[Len(sent)], sending, Len(sent), Num)
              /\ ~Sending => Len(sent) = Num
         /\ net = {} => Got = Len(sent)
         /\ net # {} => Got = Len(sent) - 1 /\ gap = 0
         /\ Got \in Nat /\ gap \in 0 .. 3
<1>1. net = {} => Got = Len(sent)
  BY DEF Got
<1>2. net # {} => Got = Len(sent) - 1 /\ gap = 0
  BY DEF Got, MeshInv
<1>3. gap \in 0 .. 3
  BY DEF SenderInv, Inv, NumberTypes, BLOCK_SEND_RETRY_TIME
<1>4. CASE sending = None
  <2>1. net = {} /\ Len(sent) = 0
    BY <1>4 DEF MeshInv, CountInv
  <2> QED BY <1>1, <1>2, <1>3, <1>4, <2>1
<1>5. CASE sending # None
  <2>1. /\ sending \in Frame /\ Num \in 1 .. 4 /\ Len(sent) \in 1 .. Num
        /\ PacketOf(sent[Len(sent)], sending, Len(sent), Num)
        /\ ~Sending => Len(sent) = Num
    BY <1>5, SentIsPacket
  <2>2. Got \in 0 .. Num /\ Got \in Nat
    BY <1>1, <1>2, <2>1
  <2> QED BY <1>1, <1>2, <1>3, <1>5, <2>1, <2>2
<1> QED BY <1>4, <1>5

LinkInv ==
  /\ SenderInv /\ CountInv /\ GivenInv
  /\ MeshInv /\ ReceiverInv /\ OrderInv

LEMMA LinkInitially ==
  ASSUME RxPhase1s \subseteq 1 .. 20, Link!Init
  PROVE  LinkInv
<1>1. Link!Tx!Init = Init
  BY DEF Link!Tx!Init, Init, Link!Tx!Blank, Blank, Link!Tx!TIMER_INVALID,
     TIMER_INVALID, Link!Tx!Idle, Idle, Link!Tx!TIME100MS, TIME100MS,
     Link!Tx!BLOCK_SEND_RETRY_TIME, BLOCK_SEND_RETRY_TIME
<1>2. /\ Init /\ Link!Rx!RxInit /\ net = {}
      /\ rx_100ms \in 1 .. 2 /\ rx_1s \in RxPhase1s
      /\ carried = None /\ spoilt = FALSE
  BY <1>1 DEF Link!Init, Link!Tx!TIME100MS
<1>3. SenderInv
  BY <1>2, Initially, SentInitially DEF SenderInv, Init
<1>4. /\ sending = None /\ sent = <<>> /\ unsent = Frame
      /\ f_rxdataOK = FALSE /\ f_Mesh_Tx_Ready = FALSE
  BY <1>2 DEF Init
<1>5. CountInv /\ GivenInv /\ MeshInv
  BY <1>2, <1>4, FrameAssumption DEF CountInv, GivenInv, MeshInv
<1>6. Got = 0
  BY <1>2, <1>4 DEF Got
<1>7. ReceiverInv
  <2>1. ClockInv
    <3>1. rx_100ms \in 0 .. 2 /\ rx_1s \in 0 .. 20
      BY <1>2
    <3>2. /\ tRxMeshTimeOut2s = 0 /\ tmeshfinishdataWait100ms = 0
          /\ f_Block_Buffer_Empty = TRUE /\ UartTxDataType = FALSE
      BY <1>2 DEF Link!Rx!RxInit, Link!Rx!Idle
    <3>3. 0 \in -1 .. 2
      OBVIOUS
    <3> QED BY <3>1, <3>2, <3>3 DEF ClockInv
  <2>2. BeforeInv
    BY <1>2, Zenon DEF BeforeInv, Link!Rx!RxInit
  <2>3. DuringInv /\ AfterInv
    BY <1>4 DEF DuringInv, AfterInv
  <2> QED BY <2>1, <2>2, <2>3 DEF ReceiverInv
<1>8. OrderInv
  BY <1>2, <1>4 DEF OrderInv, UnderWay
<1> QED BY <1>3, <1>5, <1>7, <1>8 DEF LinkInv

(* A step of the sender keeps what is said of the sender.                  *)
LEMMA SenderKept ==
  ASSUME FramesSuit, SenderInv, Next, measured'
  PROVE  SenderInv'
  BY StepsKeepSender

(* A step that means nothing to the channel.                               *)
ChannelSame ==
  UNCHANGED <<f_Mesh_Tx_Ready, BLE_TX_DATA, BLE_TX_DATA_LENGTH, carried,
              delivered, spoilt>>

LEMMA SameStutters ==
  ASSUME ChannelSame
  PROVE  UNCHANGED Link!Channel!vars
  BY DEF ChannelSame, Link!Channel!vars

(* A step that neither transfers, receives nor reports.                    *)
Aside == UNCHANGED <<net, sent, sending, gap, Link!rxOwn, rx_100ms, rx_1s>>

LEMMA AsideKeeps ==
  ASSUME Aside, CountInv, MeshInv, ReceiverInv
  PROVE  CountInv' /\ MeshInv' /\ ReceiverInv' /\ UnderWay' = UnderWay
<1>1. Got' = Got /\ Num' = Num /\ UnitsToReopen' = UnitsToReopen
      /\ UnitsGone' = UnitsGone
  BY DEF Aside, Got, Num, UnitsToReopen, UnitsGone, Link!rxOwn
<1>2. CountInv' /\ MeshInv' /\ UnderWay' = UnderWay
  BY <1>1 DEF Aside, CountInv, MeshInv, UnderWay, Link!rxOwn
<1>3. ClockInv' /\ BeforeInv'
  BY <1>1 DEF Aside, ReceiverInv, ClockInv, BeforeInv, Link!rxOwn,
     Link!Rx!Cleared, Link!Rx!Slot
<1>4. DuringInv'
  BY <1>1 DEF Aside, ReceiverInv, DuringInv, Link!rxOwn, Filled
<1>5. AfterInv'
  BY <1>1 DEF Aside, ReceiverInv, AfterInv, Link!rxOwn, Filled,
     Link!Rx!Cleared, Link!Rx!Slot
<1> QED BY <1>2, <1>3, <1>4, <1>5 DEF ReceiverInv

LEMMA TicksKeepLink ==
  ASSUME FramesSuit, LinkInv, Link!TxTicks
  PROVE  LinkInv' /\ ChannelSame
<1>1. /\ timer_100ms_RBINT \/ timer_1s_RBINT
      /\ UNCHANGED <<Link!rxVars, Link!linkVars>>
  BY TickSteps
<1>2. Aside
  BY <1>1 DEF Aside, Link!rxVars, Link!linkVars, timer_100ms_RBINT,
     timer_1s_RBINT, txHistory, txTrace
<1>3. UNCHANGED <<unsent, f_rxdataOK, WifiRxData, f_Mesh_Tx_Ready,
                  BLE_TX_DATA, BLE_TX_DATA_LENGTH, measured>>
  BY <1>1 DEF timer_100ms_RBINT, timer_1s_RBINT, txHost, txPending, txHistory
<1>4. SenderInv'
  BY <1>1, <1>3, SenderKept DEF LinkInv, Next, SenderInv
<1>5. CountInv' /\ MeshInv' /\ ReceiverInv' /\ UnderWay' = UnderWay
  BY <1>2, AsideKeeps DEF LinkInv
<1>6. GivenInv'
  BY <1>2, <1>3 DEF LinkInv, GivenInv, Aside
<1>7. ChannelSame
  BY <1>1, <1>3 DEF ChannelSame, Link!linkVars
<1>8. OrderInv'
  BY <1>2, <1>5, <1>7 DEF LinkInv, OrderInv, Aside, ChannelSame
<1> QED BY <1>4, <1>5, <1>6, <1>7, <1>8 DEF LinkInv

(* The channel takes a frame, or one comes in behind another.              *)
LEMMA HostKeepsLink ==
  ASSUME FramesSuit, LinkInv, Link!HostSends
  PROVE  /\ LinkInv'
         /\ \/ ChannelSame
            \/ Link!Channel!Arrive
            \/ \E f \in Frame : Link!Channel!Accept(f)
            \/ UNCHANGED Link!Channel!vars
<1>1. /\ \/ \E f \in unsent : uartRxDataCallback(f)
         \/ WifiRxdCheckFails
         \/ WifiRxdDataDo_New
      /\ UNCHANGED <<Link!rxVars, Link!linkVars>>
  BY HostSteps
<1>2. Aside /\ UNCHANGED <<carried, delivered, spoilt, measured>>
  BY <1>1 DEF Aside, Link!rxVars, Link!linkVars, uartRxDataCallback,
     WifiRxdCheckFails, WifiRxdDataDo_New, txHistory, txTrace
<1>3. CountInv' /\ MeshInv' /\ ReceiverInv' /\ UnderWay' = UnderWay
  BY <1>2, AsideKeeps DEF LinkInv
<1>4. SenderInv'
  BY <1>1, <1>2, SenderKept DEF LinkInv, Next, SenderInv
<1>5. OrderInv'
  BY <1>2, <1>3 DEF LinkInv, OrderInv, Aside
<1>6. CASE \E f \in unsent : uartRxDataCallback(f)
  <2>1. PICK f \in unsent : uartRxDataCallback(f)
    BY <1>6
  <2>2. /\ f_rxdataOK' = TRUE /\ WifiRxData' = f /\ unsent' = unsent \ {f}
        /\ UNCHANGED <<f_Mesh_Tx_Ready, BLE_TX_DATA, sending>>
    BY <2>1 DEF uartRxDataCallback, txHistory, txTrace
  <2>3. GivenInv'
    BY <2>2 DEF LinkInv, GivenInv
  <2>4. CASE f_Mesh_Tx_Ready
    <3>1. BLE_TX_DATA \in Frame /\ BLE_TX_DATA # None
      BY <2>4, FrameAssumption DEF LinkInv, SenderInv, Inv, PendingInv
    <3>2. Link!Channel!Arrive
      BY <1>2, <2>2, <2>4, <3>1 DEF Link!Channel!Arrive
    <3> QED BY <1>3, <1>4, <1>5, <2>3, <3>2 DEF LinkInv
  <2>5. CASE ~f_Mesh_Tx_Ready
    <3>1. UNCHANGED Link!Channel!vars
      BY <1>2, <2>2, <2>5 DEF Link!Channel!vars
    <3> QED BY <1>3, <1>4, <1>5, <2>3, <3>1 DEF LinkInv
  <2> QED BY <2>4, <2>5
<1>7. CASE WifiRxdCheckFails
  <2>1. /\ f_rxdataOK' = FALSE
        /\ UNCHANGED <<f_Mesh_Tx_Ready, BLE_TX_DATA, BLE_TX_DATA_LENGTH,
                       sending, unsent>>
    BY <1>7 DEF WifiRxdCheckFails, txPending, txHistory, txTrace
  <2>2. GivenInv'
    BY <2>1 DEF LinkInv, GivenInv
  <2>3. ChannelSame
    BY <1>2, <2>1 DEF ChannelSame
  <2> QED BY <1>3, <1>4, <1>5, <2>2, <2>3 DEF LinkInv
<1>8. CASE WifiRxdDataDo_New
  <2>1. /\ f_rxdataOK /\ f_rxdataOK' = FALSE
        /\ f_Mesh_Tx_Ready' = TRUE /\ BLE_TX_DATA' = WifiRxData
        /\ BLE_TX_DATA_LENGTH' = FrameLen[WifiRxData]
        /\ UNCHANGED <<sending, unsent>>
    BY <1>8 DEF WifiRxdDataDo_New, txHistory, txTrace
  <2>2. /\ WifiRxData \in Frame
        /\ WifiRxData \notin unsent /\ WifiRxData # sending
    BY <2>1 DEF LinkInv, SenderInv, Inv, PendingInv, GivenInv
  <2>3. GivenInv'
    BY <2>1, <2>2 DEF LinkInv, GivenInv
  <2>4. Link!Channel!Accept(WifiRxData)
    BY <1>2, <2>1 DEF Link!Channel!Accept
  <2> QED BY <1>3, <1>4, <1>5, <2>2, <2>3, <2>4 DEF LinkInv
<1> QED BY <1>1, <1>6, <1>7, <1>8

(* When a transfer starts, the frame before it has been reported, and the  *)
(* buffer is open.                                                         *)
LEMMA StartKeepsLink ==
  ASSUME FramesSuit, LinkInv, Starts, SenderInv', CountInv',
         net' = IF sent' # sent THEN net \cup {sent'[Len(sent')]} ELSE net,
         carried' = IF f_Mesh_Tx_Ready /\ ~f_Mesh_Tx_Ready'
                    THEN BLE_TX_DATA ELSE carried,
         UNCHANGED <<Link!rxOwn, rx_100ms, rx_1s, spoilt, BLE_TX_DATA>>
  PROVE  MeshInv' /\ ReceiverInv' /\ OrderInv'
<1>1. /\ f_Mesh_Tx_Ready /\ f_Mesh_Tx_Ready' = FALSE
      /\ sending' = BLE_TX_DATA /\ sending' \in Frame /\ sending' # None
      /\ ~Sending /\ gap = 3 /\ gap' = 0 /\ Len(sent') = 1
  BY FrameAssumption DEF Starts
<1>2. net = {} /\ Got = Len(sent)
  BY <1>1, GotNumbers DEF LinkInv
<1>3. sending # None => Got = Num /\ Got \in 1 .. 4
  BY <1>1, <1>2, GotNumbers DEF LinkInv
<1>4. sending = None => Got = 0
  BY GotNumbers DEF LinkInv
<1>5. /\ f_Block_Buffer_Empty /\ UartTxDataType = FALSE
      /\ f_rxmeshdata = {} /\ BLE_RX_DATA = Link!Rx!Cleared
  <2>1. CASE sending = None
    BY <1>4, <2>1 DEF LinkInv, ReceiverInv, BeforeInv
  <2>2. CASE sending # None
    <3>1. AfterInv /\ Got = Num
      BY <1>3, <2>2 DEF LinkInv, ReceiverInv
    <3>2. gap # 0 /\ ~(gap <= 2) /\ ~(gap + rx_100ms <= 2)
      BY <1>1 DEF LinkInv, ReceiverInv, ClockInv
    <3>3. UartTxDataType = FALSE
      BY <2>2, <3>1, <3>2 DEF AfterInv, LinkInv, ReceiverInv, ClockInv
    <3>4. f_Block_Buffer_Empty
      BY <2>2, <3>1, <3>2 DEF AfterInv
    <3> QED BY <2>2, <3>1, <3>3, <3>4 DEF AfterInv
  <2> QED BY <2>1, <2>2
<1>6. sent' # sent
  <2>1. CASE sending = None
    BY <1>1, <2>1 DEF LinkInv, CountInv
  <2>2. CASE sending # None
    <3>1. sent[Len(sent)].frame = sending
      BY <2>2, GotNumbers DEF LinkInv, PacketOf
    <3>2. (FramesSuit /\ SenderInv /\ CountInv /\ sending # None =>
             /\ sending \in Frame /\ Num \in 1 .. 4
             /\ Len(sent) \in 1 .. Num
             /\ PacketOf(sent[Len(sent)], sending, Len(sent), Num)
             /\ ~Sending => Len(sent) = Num)'
      BY SentIsPacket, PTL
    <3>3. sent'[Len(sent')].frame = sending'
      BY <1>1, <3>2 DEF FramesSuit, PacketOf
    <3>4. sending' # sending
      BY <1>1 DEF LinkInv, GivenInv
    <3> QED BY <3>1, <3>3, <3>4
  <2> QED BY <2>1, <2>2
<1>7. net' = {sent'[Len(sent')]}
  BY <1>2, <1>6
<1>8. MeshInv'
  BY <1>1, <1>7 DEF MeshInv
<1>9. Got' = 0
  <2>1. net' # {}
    BY <1>7
  <2> QED BY <1>1, <2>1 DEF Got
<1>10. Num' \in 1 .. 4
  BY <1>1, FrameNumbers DEF Num
<1>11. ReceiverInv'
  <2>1. ClockInv'
    BY DEF LinkInv, ReceiverInv, ClockInv, Link!rxOwn
  <2>2. BeforeInv'
    BY <1>5 DEF BeforeInv, Link!rxOwn, Link!Rx!Cleared, Link!Rx!Slot
  <2>3. ~(Got' > 0) /\ Got' # Num'
    BY <1>9, <1>10
  <2> QED BY <2>1, <2>2, <2>3 DEF ReceiverInv, DuringInv, AfterInv
<1>12. UnderWay = FALSE /\ UnderWay' = TRUE
  <2>1. sending # None => ~(Got < Num)
    BY <1>3
  <2>2. Got' < Num'
    BY <1>9, <1>10
  <2> QED BY <1>1, <1>5, <2>1, <2>2 DEF UnderWay
<1>13. OrderInv'
  BY <1>1, <1>12 DEF LinkInv, OrderInv
<1> QED BY <1>8, <1>11, <1>13

(* While a transfer goes on, the receiver keeps up with it.                *)
LEMMA ContinueKeepsLink ==
  ASSUME FramesSuit, LinkInv, Continues, SenderInv', CountInv',
         net' = IF sent' # sent THEN net \cup {sent'[Len(sent')]} ELSE net,
         carried' = IF f_Mesh_Tx_Ready /\ ~f_Mesh_Tx_Ready'
                    THEN BLE_TX_DATA ELSE carried,
         UNCHANGED <<Link!rxOwn, rx_100ms, rx_1s, spoilt, BLE_TX_DATA>>
  PROVE  MeshInv' /\ ReceiverInv' /\ OrderInv'
<1>1. /\ UNCHANGED <<sending, f_Mesh_Tx_Ready>> /\ sending # None
      /\ gap = 3 /\ gap' = 0 /\ Len(sent') = Len(sent) + 1
  BY DEF Continues
<1>2. /\ net = {} /\ Got = Len(sent) /\ Len(sent) \in 1 .. Num
      /\ Num \in 1 .. 4
  BY <1>1, GotNumbers DEF LinkInv
<1>3. Num' = Num /\ Got < Num
  <2>1. Num' = Num
    BY <1>1 DEF Num
  <2>2. Len(sent') <= Num'
    BY <1>1 DEF CountInv
  <2> QED BY <1>1, <1>2, <2>1, <2>2
<1>4. net' = {sent'[Len(sent')]}
  <2>1. sent' # sent
    BY <1>1, <1>2
  <2> QED BY <1>2, <2>1
<1>5. Got' = Got
  <2> DEFINE l == Len(sent')
  <2>1. Got' = l - 1
    BY <1>4 DEF Got
  <2> QED BY <1>1, <1>2, <2>1
<1>6. MeshInv'
  BY <1>1, <1>4 DEF MeshInv
<1>7. UnderWay' = UnderWay
  BY <1>1, <1>3, <1>5 DEF UnderWay, Link!rxOwn
<1>8. OrderInv'
  BY <1>1, <1>7 DEF LinkInv, OrderInv
<1>9. UnitsToReopen' = UnitsToReopen
  BY DEF UnitsToReopen, Link!rxOwn
<1>10. UnitsGone' = UnitsGone
  <2> DEFINE l == Len(sent')
             g == gap'
  <2>1. UnitsGone' = 3 * (l - 1) + g
    BY DEF UnitsGone
  <2>2. l = Len(sent) + 1 /\ g = 0
    BY <1>1
  <2> HIDE DEF l, g
  <2> QED BY <1>1, <1>2, <2>1, <2>2 DEF UnitsGone
<1>11. ClockInv' /\ BeforeInv'
  BY <1>5 DEF LinkInv, ReceiverInv, ClockInv, BeforeInv, Link!rxOwn,
     Link!Rx!Cleared, Link!Rx!Slot
<1>12. DuringInv'
  BY <1>1, <1>3, <1>5, <1>9, <1>10
  DEF LinkInv, ReceiverInv, DuringInv, Link!rxOwn, Filled
<1>13. AfterInv'
  <2>1. Got' # Num'
    BY <1>2, <1>3, <1>5
  <2> QED BY <2>1 DEF AfterInv
<1> QED BY <1>6, <1>8, <1>11, <1>12, <1>13 DEF ReceiverInv

LEMMA TransfersKeepLink ==
  ASSUME FramesSuit, LinkInv, Link!TxTransfers, measured'
  PROVE  LinkInv' /\ (ChannelSame \/ Link!Channel!Begin)
<1>1. /\ time10mshandle \/ blockSendRetryTimer
      /\ net' = IF sent' # sent THEN net \cup {sent'[Len(sent')]} ELSE net
      /\ carried' = IF f_Mesh_Tx_Ready /\ ~f_Mesh_Tx_Ready'
                    THEN BLE_TX_DATA ELSE carried
      /\ spoilt' = (spoilt \/ ~measured')
      /\ UNCHANGED <<Link!rxOwn, rx_100ms, rx_1s, delivered>>
  BY TransferSteps
<1>2. /\ Starts \/ Continues \/ Ends
      /\ UNCHANGED <<unsent, f_rxdataOK, WifiRxData, BLE_TX_DATA,
                     BLE_TX_DATA_LENGTH>>
  BY <1>1, TransferSends DEF LinkInv
<1>3. UNCHANGED spoilt
  BY <1>1 DEF LinkInv, OrderInv
<1>4. SenderInv' /\ CountInv'
  <2>1. SenderInv'
    BY <1>1, SenderKept DEF LinkInv, Next
  <2> QED BY <1>1, <2>1, TransferCounts DEF LinkInv
<1>5. GivenInv'
  <2>1. CASE Starts
    <3>1. /\ f_Mesh_Tx_Ready /\ ~f_Mesh_Tx_Ready'
          /\ sending' = BLE_TX_DATA
      BY <2>1 DEF Starts
    <3> QED BY <1>2, <3>1 DEF LinkInv, GivenInv
  <2>2. CASE Continues
    <3>1. UNCHANGED <<sending, f_Mesh_Tx_Ready>>
      BY <2>2 DEF Continues
    <3> QED BY <1>2, <3>1 DEF LinkInv, GivenInv
  <2>3. CASE Ends
    <3>1. UNCHANGED <<sending, f_Mesh_Tx_Ready>>
      BY <2>3 DEF Ends
    <3> QED BY <1>2, <3>1 DEF LinkInv, GivenInv
  <2> QED BY <1>2, <2>1, <2>2, <2>3
<1>6. CASE Starts
  <2>1. MeshInv' /\ ReceiverInv' /\ OrderInv'
    BY <1>1, <1>2, <1>3, <1>4, <1>6, StartKeepsLink
  <2>2. carried = None
    <3>1. gap = 3 /\ ~Sending
      BY <1>6 DEF Starts
    <3>2. net = {} /\ Got = Len(sent)
      BY <3>1, GotNumbers DEF LinkInv
    <3>3. sending # None => Got = Num /\ Num \in 1 .. 4
      BY <3>1, <3>2, GotNumbers DEF LinkInv
    <3>4. sending # None => ~UartTxDataType /\ ~(Got < Num)
      BY <3>1, <3>3 DEF LinkInv, ReceiverInv, AfterInv
    <3> QED BY <3>4 DEF LinkInv, OrderInv, UnderWay
  <2>3. /\ f_Mesh_Tx_Ready /\ f_Mesh_Tx_Ready' = FALSE
        /\ BLE_TX_DATA # None
        /\ BLE_TX_DATA_LENGTH = FrameLen[BLE_TX_DATA]
    BY <1>6, FrameAssumption DEF Starts
  <2>4. Link!Channel!Begin
    BY <1>1, <1>2, <1>3, <2>2, <2>3 DEF Link!Channel!Begin
  <2> QED BY <1>4, <1>5, <2>1, <2>4 DEF LinkInv
<1>7. CASE Continues
  <2>1. MeshInv' /\ ReceiverInv' /\ OrderInv'
    BY <1>1, <1>2, <1>3, <1>4, <1>7, ContinueKeepsLink
  <2>2. ChannelSame
    BY <1>1, <1>2, <1>3, <1>7 DEF ChannelSame, Continues
  <2> QED BY <1>4, <1>5, <2>1, <2>2 DEF LinkInv
<1>8. CASE Ends
  <2>1. ChannelSame
    BY <1>1, <1>2, <1>3, <1>8 DEF ChannelSame, Ends
  <2>2. Aside
    BY <1>1, <1>8 DEF Aside, Ends
  <2>3. MeshInv' /\ ReceiverInv' /\ UnderWay' = UnderWay
    BY <2>2, AsideKeeps DEF LinkInv
  <2>4. OrderInv'
    BY <2>1, <2>2, <2>3 DEF LinkInv, OrderInv, ChannelSame, Aside
  <2> QED BY <1>4, <1>5, <2>1, <2>3, <2>4 DEF LinkInv
<1> QED BY <1>2, <1>6, <1>7, <1>8

(* A transfer that begins with the length of another frame ends what the   *)
(* channel promises.                                                       *)
LEMMA MarredEnds ==
  ASSUME LinkInv, Link!TxTransfers, ~measured'
  PROVE  Link!Channel!BeginMarred
<1>1. /\ time10mshandle \/ blockSendRetryTimer
      /\ spoilt' = (spoilt \/ ~measured')
  BY TransferSteps
<1>2. Starts
  BY <1>1, TransferSends DEF LinkInv, SenderInv, Continues, Ends
<1>3. /\ f_Mesh_Tx_Ready /\ BLE_TX_DATA # None
      /\ BLE_TX_DATA_LENGTH # FrameLen[BLE_TX_DATA]
  BY <1>2, FrameAssumption DEF Starts
<1> QED BY <1>1, <1>3 DEF Link!Channel!BeginMarred

(* A frame of which the receiver misses a packet is in transfer.           *)
LEMMA MissingMeansSending ==
  ASSUME FramesSuit, LinkInv, sending # None, Got < Num, net = {}
  PROVE  Sending
<1>1. Got = Len(sent) /\ (~Sending => Len(sent) = Num) /\ Num \in 1 .. 4
  BY GotNumbers DEF LinkInv
<1>2. Len(sent) # Num
  BY <1>1
<1> QED BY <1>1, <1>2

(* 50 ms pass: a pause of the receiver gets shorter than the sender's, and *)
(* its timeout stays out of reach.                                         *)
LEMMA PassKeepsLink ==
  ASSUME FramesSuit, LinkInv, Link!Pass
  PROVE  LinkInv' /\ ChannelSame
<1>1. /\ txPass /\ net = {} /\ rx_100ms > 0 /\ rx_1s > 0
      /\ ~Link!Rx!reopens /\ ~UartTxDataType
      /\ rx_100ms' = rx_100ms - 1 /\ rx_1s' = rx_1s - 1
      /\ UNCHANGED <<Link!rxVars, carried, delivered, spoilt>>
  BY PassSteps
<1>2. /\ UNCHANGED <<unsent, f_rxdataOK, WifiRxData, f_Mesh_Tx_Ready,
                     BLE_TX_DATA, BLE_TX_DATA_LENGTH, sent, sending,
                     measured>>
      /\ gap' = IF gap < 3 THEN gap + 1 ELSE gap
      /\ block_send_retry_tid # 0
  BY <1>1 DEF txPass, txIdle, txHost, txPending, BLOCK_SEND_RETRY_TIME
<1>3. SenderInv'
  BY <1>1, <1>2, SenderKept DEF LinkInv, Next, SenderInv
<1>4. CountInv' /\ GivenInv' /\ MeshInv'
  BY <1>1, <1>2 DEF LinkInv, CountInv, Num, GivenInv, MeshInv, Link!rxVars
<1>5. UNCHANGED <<net, f_Block_Buffer_Empty, rx_src_id, Rx_MessageID,
                  f_rxmeshdata, BLE_RX_DATA, RX_MESH_ID, UartTxDataType,
                  tRxMeshTimeOut2s, tmeshfinishdataWait100ms>>
  BY <1>1 DEF Link!rxVars, Link!rxOwn
<1>6. Got' = Got /\ Num' = Num /\ UnderWay' = UnderWay
  BY <1>2, <1>5 DEF Got, Num, UnderWay
<1>7. OrderInv'
  BY <1>1, <1>2, <1>6 DEF LinkInv, OrderInv
<1>8. ClockInv'
  <2>1. rx_100ms' \in 0 .. 2 /\ rx_1s' \in 0 .. 20
    BY <1>1 DEF LinkInv, ReceiverInv, ClockInv
  <2> QED BY <1>5, <2>1 DEF LinkInv, ReceiverInv, ClockInv
<1>9. BeforeInv'
  BY <1>5, <1>6 DEF LinkInv, ReceiverInv, BeforeInv, Link!Rx!Cleared,
     Link!Rx!Slot
<1>10. DuringInv'
  <2> SUFFICES ASSUME sending # None, Got > 0, Got < Num
               PROVE  DuringInv'
    BY <1>2, <1>6 DEF DuringInv
  <2>1. gap < 3
    <3>1. Sending
      BY <1>1, MissingMeansSending
    <3>2. /\ gap = 3 - block_send_retry_tid /\ block_send_retry_tid # -1
          /\ block_send_retry_tid \in -1 .. 3
      BY <3>1 DEF LinkInv, SenderInv, Inv, GapInv, NumberTypes, Sending,
         BLOCK_SEND_RETRY_TIME, TIMER_INVALID
    <3> QED BY <1>2, <3>2
  <2>2. /\ UnitsToReopen + UnitsGone >= 20
        /\ gap \in 0 .. 3 /\ Len(sent) \in Nat
    BY <1>2, GotNumbers DEF LinkInv, ReceiverInv, DuringInv
  <2>3. UnitsToReopen' + UnitsGone' >= 20
    <3> DEFINE l == Len(sent)
               g == gap'
               r == rx_1s'
               t == tRxMeshTimeOut2s
    <3>1. UnitsToReopen' = r + 20 * (t - 1) /\ UnitsGone' = 3 * (l - 1) + g
      BY <1>2, <1>5 DEF UnitsToReopen, UnitsGone
    <3>2. g = gap + 1 /\ r = rx_1s - 1
      BY <1>1, <1>2, <2>1
    <3>3. (rx_1s + 20 * (t - 1)) + (3 * (l - 1) + gap) >= 20
      BY <2>2 DEF UnitsToReopen, UnitsGone
    <3>4. rx_1s \in Nat /\ t \in Int /\ l \in Nat
      BY <2>2 DEF LinkInv, ReceiverInv, ClockInv
    <3> HIDE DEF l, g, r, t
    <3> QED BY <2>2, <3>1, <3>2, <3>3, <3>4
  <2> QED BY <1>2, <1>5, <1>6, <2>3
          DEF LinkInv, ReceiverInv, DuringInv, Filled
<1>11. AfterInv'
  <2> SUFFICES ASSUME sending # None, Got = Num
               PROVE  AfterInv'
    BY <1>2, <1>6 DEF AfterInv
  <2>1. UartTxDataType = FALSE /\ tmeshfinishdataWait100ms # -1
    BY <1>1 DEF LinkInv, ReceiverInv, ClockInv, Link!Rx!reopens, Link!Rx!fov,
       Link!Rx!Overflow
  <2>2. ~f_Block_Buffer_Empty =>
          tmeshfinishdataWait100ms = 1 /\ gap + rx_100ms <= 2
    BY <2>1 DEF LinkInv, ReceiverInv, AfterInv
  <2>3. gap + rx_100ms <= 2 => gap' + rx_100ms' <= 2
    <3> DEFINE g == gap'
               r == rx_100ms'
    <3>1. gap \in 0 .. 3 /\ rx_100ms \in 0 .. 2
      BY GotNumbers DEF LinkInv, ReceiverInv, ClockInv
    <3>2. r = rx_100ms - 1 /\ (gap < 3 => g = gap + 1)
      BY <1>1, <1>2
    <3> HIDE DEF g, r
    <3>3. gap + rx_100ms <= 2 => g + r <= 2
      BY <3>1, <3>2
    <3> QED BY <3>3 DEF g, r
  <2>4. f_rxmeshdata = {} /\ BLE_RX_DATA = Link!Rx!Cleared
    BY <2>1 DEF LinkInv, ReceiverInv, AfterInv
  <2> QED BY <1>5, <2>1, <2>2, <2>3, <2>4
          DEF AfterInv, Link!Rx!Cleared, Link!Rx!Slot
<1> QED BY <1>1, <1>2, <1>3, <1>4, <1>7, <1>8, <1>9, <1>10, <1>11
        DEF LinkInv, ReceiverInv, ChannelSame

(* The ticks of the receiver: the first one after a frame is complete lets *)
(* the buffer reopen, and its timeout is two ticks away when a reception   *)
(* begins.                                                                 *)
LEMMA RxTicksKeepLink ==
  ASSUME FramesSuit, LinkInv, Link!RxTicks
  PROVE  LinkInv' /\ ChannelSame
<1>1. /\ UNCHANGED <<Link!txVars, carried, delivered, spoilt, net,
                     f_Block_Buffer_Empty, rx_src_id, Rx_MessageID,
                     f_rxmeshdata, BLE_RX_DATA, RX_MESH_ID, UartTxDataType>>
      /\ \/ /\ rx_100ms = 0 /\ rx_100ms' = 2
            /\ tmeshfinishdataWait100ms' =
                 Link!Rx!Tick(tmeshfinishdataWait100ms)
            /\ UNCHANGED <<rx_1s, tRxMeshTimeOut2s>>
         \/ /\ rx_1s = 0 /\ rx_1s' = 20
            /\ tRxMeshTimeOut2s' = Link!Rx!Tick(tRxMeshTimeOut2s)
            /\ UNCHANGED <<rx_100ms, tmeshfinishdataWait100ms>>
  BY DEF Link!RxTicks, Link!Rx!timer_100ms_RBINT, Link!Rx!timer_1s_RBINT,
     Link!Rx!rxBuffer, Link!Rx!rxReport, Link!Tx!TIME100MS, Link!Tx!TIME1S
<1>2. UNCHANGED <<vars, unsent, f_rxdataOK, WifiRxData, f_Mesh_Tx_Ready,
                  BLE_TX_DATA, BLE_TX_DATA_LENGTH, sent, sending, gap,
                  measured>>
  BY <1>1 DEF Link!txVars, vars, txHost, txPending, txTransfer, txTimers,
     txClock, txHistory, txTrace
<1>3. SenderInv'
  BY <1>2, StepsKeepSender DEF LinkInv, SenderInv
<1>4. CountInv' /\ GivenInv' /\ MeshInv'
  BY <1>1, <1>2 DEF LinkInv, CountInv, Num, GivenInv, MeshInv
<1>5. /\ Got' = Got /\ Num' = Num /\ UnderWay' = UnderWay
      /\ UnitsGone' = UnitsGone
  BY <1>1, <1>2 DEF Got, Num, UnderWay, UnitsGone
<1>6. OrderInv'
  BY <1>1, <1>2, <1>5 DEF LinkInv, OrderInv
<1>7. \A t : /\ t = 0 => Link!Rx!Tick(t) = 0
             /\ t = 1 => Link!Rx!Tick(t) = -1
             /\ t = -1 => Link!Rx!Tick(t) = -1
             /\ t = 2 => Link!Rx!Tick(t) = 1
  BY DEF Link!Rx!Tick, Link!Rx!Overflow
<1>8. ClockInv'
  <2>1. /\ rx_100ms' \in 0 .. 2 /\ rx_1s' \in 0 .. 20
        /\ tRxMeshTimeOut2s' \in -1 .. 2
    BY <1>1, <1>7 DEF LinkInv, ReceiverInv, ClockInv
  <2>2. f_Block_Buffer_Empty =>
          tRxMeshTimeOut2s' = 0 /\ tmeshfinishdataWait100ms' = 0
    BY <1>1, <1>7 DEF LinkInv, ReceiverInv, ClockInv
  <2> QED BY <1>1, <2>1, <2>2 DEF LinkInv, ReceiverInv, ClockInv
<1>9. BeforeInv'
  BY <1>1, <1>5 DEF LinkInv, ReceiverInv, BeforeInv, Link!Rx!Cleared,
     Link!Rx!Slot
<1>10. DuringInv'
  <2> SUFFICES ASSUME sending # None, Got > 0, Got < Num
               PROVE  DuringInv'
    BY <1>2, <1>5 DEF DuringInv
  <2>1. /\ UnitsToReopen + UnitsGone >= 20
        /\ tmeshfinishdataWait100ms = 0 /\ tRxMeshTimeOut2s \in 1 .. 2
        /\ rx_1s \in 0 .. 20
    BY DEF LinkInv, ReceiverInv, DuringInv, ClockInv
  <2>2. UnitsGone \in 0 .. 9
    <3>1. /\ Got = Len(sent) \/ (Got = Len(sent) - 1 /\ gap = 0)
          /\ gap \in 0 .. 3 /\ Num \in 1 .. 4 /\ Len(sent) \in 1 .. Num
      BY GotNumbers DEF LinkInv
    <3> QED BY <3>1 DEF UnitsGone
  <2>3. tmeshfinishdataWait100ms' = 0
    BY <1>1, <1>7, <2>1
  <2>4. /\ tRxMeshTimeOut2s' > 0 /\ UnitsToReopen' + UnitsGone >= 20
    <3>1. CASE UNCHANGED <<rx_1s, tRxMeshTimeOut2s>>
      BY <2>1, <3>1 DEF UnitsToReopen
    <3>2. CASE /\ rx_1s = 0 /\ rx_1s' = 20
               /\ tRxMeshTimeOut2s' = Link!Rx!Tick(tRxMeshTimeOut2s)
      <4>1. tRxMeshTimeOut2s = 2
        BY <2>1, <2>2, <3>2 DEF UnitsToReopen
      <4>2. tRxMeshTimeOut2s' = 1 /\ rx_1s' = 20
        BY <1>7, <3>2, <4>1
      <4>3. UnitsToReopen' = 20
        BY <4>2 DEF UnitsToReopen
      <4> QED BY <2>2, <4>2, <4>3
    <3> QED BY <1>1, <3>1, <3>2
  <2> QED BY <1>1, <1>2, <1>5, <2>3, <2>4
          DEF LinkInv, ReceiverInv, DuringInv, Filled
<1>11. AfterInv'
  <2> SUFFICES ASSUME sending # None, Got = Num
               PROVE  AfterInv'
    BY <1>2, <1>5 DEF AfterInv
  <2>1. ~f_Block_Buffer_Empty =>
          \/ tmeshfinishdataWait100ms' = 1 /\ gap + rx_100ms' <= 2
          \/ tmeshfinishdataWait100ms' = -1 /\ gap <= 2
    <3> SUFFICES ASSUME ~f_Block_Buffer_Empty
                 PROVE  \/ tmeshfinishdataWait100ms' = 1
                           /\ gap + rx_100ms' <= 2
                        \/ tmeshfinishdataWait100ms' = -1 /\ gap <= 2
      OBVIOUS
    <3>1. \/ tmeshfinishdataWait100ms = 1 /\ gap + rx_100ms <= 2
          \/ tmeshfinishdataWait100ms = -1 /\ gap <= 2
      BY DEF LinkInv, ReceiverInv, AfterInv
    <3>2. CASE UNCHANGED <<rx_100ms, tmeshfinishdataWait100ms>>
      BY <3>1, <3>2
    <3>3. CASE /\ rx_100ms = 0
               /\ tmeshfinishdataWait100ms' =
                    Link!Rx!Tick(tmeshfinishdataWait100ms)
      <4>1. gap \in 0 .. 3
        BY GotNumbers DEF LinkInv
      <4>2. gap <= 2
        BY <3>1, <3>3, <4>1
      <4>3. tmeshfinishdataWait100ms' = -1
        BY <1>7, <3>1, <3>3
      <4> QED BY <4>2, <4>3
    <3> QED BY <1>1, <3>2, <3>3
  <2> QED BY <1>1, <1>2, <1>5, <2>1
          DEF LinkInv, ReceiverInv, AfterInv, Filled, Link!Rx!Cleared,
              Link!Rx!Slot
<1> QED BY <1>1, <1>2, <1>3, <1>4, <1>6, <1>8, <1>9, <1>10, <1>11
        DEF LinkInv, ReceiverInv, ChannelSame

(* The receiver gets the packet that was sent last.                        *)
LEMMA ReceptionKeepsLink ==
  ASSUME FramesSuit, LinkInv, Link!RxReceives
  PROVE  LinkInv' /\ ChannelSame
<1>1. PICK p \in net : Link!Rx!Receive(p)
  BY DEF Link!RxReceives
<1>2. UNCHANGED <<Link!txVars, rx_100ms, rx_1s, carried, delivered, spoilt>>
  BY DEF Link!RxReceives, Link!linkVars
<1>3. UNCHANGED <<vars, unsent, f_rxdataOK, WifiRxData, f_Mesh_Tx_Ready,
                  BLE_TX_DATA, BLE_TX_DATA_LENGTH, sent, sending, gap,
                  measured>>
  BY <1>2 DEF Link!txVars, vars, txHost, txPending, txTransfer, txTimers,
     txClock, txHistory, txTrace
<1>4. SenderInv' /\ CountInv' /\ GivenInv'
  <2>1. SenderInv'
    BY <1>3, StepsKeepSender DEF LinkInv, SenderInv
  <2> QED BY <1>2, <1>3, <2>1 DEF LinkInv, CountInv, Num, GivenInv
<1> DEFINE k == Len(sent)
           f == sending
           n == Num
<1>5. sending # None /\ net = {sent[k]} /\ gap = 0
  BY <1>1 DEF LinkInv, MeshInv
<1>6. /\ f \in Frame /\ n \in 1 .. 4 /\ k \in 1 .. n /\ Got = k - 1
      /\ PacketOf(p, f, k, n) /\ Block_Send_Num(FrameLen[f]) = n
  BY <1>1, <1>5, GotNumbers DEF LinkInv, Num
<1>7. /\ net' = net \ {p} /\ f_Block_Buffer_Empty' = FALSE
      /\ rx_src_id' = Node /\ Rx_MessageID' = f
      /\ tRxMeshTimeOut2s' \in 1 .. 2
      /\ UnitsToReopen' + UnitsGone >= 20
      /\ BLE_RX_DATA' = Filled(f, k)
      /\ IF k = n THEN Completes
         ELSE /\ f_rxmeshdata' = 1 .. k
              /\ tmeshfinishdataWait100ms' = 0 /\ UartTxDataType' = FALSE
  <2>1. CASE k = 1
    <3>1. /\ f_Block_Buffer_Empty /\ f_rxmeshdata = {}
          /\ UartTxDataType = FALSE /\ tmeshfinishdataWait100ms = 0
          /\ BLE_RX_DATA = Link!Rx!Cleared /\ rx_1s \in 0 .. 20
      BY <1>6, <2>1 DEF LinkInv, ReceiverInv, BeforeInv, ClockInv
    <3>2. /\ net' = net \ {p} /\ f_Block_Buffer_Empty' = FALSE
          /\ rx_src_id' = Node /\ Rx_MessageID' = f
          /\ tRxMeshTimeOut2s' = 2
          /\ BLE_RX_DATA' = Filled(f, 1)
          /\ IF n = 1 THEN Completes
             ELSE /\ f_rxmeshdata' = 1 .. 1
                  /\ UNCHANGED <<tmeshfinishdataWait100ms, RX_MESH_ID,
                                 UartTxDataType>>
      <4> HIDE DEF k, f, n
      <4> QED BY <1>1, <1>6, <2>1, <3>1, FirstPacket
    <3>3. UnitsToReopen' + UnitsGone >= 20
      <4>1. UnitsToReopen' = rx_1s + 20
        BY <1>2, <3>1, <3>2 DEF UnitsToReopen
      <4>2. UnitsGone = 0
        BY <1>5, <2>1 DEF UnitsGone
      <4> QED BY <3>1, <4>1, <4>2
    <3> QED BY <2>1, <3>1, <3>2, <3>3
  <2>2. CASE k # 1
    <3>1. k \in 2 .. n /\ Got > 0 /\ Got < n
      BY <1>6, <2>2
    <3>2. /\ ~f_Block_Buffer_Empty /\ UartTxDataType = FALSE
          /\ rx_src_id = Node /\ Rx_MessageID = f
          /\ f_rxmeshdata = 1 .. k - 1 /\ BLE_RX_DATA = Filled(f, k - 1)
          /\ tmeshfinishdataWait100ms = 0 /\ tRxMeshTimeOut2s \in 1 .. 2
          /\ UnitsToReopen + UnitsGone >= 20
      BY <1>5, <1>6, <3>1 DEF LinkInv, ReceiverInv, DuringInv, ClockInv
    <3>3. /\ net' = net \ {p}
          /\ UNCHANGED <<f_Block_Buffer_Empty, rx_src_id, Rx_MessageID,
                         tRxMeshTimeOut2s>>
          /\ BLE_RX_DATA' = Filled(f, k)
          /\ IF k = n THEN Completes
             ELSE /\ f_rxmeshdata' = 1 .. k
                  /\ UNCHANGED <<tmeshfinishdataWait100ms, RX_MESH_ID,
                                 UartTxDataType>>
      <4> HIDE DEF k, f, n
      <4> QED BY <1>1, <1>6, <3>1, <3>2, NextPacket
    <3>4. f_Block_Buffer_Empty = FALSE
      BY <3>2 DEF LinkInv, ReceiverInv, ClockInv
    <3>5. UnitsToReopen' = UnitsToReopen
      BY <1>2, <3>3 DEF UnitsToReopen
    <3> QED BY <3>2, <3>3, <3>4, <3>5
  <2> QED BY <2>1, <2>2
<1>8. net' = {}
  BY <1>1, <1>5, <1>7
<1>9. Got' = k /\ Num' = n /\ UnitsGone' = UnitsGone
  BY <1>3, <1>8 DEF Got, Num, UnitsGone
<1>10. MeshInv'
  BY <1>8 DEF MeshInv
<1>11. UnderWay = TRUE /\ UnderWay' = TRUE
  <2>1. Got < Num
    BY <1>6
  <2>2. k = n \/ k < n
    BY <1>6
  <2> QED BY <1>3, <1>5, <1>7, <1>9, <2>1, <2>2 DEF UnderWay, Completes
<1>12. OrderInv'
  BY <1>2, <1>3, <1>11 DEF LinkInv, OrderInv
<1>13. ClockInv'
  <2>1. tRxMeshTimeOut2s' \in -1 .. 2
    BY <1>7
  <2>2. UartTxDataType' \in BOOLEAN
    BY <1>7 DEF Completes
  <2> QED BY <1>2, <1>7, <2>1, <2>2 DEF LinkInv, ReceiverInv, ClockInv
<1>14. BeforeInv'
  <2>1. Got' # 0
    BY <1>6, <1>9
  <2> QED BY <2>1 DEF BeforeInv
<1>15. DuringInv'
  <2> SUFFICES ASSUME Got' < Num'
               PROVE  DuringInv'
    BY DEF DuringInv
  <2>1. k # n
    BY <1>6, <1>9
  <2>2. tRxMeshTimeOut2s' > 0
    BY <1>7
  <2> QED BY <1>3, <1>7, <1>9, <2>1, <2>2 DEF DuringInv, Filled
<1>16. AfterInv'
  <2> SUFFICES ASSUME Got' = Num'
               PROVE  AfterInv'
    BY DEF AfterInv
  <2>1. k = n
    BY <1>9
  <2>2. gap' = 0 /\ rx_100ms' \in 0 .. 2
    BY <1>2, <1>3, <1>5 DEF LinkInv, ReceiverInv, ClockInv
  <2>3. gap' + rx_100ms' <= 2
    <3> DEFINE g == gap'
               r == rx_100ms'
    <3>1. g = 0 /\ r \in 0 .. 2
      BY <2>2
    <3> HIDE DEF g, r
    <3>2. g + r <= 2
      BY <3>1
    <3> QED BY <3>2 DEF g, r
  <2>4. sending' = f
    BY <1>3
  <2> QED BY <1>7, <1>9, <2>1, <2>2, <2>3, <2>4
          DEF AfterInv, Completes, Filled
<1> QED BY <1>2, <1>3, <1>4, <1>10, <1>12, <1>13, <1>14, <1>15, <1>16
        DEF LinkInv, ReceiverInv, ChannelSame

(* The 1 ms handler: a report it takes is that of the frame under way, and *)
(* the channel delivers it.                                                *)
LEMMA HandlerKeepsLink ==
  ASSUME FramesSuit, LinkInv, Link!RxHandler
  PROVE  /\ LinkInv'
         /\ ChannelSame \/ Link!Channel!Deliver
<1>1. /\ UNCHANGED <<Link!txVars, net, rx_100ms, rx_1s, spoilt>>
      /\ IF UartTxDataType /\ ~UartTxDataType'
         THEN /\ delivered' = Append(delivered, Link!Report)
              /\ carried' = None
         ELSE UNCHANGED <<delivered, carried>>
      /\ Link!Rx!reopens \/ UartTxDataType
      /\ IF Link!Rx!reopens
         THEN /\ f_Block_Buffer_Empty' = TRUE
              /\ tmeshfinishdataWait100ms' = 0 /\ tRxMeshTimeOut2s' = 0
         ELSE UNCHANGED <<f_Block_Buffer_Empty, tRxMeshTimeOut2s,
                          tmeshfinishdataWait100ms>>
      /\ \/ /\ UartTxDataType /\ UartTxDataType' = FALSE
            /\ BLE_RX_DATA' = Link!Rx!Cleared
            /\ UNCHANGED f_rxmeshdata
         \/ UNCHANGED <<UartTxDataType, BLE_RX_DATA, f_rxmeshdata,
                        RX_MESH_ID>>
  BY DEF Link!RxHandler, Link!Rx!time1mshandle, Link!Rx!WifiTxData,
     Link!Rx!rxBuffer, Link!Rx!rxReport, Link!Rx!rxTimers, Link!Rx!Idle
<1>2. UNCHANGED <<vars, unsent, f_rxdataOK, WifiRxData, f_Mesh_Tx_Ready,
                  BLE_TX_DATA, BLE_TX_DATA_LENGTH, sent, sending, gap,
                  measured>>
  BY <1>1 DEF Link!txVars, vars, txHost, txPending, txTransfer, txTimers,
     txClock, txHistory, txTrace
<1>3. SenderInv' /\ CountInv' /\ GivenInv' /\ MeshInv'
  <2>1. SenderInv'
    BY <1>2, StepsKeepSender DEF LinkInv, SenderInv
  <2> QED BY <1>1, <1>2, <2>1 DEF LinkInv, CountInv, Num, GivenInv, MeshInv
<1>4. Got' = Got /\ Num' = Num
  BY <1>1, <1>2 DEF Got, Num
<1>5. sending # None /\ Got = Num /\ sending \in Frame /\ Num \in 1 .. 4
  <2>1. Link!Rx!reopens =>
          tmeshfinishdataWait100ms = -1 \/ tRxMeshTimeOut2s = -1
    BY DEF Link!Rx!reopens, Link!Rx!fov, Link!Rx!Overflow
  <2>2. Got # 0
    BY <1>1, <2>1 DEF LinkInv, ReceiverInv, BeforeInv, ClockInv
  <2>3. sending # None /\ sending \in Frame /\ Got \in 0 .. Num
        /\ Num \in 1 .. 4
    BY <2>2, GotNumbers DEF LinkInv
  <2>4. ~(Got > 0 /\ Got < Num)
    BY <1>1, <2>1, <2>3 DEF LinkInv, ReceiverInv, DuringInv
  <2> QED BY <2>2, <2>3, <2>4
<1>6. /\ f_rxmeshdata = {} /\ f_Block_Buffer_Empty \in BOOLEAN
      /\ UartTxDataType \in BOOLEAN
      /\ UartTxDataType => /\ BLE_RX_DATA = Filled(sending, Num)
                           /\ RX_MESH_ID = Node
      /\ ~UartTxDataType => BLE_RX_DATA = Link!Rx!Cleared
  BY <1>5 DEF LinkInv, ReceiverInv, AfterInv, ClockInv
<1>7. f_rxmeshdata' = {} /\ UartTxDataType' \in BOOLEAN
      /\ (UartTxDataType' => UartTxDataType
                             /\ UNCHANGED <<BLE_RX_DATA, RX_MESH_ID>>)
      /\ (~UartTxDataType' => BLE_RX_DATA' = Link!Rx!Cleared)
  <2>1. CASE /\ UartTxDataType /\ UartTxDataType' = FALSE
             /\ BLE_RX_DATA' = Link!Rx!Cleared
             /\ UNCHANGED f_rxmeshdata
    <3>1. f_rxmeshdata' = {}
      BY <1>6, <2>1
    <3> QED BY <2>1, <3>1, Zenon
  <2>2. CASE UNCHANGED <<UartTxDataType, BLE_RX_DATA, f_rxmeshdata,
                         RX_MESH_ID>>
    <3>1. /\ UartTxDataType' = UartTxDataType
          /\ BLE_RX_DATA' = BLE_RX_DATA
          /\ f_rxmeshdata' = f_rxmeshdata
          /\ RX_MESH_ID' = RX_MESH_ID
      BY <2>2
    <3>2. CASE UartTxDataType = TRUE
      BY <1>6, <2>2, <3>1, <3>2, SMT
    <3>3. CASE UartTxDataType = FALSE
      BY <1>6, <3>1, <3>3, SMT
    <3> QED BY <1>6, <3>2, <3>3
  <2> QED BY <1>1, <2>1, <2>2, Zenon
<1>8. ClockInv'
  <2>1. 0 \in -1 .. 2
    OBVIOUS
  <2> QED BY <1>1, <1>7, <2>1 DEF LinkInv, ReceiverInv, ClockInv
<1>9. BeforeInv' /\ DuringInv'
  <2>1. Got' # 0 /\ ~(Got' < Num')
    BY <1>4, <1>5
  <2> QED BY <2>1 DEF BeforeInv, DuringInv
<1>10. AfterInv'
  <2>1. UartTxDataType' => /\ gap' = 0
                           /\ BLE_RX_DATA' = Filled(sending, Num)
                           /\ RX_MESH_ID' = Node
    BY <1>1, <1>2, <1>5, <1>7 DEF LinkInv, ReceiverInv, AfterInv
  <2>2. ~f_Block_Buffer_Empty' =>
          \/ tmeshfinishdataWait100ms' = 1 /\ gap' + rx_100ms' <= 2
          \/ tmeshfinishdataWait100ms' = -1 /\ gap' <= 2
    BY <1>1, <1>2, <1>5 DEF LinkInv, ReceiverInv, AfterInv
  <2> QED BY <1>2, <1>4, <1>7, <2>1, <2>2
          DEF AfterInv, Filled, Link!Rx!Cleared, Link!Rx!Slot
<1>11. UnderWay = UartTxDataType /\ UnderWay' = UartTxDataType'
  <2>1. ~(Got < Num)
    BY <1>5
  <2> QED BY <1>2, <1>4, <1>5, <1>6, <1>7, <2>1 DEF UnderWay
<1>12. CASE UartTxDataType /\ ~UartTxDataType'
  <2>1. Link!Report = [source |-> Node, frame |-> sending]
    <3>1. BLE_RX_DATA[1] = sending
          /\ \A i \in 1 .. Num : BLE_RX_DATA[i] = sending
      BY <1>5, <1>6, <1>12 DEF Filled
    <3>2. Link!Tx!Block_Send_Num(FrameLen[sending]) = Num
      BY DEF Num, Block_Send_Num, Block_Send_Mod, Link!Tx!Block_Send_Num,
         Link!Tx!Block_Send_Mod
    <3>3. Link!Rx!Pure(BLE_RX_DATA)
      BY <1>5, <3>1, <3>2 DEF Link!Rx!Pure
    <3> QED BY <1>6, <1>12, <3>1, <3>3 DEF Link!Report
  <2>2. carried = sending /\ sending # None
    BY <1>5, <1>11, <1>12 DEF LinkInv, OrderInv
  <2>3. OrderInv'
    BY <1>1, <1>11, <1>12 DEF LinkInv, OrderInv
  <2>4. Link!Channel!Deliver
    BY <1>1, <1>2, <1>12, <2>1, <2>2 DEF Link!Channel!Deliver
  <2> QED BY <1>3, <1>8, <1>9, <1>10, <2>3, <2>4 DEF LinkInv, ReceiverInv
<1>13. CASE ~(UartTxDataType /\ ~UartTxDataType')
  <2>1. UnderWay' = UnderWay
    BY <1>6, <1>7, <1>11, <1>13
  <2>2. ChannelSame
    BY <1>1, <1>2, <1>13 DEF ChannelSame
  <2>3. OrderInv'
    BY <1>2, <2>1, <2>2 DEF LinkInv, OrderInv, ChannelSame
  <2> QED BY <1>3, <1>8, <1>9, <1>10, <2>2, <2>3 DEF LinkInv, ReceiverInv
<1> QED BY <1>12, <1>13

LEMMA LinkSteps ==
  ASSUME FramesSuit, LinkInv, [Link!Next]_Link!vars
  PROVE  /\ spoilt' = TRUE \/ LinkInv'
         /\ [Link!Channel!Next]_Link!Channel!vars
<1>1. CASE UNCHANGED Link!vars
  <2>1. /\ Aside
        /\ UNCHANGED <<vars, unsent, f_rxdataOK, WifiRxData, f_Mesh_Tx_Ready,
                       BLE_TX_DATA, BLE_TX_DATA_LENGTH, measured, carried,
                       delivered, spoilt>>
    BY <1>1 DEF Aside, Link!vars, Link!txVars, Link!rxVars, Link!linkVars,
       vars, txHost, txPending, txTransfer, txTimers, txClock, txHistory,
       txTrace
  <2>2. CountInv' /\ MeshInv' /\ ReceiverInv' /\ UnderWay' = UnderWay
    BY <2>1, AsideKeeps DEF LinkInv
  <2>3. SenderInv'
    BY <2>1, StepsKeepSender DEF LinkInv, SenderInv
  <2>4. GivenInv' /\ OrderInv' /\ ChannelSame
    BY <2>1, <2>2 DEF LinkInv, GivenInv, OrderInv, Aside, ChannelSame
  <2> QED BY <2>2, <2>3, <2>4, SameStutters DEF LinkInv
<1>2. CASE Link!HostSends
  BY <1>2, HostKeepsLink, SameStutters DEF Link!Channel!Next
<1>3. CASE Link!TxTicks
  BY <1>3, TicksKeepLink, SameStutters
<1>4. CASE Link!TxTransfers
  <2>1. CASE measured'
    BY <1>4, <2>1, TransfersKeepLink, SameStutters DEF Link!Channel!Next
  <2>2. CASE ~measured'
    <3>1. Link!Channel!BeginMarred
      BY <1>4, <2>2, MarredEnds
    <3>2. spoilt' = TRUE
      BY <1>4, <2>2, TransferSteps
    <3> QED BY <3>1, <3>2 DEF Link!Channel!Next
  <2> QED BY <2>1, <2>2
<1>5. CASE Link!RxReceives
  BY <1>5, ReceptionKeepsLink, SameStutters
<1>6. CASE Link!RxTicks
  BY <1>6, RxTicksKeepLink, SameStutters
<1>7. CASE Link!RxHandler
  BY <1>7, HandlerKeepsLink, SameStutters DEF Link!Channel!Next
<1>8. CASE Link!Pass
  BY <1>8, PassKeepsLink, SameStutters
<1> QED BY <1>1, <1>2, <1>3, <1>4, <1>5, <1>6, <1>7, <1>8 DEF Link!Next

(* Nothing is promised any more.                                           *)
LEMMA SpoiltStays ==
  ASSUME spoilt = TRUE, [Link!Next]_Link!vars
  PROVE  spoilt' = TRUE /\ [Link!Channel!Next]_Link!Channel!vars
<1>1. spoilt' = TRUE
  BY DEF Link!Next, Link!vars, Link!linkVars, Link!HostSends, Link!TxTicks,
     Link!TxTransfers, Link!RxReceives, Link!RxTicks, Link!RxHandler,
     Link!Pass
<1>2. Link!Channel!AfterSpoilt
  BY <1>1 DEF Link!Channel!AfterSpoilt
<1> QED BY <1>1, <1>2 DEF Link!Channel!Next

(* Every frame the receiving host gets is the one the sending module took  *)
(* last when its transfer began, whole, once and under the sender's        *)
(* address, and no transfer begins before the frame of the last one has    *)
(* been handed over: however the host spaces its frames and whatever the   *)
(* phases of the four time bases are, until a transfer begins with the     *)
(* length of a frame that came in behind its own (data_model_handler.c,    *)
(* the two ends of a block message, and the timers of main_app.c between   *)
(* two frames).  This is ImplementsChannel without its progress.           *)
THEOREM LinkImplementsChannel ==
  ASSUME FramesSuit, RxPhase1s \subseteq 1 .. 20
  PROVE  Link!Spec => Link!Channel!InOrder
<1> DEFINE Kept == spoilt = TRUE \/ LinkInv
<1>1. Link!Init => Kept
  BY LinkInitially
<1>2. Kept /\ [Link!Next]_Link!vars => Kept'
  BY LinkSteps, SpoiltStays
<1>3. Kept /\ [Link!Next]_Link!vars
        => [Link!Channel!Next]_Link!Channel!vars
  BY LinkSteps, SpoiltStays
<1>4. Link!Init => Link!Channel!Init
  BY DEF Link!Init, Link!Tx!Init, Link!Channel!Init
<1> HIDE DEF Kept
<1> QED BY <1>1, <1>2, <1>3, <1>4, PTL
        DEF Link!Spec, Link!Channel!InOrder

==============================================================================
