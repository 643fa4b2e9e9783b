---------------------------- MODULE BlockTxProofs ----------------------------
(***************************************************************************)
(* Proofs about the block sender, for any frames of the lengths the        *)
(* module assumes and any phase of the two time bases: its types, that a   *)
(* transfer is never cut short, that packets keep their distance, and that *)
(* a frame that fits the buffer is sent whole.                             *)
(***************************************************************************)
EXTENDS BlockTx, TLAPS

(* A transfer is in progress.                                              *)
Sending == block_send_retry_tid # TIMER_INVALID

(* Units until the transfer in progress is over, and to the overflow of    *)
(* the timeout armed at its start.                                         *)
UnitsLeft ==
  block_send_retry_tid
  + BLOCK_SEND_RETRY_TIME
      * ((device_info_length - tx_stream_offset - last_data_len + 9) \div 10)
UnitsToTimeOut == t_1s + TIME1S * (tMeshTimeOut2s - 1)

(* A frame that waits, unchecked or checked, is one.                       *)
PendingInv ==
  /\ f_rxdataOK => WifiRxData \in Frame
  /\ f_Mesh_Tx_Ready => /\ BLE_TX_DATA \in Frame
                        /\ BLE_TX_DATA_LENGTH \in 3 .. 40

(* The packet sent last is the one at the offset, or the offset is at the  *)
(* end.                                                                    *)
TransferInv ==
  /\ Sending => /\ f_Mesh_First_Send
                /\ sending # None
                /\ tx_stream_offset < device_info_length
                /\ last_data_len =
                     PacketLen(device_info_length - tx_stream_offset)
  /\ ~Sending => tx_stream_offset = device_info_length

(* The timeout comes later than the end of the transfer, by two units at   *)
(* least, and no wait is left from the transfer before it.                 *)
TimerInv ==
  Sending => /\ tmfTxdataWait100ms = Idle
             /\ tMeshTimeOut2s \in 1 .. C_T_tMeshTimeOut2s
             /\ UnitsToTimeOut >= UnitsLeft + 2

GapInv ==
  gap = IF Sending THEN BLOCK_SEND_RETRY_TIME - block_send_retry_tid
                   ELSE BLOCK_SEND_RETRY_TIME

(* The types of TypeOK, in parts.                                          *)
SentPacket == [frame : Frame \cup {None}, seq : 0 .. 4, total : 0 .. 4,
               len : 1 .. MAX_DATA_BLACK_PACKET_SIZE]
SlotOf(i) == [frame : Frame \cup {None}, seq : {0, i}, total : 0 .. 4]

HostTypes ==
  /\ unsent \subseteq Frame
  /\ f_rxdataOK \in BOOLEAN
  /\ WifiRxData \in Frame \cup {None}
  /\ f_Mesh_Tx_Ready \in BOOLEAN
  /\ f_Mesh_First_Send \in BOOLEAN
  /\ BLE_TX_DATA \in Frame \cup {None}
  /\ BLE_TX_DATA_LENGTH \in 0 .. 40
  /\ sending \in Frame \cup {None}
  /\ measured \in BOOLEAN

NumberTypes ==
  /\ device_info_length \in 0 .. 56
  /\ tx_stream_offset \in 0 .. device_info_length
  /\ last_data_len \in 0 .. MAX_DATA_BLACK_PACKET_SIZE
  /\ block_send_retry_tid \in TIMER_INVALID .. BLOCK_SEND_RETRY_TIME
  /\ t_100ms \in 0 .. TIME100MS
  /\ t_1s \in 0 .. TIME1S
  /\ gap \in 0 .. BLOCK_SEND_RETRY_TIME

TimerTypes ==
  /\ tmfTxdataWait100ms \in Timer(C_T_tmfTxdataWait100ms)
  /\ tMeshTimeOut2s \in Timer(C_T_tMeshTimeOut2s)

BufferTypes == \A i \in 1 .. 4 : Tx_Data_Buffer[i] \in SlotOf(i)

SentTypes == sent \in Seq(SentPacket)

Inv == /\ HostTypes /\ NumberTypes /\ TimerTypes /\ BufferTypes /\ SentTypes
       /\ PendingInv /\ TransferInv /\ TimerInv /\ GapInv

------------------------------------------------------------------------------
(* The buffer of a frame of up to 40 bytes: not empty, and at most five    *)
(* full packets and one of six bytes.                                      *)
LEMMA BufferLength ==
  ASSUME NEW n \in 3 .. 40
  PROVE  /\ Tx_Data_Buffer_len(n) \in 4 .. 56
         /\ Block_Send_Num(n) \in 1 .. 6
         /\ Block_Send_Mod(n) \in 0 .. 6
  BY DEF Tx_Data_Buffer_len, Block_Send_Num, Block_Send_Mod

(* What a tick does to each of the two timers.                             *)
LEMMA TickKeeps ==
  ASSUME NEW n \in Nat, NEW t \in Timer(n)
  PROVE  /\ Tick(t) \in Timer(n)
         /\ t = Idle => Tick(t) = Idle
         /\ t > 1 => Tick(t) = t - 1
  BY DEF Timer, Tick, Idle, Overflow

(* The length of a packet.                                                 *)
LEMMA PacketLength ==
  ASSUME NEW n \in Nat \ {0}
  PROVE  /\ PacketLen(n) \in 1 .. 10
         /\ PacketLen(n) <= n
         /\ n > 10 => PacketLen(n) = 10
         /\ n <= 10 => PacketLen(n) = n
  BY DEF PacketLen, MAX_DATA_BLACK_PACKET_SIZE

(* The packet taken from a well-formed buffer is well-formed.              *)
LEMMA PacketIsSent ==
  ASSUME NEW buffer, \A i \in 1 .. 4 : buffer[i] \in SlotOf(i),
         NEW offset \in Nat, NEW n \in 1 .. 10
  PROVE  PacketAt(buffer, offset, n) \in SentPacket
<1> DEFINE i == offset \div 10 + 1
           slot == IF i <= 4 THEN buffer[i] ELSE Blank
<1>1. i \in Nat /\ i >= 1
  OBVIOUS
<1>2. slot \in [frame : Frame \cup {None}, seq : 0 .. 4, total : 0 .. 4]
  <2>1. CASE i <= 4
    <3>1. i \in 1 .. 4 /\ slot = buffer[i]
      BY <1>1, <2>1
    <3>2. slot \in SlotOf(i)
      BY <3>1
    <3> HIDE DEF i, slot
    <3> QED BY <3>1, <3>2 DEF SlotOf
  <2>2. CASE ~(i <= 4)
    BY <2>2 DEF Blank
  <2> QED BY <2>1, <2>2
<1>3. PacketAt(buffer, offset, n) = [frame |-> slot.frame, seq |-> slot.seq,
                                     total |-> slot.total, len |-> n]
  BY DEF PacketAt
<1> HIDE DEF slot
<1> QED BY <1>2, <1>3 DEF SentPacket, MAX_DATA_BLACK_PACKET_SIZE

(* Filling the buffer keeps its slots well-formed.                         *)
LEMMA FillKeeps ==
  ASSUME \A i \in 1 .. 4 : Tx_Data_Buffer[i] \in SlotOf(i),
         NEW f \in Frame, NEW n \in 3 .. 40
  PROVE  \A i \in 1 .. 4 : Mesh_TxData_Handle(f, n)[i] \in SlotOf(i)
<1>1. Block_Send_Num(n) \in 1 .. 6
  BY BufferLength
<1> QED BY <1>1 DEF Mesh_TxData_Handle, SlotOf

------------------------------------------------------------------------------
LEMMA Initially == Init => Inv
<1> SUFFICES ASSUME Init PROVE Inv
  OBVIOUS
<1>1. NumberTypes
  BY PhaseAssumption DEF Init, NumberTypes, TIME1S, TIME100MS, TIMER_INVALID,
     BLOCK_SEND_RETRY_TIME, MAX_DATA_BLACK_PACKET_SIZE
<1>2. BufferTypes
  BY DEF Init, BufferTypes, SlotOf, Blank
<1>3. SentTypes
  BY DEF Init, SentTypes
<1>4. TimerTypes
  BY DEF Init, TimerTypes, Timer, Idle, Overflow, C_T_tMeshTimeOut2s,
         C_T_tmfTxdataWait100ms
<1>5. HostTypes
  <2>1. /\ unsent \subseteq Frame /\ WifiRxData \in Frame \cup {None}
        /\ BLE_TX_DATA \in Frame \cup {None} /\ BLE_TX_DATA_LENGTH \in 0 .. 40
        /\ sending \in Frame \cup {None}
    BY SMT DEF Init
  <2>2. /\ f_rxdataOK \in BOOLEAN /\ f_Mesh_Tx_Ready \in BOOLEAN
        /\ f_Mesh_First_Send \in BOOLEAN /\ measured \in BOOLEAN
    BY Zenon DEF Init
  <2> QED BY <2>1, <2>2 DEF HostTypes
<1> QED BY <1>1, <1>2, <1>3, <1>4, <1>5
        DEF Init, Inv, PendingInv, TransferInv, TimerInv, GapInv, Sending,
            TIMER_INVALID

------------------------------------------------------------------------------
(* While a transfer is in progress, nothing takes the previous one to be   *)
(* over.                                                                   *)
LEMMA OverMeansOver ==
  ASSUME Inv, previousIsOver
  PROVE  ~Sending /\ tx_stream_offset = device_info_length
         /\ gap = BLOCK_SEND_RETRY_TIME
  BY DEF Inv, TransferInv, TimerInv, GapInv, previousIsOver, fov, Idle,
         Overflow, C_T_tMeshTimeOut2s

(* The host and the check of its frames.                                   *)
LEMMA HostKeeps ==
  ASSUME Inv, \/ \E f \in unsent : uartRxDataCallback(f)
              \/ WifiRxdDataDo_New
              \/ WifiRxdCheckFails
  PROVE  Inv'
<1>1. PendingInv' /\ HostTypes'
  <2>1. CASE \E f \in unsent : uartRxDataCallback(f)
    <3>1. PICK f \in unsent : uartRxDataCallback(f)
      BY <2>1
    <3>2. f \in Frame
      BY DEF Inv, HostTypes
    <3>3. FrameLen[f] \in 3 .. 37
      BY <3>2, FrameLenAssumption
    <3>4. FrameLen[f] + 3 \in 3 .. 40
      BY <3>3
    <3> QED BY <3>1, <3>2, <3>4 DEF uartRxDataCallback, txHistory, txTrace, Inv,
                                     HostTypes, PendingInv
  <2>2. CASE WifiRxdDataDo_New
    <3>1. WifiRxData \in Frame
      BY <2>2 DEF WifiRxdDataDo_New, Inv, PendingInv
    <3>2. FrameLen[WifiRxData] \in 3 .. 37
      BY <3>1, FrameLenAssumption
    <3>3. /\ BLE_TX_DATA' \in Frame /\ BLE_TX_DATA_LENGTH' \in 3 .. 40
          /\ f_rxdataOK' = FALSE /\ f_Mesh_Tx_Ready' = TRUE
          /\ UNCHANGED <<unsent, WifiRxData, f_Mesh_First_Send, sending,
                         measured>>
      BY <2>2, <3>1, <3>2 DEF WifiRxdDataDo_New, txHistory, txTrace
    <3>4. BLE_TX_DATA_LENGTH' \in 0 .. 40 /\ BLE_TX_DATA' \in Frame \cup {None}
      BY <3>3
    <3>5. HostTypes'
      BY <3>3, <3>4, Zenon DEF Inv, HostTypes
    <3> QED BY <3>3, <3>5 DEF PendingInv
  <2>3. CASE WifiRxdCheckFails
    BY <2>3 DEF WifiRxdCheckFails, txPending, txHistory, txTrace, Inv, HostTypes,
                PendingInv
  <2> QED BY <2>1, <2>2, <2>3
<1>2. UNCHANGED <<f_Mesh_First_Send, txTransfer, txTimers, txClock, txTrace>>
  BY DEF uartRxDataCallback, WifiRxdDataDo_New, WifiRxdCheckFails, txPending,
         txHistory
<1> QED BY <1>1, <1>2 DEF Inv, NumberTypes, TimerTypes, BufferTypes, SentTypes,
     TransferInv, TimerInv, GapInv, Sending,
     UnitsLeft, UnitsToTimeOut, txTransfer, txTimers, txClock, txTrace

(* A transfer starts with its timeout two ticks away: 20 units at least,   *)
(* and at most 18 go by until the last of six packets is over.             *)
LEMMA StartKeeps ==
  ASSUME Inv, time10mshandle
  PROVE  Inv'
<1> DEFINE n == Tx_Data_Buffer_len(BLE_TX_DATA_LENGTH)
           buffer == Mesh_TxData_Handle(BLE_TX_DATA, BLE_TX_DATA_LENGTH)
           p == PacketAt(buffer, 0, PacketLen(n))
<1>1. BLE_TX_DATA \in Frame /\ BLE_TX_DATA_LENGTH \in 3 .. 40
  BY DEF Inv, PendingInv, time10mshandle
<1>2. n \in 4 .. 56
  BY <1>1, BufferLength
<1>3. \A i \in 1 .. 4 : buffer[i] \in SlotOf(i)
  BY <1>1, FillKeeps DEF Inv, BufferTypes
<1>4. /\ f_Mesh_Tx_Ready' = FALSE
      /\ f_Mesh_First_Send' = TRUE
      /\ tmfTxdataWait100ms' = Idle
      /\ tMeshTimeOut2s' = 2
      /\ Tx_Data_Buffer' = buffer
      /\ device_info_length' = n
      /\ tx_stream_offset' = 0
      /\ sent' = Append(<<>>, p)
      /\ last_data_len' = PacketLen(n)
      /\ block_send_retry_tid' = 3
      /\ gap' = 0
      /\ sending' = BLE_TX_DATA
      /\ measured' \in BOOLEAN
      /\ UNCHANGED <<txHost, BLE_TX_DATA, BLE_TX_DATA_LENGTH, txClock>>
  BY DEF time10mshandle, DataBlockSend, PacketAt, BLOCK_SEND_RETRY_TIME,
         C_T_tMeshTimeOut2s
<1> HIDE DEF n, buffer, p
<1>5. PacketLen(n) \in 1 .. 10 /\ PacketLen(n) <= n
      /\ (n > 10 => PacketLen(n) = 10)
      /\ (n <= 10 => PacketLen(n) = n)
  BY <1>2, PacketLength
<1>6. p \in SentPacket
  BY <1>3, <1>5, PacketIsSent DEF p
<1>7. sent' \in Seq(SentPacket)
  BY <1>4, <1>6
<1>8. HostTypes' /\ NumberTypes' /\ TimerTypes' /\ BufferTypes' /\ SentTypes'
  <2>1. HostTypes'
    BY <1>1, <1>4 DEF Inv, HostTypes, txHost
  <2>2. NumberTypes'
    BY <1>2, <1>4, <1>5 DEF Inv, NumberTypes, txClock, TIMER_INVALID,
       BLOCK_SEND_RETRY_TIME, MAX_DATA_BLACK_PACKET_SIZE
  <2>3. TimerTypes'
    BY <1>4 DEF TimerTypes, Timer, Idle, Overflow, C_T_tMeshTimeOut2s,
                C_T_tmfTxdataWait100ms
  <2> QED BY <1>3, <1>4, <1>7, <2>1, <2>2, <2>3 DEF BufferTypes, SentTypes
<1>9. (n - PacketLen(n) + 9) \div 10 \in 0 .. 5
  BY <1>2, <1>5
<1>10. TimerInv'
  <2>1. t_1s' \in Nat
    BY <1>4 DEF Inv, NumberTypes, txClock, TIME1S
  <2>2. UnitsLeft' = 3 + 3 * ((n - PacketLen(n) + 9) \div 10)
    BY <1>2, <1>4, <1>5 DEF UnitsLeft, BLOCK_SEND_RETRY_TIME
  <2>3. UnitsToTimeOut' = t_1s' + 20
    BY <1>4, <2>1 DEF UnitsToTimeOut, TIME1S
  <2>4. UnitsToTimeOut' >= UnitsLeft' + 2
    BY <1>9, <2>1, <2>2, <2>3
  <2> QED BY <1>4, <2>4 DEF TimerInv, C_T_tMeshTimeOut2s
<1>11. /\ PendingInv' /\ TransferInv' /\ GapInv'
  BY <1>1, <1>2, <1>4, <1>5, FrameAssumption
  DEF Inv, PendingInv, TransferInv, GapInv, Sending, txHost, TIMER_INVALID,
      BLOCK_SEND_RETRY_TIME
<1> QED BY <1>8, <1>10, <1>11 DEF Inv

(* The next packet takes what time it counted for; the end of the transfer *)
(* leaves the offset at the end of the buffer.                             *)
LEMMA RetryKeeps ==
  ASSUME Inv, blockSendRetryTimer
  PROVE  Inv'
<1> DEFINE offset == tx_stream_offset + last_data_len
           pending == device_info_length - offset
<1>1. /\ Sending /\ block_send_retry_tid = 0
      /\ device_info_length \in 0 .. 56
      /\ tx_stream_offset \in 0 .. device_info_length
      /\ last_data_len \in 1 .. 10
      /\ offset \in 1 .. device_info_length
      /\ pending \in 0 .. 56
  BY PacketLength DEF Inv, NumberTypes, TransferInv, blockSendRetryTimer, Sending,
     TIMER_INVALID, MAX_DATA_BLACK_PACKET_SIZE
<1>2. /\ tx_stream_offset' = offset
      /\ UNCHANGED <<txHost, txPending, Tx_Data_Buffer, device_info_length,
                     tMeshTimeOut2s, txClock, sending, measured>>
  BY DEF blockSendRetryTimer
<1>3. CASE pending # 0
  <2> DEFINE p == PacketAt(Tx_Data_Buffer, offset, PacketLen(pending))
  <2>1. /\ sent' = Append(sent, p)
        /\ last_data_len' = PacketLen(pending)
        /\ block_send_retry_tid' = 3
        /\ gap' = 0
        /\ UNCHANGED tmfTxdataWait100ms
    BY <1>3 DEF blockSendRetryTimer, DataBlockSend, PacketAt,
                BLOCK_SEND_RETRY_TIME
  <2>2. PacketLen(pending) \in 1 .. 10 /\ PacketLen(pending) <= pending
        /\ (pending > 10 => PacketLen(pending) = 10)
        /\ (pending <= 10 => PacketLen(pending) = pending)
    BY <1>1, <1>3, PacketLength
  <2>3. p \in SentPacket
    BY <1>1, <2>2, PacketIsSent DEF Inv, BufferTypes
  <2>4. sent' \in Seq(SentPacket)
    BY <2>1, <2>3 DEF Inv, SentTypes
  <2> HIDE DEF p
  <2>5. HostTypes' /\ NumberTypes' /\ TimerTypes' /\ BufferTypes' /\ SentTypes'
    <3>1. HostTypes' /\ TimerTypes' /\ BufferTypes'
      BY <1>2, <2>1 DEF Inv, HostTypes, TimerTypes, BufferTypes, txHost,
                        txPending
    <3>2. NumberTypes'
      BY <1>1, <1>2, <2>1, <2>2
      DEF Inv, NumberTypes, txClock, TIMER_INVALID, BLOCK_SEND_RETRY_TIME,
          MAX_DATA_BLACK_PACKET_SIZE
    <3> QED BY <3>1, <3>2, <2>4 DEF SentTypes
  <2>6. UnitsLeft' = UnitsLeft
    <3>1. UnitsLeft' =
            3 + 3 * ((pending - PacketLen(pending) + 9) \div 10)
      BY <1>1, <1>2, <2>1, <2>2 DEF UnitsLeft, BLOCK_SEND_RETRY_TIME
    <3>2. UnitsLeft = 3 * ((pending + 9) \div 10)
      BY <1>1 DEF UnitsLeft, BLOCK_SEND_RETRY_TIME
    <3>3. (pending + 9) \div 10 =
            1 + ((pending - PacketLen(pending) + 9) \div 10)
      BY <1>1, <1>3, <2>2
    <3> QED BY <1>1, <2>2, <3>1, <3>2, <3>3
  <2>7. TimerInv'
    BY <1>1, <1>2, <2>1, <2>6 DEF Inv, TimerInv, Sending, TIMER_INVALID,
       UnitsToTimeOut, txClock
  <2>8. PendingInv' /\ TransferInv' /\ GapInv'
    BY <1>1, <1>2, <1>3, <2>1, <2>2
    DEF Inv, PendingInv, TransferInv, GapInv, Sending, txHost, txPending,
        TIMER_INVALID, BLOCK_SEND_RETRY_TIME
  <2> QED BY <2>5, <2>7, <2>8 DEF Inv
<1>4. CASE pending = 0
  <2>1. /\ tmfTxdataWait100ms' = 1
        /\ block_send_retry_tid' = TIMER_INVALID
        /\ UNCHANGED <<sent, last_data_len, gap>>
    BY <1>4 DEF blockSendRetryTimer, C_T_tmfTxdataWait100ms
  <2>2. HostTypes' /\ NumberTypes' /\ TimerTypes' /\ BufferTypes' /\ SentTypes'
    <3>1. HostTypes' /\ BufferTypes' /\ SentTypes'
      BY <1>2, <2>1 DEF Inv, HostTypes, BufferTypes, SentTypes, txHost,
                        txPending
    <3>2. NumberTypes' /\ TimerTypes'
      BY <1>1, <1>2, <1>4, <2>1
      DEF Inv, NumberTypes, TimerTypes, txClock, TIMER_INVALID, Timer,
          Overflow, BLOCK_SEND_RETRY_TIME, C_T_tmfTxdataWait100ms
    <3> QED BY <3>1, <3>2
  <2>3. gap = BLOCK_SEND_RETRY_TIME
    BY <1>1 DEF Inv, GapInv, Sending, BLOCK_SEND_RETRY_TIME
  <2> QED BY <1>1, <1>2, <1>4, <2>1, <2>2, <2>3
          DEF Inv, PendingInv, TransferInv, TimerInv, GapInv, Sending, txHost,
              txPending
<1> QED BY <1>3, <1>4

(* The tick of the 100 ms base finds no wait running during a transfer.    *)
LEMMA Tick100Keeps ==
  ASSUME Inv, timer_100ms_RBINT
  PROVE  Inv'
<1>1. Tick(tmfTxdataWait100ms) \in Timer(C_T_tmfTxdataWait100ms)
      /\ (tmfTxdataWait100ms = Idle => Tick(tmfTxdataWait100ms) = Idle)
  BY TickKeeps DEF Inv, TimerTypes, C_T_tmfTxdataWait100ms
<1> QED BY <1>1
        DEF timer_100ms_RBINT, txHost, txPending, txTransfer, txHistory,
            txTrace, Inv, HostTypes, NumberTypes, TimerTypes,
     BufferTypes, SentTypes, PendingInv, TransferInv, TimerInv, GapInv,
            Sending, UnitsLeft, UnitsToTimeOut, TIME100MS

(* The tick of the 1 s base brings the timeout no nearer than the time     *)
(* that has passed since the last, and it is never the last tick.          *)
LEMMA Tick1sKeeps ==
  ASSUME Inv, timer_1s_RBINT
  PROVE  Inv'
<1>1. Tick(tMeshTimeOut2s) \in Timer(C_T_tMeshTimeOut2s)
      /\ (tMeshTimeOut2s > 1 => Tick(tMeshTimeOut2s) = tMeshTimeOut2s - 1)
  BY TickKeeps DEF Inv, TimerTypes, C_T_tMeshTimeOut2s
<1>2. /\ t_1s = 0 /\ t_1s' = TIME1S
      /\ tMeshTimeOut2s' = Tick(tMeshTimeOut2s)
      /\ UNCHANGED <<txHost, txPending, txTransfer, tmfTxdataWait100ms,
                     t_100ms, txHistory>>
  BY DEF timer_1s_RBINT
<1>3. /\ HostTypes' /\ NumberTypes' /\ TimerTypes' /\ BufferTypes' /\ SentTypes'
      /\ PendingInv' /\ TransferInv' /\ GapInv'
  BY <1>1, <1>2
  DEF txHost, txPending, txTransfer, txHistory, txTrace, Inv, HostTypes,
      NumberTypes, TimerTypes, BufferTypes, SentTypes, PendingInv, TransferInv, GapInv, Sending, TIME1S
<1>4. TimerInv'
  <2> SUFFICES ASSUME Sending'
               PROVE  /\ tmfTxdataWait100ms' = Idle
                      /\ tMeshTimeOut2s' \in 1 .. C_T_tMeshTimeOut2s
                      /\ UnitsToTimeOut' >= UnitsLeft' + 2
    BY DEF TimerInv
  <2>1. /\ Sending /\ UnitsLeft' = UnitsLeft
        /\ tmfTxdataWait100ms' = Idle
    BY <1>2 DEF Inv, TimerInv, Sending, UnitsLeft, txTransfer
  <2>2. UnitsLeft \in Nat
    BY PacketLength, <2>1 DEF Inv, NumberTypes, TransferInv, UnitsLeft, Sending,
       TIMER_INVALID, BLOCK_SEND_RETRY_TIME, MAX_DATA_BLACK_PACKET_SIZE
  <2>3. tMeshTimeOut2s = 2
    BY <1>2, <2>1, <2>2 DEF Inv, TimerInv, UnitsToTimeOut, TIME1S,
       C_T_tMeshTimeOut2s
  <2> QED BY <1>1, <1>2, <2>1, <2>2, <2>3
          DEF Inv, TimerInv, UnitsToTimeOut, TIME1S, C_T_tMeshTimeOut2s
<1> QED BY <1>3, <1>4 DEF Inv

(* A unit of time brings the end of the transfer and the timeout nearer by *)
(* as much.                                                                *)
LEMMA PassKeeps ==
  ASSUME Inv, txPass
  PROVE  Inv'
<1>1. /\ t_100ms > 0 /\ t_1s > 0 /\ block_send_retry_tid # 0
      /\ t_100ms' = t_100ms - 1
      /\ t_1s' = t_1s - 1
      /\ block_send_retry_tid' = IF block_send_retry_tid = TIMER_INVALID
                             THEN TIMER_INVALID ELSE block_send_retry_tid - 1
      /\ gap' = IF gap < BLOCK_SEND_RETRY_TIME THEN gap + 1 ELSE gap
      /\ UNCHANGED <<txHost, txPending, Tx_Data_Buffer, device_info_length,
                     tx_stream_offset, last_data_len, txTimers, sent, sending,
                     measured>>
  BY DEF txPass, txIdle
<1>2. /\ HostTypes' /\ NumberTypes' /\ TimerTypes' /\ BufferTypes' /\ SentTypes'
      /\ PendingInv' /\ TransferInv' /\ GapInv'
  BY <1>1
  DEF txHost, txPending, txTimers, Inv, HostTypes, NumberTypes, TimerTypes,
      BufferTypes, SentTypes, PendingInv, TransferInv,
      GapInv, Sending, TIMER_INVALID, BLOCK_SEND_RETRY_TIME, TIME1S, TIME100MS
<1>3. TimerInv'
  <2> SUFFICES ASSUME Sending'
               PROVE  /\ tmfTxdataWait100ms' = Idle
                      /\ tMeshTimeOut2s' \in 1 .. C_T_tMeshTimeOut2s
                      /\ UnitsToTimeOut' >= UnitsLeft' + 2
    BY DEF TimerInv
  <2>1. /\ Sending /\ block_send_retry_tid \in 1 .. 3
        /\ block_send_retry_tid' = block_send_retry_tid - 1
    BY <1>1 DEF Sending, Inv, NumberTypes, TIMER_INVALID, BLOCK_SEND_RETRY_TIME
  <2>2. /\ UnitsLeft' = UnitsLeft - 1 /\ UnitsLeft \in Int
    BY <1>1, <2>1 DEF UnitsLeft, Inv, NumberTypes, BLOCK_SEND_RETRY_TIME,
       MAX_DATA_BLACK_PACKET_SIZE
  <2>3. UnitsToTimeOut' = UnitsToTimeOut - 1 /\ UnitsToTimeOut \in Int
    BY <1>1, <2>1 DEF UnitsToTimeOut, Inv, NumberTypes, TimerInv, txTimers, TIME1S,
       C_T_tMeshTimeOut2s
  <2> QED BY <1>1, <2>1, <2>2, <2>3 DEF Inv, TimerInv, txTimers
<1> QED BY <1>2, <1>3 DEF Inv

LEMMA StepKeeps == Inv /\ [Next]_vars => Inv'
<1> SUFFICES ASSUME Inv, [Next]_vars PROVE Inv'
  OBVIOUS
<1>1. CASE UNCHANGED vars
  BY <1>1 DEF vars, txHost, txPending, txTransfer, txTimers, txClock,
     txHistory, txTrace, Inv, HostTypes, NumberTypes, TimerTypes,
     BufferTypes, SentTypes, PendingInv, TransferInv, TimerInv,
     GapInv, Sending, UnitsLeft, UnitsToTimeOut
<1> QED BY <1>1, HostKeeps, StartKeeps, RetryKeeps, Tick100Keeps, Tick1sKeeps,
           PassKeeps DEF Next

LEMMA Invariance == Spec => []Inv
  BY Initially, StepKeeps, PTL DEF Spec

------------------------------------------------------------------------------
(* Every variable of the sender keeps its type: above all, the offset never *)
(* passes the end of the buffer and a packet is never empty or longer than *)
(* ten bytes (data_model_handler.c, blockSendRetryTimer).                  *)
THEOREM TypeCorrect == Spec => []TypeOK
<1>1. Inv => TypeOK
  BY DEF Inv, HostTypes, NumberTypes, TimerTypes, BufferTypes, SentTypes,
         SlotOf, SentPacket, TypeOK
<1> QED BY <1>1, Invariance, PTL

(* A step that takes the waiting frame finds the transfer before it over:  *)
(* the 2 s timeout of main_app.c is armed at the start, and six packets    *)
(* take less than its shortest run, whatever the phase of its time base.   *)
THEOREM TransfersComplete == Spec => NeverCutShort
<1>1. Inv /\ [Next]_vars =>
        [ f_Mesh_Tx_Ready /\ ~f_Mesh_Tx_Ready' =>
            /\ block_send_retry_tid = TIMER_INVALID
            /\ tx_stream_offset = device_info_length ]_vars
  <2> SUFFICES ASSUME Inv, [Next]_vars, f_Mesh_Tx_Ready, ~f_Mesh_Tx_Ready'
               PROVE  /\ block_send_retry_tid = TIMER_INVALID
                      /\ tx_stream_offset = device_info_length
    OBVIOUS
  <2>1. time10mshandle
    BY DEF Next, vars, txHost, txPending, uartRxDataCallback,
           WifiRxdDataDo_New, WifiRxdCheckFails, blockSendRetryTimer,
           timer_100ms_RBINT, timer_1s_RBINT, txPass
  <2> QED BY <2>1, OverMeansOver DEF time10mshandle, Sending
<1> QED BY <1>1, Invariance, PTL DEF Spec, NeverCutShort

(* A packet goes out 150 ms or more after the one before it, also when it  *)
(* is the first of the next transfer (data_model_handler.c, DataBlockSend  *)
(* and the retry timer).                                                   *)
THEOREM PacketsKeepDistance == Spec => PacketsSpaced
<1>1. Inv /\ [Next]_vars => [ sent' # sent => gap = BLOCK_SEND_RETRY_TIME ]_vars
  <2> SUFFICES ASSUME Inv, [Next]_vars, sent' # sent
               PROVE  gap = BLOCK_SEND_RETRY_TIME
    OBVIOUS
  <2>1. time10mshandle \/ blockSendRetryTimer
    BY DEF Next, vars, txHistory, txTrace, uartRxDataCallback,
           WifiRxdDataDo_New, WifiRxdCheckFails, timer_100ms_RBINT,
           timer_1s_RBINT, txPass
  <2>2. CASE time10mshandle
    BY <2>2, OverMeansOver DEF time10mshandle
  <2>3. CASE blockSendRetryTimer
    BY <2>3 DEF blockSendRetryTimer, Inv, GapInv, Sending, TIMER_INVALID,
       BLOCK_SEND_RETRY_TIME
  <2> QED BY <2>1, <2>2, <2>3
<1> QED BY <1>1, Invariance, PTL DEF Spec, PacketsSpaced

------------------------------------------------------------------------------
(* Every frame fits the four slots of the buffer; a longer one is not      *)
(* copied into it at all.                                                  *)
FramesFit == \A f \in Frame : Block_Send_Num(FrameLen[f]) <= 4

(* What the buffer holds and what has been sent of the frame in transfer.  *)
Underway ==
  LET num == Block_Send_Num(FrameLen[sending])
  IN /\ device_info_length = Tx_Data_Buffer_len(FrameLen[sending])
     /\ Len(sent) >= 1
     /\ \A i \in 1 .. num :
          /\ Tx_Data_Buffer[i] = [frame |-> sending, seq |-> i, total |-> num]
          /\ i <= Len(sent) => sent[i] = PacketsOf(sending)[i]
     /\ Sending => tx_stream_offset = 10 * (Len(sent) - 1)
     /\ ~Sending => Len(sent) >= num

(* A transfer that began with the length of its frame sends that frame.    *)
SentInv == measured /\ sending # None => Underway

(* The packets of a frame that fits are those cut from its buffer at the   *)
(* multiples of ten.                                                       *)
LEMMA PacketOfFrame ==
  ASSUME NEW f \in Frame, Block_Send_Num(FrameLen[f]) <= 4,
         NEW i \in 1 .. Block_Send_Num(FrameLen[f])
  PROVE  /\ PacketsOf(f)[i] =
              [frame |-> f, seq |-> i, total |-> Block_Send_Num(FrameLen[f]),
               len |-> PacketLen(Tx_Data_Buffer_len(FrameLen[f]) - 10 * (i - 1))]
         /\ i \in 1 .. 4
<1> DEFINE n == FrameLen[f]
           num == Block_Send_Num(n)
           mod == Block_Send_Mod(n)
<1>1. n \in 3 .. 37
  BY FrameLenAssumption
<1>2. PacketsOf(f)[i] = [frame |-> f, seq |-> i, total |-> num,
                         len |-> IF i = num /\ mod # 0 THEN mod + 3 ELSE 10]
  BY DEF PacketsOf
<1> HIDE DEF n
<1>3. i \in 1 .. 4
  BY <1>1, BufferLength DEF n
<1>4. PacketLen(Tx_Data_Buffer_len(n) - 10 * (i - 1)) =
        IF i = num /\ mod # 0 THEN mod + 3 ELSE 10
  <2>1. i \in 1 .. num
    BY DEF n
  <2> QED BY <1>1, <1>3, <2>1 DEF Tx_Data_Buffer_len, Block_Send_Num,
             Block_Send_Mod, PacketLen, MAX_DATA_BLACK_PACKET_SIZE
<1> QED BY <1>2, <1>3, <1>4 DEF n

(* The packet at a multiple of ten is the one of that number.              *)
LEMMA PacketInSlot ==
  ASSUME NEW f \in Frame, Block_Send_Num(FrameLen[f]) <= 4,
         NEW buffer,
         NEW k \in 1 .. Block_Send_Num(FrameLen[f]),
         buffer[k] = [frame |-> f, seq |-> k,
                      total |-> Block_Send_Num(FrameLen[f])],
         NEW offset, offset = 10 * (k - 1),
         NEW pending, pending = Tx_Data_Buffer_len(FrameLen[f]) - offset
  PROVE  PacketAt(buffer, offset, PacketLen(pending)) = PacketsOf(f)[k]
<1>1. k \in 1 .. 4
  BY PacketOfFrame
<1>2. offset \div 10 + 1 = k
  BY <1>1
<1>3. PacketAt(buffer, offset, PacketLen(pending)) =
        [frame |-> buffer[k].frame, seq |-> buffer[k].seq,
         total |-> buffer[k].total, len |-> PacketLen(pending)]
  BY <1>1, <1>2 DEF PacketAt
<1> QED BY <1>3, PacketOfFrame

(* How far a frame that fits reaches: to its last packet and not beyond    *)
(* the one behind it.                                                      *)
LEMMA FrameReaches ==
  ASSUME NEW f \in Frame, NEW k \in Nat
  PROVE  /\ Tx_Data_Buffer_len(FrameLen[f]) <= 10 * k
              => Block_Send_Num(FrameLen[f]) <= k
         /\ Block_Send_Num(FrameLen[f]) \in 1 .. 6
<1>1. FrameLen[f] \in 3 .. 37
  BY FrameLenAssumption
<1> QED BY <1>1 DEF Tx_Data_Buffer_len, Block_Send_Num, Block_Send_Mod

LEMMA SentInitially == Init => SentInv
  BY DEF Init, SentInv

LEMMA SentStartKeeps ==
  ASSUME FramesFit, Inv, time10mshandle, measured'
  PROVE  Underway'
<1> DEFINE f == BLE_TX_DATA
           n == Tx_Data_Buffer_len(FrameLen[f])
           num == Block_Send_Num(FrameLen[f])
           buffer == Mesh_TxData_Handle(f, FrameLen[f])
<1>1. /\ f \in Frame /\ BLE_TX_DATA_LENGTH = FrameLen[f]
      /\ FrameLen[f] \in 3 .. 37 /\ num <= 4
  BY FrameLenAssumption
  DEF time10mshandle, Inv, PendingInv, FramesFit
<1>2. /\ Tx_Data_Buffer' = buffer
      /\ device_info_length' = n
      /\ tx_stream_offset' = 0
      /\ sent' = Append(<<>>, PacketAt(buffer, 0, PacketLen(n)))
      /\ sending' = f
      /\ block_send_retry_tid' = BLOCK_SEND_RETRY_TIME
  BY <1>1 DEF time10mshandle, DataBlockSend, PacketAt
<1>3. \A i \in 1 .. num : buffer[i] = [frame |-> f, seq |-> i, total |-> num]
  <2> SUFFICES ASSUME NEW i \in 1 .. num
               PROVE  buffer[i] = [frame |-> f, seq |-> i, total |-> num]
    OBVIOUS
  <2>1. i \in 1 .. 4
    BY <1>1, PacketOfFrame
  <2>2. i <= num
    BY <1>1, FrameReaches
  <2> HIDE DEF num, f
  <2> QED BY <1>1, <2>1, <2>2 DEF Mesh_TxData_Handle, num
<1>4. num \in 1 .. 6
  BY <1>1, FrameReaches
<1>5. PacketAt(buffer, 0, PacketLen(n)) = PacketsOf(f)[1]
  <2>1. 1 \in 1 .. num /\ n \in Int
    BY <1>1, <1>4 DEF Tx_Data_Buffer_len, Block_Send_Mod
  <2>2. buffer[1] = [frame |-> f, seq |-> 1, total |-> num]
    BY <1>3, <2>1
  <2>3. 0 = 10 * (1 - 1) /\ n = n - 0
    BY <2>1
  <2> HIDE DEF n, num, buffer, f
  <2> QED BY <1>1, <2>1, <2>2, <2>3, PacketInSlot DEF n, num
<1> HIDE DEF buffer
<1>6. Len(sent') = 1 /\ sent'[1] = PacketsOf(f)[1]
  BY <1>2, <1>5
<1>7. PacketsOf(sending)' = PacketsOf(sending')
  BY DEF PacketsOf
<1>8. \A i \in 1 .. num : i <= Len(sent') => sent'[i] = PacketsOf(f)[i]
  BY <1>4, <1>6
<1> QED BY <1>2, <1>3, <1>6, <1>7, <1>8
        DEF Underway, Sending, TIMER_INVALID, BLOCK_SEND_RETRY_TIME

LEMMA SentRetryKeeps ==
  ASSUME FramesFit, Inv, SentInv, blockSendRetryTimer, measured'
  PROVE  Underway'
<1> DEFINE f == sending
           num == Block_Send_Num(FrameLen[f])
           n == Tx_Data_Buffer_len(FrameLen[f])
           k == Len(sent)
           offset == tx_stream_offset + last_data_len
           pending == device_info_length - offset
<1>1. /\ Sending /\ f \in Frame /\ measured
      /\ tx_stream_offset < device_info_length
      /\ last_data_len = PacketLen(device_info_length - tx_stream_offset)
  BY DEF blockSendRetryTimer, Inv, TransferInv, HostTypes, Sending,
         TIMER_INVALID
<1>2. /\ device_info_length = n /\ k \in Nat \ {0}
      /\ tx_stream_offset = 10 * (k - 1)
      /\ \A i \in 1 .. num :
           /\ Tx_Data_Buffer[i] = [frame |-> f, seq |-> i, total |-> num]
           /\ i <= k => sent[i] = PacketsOf(f)[i]
  <2>1. Underway
    BY <1>1 DEF SentInv, Inv, TransferInv
  <2>2. k \in Nat
    BY DEF Inv, SentTypes
  <2> QED BY <1>1, <2>1, <2>2 DEF Underway
<1>3. /\ tx_stream_offset' = offset
      /\ UNCHANGED <<Tx_Data_Buffer, device_info_length, sending>>
  BY DEF blockSendRetryTimer
<1>4. num \in 1 .. 6 /\ num <= 4
  BY <1>1, FrameReaches DEF FramesFit
<1>5. PacketsOf(sending)' = PacketsOf(f)
  BY <1>3 DEF PacketsOf
<1>6. CASE pending # 0
  <2> DEFINE p == PacketAt(Tx_Data_Buffer, offset, PacketLen(pending))
  <2>1. /\ sent' = Append(sent, p)
        /\ block_send_retry_tid' = BLOCK_SEND_RETRY_TIME
    BY <1>6 DEF blockSendRetryTimer, DataBlockSend, PacketAt
  <2>2. offset = 10 * k
    BY <1>1, <1>2, <1>6, PacketLength DEF Inv, NumberTypes
  <2>3. /\ Len(sent') = k + 1 /\ sent'[k + 1] = p
        /\ \A i \in 1 .. k : sent'[i] = sent[i]
    BY <1>2, <2>1 DEF Inv, SentTypes
  <2>4. k + 1 \in 1 .. num => p = PacketsOf(f)[k + 1]
    <3> SUFFICES ASSUME k + 1 \in 1 .. num PROVE p = PacketsOf(f)[k + 1]
      OBVIOUS
    <3>1. /\ Tx_Data_Buffer[k + 1] =
                [frame |-> f, seq |-> k + 1, total |-> num]
          /\ offset = 10 * ((k + 1) - 1)
          /\ pending = n - offset
      BY <1>2, <2>2
    <3> HIDE DEF offset, pending, k, n
    <3> QED BY <1>1, <1>4, <3>1, PacketInSlot DEF n
  <2>5. \A i \in 1 .. num : i <= k + 1 => sent'[i] = PacketsOf(f)[i]
    <3> SUFFICES ASSUME NEW i \in 1 .. num, i <= k + 1
                 PROVE  sent'[i] = PacketsOf(f)[i]
      OBVIOUS
    <3> HIDE DEF p, k, num
    <3>1. CASE i = k + 1
      BY <2>3, <2>4, <3>1
    <3>2. CASE i # k + 1
      <4>1. i \in 1 .. k /\ i <= k
        BY <1>2, <1>4, <3>2
      <4> QED BY <1>2, <2>3, <4>1
    <3> QED BY <3>1, <3>2
  <2>6. Sending' /\ Len(sent') >= 1 /\ tx_stream_offset' = 10 * (Len(sent') - 1)
    BY <1>2, <1>3, <2>1, <2>2, <2>3 DEF Sending, TIMER_INVALID,
       BLOCK_SEND_RETRY_TIME
  <2> QED BY <1>2, <1>3, <1>5, <2>3, <2>5, <2>6 DEF Underway
<1>7. CASE pending = 0
  <2>1. block_send_retry_tid' = TIMER_INVALID /\ UNCHANGED sent
    BY <1>7 DEF blockSendRetryTimer
  <2> DEFINE r == device_info_length - tx_stream_offset
  <2>2. n <= 10 * k
    <3>1. r \in Nat \ {0} /\ n \in Int
      BY <1>1, <1>2 DEF Inv, NumberTypes
    <3>2. last_data_len \in 1 .. 10
      BY <1>1, <3>1, PacketLength
    <3>3. n = 10 * (k - 1) + last_data_len
      BY <1>2, <1>7, <3>1, <3>2
    <3> HIDE DEF n, k
    <3> QED BY <1>2, <3>1, <3>2, <3>3
  <2>3. k >= num
    BY <1>1, <1>2, <1>4, <2>2, FrameReaches
  <2> QED BY <1>2, <1>3, <1>5, <2>1, <2>3 DEF Underway, Sending
<1> QED BY <1>6, <1>7

LEMMA SentStepKeeps ==
  ASSUME FramesFit
  PROVE  Inv /\ SentInv /\ [Next]_vars => SentInv'
<1> SUFFICES ASSUME Inv, SentInv, [Next]_vars PROVE SentInv'
  OBVIOUS
<1>1. CASE time10mshandle
  BY <1>1, SentStartKeeps DEF SentInv
<1>2. CASE blockSendRetryTimer
  BY <1>2, SentRetryKeeps DEF SentInv
<1>3. CASE \/ \E f \in unsent : uartRxDataCallback(f)
           \/ WifiRxdDataDo_New \/ WifiRxdCheckFails
  <2>1. UNCHANGED txTransfer /\ UNCHANGED txHistory
    BY <1>3, Zenon DEF uartRxDataCallback, WifiRxdDataDo_New,
                       WifiRxdCheckFails
  <2>2. Underway' <=> Underway
    BY <2>1 DEF Underway, PacketsOf, Sending, txTransfer, txHistory, txTrace
  <2> QED BY <2>1, <2>2 DEF SentInv, txHistory, txTrace
<1>4. CASE timer_100ms_RBINT \/ timer_1s_RBINT \/ txPass \/ UNCHANGED vars
  <2>1. /\ UNCHANGED <<txHost, txPending, Tx_Data_Buffer, device_info_length,
                       tx_stream_offset, sent, sending, measured>>
        /\ Sending' <=> Sending
    BY <1>4 DEF timer_100ms_RBINT, timer_1s_RBINT, txPass, txIdle, vars,
       txTransfer, txHistory, txTrace, Sending, Inv, NumberTypes,
       TIMER_INVALID
  <2>2. Underway' <=> Underway
    BY <2>1 DEF Underway, PacketsOf
  <2> QED BY <2>1, <2>2 DEF SentInv
<1> QED BY <1>1, <1>2, <1>3, <1>4 DEF Next

(* A transfer that is over has sent the packets of its frame, whole, in    *)
(* order and first (data_model_handler.c, Mesh_TxData_Handle and           *)
(* blockSendRetryTimer; main_app.c, the wait for the previous transfer),   *)
(* unless it began with the length of a frame that came in behind its own. *)
(* Every frame has at most four packets: a longer one is not copied into   *)
(* the buffer and what is sent is the frame before it.                     *)
THEOREM FramesSentWhole ==
  ASSUME FramesFit
  PROVE  Spec => []SentWhole
<1>1. Init => SentInv
  BY SentInitially
<1>2. Inv /\ SentInv /\ [Next]_vars => SentInv'
  BY SentStepKeeps
<1>3. Inv /\ SentInv => SentWhole
  <2> SUFFICES ASSUME Inv, SentInv, measured, transferOver
               PROVE  IsPrefix(PacketsOf(sending), sent)
    BY DEF SentWhole
  <2> DEFINE num == Block_Send_Num(FrameLen[sending])
             packets == PacketsOf(sending)
  <2>1. sending \in Frame /\ ~Sending
    BY DEF transferOver, Inv, HostTypes, Sending
  <2>2. num \in 1 .. 6 /\ Len(sent) \in Nat
    BY <2>1, FrameReaches DEF Inv, SentTypes
  <2>3. /\ Len(sent) >= num
        /\ \A i \in 1 .. num : i <= Len(sent) => sent[i] = packets[i]
    BY <2>1 DEF SentInv, Underway, transferOver
  <2>4. /\ packets = [i \in 1 .. num |-> packets[i]]
        /\ Len(packets) = num
    BY <2>2 DEF PacketsOf
  <2> HIDE DEF num, packets
  <2>5. SubSeq(packets, 1, Len(packets)) = [i \in 1 .. num |-> packets[i]]
    BY <2>2, <2>4
  <2>6. SubSeq(sent, 1, Len(packets)) = [i \in 1 .. num |-> sent[i]]
    BY <2>2, <2>3, <2>4
  <2>7. SubSeq(packets, 1, Len(packets)) = SubSeq(sent, 1, Len(packets))
    BY <2>2, <2>3, <2>5, <2>6
  <2> QED BY <2>3, <2>4, <2>7 DEF IsPrefix, packets
<1> QED BY <1>1, <1>2, <1>3, Invariance, PTL DEF Spec
=============================================================================
