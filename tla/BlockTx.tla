------------------------------ MODULE BlockTx ------------------------------
(***************************************************************************)
(* The sender of block messages: a frame from the UART waits in            *)
(* BLE_TX_DATA (uart_time.c), the 10 ms handler starts it when the         *)
(* previous one is over (main_app.c), and data_model_handler.c cuts it     *)
(* into packets and hands one to the mesh stack every 150 ms.              *)
(*                                                                         *)
(* Time passes in units of 50 ms.  A timer that is due is served, and the  *)
(* 10 ms handler runs, before the next unit begins; within a unit they and *)
(* the UART take any order.                                                *)
(***************************************************************************)
EXTENDS Integers, Sequences, SequencesExt, SoftTimer

CONSTANTS
  Frame,      \* the frames the host may send, each at most once
  FrameLen,   \* BLE_TX_DATA_LENGTH of each, check byte included
  None,
  Phase1s     \* units from start to the first 1 s tick

ASSUME FrameAssumption == None \notin Frame
ASSUME FrameLenAssumption == FrameLen \in [Frame -> 3 .. 37]
ASSUME PhaseAssumption == Phase1s \subseteq 1 .. 20

VARIABLES
  unsent,                \* frames the host has not sent
  f_rxdataOK, WifiRxData,
  f_Mesh_Tx_Ready, f_Mesh_First_Send,
  BLE_TX_DATA, BLE_TX_DATA_LENGTH,
  Tx_Data_Buffer,        \* four slots of ten bytes
  device_info_length, tx_stream_offset, last_data_len,
  block_send_retry_tid,  \* units to go, or TIMER_INVALID
  tmfTxdataWait100ms, tMeshTimeOut2s,
  t_100ms, t_1s,         \* units to the next tick of the two time bases
  sent,                  \* history: packets of the current transfer
  sending,               \* history: the frame being transferred
  gap,                   \* history: units since a packet was sent, up to 3
  measured               \* history: did it begin with its own length?

txHost == <<unsent, f_rxdataOK, WifiRxData>>
txPending == <<f_Mesh_Tx_Ready, f_Mesh_First_Send, BLE_TX_DATA,
               BLE_TX_DATA_LENGTH>>
txTransfer == <<Tx_Data_Buffer, device_info_length, tx_stream_offset,
                last_data_len, block_send_retry_tid>>
txTimers == <<tmfTxdataWait100ms, tMeshTimeOut2s>>
txClock == <<t_100ms, t_1s>>
txTrace == <<sent, sending, gap>>
txHistory == <<txTrace, measured>>
vars == <<txHost, txPending, txTransfer, txTimers, txClock, txHistory>>

TIMER_INVALID == -1
BLOCK_SEND_RETRY_TIME == 3
TIME100MS == 2
TIME1S == 20
(* Mutant: the timeout is one tick, which may be due at once.              *)
timeOut_oneTick == 1
C_T_tMeshTimeOut2s == 2
C_T_tmfTxdataWait100ms == 1
MAX_DATA_BLACK_PACKET_SIZE == 10

------------------------------------------------------------------------------
(* Mesh_TxData_Handle: a frame of n bytes has a two byte head, repeated in *)
(* the header of every packet, and n - 2 bytes carried seven to a packet.  *)
Block_Send_Mod(n) == (n - 2) % 7
Block_Send_Num(n) == (n - 2) \div 7 + (IF Block_Send_Mod(n) # 0 THEN 1 ELSE 0)
(* Mutant: the header of the last packet is not counted.                   *)
Tx_Data_Buffer_len_short(n) == ((n - 2) \div 7) * 10 + Block_Send_Mod(n)
Tx_Data_Buffer_len(n) == ((n - 2) \div 7) * 10 + Block_Send_Mod(n) + 3

(* The slots of the buffer: each holds the packet with its header.  Frames *)
(* of more than four packets are not copied at all.                        *)
Blank == [frame |-> None, seq |-> 0, total |-> 0]

Mesh_TxData_Handle(f, n) ==
  LET num == Block_Send_Num(n)
  IN [i \in 1 .. 4 |->
        IF num <= 4 /\ i <= num
        THEN [frame |-> f, seq |-> i, total |-> num]
        ELSE Tx_Data_Buffer[i]]

(* The packet at an offset into the buffer; past its end is memory that    *)
(* belongs to something else.                                              *)
PacketAt(buffer, offset, n) ==
  LET i == offset \div 10 + 1
      slot == IF i <= 4 THEN buffer[i] ELSE Blank
  IN [frame |-> slot.frame, seq |-> slot.seq, total |-> slot.total,
      len |-> n]

(* Mutant: all that is pending goes out at once.                           *)
PacketLen_all(pending) == pending

PacketLen(pending) ==
  IF pending > MAX_DATA_BLACK_PACKET_SIZE
  THEN MAX_DATA_BLACK_PACKET_SIZE ELSE pending

------------------------------------------------------------------------------
(* A frame has come in over the UART: its length is noted at once, before  *)
(* the frame is checked, and counts three bytes the mesh frame lacks.      *)
uartRxDataCallback(f) ==
  /\ f \in unsent
  /\ ~f_rxdataOK
  /\ unsent' = unsent \ {f}
  /\ f_rxdataOK' = TRUE
  /\ WifiRxData' = f
  /\ BLE_TX_DATA_LENGTH' = FrameLen[f] + 3
  /\ UNCHANGED <<f_Mesh_Tx_Ready, f_Mesh_First_Send, BLE_TX_DATA, txTransfer,
                 txTimers, txClock, txHistory>>

(* processuartdata, in the 1 ms handler: a frame with a good check byte    *)
(* becomes the frame to send (WifiRxDataEEEE, WifiRxDataEEAA).             *)
WifiRxdDataDo_New ==
  /\ f_rxdataOK
  /\ f_rxdataOK' = FALSE
  /\ BLE_TX_DATA' = WifiRxData
  /\ BLE_TX_DATA_LENGTH' = FrameLen[WifiRxData]
  /\ f_Mesh_Tx_Ready' = TRUE
  /\ UNCHANGED <<unsent, WifiRxData, f_Mesh_First_Send, txTransfer, txTimers,
                 txClock, txHistory>>

(* A frame the line has damaged is dropped; its length stays.              *)
WifiRxdCheckFails ==
  /\ f_rxdataOK
  /\ f_rxdataOK' = FALSE
  /\ UNCHANGED <<unsent, WifiRxData, txPending, txTransfer, txTimers, txClock,
                 txHistory>>

(* DataBlockSend: the packet goes to the mesh stack.                       *)
DataBlockSend(earlier, p) ==
  /\ sent' = Append(earlier, p)
  /\ last_data_len' = p.len
  /\ block_send_retry_tid' = BLOCK_SEND_RETRY_TIME
  /\ gap' = 0

(* Mutants: a wait that was never started counts as over; the first frame  *)
(* waits for a transfer there never was.                                   *)
previousIsOver_notWaiting ==
  ~f_Mesh_First_Send \/ tmfTxdataWait100ms # C_T_tmfTxdataWait100ms

previousIsOver_waited == fov(tmfTxdataWait100ms) \/ fov(tMeshTimeOut2s)

previousIsOver ==
  ~f_Mesh_First_Send \/ fov(tmfTxdataWait100ms) \/ fov(tMeshTimeOut2s)

(* The 10 ms handler starts the waiting frame, with StartBlockSendData,    *)
(* which puts an end to whatever transfer is in progress.                  *)
time10mshandle ==
  LET n == Tx_Data_Buffer_len(BLE_TX_DATA_LENGTH)
      buffer == Mesh_TxData_Handle(BLE_TX_DATA, BLE_TX_DATA_LENGTH)
  IN /\ f_Mesh_Tx_Ready
     /\ previousIsOver
     /\ f_Mesh_Tx_Ready' = FALSE
     /\ f_Mesh_First_Send' = TRUE
     /\ tmfTxdataWait100ms' = Idle
     /\ tMeshTimeOut2s' = C_T_tMeshTimeOut2s
     /\ Tx_Data_Buffer' = buffer
     /\ device_info_length' = n
     /\ tx_stream_offset' = 0
     /\ DataBlockSend(<<>>, PacketAt(buffer, 0, PacketLen(n)))
     /\ sending' = BLE_TX_DATA
     /\ measured' = (BLE_TX_DATA_LENGTH = FrameLen[BLE_TX_DATA])
     /\ UNCHANGED <<txHost, BLE_TX_DATA, BLE_TX_DATA_LENGTH, txClock>>

(* The next packet, or the wait that ends the transfer.                    *)
blockSendRetryTimer ==
  LET offset == tx_stream_offset + last_data_len
      pending == device_info_length - offset
  IN /\ block_send_retry_tid = 0
     /\ tx_stream_offset' = offset
     /\ \/ /\ pending # 0
           /\ DataBlockSend(sent,
                PacketAt(Tx_Data_Buffer, offset, PacketLen(pending)))
           /\ UNCHANGED tmfTxdataWait100ms
        \/ /\ pending = 0
           /\ tmfTxdataWait100ms' = C_T_tmfTxdataWait100ms
           /\ block_send_retry_tid' = TIMER_INVALID
           /\ UNCHANGED <<sent, last_data_len, gap>>
     /\ UNCHANGED <<txHost, txPending, Tx_Data_Buffer, device_info_length,
                    tMeshTimeOut2s, txClock, sending, measured>>

timer_100ms_RBINT ==
  /\ t_100ms = 0
  /\ t_100ms' = TIME100MS
  /\ tmfTxdataWait100ms' = Tick(tmfTxdataWait100ms)
  /\ UNCHANGED <<txHost, txPending, txTransfer, tMeshTimeOut2s, t_1s,
                 txHistory>>

timer_1s_RBINT ==
  /\ t_1s = 0
  /\ t_1s' = TIME1S
  /\ tMeshTimeOut2s' = Tick(tMeshTimeOut2s)
  /\ UNCHANGED <<txHost, txPending, txTransfer, tmfTxdataWait100ms, t_100ms,
                 txHistory>>

(* 50 ms pass, once everything due in the last 50 ms has been done.        *)
txIdle ==
  /\ t_100ms > 0 /\ t_1s > 0 /\ block_send_retry_tid # 0
  /\ ~f_rxdataOK
  /\ ~(f_Mesh_Tx_Ready /\ previousIsOver)

txPass ==
  /\ txIdle
  /\ t_100ms' = t_100ms - 1
  /\ t_1s' = t_1s - 1
  /\ block_send_retry_tid' = IF block_send_retry_tid = TIMER_INVALID
                             THEN TIMER_INVALID ELSE block_send_retry_tid - 1
  /\ gap' = IF gap < BLOCK_SEND_RETRY_TIME THEN gap + 1 ELSE gap
  /\ UNCHANGED <<txHost, txPending, Tx_Data_Buffer, device_info_length,
                 tx_stream_offset, last_data_len, txTimers, sent, sending,
                 measured>>

------------------------------------------------------------------------------
Init ==
  /\ unsent = Frame
  /\ f_rxdataOK = FALSE /\ WifiRxData = None
  /\ f_Mesh_Tx_Ready = FALSE /\ f_Mesh_First_Send = FALSE
  /\ BLE_TX_DATA = None /\ BLE_TX_DATA_LENGTH = 0
  /\ Tx_Data_Buffer = [i \in 1 .. 4 |-> Blank]
  /\ device_info_length = 0 /\ tx_stream_offset = 0 /\ last_data_len = 0
  /\ block_send_retry_tid = TIMER_INVALID
  /\ tmfTxdataWait100ms = Idle /\ tMeshTimeOut2s = Idle
  /\ t_100ms \in 1 .. TIME100MS /\ t_1s \in Phase1s
  /\ sent = <<>> /\ sending = None /\ gap = BLOCK_SEND_RETRY_TIME
  /\ measured = TRUE

Next ==
  \/ \E f \in unsent : uartRxDataCallback(f)
  \/ WifiRxdDataDo_New
  \/ WifiRxdCheckFails
  \/ time10mshandle
  \/ blockSendRetryTimer
  \/ timer_100ms_RBINT
  \/ timer_1s_RBINT
  \/ txPass

Spec == Init /\ [][Next]_vars

(* Time passes, and what is due is done; nothing makes the host send.      *)
FairSpec == /\ Spec
            /\ WF_vars(txPass)
            /\ WF_vars(WifiRxdDataDo_New)
            /\ WF_vars(time10mshandle)
            /\ WF_vars(blockSendRetryTimer)
            /\ WF_vars(timer_100ms_RBINT)
            /\ WF_vars(timer_1s_RBINT)

------------------------------------------------------------------------------
TypeOK ==
  /\ unsent \subseteq Frame
  /\ f_rxdataOK \in BOOLEAN
  /\ WifiRxData \in Frame \cup {None}
  /\ f_Mesh_Tx_Ready \in BOOLEAN
  /\ f_Mesh_First_Send \in BOOLEAN
  /\ BLE_TX_DATA \in Frame \cup {None}
  /\ BLE_TX_DATA_LENGTH \in 0 .. 40
  /\ \A i \in 1 .. 4 : Tx_Data_Buffer[i] \in
       [frame : Frame \cup {None}, seq : {0, i}, total : 0 .. 4]
  /\ device_info_length \in 0 .. 56
  /\ tx_stream_offset \in 0 .. device_info_length
  /\ last_data_len \in 0 .. MAX_DATA_BLACK_PACKET_SIZE
  /\ block_send_retry_tid \in TIMER_INVALID .. BLOCK_SEND_RETRY_TIME
  /\ tmfTxdataWait100ms \in Timer(C_T_tmfTxdataWait100ms)
  /\ tMeshTimeOut2s \in Timer(C_T_tMeshTimeOut2s)
  /\ t_100ms \in 0 .. TIME100MS
  /\ t_1s \in 0 .. TIME1S
  /\ sent \in Seq([frame : Frame \cup {None}, seq : 0 .. 4, total : 0 .. 4,
                   len : 1 .. MAX_DATA_BLACK_PACKET_SIZE])
  /\ sending \in Frame \cup {None}
  /\ gap \in 0 .. BLOCK_SEND_RETRY_TIME
  /\ measured \in BOOLEAN

(* A transfer is over before the next one starts: neither the 2 s timeout, *)
(* armed at its start, nor a wait left over from the transfer before it    *)
(* lets a new frame rewrite the buffer with packets still to go.           *)
NeverCutShort ==
  [][ f_Mesh_Tx_Ready /\ ~f_Mesh_Tx_Ready' =>
        /\ block_send_retry_tid = TIMER_INVALID
        /\ tx_stream_offset = device_info_length ]_vars

(* Packets leave at least 150 ms apart, across transfers too.              *)
PacketsSpaced == [][ sent' # sent => gap = BLOCK_SEND_RETRY_TIME ]_vars

(* A frame that waits is started, whatever became of the one before it.    *)
WaitingIsSent == f_Mesh_Tx_Ready ~> ~f_Mesh_Tx_Ready

(* The packets a frame should be cut into.                                 *)
PacketsOf(f) ==
  LET n == FrameLen[f]
      num == Block_Send_Num(n)
  IN [i \in 1 .. num |->
        [frame |-> f, seq |-> i, total |-> num,
         len |-> IF i = num /\ Block_Send_Mod(n) # 0
                 THEN Block_Send_Mod(n) + 3 ELSE 10]]

transferOver == sending # None /\ block_send_retry_tid = TIMER_INVALID

(* A finished transfer has sent the whole frame, in order and first,       *)
(* whatever frames came in before and during it, those that replaced a     *)
(* waiting one included.  The exception is a transfer that began between   *)
(* the arrival of a frame and its check: the length it finds is the new    *)
(* one's already.                                                          *)
SentWhole == measured /\ transferOver => IsPrefix(PacketsOf(sending), sent)

(* The number in the header is the number of packets of the transfer       *)
(* (data_model_handler.c:443).                                             *)
TotalIsCount ==
  measured /\ transferOver => \A i \in 1 .. Len(sent) : sent[i].total = Len(sent)
=============================================================================
