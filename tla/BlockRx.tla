------------------------------ MODULE BlockRx ------------------------------
(***************************************************************************)
(* The receiver of block messages (data_model_handler.c), the timers that  *)
(* close a reception (main_app.c, time_uart.c) and the hand-over of the    *)
(* received frame to the UART (uart_time.c).                               *)
(*                                                                         *)
(* A frame travels as up to four packets, each with a three byte header    *)
(* (kind, message id, sequence number and number of packets) and up to     *)
(* seven bytes of the frame.  BLE_RX_DATA is seen as four slots of seven   *)
(* bytes; a slot holds the frame whose bytes were last written to it.      *)
(***************************************************************************)
EXTENDS Integers, SoftTimer

CONSTANTS
  Frame,      \* the frames sent to this node
  Source,     \* the mesh address each frame comes from
  MsgId,      \* the message id each frame carries
  Total,      \* the number of packets of each frame, from its own length
  Deliveries, \* the packets the mesh may bring: one of these sets
  None,
  Colliding   \* frames whose 8 bit check may accept bytes of others

ASSUME FrameAssumption == None \notin Frame
ASSUME TotalAssumption == Total \in [Frame -> 1 .. 4]
ASSUME CollidingAssumption == Colliding \subseteq Frame

(* A packet of three bytes is a header without data; it is what an earlier *)
(* frame left behind its first packet (Mesh_TxData_Handle), so it is never *)
(* the first.  A packet that does not begin as a frame does has no frame.  *)
Packet == [frame : Frame, seq : 1 .. 4, total : 1 .. 4, len : 4 .. 10] \cup
          [frame : Frame, seq : 2 .. 4, total : 1 .. 4, len : {3}] \cup
          [frame : {None}, seq : {0}, total : {0}, len : 1 .. 10]

Traffic == UNION Deliveries

ASSUME TrafficAssumption == Traffic \subseteq Packet

VARIABLES
  net,                       \* packets the mesh has not brought
  f_Block_Buffer_Empty,
  rx_src_id, Rx_MessageID,   \* of the packet that opened the reception
  f_rxmeshdata,              \* the set of i whose flag f_rxmeshdata0i is on
  BLE_RX_DATA,
  RX_MESH_ID,                \* source of the frame for the UART
  UartTxDataType,            \* is there a frame for the UART?
  tRxMeshTimeOut2s,          \* 1 s ticks
  tmeshfinishdataWait100ms,  \* 100 ms ticks
  pieces,                    \* history: what this reception has stored
  accepted,                  \* history: did it end with a good frame?
  disturbed                  \* history: did it begin while a report waited,
                             \* or with a header without data?

rxTimers == <<tRxMeshTimeOut2s, tmeshfinishdataWait100ms>>
rxBuffer == <<rx_src_id, Rx_MessageID, f_rxmeshdata, BLE_RX_DATA>>
rxReport == <<RX_MESH_ID, UartTxDataType>>
rxHistory == <<pieces, accepted, disturbed>>
vars == <<net, f_Block_Buffer_Empty, rxBuffer, rxReport, rxTimers, rxHistory>>

C_T_tRxMeshTimeOut2s == 2
(* Mutant: the pause after a reception is counted longer than the sender   *)
(* waits between frames.                                                   *)
finishWait_long == 4
C_T_tmeshfinishdataWait100ms == 1

Slot == 1 .. 4

(* Mutant: the last slot is forgotten.                                     *)
Cleared_short == [i \in 1 .. 3 |-> None]
Cleared == [i \in Slot |-> None]

------------------------------------------------------------------------------
(* Mutant: the source of a packet is not compared.                         *)
belongs_anySource(p) ==
  ~f_Block_Buffer_Empty /\ Rx_MessageID = MsgId[p.frame]

(* A packet opens a reception if there is none, and belongs to the one in  *)
(* progress if it has its source and message id.  Others are ignored.      *)
belongs(p) ==
  /\ ~f_Block_Buffer_Empty
  /\ rx_src_id = Source[p.frame]
  /\ Rx_MessageID = MsgId[p.frame]

(* Mutant: the packet that opens a reception trusts the flags it finds.    *)
lastOf_stale(p) ==
  /\ p.seq \in 1 .. p.total
  /\ p.total = 4 => p.seq = 4
  /\ 1 .. p.total \ {p.seq} \subseteq f_rxmeshdata

(* The packet that brings a frame to its end.  The opening packet only     *)
(* looks for a frame of one packet; of four packets, only the fourth looks *)
(* at the others.                                                          *)
lastOf(p) ==
  LET rest == 1 .. p.total \ {p.seq}
  IN IF f_Block_Buffer_Empty
     THEN p.total = 1 /\ p.seq = 1
     ELSE /\ p.total > 1
          /\ p.seq \in 1 .. p.total
          /\ p.total = 4 => p.seq = 4
          /\ rest \subseteq f_rxmeshdata

stored(p) == IF p.len > 3 THEN [BLE_RX_DATA EXCEPT ![p.seq] = p.frame]
                          ELSE BLE_RX_DATA

(* MeshRxdCheck_New: the frame in the first slot says how many bytes the   *)
(* check covers.  Bytes of one frame pass; a mixture may.                  *)
Pure(data) ==
  /\ data[1] # None
  /\ \A i \in 1 .. Total[data[1]] : data[i] = data[1]

MeshRxdCheck_New(data) ==
  IF Pure(data) THEN {TRUE}
  ELSE IF data[1] \in Colliding THEN BOOLEAN ELSE {FALSE}

(* The end of a reception: the wait before the next one starts, and a      *)
(* frame that passes the check is left for the UART.                       *)
finish(data, src) ==
  /\ tmeshfinishdataWait100ms' = C_T_tmeshfinishdataWait100ms
  /\ \E ok \in MeshRxdCheck_New(data) :
       /\ IF ok THEN RX_MESH_ID' = src /\ UartTxDataType' = TRUE
                ELSE UNCHANGED rxReport
       /\ accepted' = ok

(* Mutant: no timeout is started.                                          *)
open_untimed(p) ==
  IF f_Block_Buffer_Empty
  THEN /\ f_Block_Buffer_Empty' = FALSE
       /\ Rx_MessageID' = MsgId[p.frame]
       /\ rx_src_id' = Source[p.frame]
       /\ disturbed' = (UartTxDataType \/ p.len <= 3)
       /\ UNCHANGED tRxMeshTimeOut2s
  ELSE UNCHANGED <<f_Block_Buffer_Empty, tRxMeshTimeOut2s, Rx_MessageID,
                   rx_src_id, disturbed>>

(* The packet that opens a reception starts its timeout.                   *)
open(p) ==
  IF f_Block_Buffer_Empty
  THEN /\ f_Block_Buffer_Empty' = FALSE
       /\ tRxMeshTimeOut2s' = C_T_tRxMeshTimeOut2s
       /\ Rx_MessageID' = MsgId[p.frame]
       /\ rx_src_id' = Source[p.frame]
       /\ disturbed' = (UartTxDataType \/ p.len <= 3)
  ELSE UNCHANGED <<f_Block_Buffer_Empty, tRxMeshTimeOut2s, Rx_MessageID,
                   rx_src_id, disturbed>>

take(p) ==
  /\ BLE_RX_DATA' = stored(p)
  /\ f_rxmeshdata' = (f_rxmeshdata \cup {p.seq}) \
                     (IF lastOf(p) THEN 1 .. p.total ELSE {})
  /\ pieces' = (IF f_Block_Buffer_Empty THEN {} ELSE pieces) \cup
               (IF p.len > 3 THEN {p.seq} ELSE {})
  /\ IF lastOf(p) THEN finish(stored(p), rx_src_id')
     ELSE /\ accepted' = (accepted /\ ~f_Block_Buffer_Empty)
          /\ UNCHANGED <<tmeshfinishdataWait100ms, rxReport>>

handleCSRmeshDataBlockInd(p) ==
  IF p.frame # None /\ (f_Block_Buffer_Empty \/ belongs(p))
  THEN open(p) /\ take(p)
  ELSE UNCHANGED <<f_Block_Buffer_Empty, rxBuffer, rxReport, rxTimers,
                   rxHistory>>

(* The mesh brings a packet: each at most once (the stack drops copies),   *)
(* in any order, or never.                                                 *)
Receive(p) ==
  /\ p \in net
  /\ net' = net \ {p}
  /\ handleCSRmeshDataBlockInd(p)

timer_100ms_RBINT ==
  /\ tmeshfinishdataWait100ms' = Tick(tmeshfinishdataWait100ms)
  /\ UNCHANGED <<net, f_Block_Buffer_Empty, rxBuffer, rxReport,
                 tRxMeshTimeOut2s, rxHistory>>

timer_1s_RBINT ==
  /\ tRxMeshTimeOut2s' = Tick(tRxMeshTimeOut2s)
  /\ UNCHANGED <<net, f_Block_Buffer_Empty, rxBuffer, rxReport,
                 tmeshfinishdataWait100ms, rxHistory>>

(* Mutant: only a completed reception reopens the buffer.                  *)
reopens_completed == fov(tmeshfinishdataWait100ms)

reopens == fov(tmeshfinishdataWait100ms) \/ fov(tRxMeshTimeOut2s)

(* WifiTxDataEEEE and WifiTxDataEEAA: the report is made of RX_MESH_ID and *)
(* BLE_RX_DATA as they are now, and both are cleared.                      *)
WifiTxData ==
  /\ UartTxDataType
  /\ UartTxDataType' = FALSE
  /\ RX_MESH_ID' = None
  /\ BLE_RX_DATA' = Cleared
  /\ UNCHANGED <<rx_src_id, Rx_MessageID, f_rxmeshdata>>

(* The 1 ms handler: reopen the buffer when either timer has overflowed,   *)
(* then let processuartdata take the report if its transmit side is free;  *)
(* the report may still wait when the buffer reopens.                      *)
time1mshandle ==
  /\ reopens \/ UartTxDataType
  /\ IF reopens
     THEN /\ f_Block_Buffer_Empty' = TRUE
          /\ tmeshfinishdataWait100ms' = Idle
          /\ tRxMeshTimeOut2s' = Idle
     ELSE UNCHANGED <<f_Block_Buffer_Empty, rxTimers>>
  /\ \/ WifiTxData
     \/ UNCHANGED <<rxBuffer, rxReport>>
  /\ UNCHANGED <<net, rxHistory>>

------------------------------------------------------------------------------
RxInit ==
  /\ f_Block_Buffer_Empty = TRUE
  /\ rx_src_id = None /\ Rx_MessageID = None
  /\ f_rxmeshdata = {}
  /\ BLE_RX_DATA = Cleared
  /\ RX_MESH_ID = None /\ UartTxDataType = FALSE
  /\ tRxMeshTimeOut2s = Idle /\ tmeshfinishdataWait100ms = Idle
  /\ pieces = {} /\ accepted = FALSE /\ disturbed = FALSE

Init == RxInit /\ net \in Deliveries

Next ==
  \/ \E p \in net : Receive(p)
  \/ timer_100ms_RBINT
  \/ timer_1s_RBINT
  \/ time1mshandle

Spec == Init /\ [][Next]_vars

(* The handlers re-create their timer each time it fires, so every time    *)
(* base keeps ticking.                                                     *)
FairSpec == /\ Spec
            /\ WF_vars(timer_100ms_RBINT)
            /\ WF_vars(timer_1s_RBINT)
            /\ WF_vars(time1mshandle)

------------------------------------------------------------------------------
Address == {Source[f] : f \in Frame} \cup {None}

TypeOK ==
  /\ net \subseteq Traffic
  /\ f_Block_Buffer_Empty \in BOOLEAN
  /\ rx_src_id \in Address
  /\ Rx_MessageID \in {MsgId[f] : f \in Frame} \cup {None}
  /\ f_rxmeshdata \subseteq Slot
  /\ BLE_RX_DATA \in [Slot -> Frame \cup {None}]
  /\ RX_MESH_ID \in Address
  /\ UartTxDataType \in BOOLEAN
  /\ tRxMeshTimeOut2s \in Timer(C_T_tRxMeshTimeOut2s)
  /\ tmeshfinishdataWait100ms \in Timer(C_T_tmeshfinishdataWait100ms)
  /\ pieces \subseteq Slot
  /\ accepted \in BOOLEAN
  /\ disturbed \in BOOLEAN

(* A reception in progress always has its timeout running or expired, so   *)
(* it cannot hold the buffer for ever, whatever was lost; and an open      *)
(* buffer has no timer left over from an earlier reception that would cut  *)
(* the next one short.                                                     *)
NeverWedged ==
  /\ ~f_Block_Buffer_Empty => tRxMeshTimeOut2s # Idle
  /\ f_Block_Buffer_Empty =>
       tRxMeshTimeOut2s = Idle /\ tmeshfinishdataWait100ms = Idle

(* What waits for the UART is the whole of one frame, with the address it  *)
(* came from: fragments of an earlier frame that was never completed do    *)
(* not get into it, nor do packets that come while the buffer is closed,   *)
(* nor does the reopening itself.  A packet that opens a reception while   *)
(* the report still waits is written into it, and the code has nothing     *)
(* against that: nothing is claimed of a report once that happened, nor of *)
(* the one such a reception leaves.  Nor of a reception that a header      *)
(* without data opened: packets that come behind it may complete what      *)
(* receptions of another node left.                                        *)
ReportIsOneFrame ==
  UartTxDataType /\ ~disturbed =>
    /\ Pure(BLE_RX_DATA)
    /\ RX_MESH_ID = Source[BLE_RX_DATA[1]]

(* A reception that got every packet of its frame of one or two ended with *)
(* that frame accepted: what an earlier reception left behind, of a frame  *)
(* of any length, does not end it early.  Not so for a reception that      *)
(* began while a report waited: taking the report clears what it has       *)
(* stored; nor for one that began with a header, which counts as a packet. *)
CompleteIsAccepted ==
  ~f_Block_Buffer_Empty /\ ~disturbed =>
    \A f \in Frame :
      /\ Total[f] <= 2
      /\ rx_src_id = Source[f] /\ Rx_MessageID = MsgId[f]
      /\ pieces = 1 .. Total[f]
      => accepted

(* Every reception ends and the buffer takes packets again.                *)
Reopens == ~f_Block_Buffer_Empty ~> f_Block_Buffer_Empty
=============================================================================
