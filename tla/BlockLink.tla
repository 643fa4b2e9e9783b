----------------------------- MODULE BlockLink -----------------------------
(***************************************************************************)
(* One node sends block messages to another: the sender of BlockTx and the *)
(* receiver of BlockRx, on clocks of their own, joined by a mesh that      *)
(* loses nothing and brings a packet within the 50 ms in which it was      *)
(* sent.  The host sends whenever it likes; the receiver's UART takes a    *)
(* report within the 50 ms in which it is made, as it does from the fourth *)
(* second after power on.  The link is shown to implement FrameChannel:    *)
(* the pauses that the two ends keep, each with its own timers, fit        *)
(* together.                                                               *)
(***************************************************************************)
EXTENDS Integers, Sequences, SequencesExt

CONSTANTS
  Frame, FrameLen, None, Phase1s,
  Node,         \* the sender
  RxPhase1s     \* units from start to the receiver's first 1 s tick

ASSUME NodeAssumption == Node # None
ASSUME PhaseAssumption == RxPhase1s \subseteq 1 .. 20

VARIABLES
  unsent, f_rxdataOK, WifiRxData, f_Mesh_Tx_Ready, f_Mesh_First_Send,
  BLE_TX_DATA, BLE_TX_DATA_LENGTH, Tx_Data_Buffer, device_info_length,
  tx_stream_offset, last_data_len, block_send_retry_tid, tmfTxdataWait100ms,
  tMeshTimeOut2s, t_100ms, t_1s, sent, sending, gap, measured

VARIABLES
  net, f_Block_Buffer_Empty, rx_src_id, Rx_MessageID, f_rxmeshdata,
  BLE_RX_DATA, RX_MESH_ID, UartTxDataType, tRxMeshTimeOut2s,
  tmeshfinishdataWait100ms, pieces, accepted, disturbed

VARIABLES
  rx_100ms, rx_1s,            \* units to the receiver's time base ticks
  carried, delivered, spoilt  \* history: as in FrameChannel

Tx == INSTANCE BlockTx

Rx == INSTANCE BlockRx WITH
        Source <- [f \in Frame |-> Node],
        MsgId <- [f \in Frame |-> f],
        Total <- [f \in Frame |-> Tx!Block_Send_Num(FrameLen[f])],
        Deliveries <- {},
        Colliding <- {}

txVars == <<unsent, f_rxdataOK, WifiRxData, f_Mesh_Tx_Ready,
            f_Mesh_First_Send, BLE_TX_DATA, BLE_TX_DATA_LENGTH,
            Tx_Data_Buffer, device_info_length, tx_stream_offset,
            last_data_len, block_send_retry_tid, tmfTxdataWait100ms,
            tMeshTimeOut2s, t_100ms, t_1s, sent, sending, gap, measured>>
rxOwn == <<f_Block_Buffer_Empty, rx_src_id, Rx_MessageID, f_rxmeshdata,
           BLE_RX_DATA, RX_MESH_ID, UartTxDataType, tRxMeshTimeOut2s,
           tmeshfinishdataWait100ms, pieces, accepted, disturbed>>
rxVars == <<net, rxOwn>>
linkVars == <<rx_100ms, rx_1s, carried, delivered, spoilt>>
vars == <<txVars, rxVars, linkVars>>

------------------------------------------------------------------------------
HostSends ==
  /\ \/ \E f \in unsent : Tx!uartRxDataCallback(f)
     \/ Tx!WifiRxdCheckFails
     \/ Tx!WifiRxdDataDo_New
  /\ UNCHANGED <<rxVars, linkVars>>

TxTicks ==
  /\ Tx!timer_100ms_RBINT \/ Tx!timer_1s_RBINT
  /\ UNCHANGED <<rxVars, linkVars>>

TxTransfers ==
  /\ Tx!time10mshandle \/ Tx!blockSendRetryTimer
  /\ net' = IF sent' # sent THEN net \cup {Last(sent')} ELSE net
  /\ carried' = IF f_Mesh_Tx_Ready /\ ~f_Mesh_Tx_Ready'
                THEN BLE_TX_DATA ELSE carried
  /\ spoilt' = (spoilt \/ ~measured')
  /\ UNCHANGED <<rxOwn, rx_100ms, rx_1s, delivered>>

RxReceives ==
  /\ \E p \in net : Rx!Receive(p)
  /\ UNCHANGED <<txVars, linkVars>>

RxTicks ==
  /\ \/ /\ rx_100ms = 0 /\ rx_100ms' = Tx!TIME100MS
        /\ Rx!timer_100ms_RBINT /\ UNCHANGED rx_1s
     \/ /\ rx_1s = 0 /\ rx_1s' = Tx!TIME1S
        /\ Rx!timer_1s_RBINT /\ UNCHANGED rx_100ms
  /\ UNCHANGED <<txVars, carried, delivered, spoilt>>

(* The receiver's 1 ms handler, and what its host reads from the UART.     *)
Report == [source |-> RX_MESH_ID,
           frame |-> IF Rx!Pure(BLE_RX_DATA) THEN BLE_RX_DATA[1] ELSE None]

RxHandler ==
  /\ Rx!time1mshandle
  /\ IF UartTxDataType /\ ~UartTxDataType'
     THEN delivered' = Append(delivered, Report) /\ carried' = None
     ELSE UNCHANGED <<delivered, carried>>
  /\ UNCHANGED <<txVars, rx_100ms, rx_1s, spoilt>>

(* 50 ms pass at both ends, once everything due has been done, nothing is  *)
(* on its way and no report waits.                                         *)
Pass ==
  /\ Tx!txPass
  /\ net = {}
  /\ rx_100ms > 0 /\ rx_1s > 0
  /\ ~Rx!reopens /\ ~UartTxDataType
  /\ rx_100ms' = rx_100ms - 1
  /\ rx_1s' = rx_1s - 1
  /\ UNCHANGED <<rxVars, carried, delivered, spoilt>>

Init ==
  /\ Tx!Init
  /\ Rx!RxInit /\ net = {}
  /\ rx_100ms \in 1 .. Tx!TIME100MS /\ rx_1s \in RxPhase1s
  /\ carried = None /\ delivered = <<>> /\ spoilt = FALSE

Next ==
  \/ HostSends \/ TxTicks \/ TxTransfers
  \/ RxReceives \/ RxTicks \/ RxHandler
  \/ Pass

(* Everything but the host's sending goes on.                              *)
Spec == /\ Init
        /\ [][Next]_vars
        /\ WF_vars(Next /\ unsent' = unsent)

------------------------------------------------------------------------------
(* The link as a channel for frames: what the host gave last waits for the *)
(* transfer before it, with the length of whatever came in last.           *)
Channel == INSTANCE FrameChannel WITH
             waiting <- IF f_Mesh_Tx_Ready THEN BLE_TX_DATA ELSE None,
             marred <- f_Mesh_Tx_Ready /\
                       BLE_TX_DATA_LENGTH # FrameLen[BLE_TX_DATA]

(* What the two modules do to a frame is, to the hosts, a delivery: every  *)
(* frame that is not replaced while it waits arrives once, whole, in order *)
(* and under the sender's address, for any phases of the four clocks and   *)
(* however close the host's frames are, until a transfer begins with the   *)
(* length of a frame that came in behind its own.  The last packet of no   *)
(* frame is full.                                                          *)
ImplementsChannel == Channel!Spec
=============================================================================
