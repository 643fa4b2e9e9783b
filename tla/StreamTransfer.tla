--------------------------- MODULE StreamTransfer ---------------------------
(***************************************************************************)
(* Stream messages (data_model_handler.c): nodes that send frames as       *)
(* streams of acknowledged packets, each begun and ended by a flush, and   *)
(* the one node that receives them.                                        *)
(*                                                                         *)
(* Sequence numbers and offsets count bytes in the code; here they count   *)
(* packets.  Retry and stream timers may fire whenever they are armed, so  *)
(* messages may take any time.  BLE_RX_DATA is seen as one slot per        *)
(* packet, which holds the part of a frame that was last copied there.     *)
(***************************************************************************)
EXTENDS Integers, FiniteSets

CONSTANTS
  Node,    \* the senders
  Frame,   \* the frames they send, each as one stream
  Source,  \* the sender of each
  Packets, \* the number of packets of each
  None,
  InFlight, \* how many messages the mesh keeps at a time
  Patient  \* does a sender wait until its last stream is over?

ASSUME NoneAssumption == None \notin Node \cup Frame
ASSUME SourceAssumption == Source \in [Frame -> Node]
ASSUME PacketsAssumption == Packets \in [Frame -> 1 .. 5]
ASSUME InFlightAssumption == InFlight \in Nat
ASSUME PatientAssumption == Patient \in BOOLEAN

VARIABLES
  unsent,    \* frames no stream was started for
  net,       \* messages on their way
  tx,        \* app_stream_state.tx and what belongs to it, of each sender
  rx_src_id, rx_status, rx_nesn,           \* app_stream_state.rx
  rx_stream_offset, rx_stream_in_progress,
  rx_stream_timeout_tid,                   \* is the timer armed?
  BLE_RX_DATA, RX_MESH_ID, UartTxDataType,
  outcome,   \* of each frame: the flag its stream left, f_SendMSGOK or NG
  gaveUp,    \* history: frames with a packet that was not acknowledged
  reported   \* history: what the UART was given

rxState == <<rx_src_id, rx_status, rx_nesn>>
rxStream == <<rx_stream_offset, rx_stream_in_progress, rx_stream_timeout_tid>>
rxReport == <<BLE_RX_DATA, RX_MESH_ID, UartTxDataType, reported>>
rx == <<rxState, rxStream, rxReport>>
txHistory == <<unsent, outcome, gaveUp>>
vars == <<net, tx, rx, txHistory>>

NoStream == 65535          \* nesn when there is no stream
MAX_SEND_RETRIES == 3
Part == 0 .. 4
Cleared == [i \in Part |-> <<None, i>>]

------------------------------------------------------------------------------
(* Messages.  Copies that are on their way at the same time count as one.  *)
(* The receiver does not see "frame" and "end".                            *)
Flush(s, t, end) ==
  [kind |-> "flush", src |-> s, sn |-> t.sn, frame |-> t.frame, end |-> end]

Data(s, t) ==
  [kind |-> "data", src |-> s, sn |-> t.sn, len |-> t.last,
   piece |-> <<t.frame, t.offset>>]

Ack(m, nesn) == [kind |-> "ack", to |-> m.src, nesn |-> nesn]

(* A message is sent: one too many for the mesh is lost.  "rest" are the   *)
(* messages still on their way.                                            *)
send(rest, m) ==
  net' = IF Cardinality(rest) < InFlight THEN rest \cup {m} ELSE rest

(* endStream: the flush that ends a stream.                                *)
endStream(s, t, rest) ==
  /\ send(rest, Flush(s, t, TRUE))
  /\ tx' = [tx EXCEPT ![s] =
              IF t.status = "in_progress"
              THEN [t EXCEPT !.status = "finish_flush_sent", !.last = 0]
              ELSE t]

(* Mutant: one packet more is sent.                                        *)
pending_more(t) == t.offset <= Packets[t.frame]

pending(t) == t.offset < Packets[t.frame]

(* sendNextPacket stops the retry timer; it starts it again with a packet. *)
sendNextPacket(s, old, rest) ==
  LET t == [old EXCEPT !.retries = 0, !.tid = FALSE]
      sending == [t EXCEPT !.last = 1, !.tid = TRUE]
  IN IF pending(t)
     THEN /\ tx' = [tx EXCEPT ![s] = sending]
          /\ send(rest, Data(s, sending))
     ELSE endStream(s, t, rest)

concerns(m, s) == IF m.kind = "ack" THEN m.to = s ELSE m.src = s

(* Nothing in the repository calls startStream.  A patient caller lets the *)
(* last stream of the node and its messages come to an end.                *)
mayStart(s) ==
  Patient => /\ tx[s].status # "in_progress"
             /\ \A m \in net : ~concerns(m, s)

startStream(s, f) ==
  LET t == [tx[s] EXCEPT !.status = "start_flush_sent", !.sn = 0,
                         !.offset = 0, !.last = 0, !.frame = f]
  IN /\ f \in unsent /\ Source[f] = s
     /\ mayStart(s)
     /\ unsent' = unsent \ {f}
     /\ tx' = [tx EXCEPT ![s] = t]
     /\ send(net, Flush(s, t, FALSE))
     /\ UNCHANGED <<rx, outcome, gaveUp>>

(* Mutant: a retry does not start the timer again.                         *)
resent_once(t) == t

resent(t) == [t EXCEPT !.tid = TRUE]

streamSendRetryTimer(s) ==
  LET t == [tx[s] EXCEPT !.tid = FALSE, !.retries = @ + 1]
  IN /\ tx[s].tid
     /\ IF t.retries < MAX_SEND_RETRIES
        THEN /\ tx' = [tx EXCEPT ![s] = resent(t)]
             /\ send(net, Data(s, t))
             /\ UNCHANGED gaveUp
        ELSE /\ endStream(s, [t EXCEPT !.retries = 0], net)
             /\ gaveUp' = gaveUp \cup {t.frame}
     /\ UNCHANGED <<rx, unsent, outcome>>

(* Mutant: an acknowledgement of an earlier packet is taken for the last.  *)
confirms_any(t, nesn) ==
  t.status = "in_progress" /\ nesn \in t.sn .. t.sn + t.last

confirms(t, nesn) == t.status = "in_progress" /\ nesn = t.sn + t.last

begins(t, nesn) == t.status = "start_flush_sent" /\ nesn = 0

(* appDataClientHandler: an acknowledgement comes back.                    *)
Acknowledged(m) ==
  LET s == m.to
      t == tx[s]
      moved == [t EXCEPT !.status = "in_progress", !.offset = @ + t.last]
      over == [t EXCEPT !.status = "idle", !.sn = 0]
  IN /\ m \in net /\ m.kind = "ack"
     /\ \/ /\ begins(t, m.nesn)
           /\ sendNextPacket(s, moved, net \ {m})
           /\ UNCHANGED outcome
        \/ /\ confirms(t, m.nesn)
           /\ sendNextPacket(s, [moved EXCEPT !.sn = @ + t.last], net \ {m})
           /\ UNCHANGED outcome
        \/ /\ t.status = "finish_flush_sent"
           /\ tx' = [tx EXCEPT ![s] = over]
           /\ net' = net \ {m}
           /\ outcome' = [outcome EXCEPT ![t.frame] =
                            IF m.nesn = NoStream THEN "OK" ELSE "NG"]
        \/ /\ ~begins(t, m.nesn) /\ ~confirms(t, m.nesn)
           /\ t.status # "finish_flush_sent"
           /\ net' = net \ {m}
           /\ UNCHANGED <<tx, outcome>>
     /\ UNCHANGED <<rx, unsent, gaveUp>>

------------------------------------------------------------------------------
(* A received message is answered with the sequence number expected now.   *)
answer(m) == send(net \ {m}, Ack(m, rx_nesn'))
ignore(m) == net' = net \ {m}

(* handleCSRmeshDataStreamFlushInd: it takes the flush for the end of a    *)
(* stream if data has come, and for the beginning of one otherwise.        *)
handleCSRmeshDataStreamFlushInd ==
  /\ rx_stream_in_progress' = FALSE
  /\ rx_stream_timeout_tid' = ~rx_stream_in_progress

StartFlush(m) ==
  /\ rx_status = "idle" /\ m.sn = 0
  /\ rx_status' = "start_flush_received"
  /\ rx_src_id' = m.src
  /\ rx_nesn' = m.sn
  /\ rx_stream_offset' = 0
  /\ handleCSRmeshDataStreamFlushInd
  /\ UNCHANGED rxReport
  /\ answer(m)

(* A flush while no data has come: a repetition, as far as the code knows. *)
RepeatedFlush(m) ==
  /\ rx_status = "start_flush_received"
  /\ UNCHANGED rx
  /\ IF m.src = rx_src_id THEN answer(m) ELSE ignore(m)

(* MeshRxdCheck_New: the length in the first part says what is checked.    *)
Whole(data) ==
  LET f == data[0][1]
  IN f # None /\ \A i \in 0 .. Packets[f] - 1 : data[i] = <<f, i>>

EndFlush(m) ==
  /\ rx_status = "in_progress" /\ m.src = rx_src_id /\ m.sn = rx_nesn
  /\ rx_status' = "idle"
  /\ rx_nesn' = NoStream
  /\ handleCSRmeshDataStreamFlushInd
  /\ IF Whole(BLE_RX_DATA)
     THEN RX_MESH_ID' = rx_src_id /\ UartTxDataType' = TRUE
     ELSE UNCHANGED <<RX_MESH_ID, UartTxDataType>>
  /\ UNCHANGED <<rx_src_id, rx_stream_offset, BLE_RX_DATA, reported>>
  /\ answer(m)

resetRxStreamState ==
  rx_src_id' = None /\ rx_status' = "idle" /\ rx_nesn' = NoStream

(* Mutant: the stream is dropped but still counts as in progress.          *)
dropped_inProgress == resetRxStreamState /\ UNCHANGED rx_stream_in_progress

dropped == resetRxStreamState /\ rx_stream_in_progress' = FALSE

(* A flush at another place of the stream; its timer goes on.              *)
BrokenFlush(m) ==
  /\ rx_status = "in_progress" /\ m.src = rx_src_id /\ m.sn # rx_nesn
  /\ dropped
  /\ UNCHANGED <<rx_stream_offset, rx_stream_timeout_tid, rxReport>>
  /\ answer(m)

OtherFlush(m) ==
  /\ \/ rx_status = "idle" /\ m.sn # 0
     \/ rx_status = "in_progress" /\ m.src # rx_src_id
  /\ ignore(m)
  /\ UNCHANGED rx

(* Mutant: data is taken from any node.                                    *)
fromSender_any(m) == rx_status # "idle"

fromSender(m) == m.src = rx_src_id

(* handleCSRmeshDataStreamDataInd: data in its place is copied and counted *)
(* and starts the timer again.                                             *)
NextData(m) ==
  /\ fromSender(m) /\ m.sn = rx_nesn
  /\ rx_status' = "in_progress"
  /\ rx_nesn' = rx_nesn + m.len
  /\ rx_stream_timeout_tid' = TRUE
  /\ rx_stream_in_progress' = TRUE
  /\ BLE_RX_DATA' = IF m.len = 0 THEN BLE_RX_DATA
                    ELSE [BLE_RX_DATA EXCEPT ![rx_stream_offset] = m.piece]
  /\ rx_stream_offset' = rx_stream_offset + m.len
  /\ UNCHANGED <<rx_src_id, RX_MESH_ID, UartTxDataType, reported>>
  /\ answer(m)

(* Other data of the same node only sets the status.                       *)
OtherData(m) ==
  /\ fromSender(m) /\ m.sn # rx_nesn
  /\ rx_status' = "in_progress"
  /\ UNCHANGED <<rx_src_id, rx_nesn, rxStream, rxReport>>
  /\ answer(m)

ForeignData(m) == ~fromSender(m) /\ ignore(m) /\ UNCHANGED rx

(* appDataServerHandler.  The report of a stream is taken by the UART      *)
(* before the next message comes.                                          *)
appDataServerHandler(m) ==
  /\ m \in net
  /\ ~UartTxDataType
  /\ \/ /\ m.kind = "flush"
        /\ \/ StartFlush(m) \/ RepeatedFlush(m) \/ EndFlush(m)
           \/ BrokenFlush(m) \/ OtherFlush(m)
     \/ /\ m.kind = "data"
        /\ NextData(m) \/ OtherData(m) \/ ForeignData(m)
  /\ UNCHANGED <<tx, txHistory>>

rxStreamTimeoutHandler ==
  /\ rx_stream_timeout_tid
  /\ rx_stream_timeout_tid' = FALSE
  /\ rx_stream_in_progress' = FALSE
  /\ resetRxStreamState
  /\ UNCHANGED <<net, tx, txHistory, rx_stream_offset, rxReport>>

WifiTxData ==
  /\ UartTxDataType
  /\ UartTxDataType' = FALSE
  /\ RX_MESH_ID' = None
  /\ BLE_RX_DATA' = Cleared
  /\ reported' = reported \cup {<<BLE_RX_DATA[0][1], RX_MESH_ID>>}
  /\ UNCHANGED <<net, tx, txHistory, rxState, rxStream>>

(* The mesh loses a message.                                               *)
Lose(m) ==
  /\ m \in net
  /\ net' = net \ {m}
  /\ UNCHANGED <<tx, rx, txHistory>>

------------------------------------------------------------------------------
Init ==
  /\ unsent = Frame
  /\ net = {}
  /\ tx = [s \in Node |->
             [status |-> "idle", sn |-> 0, offset |-> 0, last |-> 0,
              retries |-> 0, tid |-> FALSE, frame |-> None]]
  /\ rx_src_id = None /\ rx_status = "idle" /\ rx_nesn = NoStream
  /\ rx_stream_offset = 0 /\ rx_stream_in_progress = FALSE
  /\ rx_stream_timeout_tid = FALSE
  /\ BLE_RX_DATA = Cleared /\ RX_MESH_ID = None /\ UartTxDataType = FALSE
  /\ outcome = [f \in Frame |-> "none"]
  /\ gaveUp = {}
  /\ reported = {}

Next ==
  \/ \E s \in Node, f \in Frame : startStream(s, f)
  \/ \E s \in Node : streamSendRetryTimer(s)
  \/ \E m \in net : Acknowledged(m)
  \/ \E m \in net : appDataServerHandler(m)
  \/ \E m \in net : Lose(m)
  \/ rxStreamTimeoutHandler
  \/ WifiTxData

(* Timers of the SDK fire, and the UART takes a report.                    *)
Fairness ==
  /\ \A s \in Node : WF_vars(streamSendRetryTimer(s))
  /\ WF_vars(rxStreamTimeoutHandler)
  /\ WF_vars(WifiTxData)

Spec == Init /\ [][Next]_vars /\ Fairness

------------------------------------------------------------------------------
(* The offset of a sender stays within its frame, and the receiver copies  *)
(* where the next part belongs.                                            *)
Message ==
  [kind : {"flush"}, src : Node, sn : 0 .. 5, frame : Frame, end : BOOLEAN]
  \cup {m \in [kind : {"data"}, src : Node, sn : 0 .. 5, len : 0 .. 1,
               piece : Frame \X Part] : m.sn + m.len <= 5}
  \cup [kind : {"ack"}, to : Node, nesn : 0 .. 5 \cup {NoStream}]

Sender ==
  [status : {"idle", "start_flush_sent", "in_progress", "finish_flush_sent"},
   sn : 0 .. 5, offset : 0 .. 5, last : 0 .. 1, retries : 0 .. 2,
   tid : BOOLEAN, frame : Frame \cup {None}]

TypeOK ==
  /\ unsent \subseteq Frame /\ gaveUp \subseteq Frame
  /\ net \subseteq Message
  /\ tx \in [Node -> Sender]
  /\ \A s \in Node : tx[s].frame # None => tx[s].offset <= Packets[tx[s].frame]
  /\ rx_src_id \in Node \cup {None} /\ RX_MESH_ID \in Node \cup {None}
  /\ rx_status \in {"idle", "start_flush_received", "in_progress"}
  /\ rx_nesn \in 0 .. 5 \cup {NoStream}
  /\ rx_nesn # NoStream => rx_stream_offset = rx_nesn
  /\ rx_stream_offset \in 0 .. 5
  /\ rx_stream_in_progress \in BOOLEAN
  /\ rx_stream_timeout_tid \in BOOLEAN /\ UartTxDataType \in BOOLEAN
  /\ BLE_RX_DATA \in [Part -> (Frame \cup {None}) \X Part]
  /\ outcome \in [Frame -> {"none", "OK", "NG"}]
  /\ reported \subseteq (Frame \cup {None}) \X (Node \cup {None})

(* A stream that is expected to go on is always watched by the timer of    *)
(* the receiver (handleCSRmeshDataStreamFlushInd stops it when it takes a  *)
(* flush for the end), so a silent sender cannot hold the receiver.        *)
StreamIsTimed == rx_nesn # NoStream => rx_stream_timeout_tid

(* The host is given a frame under the address of the node that sent it,   *)
(* although streams of several nodes follow each other into one buffer.    *)
ReportIsOneFrame ==
  \A r \in reported : r[1] \in Frame /\ r[2] = Source[r[1]]

(* The frame is at the other end: the UART has it, or is to take it.       *)
delivered(f) ==
  \/ <<f, Source[f]>> \in reported
  \/ UartTxDataType /\ BLE_RX_DATA[0][1] = f /\ RX_MESH_ID = Source[f]

(* f_SendMSGOK of a stream whose packets were all acknowledged means that  *)
(* the whole frame is at the other end, whatever was lost or came late.    *)
OKIsDelivered ==
  \A f \in Frame : outcome[f] = "OK" /\ f \notin gaveUp => delivered(f)

(* data_model_handler.c:1119: f_SendMSGOK is the flag of a completed       *)
(* sending.                                                                *)
OKMeansSent == \A f \in Frame : outcome[f] = "OK" => delivered(f)

(* A sender does not stay in the middle of a stream: it is acknowledged to *)
(* the end or gives up after MAX_SEND_RETRIES.                             *)
StreamEnds ==
  \A s \in Node :
    tx[s].status = "in_progress" ~> tx[s].status # "in_progress"
=============================================================================
