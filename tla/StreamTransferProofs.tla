------------------------ MODULE StreamTransferProofs ------------------------
(***************************************************************************)
(* Proofs about stream messages, for any senders, frames and losses: the   *)
(* types and that the timer of the receiver watches every stream, however  *)
(* streams are started; and, for callers that wait until a stream and its  *)
(* messages have come to an end, that reports are whole frames under their *)
(* own address and that a stream that ends well was delivered.             *)
(***************************************************************************)
EXTENDS StreamTransfer, TLAPS

(* What the state of a sender says about its sequence number and offset:   *)
(* they agree in the course of a stream, and a packet is outstanding.  A   *)
(* retry timer may have been left by the stream before.                    *)
Consistent(t) ==
  /\ t.status # "idle" => t.frame \in Frame
  /\ t.frame \in Frame => t.offset <= Packets[t.frame]
  /\ t.tid => t.status \in {"start_flush_sent", "in_progress"}
  /\ t.status = "start_flush_sent" => t.sn = 0 /\ t.offset = 0 /\ t.last = 0
  /\ t.status = "in_progress" =>
       t.sn = t.offset /\ t.last = 1 /\ t.offset < Packets[t.frame]

(* The senders, and the messages on their way.                             *)
Sending ==
  /\ net \subseteq Message
  /\ tx \in [Node -> Sender]
  /\ \A s \in Node : Consistent(tx[s])

(* What the state of the receiver says about its stream.                   *)
Receiving ==
  /\ rx_status = "idle" => rx_nesn = NoStream
  /\ rx_stream_in_progress => rx_nesn # NoStream

Inv ==
  /\ TypeOK
  /\ \A s \in Node : Consistent(tx[s])
  /\ Receiving
  /\ StreamIsTimed

LEMMA Initially == Init => Inv
<1> SUFFICES ASSUME Init PROVE Inv
  OBVIOUS
<1>1. tx \in [Node -> Sender]
  BY DEF Init, Sender
<1>2. \A s \in Node : Consistent(tx[s])
  BY NoneAssumption DEF Init, Consistent
<1>3. BLE_RX_DATA \in [Part -> (Frame \cup {None}) \X Part]
  BY DEF Init, Cleared
<1>4. outcome \in [Frame -> {"none", "OK", "NG"}]
  BY DEF Init
<1>5. \A s \in Node : tx[s].frame = None
  BY DEF Init
<1>6. /\ unsent \subseteq Frame /\ net \subseteq Message
      /\ gaveUp \subseteq Frame
      /\ reported \subseteq (Frame \cup {None}) \X (Node \cup {None})
  BY DEF Init
<1>7. /\ rx_src_id \in Node \cup {None} /\ RX_MESH_ID \in Node \cup {None}
      /\ rx_status \in {"idle", "start_flush_received", "in_progress"}
      /\ rx_nesn = NoStream /\ rx_stream_offset = 0
      /\ ~rx_stream_in_progress
  BY DEF Init
<1>8. /\ rx_stream_in_progress \in BOOLEAN
      /\ rx_stream_timeout_tid \in BOOLEAN /\ UartTxDataType \in BOOLEAN
  BY DEF Init
<1>9. TypeOK
  BY <1>1, <1>3, <1>4, <1>5, <1>6, <1>7, <1>8 DEF TypeOK
<1> QED BY <1>2, <1>7, <1>9 DEF Inv, Receiving, StreamIsTimed

------------------------------------------------------------------------------
(* The senders.  Each of their actions gives one of them a consistent new  *)
(* state and leaves messages of the known kinds on their way.              *)
LEMMA SendKeeps ==
  ASSUME NEW rest \in SUBSET Message, NEW m \in Message, send(rest, m)
  PROVE  net' \subseteq Message
  BY DEF send

LEMMA SenderKeeps ==
  ASSUME tx \in [Node -> Sender], \A i \in Node : Consistent(tx[i]),
         NEW s \in Node, NEW t \in Sender, Consistent(t),
         tx' = [tx EXCEPT ![s] = t]
  PROVE  tx' \in [Node -> Sender] /\ \A i \in Node : Consistent(tx[i])'
  BY DEF Consistent

LEMMA EndStreamKeeps ==
  ASSUME Sending, NEW s \in Node, NEW t \in Sender, Consistent(t),
         t.frame \in Frame, ~t.tid,
         NEW rest \in SUBSET Message, endStream(s, t, rest)
  PROVE  Sending'
<1>1. Flush(s, t, TRUE) \in Message
  BY DEF Flush, Message, Sender
<1>2. net' \subseteq Message
  BY <1>1, SendKeeps DEF endStream
<1> DEFINE u == IF t.status = "in_progress"
                THEN [t EXCEPT !.status = "finish_flush_sent", !.last = 0]
                ELSE t
<1>3. u \in Sender
  BY 0 \in 0 .. 1, Zenon DEF Sender
<1>4. Consistent(u)
  <2>1. CASE t.status = "in_progress"
    <3>1. /\ u.status = "finish_flush_sent" /\ u.frame = t.frame
          /\ u.offset = t.offset /\ u.tid = FALSE
      BY <2>1 DEF Sender
    <3> HIDE DEF u
    <3> QED BY <3>1 DEF Consistent
  <2>2. CASE t.status # "in_progress"
    BY <2>2
  <2> QED BY <2>1, <2>2
<1>5. tx' = [tx EXCEPT ![s] = u]
  BY DEF endStream
<1>6. tx' \in [Node -> Sender] /\ \A i \in Node : Consistent(tx[i])'
  <2> HIDE DEF u
  <2> QED BY <1>3, <1>4, <1>5, SenderKeeps DEF Sending
<1> QED BY <1>2, <1>6 DEF Sending

(* A packet is sent only if its offset is that of a part of the frame.     *)
LEMMA SendNextPacketKeeps ==
  ASSUME Sending, NEW s \in Node, NEW old \in Sender,
         old.frame \in Frame, old.status = "in_progress",
         old.sn = old.offset, old.offset <= Packets[old.frame],
         NEW rest \in SUBSET Message, sendNextPacket(s, old, rest)
  PROVE  Sending'
<1> DEFINE t == [old EXCEPT !.retries = 0, !.tid = FALSE]
           u == [t EXCEPT !.last = 1, !.tid = TRUE]
<1>1. /\ t \in Sender
      /\ t.frame = old.frame /\ t.status = old.status
      /\ t.sn = old.sn /\ t.offset = old.offset
      /\ t.tid = FALSE
  BY 0 \in 0 .. 2, Zenon DEF Sender
<1>2. Packets[old.frame] \in 1 .. 5
  BY PacketsAssumption
<1>3. CASE pending(t)
  <2>1. /\ u \in Sender
        /\ u.frame = old.frame /\ u.status = old.status
        /\ u.sn = old.sn /\ u.offset = old.offset
        /\ u.last = 1
    BY <1>1, 1 \in 0 .. 1, Zenon DEF Sender
  <2>2. u.offset < Packets[u.frame]
    BY <1>1, <1>3, <2>1 DEF pending
  <2>3. tx' = [tx EXCEPT ![s] = u] /\ send(rest, Data(s, u))
    BY <1>3 DEF sendNextPacket
  <2> HIDE DEF u, t
  <2>4. Consistent(u)
    BY <2>1, <2>2 DEF Consistent, Sender
  <2>5. u.offset \in Part /\ u.sn + u.last <= 5
    BY <1>2, <2>1, <2>2 DEF Part, Sender
  <2>6. Data(s, u) \in Message
    BY <2>1, <2>5 DEF Data, Message, Sender
  <2>7. net' \subseteq Message
    BY <2>3, <2>6, SendKeeps
  <2>8. tx' \in [Node -> Sender] /\ \A i \in Node : Consistent(tx[i])'
    BY <2>1, <2>3, <2>4, SenderKeeps DEF Sending
  <2> QED BY <2>7, <2>8 DEF Sending
<1>4. CASE ~pending(t)
  <2>1. endStream(s, t, rest)
    BY <1>4 DEF sendNextPacket
  <2>2. [t EXCEPT !.status = "finish_flush_sent", !.last = 0] \in Sender
    BY <1>1, 0 \in 0 .. 1, Zenon DEF Sender
  <2> DEFINE v == [t EXCEPT !.status = "finish_flush_sent", !.last = 0]
  <2>3. /\ v.status = "finish_flush_sent" /\ v.frame = old.frame
        /\ v.offset = old.offset /\ v.tid = FALSE
    BY <1>1, Zenon DEF Sender
  <2>4. tx' = [tx EXCEPT ![s] = v] /\ send(rest, Flush(s, t, TRUE))
    BY <1>1, <2>1 DEF endStream
  <2>5. Flush(s, t, TRUE) \in Message
    BY <1>1 DEF Flush, Message, Sender
  <2>6. net' \subseteq Message
    BY <2>4, <2>5, SendKeeps
  <2> HIDE DEF v, t
  <2>7. Consistent(v)
    BY <2>3 DEF Consistent
  <2>8. tx' \in [Node -> Sender] /\ \A i \in Node : Consistent(tx[i])'
    BY <2>2, <2>4, <2>7, SenderKeeps DEF Sending, v
  <2> QED BY <2>6, <2>8 DEF Sending
<1> QED BY <1>3, <1>4

LEMMA StartStreamKeeps ==
  ASSUME Sending, NEW s \in Node, NEW f \in Frame, startStream(s, f)
  PROVE  Sending'
<1> DEFINE t == [tx[s] EXCEPT !.status = "start_flush_sent", !.sn = 0,
                              !.offset = 0, !.last = 0, !.frame = f]
<1>1. tx[s] \in Sender
  BY DEF Sending
<1>2. /\ t \in Sender
      /\ t.status = "start_flush_sent" /\ t.frame = f
      /\ t.sn = 0 /\ t.offset = 0 /\ t.last = 0
  BY <1>1, 0 \in 0 .. 5, 0 \in 0 .. 1, Zenon DEF Sender
<1>3. tx' = [tx EXCEPT ![s] = t] /\ send(net, Flush(s, t, FALSE))
  BY DEF startStream
<1> HIDE DEF t
<1>4. 0 <= Packets[f]
  BY PacketsAssumption
<1>5. Consistent(t)
  BY <1>2, <1>4 DEF Consistent
<1>6. Flush(s, t, FALSE) \in Message
  BY <1>2 DEF Flush, Message
<1>7. net' \subseteq Message
  BY <1>3, <1>6, SendKeeps DEF Sending
<1>8. tx' \in [Node -> Sender] /\ \A i \in Node : Consistent(tx[i])'
  BY <1>2, <1>3, <1>5, SenderKeeps DEF Sending
<1> QED BY <1>7, <1>8 DEF Sending

(* What is sent again has a place in its frame; a timer that the stream    *)
(* before has left sends nothing.                                          *)
LEMMA RetryKeeps ==
  ASSUME Sending, NEW s \in Node, streamSendRetryTimer(s)
  PROVE  Sending' /\ tx[s].frame \in Frame
<1> DEFINE t == [tx[s] EXCEPT !.tid = FALSE, !.retries = @ + 1]
<1>1. tx[s] \in Sender /\ Consistent(tx[s]) /\ tx[s].tid
  BY DEF Sending, streamSendRetryTimer
<1>2. /\ tx[s].frame \in Frame
      /\ tx[s].status \in {"start_flush_sent", "in_progress"}
  BY <1>1 DEF Consistent
<1>3. /\ t.status = tx[s].status /\ t.sn = tx[s].sn
      /\ t.offset = tx[s].offset /\ t.last = tx[s].last
      /\ t.frame = tx[s].frame /\ t.tid = FALSE
      /\ t.retries = tx[s].retries + 1
  BY <1>1, Zenon DEF Sender
<1>4. CASE t.retries < MAX_SEND_RETRIES
  <2> DEFINE u == [t EXCEPT !.tid = TRUE]
  <2>1. tx[s].retries + 1 \in 0 .. 2
    <3>1. tx[s].retries \in 0 .. 2
      BY <1>1 DEF Sender
    <3>2. tx[s].retries + 1 < 3
      BY <1>3, <1>4 DEF MAX_SEND_RETRIES
    <3> QED BY <3>1, <3>2
  <2>2. t \in Sender
    BY <1>1, <2>1, Zenon DEF Sender
  <2>3. tx' = [tx EXCEPT ![s] = u] /\ send(net, Data(s, t))
    BY <1>4 DEF streamSendRetryTimer, resent
  <2> HIDE DEF t
  <2>4. /\ u \in Sender
        /\ u.status = tx[s].status /\ u.sn = tx[s].sn
        /\ u.offset = tx[s].offset /\ u.last = tx[s].last
        /\ u.frame = tx[s].frame
    BY <1>3, <2>2, Zenon DEF Sender
  <2> HIDE DEF u
  <2>5. Consistent(u)
    BY <1>1, <1>2, <2>4 DEF Consistent
  <2>6. t.sn + t.last <= 5 /\ t.offset \in Part
    <3>1. CASE tx[s].status = "start_flush_sent"
      BY <1>1, <1>3, <3>1 DEF Consistent, Part
    <3>2. CASE tx[s].status = "in_progress"
      <4>1. Packets[tx[s].frame] \in 1 .. 5
        BY <1>2, PacketsAssumption
      <4>2. tx[s].offset \in 0 .. 5 /\ tx[s].offset < Packets[tx[s].frame]
        BY <1>1, <3>2 DEF Consistent, Sender
      <4>3. t.sn = tx[s].offset /\ t.last = 1 /\ t.offset = tx[s].offset
        BY <1>1, <1>3, <3>2 DEF Consistent
      <4> QED BY <4>1, <4>2, <4>3 DEF Part
    <3> QED BY <1>2, <3>1, <3>2
  <2>7. Data(s, t) \in Message
    BY <1>2, <1>3, <2>2, <2>6 DEF Data, Message, Sender
  <2>8. net' \subseteq Message
    BY <2>3, <2>7, SendKeeps DEF Sending
  <2>9. tx' \in [Node -> Sender] /\ \A i \in Node : Consistent(tx[i])'
    BY <2>3, <2>4, <2>5, SenderKeeps DEF Sending
  <2> QED BY <1>2, <2>8, <2>9 DEF Sending
<1>5. CASE ~(t.retries < MAX_SEND_RETRIES)
  <2> DEFINE u == [t EXCEPT !.retries = 0]
  <2>1. endStream(s, u, net)
    BY <1>5 DEF streamSendRetryTimer
  <2>2. /\ u \in Sender
        /\ u.status = tx[s].status /\ u.sn = tx[s].sn
        /\ u.offset = tx[s].offset /\ u.last = tx[s].last
        /\ u.frame = tx[s].frame /\ u.tid = FALSE
    BY <1>1, 0 \in 0 .. 2, Zenon DEF Sender
  <2> HIDE DEF t, u
  <2>3. Consistent(u)
    BY <1>1, <1>2, <2>2 DEF Consistent
  <2>4. Sending'
    BY <1>2, <2>1, <2>2, <2>3, EndStreamKeeps DEF Sending
  <2> QED BY <1>2, <2>4
<1> QED BY <1>4, <1>5

LEMMA AcknowledgedKeeps ==
  ASSUME Sending, NEW m \in net, Acknowledged(m)
  PROVE  Sending'
<1> DEFINE s == m.to
           t == tx[s]
           moved == [t EXCEPT !.status = "in_progress", !.offset = @ + t.last]
           next == [moved EXCEPT !.sn = @ + t.last]
           over == [t EXCEPT !.status = "idle", !.sn = 0]
           rest == net \ {m}
<1>1. m.kind = "ack" /\ m \in Message
  BY DEF Acknowledged, Sending
<1>2. s \in Node
  BY <1>1 DEF Message
<1>3. t \in Sender /\ Consistent(t)
  BY <1>2 DEF Sending
<1>4. rest \in SUBSET Message
  BY DEF Sending
<1>5. CASE begins(t, m.nesn)
  <2>1. sendNextPacket(s, moved, rest)
    BY <1>5 DEF Acknowledged, begins, confirms
  <2>2. /\ t.status = "start_flush_sent" /\ t.frame \in Frame
        /\ t.sn = 0 /\ t.offset = 0 /\ t.last = 0
    BY <1>3, <1>5 DEF begins, Consistent
  <2>3. t.offset + t.last = 0
    BY <2>2
  <2>4. /\ moved \in Sender
        /\ moved.status = "in_progress" /\ moved.frame = t.frame
        /\ moved.sn = t.sn /\ moved.offset = t.offset + t.last
    BY <1>3, <2>3, 0 \in 0 .. 5, Zenon DEF Sender
  <2>5. Packets[t.frame] \in 1 .. 5
    BY <2>2, PacketsAssumption
  <2> HIDE DEF moved, rest, t, s
  <2>6. /\ moved.sn = moved.offset /\ moved.offset <= Packets[moved.frame]
        /\ moved.frame \in Frame
    BY <2>2, <2>3, <2>4, <2>5
  <2> QED BY <1>2, <1>4, <2>1, <2>4, <2>6, SendNextPacketKeeps
<1>6. CASE confirms(t, m.nesn)
  <2>1. sendNextPacket(s, next, rest)
    BY <1>6 DEF Acknowledged, begins, confirms
  <2>2. /\ t.status = "in_progress" /\ t.frame \in Frame
        /\ t.sn = t.offset /\ t.last = 1 /\ t.offset < Packets[t.frame]
    BY <1>3, <1>6 DEF confirms, Consistent
  <2>3. Packets[t.frame] \in 1 .. 5
    BY <2>2, PacketsAssumption
  <2>4. t.offset + t.last \in 0 .. 5 /\ t.offset + t.last <= Packets[t.frame]
    BY <1>3, <2>2, <2>3 DEF Sender
  <2>5. t.sn + t.last = t.offset + t.last
    BY <2>2
  <2>6. /\ next \in Sender
        /\ next.status = "in_progress" /\ next.frame = t.frame
        /\ next.sn = t.sn + t.last /\ next.offset = t.offset + t.last
    BY <1>3, <2>4, <2>5, Zenon DEF Sender
  <2> HIDE DEF next, rest, t, s
  <2>7. /\ next.sn = next.offset /\ next.offset <= Packets[next.frame]
        /\ next.frame \in Frame
    BY <2>2, <2>4, <2>5, <2>6
  <2> QED BY <1>2, <1>4, <2>1, <2>6, <2>7, SendNextPacketKeeps
<1>7. CASE t.status = "finish_flush_sent"
  <2>1. tx' = [tx EXCEPT ![s] = over] /\ net' = rest
    BY <1>7 DEF Acknowledged, begins, confirms
  <2>2. /\ over \in Sender
        /\ over.status = "idle" /\ over.frame = t.frame
        /\ over.offset = t.offset /\ over.tid = t.tid
    BY <1>3, 0 \in 0 .. 5, Zenon DEF Sender
  <2>3. ~t.tid
    BY <1>3, <1>7 DEF Consistent, Sender
  <2> HIDE DEF over
  <2>4. Consistent(over)
    BY <1>3, <2>2, <2>3 DEF Consistent
  <2>5. tx' \in [Node -> Sender] /\ \A i \in Node : Consistent(tx[i])'
    BY <1>2, <2>1, <2>2, <2>4, SenderKeeps DEF Sending
  <2> QED BY <1>4, <2>1, <2>5 DEF Sending
<1>8. CASE /\ ~begins(t, m.nesn) /\ ~confirms(t, m.nesn)
           /\ t.status # "finish_flush_sent"
  BY <1>8 DEF Acknowledged, Sending, Consistent
<1> QED BY <1>5, <1>6, <1>7, <1>8

------------------------------------------------------------------------------
(* The receiver.  What TypeOK says of it, and its invariants.              *)
Receiver ==
  /\ rx_src_id \in Node \cup {None} /\ RX_MESH_ID \in Node \cup {None}
  /\ rx_status \in {"idle", "start_flush_received", "in_progress"}
  /\ rx_nesn \in 0 .. 5 \cup {NoStream}
  /\ rx_nesn # NoStream => rx_stream_offset = rx_nesn
  /\ rx_stream_offset \in 0 .. 5
  /\ rx_stream_in_progress \in BOOLEAN
  /\ rx_stream_timeout_tid \in BOOLEAN /\ UartTxDataType \in BOOLEAN
  /\ BLE_RX_DATA \in [Part -> (Frame \cup {None}) \X Part]
  /\ reported \subseteq (Frame \cup {None}) \X (Node \cup {None})
  /\ Receiving
  /\ StreamIsTimed

LEMMA MessageFields ==
  ASSUME NEW m \in Message
  PROVE  /\ m.kind \in {"flush", "data"} => m.src \in Node /\ m.sn \in 0 .. 5
         /\ m.kind = "data" => /\ m.len \in 0 .. 1 /\ m.sn + m.len <= 5
                              /\ m.piece \in Frame \X Part
  BY DEF Message

LEMMA AnswerKeeps ==
  ASSUME net \subseteq Message, NEW m \in Message,
         m.kind \in {"flush", "data"},
         rx_nesn' \in 0 .. 5 \cup {NoStream}, answer(m) \/ ignore(m)
  PROVE  net' \subseteq Message
<1>1. Ack(m, rx_nesn') \in Message
  BY MessageFields DEF Ack, Message
<1>2. net \ {m} \in SUBSET Message
  OBVIOUS
<1> QED BY <1>1, <1>2, SendKeeps DEF answer, ignore

(* A flush begins a stream only if no data has come: the timer is started. *)
LEMMA FlushKeeps ==
  ASSUME Receiver, NEW m \in Message, m.kind = "flush",
         \/ StartFlush(m) \/ RepeatedFlush(m) \/ EndFlush(m)
         \/ BrokenFlush(m) \/ OtherFlush(m)
  PROVE  Receiver' /\ (answer(m) \/ ignore(m))
<1>1. m.src \in Node /\ m.sn \in 0 .. 5
  BY MessageFields
<1>2. CASE StartFlush(m)
  <2>1. rx_nesn = NoStream /\ ~rx_stream_in_progress
    BY <1>2 DEF StartFlush, Receiver, Receiving
  <2>2. rx_stream_timeout_tid' = TRUE /\ rx_stream_in_progress' = FALSE
    BY <1>2, <2>1 DEF StartFlush, handleCSRmeshDataStreamFlushInd
  <2>3. rx_nesn' = 0 /\ rx_stream_offset' = 0
    BY <1>2 DEF StartFlush
  <2> QED BY <1>1, <1>2, <2>2, <2>3
          DEF StartFlush, Receiver, Receiving, StreamIsTimed, rxReport, answer
<1>3. CASE RepeatedFlush(m)
  BY <1>3 DEF RepeatedFlush, Receiver, Receiving, StreamIsTimed, rx, rxState,
              rxStream, rxReport, answer, ignore
<1>4. CASE EndFlush(m)
  <2>1. rx_nesn' = NoStream /\ rx_stream_in_progress' = FALSE
    BY <1>4 DEF EndFlush, handleCSRmeshDataStreamFlushInd
  <2>2. rx_stream_timeout_tid' \in BOOLEAN
    BY <1>4 DEF EndFlush, handleCSRmeshDataStreamFlushInd
  <2>3. /\ RX_MESH_ID' \in Node \cup {None}
        /\ UartTxDataType' \in BOOLEAN
    BY <1>4 DEF EndFlush, Receiver
  <2> QED BY <1>4, <2>1, <2>2, <2>3
          DEF EndFlush, Receiver, Receiving, StreamIsTimed
<1>5. CASE BrokenFlush(m)
  BY <1>5 DEF BrokenFlush, dropped, resetRxStreamState, Receiver, Receiving,
              StreamIsTimed, rxReport
<1>6. CASE OtherFlush(m)
  BY <1>6 DEF OtherFlush, Receiver, Receiving, StreamIsTimed, rx, rxState,
              rxStream, rxReport
<1> QED BY <1>2, <1>3, <1>4, <1>5, <1>6

(* Data in its place finds a stream, and starts its timer again.           *)
LEMMA DataKeeps ==
  ASSUME Receiver, NEW m \in Message, m.kind = "data",
         NextData(m) \/ OtherData(m) \/ ForeignData(m)
  PROVE  Receiver' /\ (answer(m) \/ ignore(m))
<1>1. /\ m.src \in Node /\ m.sn \in 0 .. 5
      /\ m.len \in 0 .. 1 /\ m.sn + m.len <= 5
      /\ m.piece \in Frame \X Part
  BY MessageFields
<1>2. CASE NextData(m)
  <2>1. rx_nesn = m.sn /\ rx_stream_offset = m.sn
    BY <1>1, <1>2 DEF NextData, Receiver, NoStream
  <2>2. m.sn + m.len \in 0 .. 5 /\ m.sn + m.len # NoStream
    BY <1>1 DEF NoStream
  <2>3. rx_nesn' = m.sn + m.len /\ rx_stream_offset' = m.sn + m.len
    BY <1>2, <2>1 DEF NextData
  <2>4. BLE_RX_DATA' \in [Part -> (Frame \cup {None}) \X Part]
    <3>1. CASE m.len = 0
      BY <1>2, <3>1 DEF NextData, Receiver
    <3>2. CASE m.len # 0
      <4>1. rx_stream_offset \in Part
        BY <1>1, <2>1, <3>2 DEF Part
      <4>2. BLE_RX_DATA' = [BLE_RX_DATA EXCEPT ![rx_stream_offset] = m.piece]
        BY <1>2, <3>2 DEF NextData
      <4> QED BY <1>1, <4>1, <4>2 DEF Receiver
    <3> QED BY <3>1, <3>2
  <2>5. /\ rx_stream_timeout_tid' = TRUE /\ rx_stream_in_progress' = TRUE
        /\ rx_status' = "in_progress"
        /\ UNCHANGED <<rx_src_id, RX_MESH_ID, UartTxDataType, reported>>
        /\ answer(m)
    BY <1>2 DEF NextData
  <2> QED BY <2>2, <2>3, <2>4, <2>5 DEF Receiver, Receiving, StreamIsTimed
<1>3. CASE OtherData(m)
  BY <1>3 DEF OtherData, Receiver, Receiving, StreamIsTimed, rxStream, rxReport
<1>4. CASE ForeignData(m)
  BY <1>4 DEF ForeignData, Receiver, Receiving, StreamIsTimed, rx, rxState,
              rxStream, rxReport
<1> QED BY <1>2, <1>3, <1>4

LEMMA TimeoutKeeps ==
  ASSUME Receiver, rxStreamTimeoutHandler
  PROVE  Receiver'
  BY DEF rxStreamTimeoutHandler, resetRxStreamState, Receiver, Receiving,
         StreamIsTimed, rxReport

LEMMA ReportKeeps ==
  ASSUME Receiver, WifiTxData
  PROVE  Receiver'
<1>1. 0 \in Part
  BY DEF Part
<1>2. BLE_RX_DATA[0] \in (Frame \cup {None}) \X Part
  BY <1>1 DEF Receiver
<1>3. <<BLE_RX_DATA[0][1], RX_MESH_ID>>
        \in (Frame \cup {None}) \X (Node \cup {None})
  BY <1>2 DEF Receiver
<1>4. reported' \subseteq (Frame \cup {None}) \X (Node \cup {None})
  BY <1>3 DEF WifiTxData, Receiver
<1>5. BLE_RX_DATA' \in [Part -> (Frame \cup {None}) \X Part]
  BY DEF WifiTxData, Cleared
<1> QED BY <1>4, <1>5 DEF WifiTxData, Receiver, Receiving, StreamIsTimed,
                          rxState, rxStream

------------------------------------------------------------------------------
LEMMA InvParts ==
  Inv <=> /\ Sending
          /\ Receiver
          /\ unsent \subseteq Frame /\ gaveUp \subseteq Frame
          /\ outcome \in [Frame -> {"none", "OK", "NG"}]
<1>1. ASSUME Sending
      PROVE  \A s \in Node :
               tx[s].frame # None => tx[s].offset <= Packets[tx[s].frame]
  BY <1>1 DEF Sending, Sender, Consistent
<1> QED BY <1>1 DEF Inv, TypeOK, Sending, Receiver

LEMMA StepKeeps == Inv /\ [Next]_vars => Inv'
<1> SUFFICES ASSUME Inv, [Next]_vars PROVE Inv'
  OBVIOUS
<1> DEFINE History == /\ unsent \subseteq Frame /\ gaveUp \subseteq Frame
                      /\ outcome \in [Frame -> {"none", "OK", "NG"}]
<1>1. Sending /\ Receiver /\ History
  BY InvParts
<1>2. Sending' /\ Receiver' /\ History' => Inv'
  BY InvParts, PTL
<1>3. UNCHANGED rx => Receiver'
  BY <1>1 DEF rx, rxState, rxStream, rxReport, Receiver, Receiving,
              StreamIsTimed
<1>4. UNCHANGED txHistory => History'
  BY <1>1 DEF txHistory
<1>5. net' \subseteq Message /\ UNCHANGED tx => Sending'
  BY <1>1 DEF Sending, Consistent
<1>6. CASE UNCHANGED vars
  BY <1>1, <1>2, <1>3, <1>4, <1>5, <1>6 DEF vars, Sending
<1>7. CASE \E s \in Node, f \in Frame : startStream(s, f)
  <2>1. PICK s \in Node, f \in Frame : startStream(s, f)
    BY <1>7
  <2>2. Sending'
    BY <1>1, <2>1, StartStreamKeeps
  <2>3. UNCHANGED rx /\ History'
    BY <1>1, <2>1 DEF startStream
  <2> QED BY <1>2, <1>3, <2>2, <2>3
<1>8. CASE \E s \in Node : streamSendRetryTimer(s)
  <2>1. PICK s \in Node : streamSendRetryTimer(s)
    BY <1>8
  <2>2. Sending' /\ tx[s].frame \in Frame
    BY <1>1, <2>1, RetryKeeps
  <2>3. tx[s] \in Sender
    BY <1>1 DEF Sending
  <2>4. [tx[s] EXCEPT !.tid = FALSE, !.retries = @ + 1].frame = tx[s].frame
    BY <2>3, Zenon DEF Sender
  <2>5. UNCHANGED rx /\ History'
    BY <1>1, <2>1, <2>2, <2>4 DEF streamSendRetryTimer
  <2> QED BY <1>2, <1>3, <2>2, <2>5
<1>9. CASE \E m \in net : Acknowledged(m)
  <2>1. PICK m \in net : Acknowledged(m)
    BY <1>9
  <2>2. Sending'
    BY <1>1, <2>1, AcknowledgedKeeps
  <2>3. UNCHANGED <<rx, unsent, gaveUp>>
    BY <2>1 DEF Acknowledged
  <2>4. outcome' \in [Frame -> {"none", "OK", "NG"}]
    BY <1>1, <2>1 DEF Acknowledged
  <2> QED BY <1>1, <1>2, <1>3, <2>2, <2>3, <2>4
<1>10. CASE \E m \in net : appDataServerHandler(m)
  <2>1. PICK m \in net : appDataServerHandler(m)
    BY <1>10
  <2>2. m \in Message /\ m.kind \in {"flush", "data"}
    BY <1>1, <2>1 DEF Sending, appDataServerHandler
  <2>3. Receiver' /\ (answer(m) \/ ignore(m))
    BY <1>1, <2>1, <2>2, FlushKeeps, DataKeeps DEF appDataServerHandler
  <2>4. rx_nesn' \in 0 .. 5 \cup {NoStream}
    BY <2>3 DEF Receiver
  <2>5. net' \subseteq Message
    BY <1>1, <2>2, <2>3, <2>4, AnswerKeeps DEF Sending
  <2>6. UNCHANGED <<tx, txHistory>>
    BY <2>1 DEF appDataServerHandler
  <2> QED BY <1>2, <1>4, <1>5, <2>3, <2>5, <2>6
<1>11. CASE \E m \in net : Lose(m)
  <2>1. UNCHANGED <<tx, rx, txHistory>> /\ net' \subseteq net
    BY <1>11 DEF Lose
  <2>2. net' \subseteq Message
    BY <1>1, <2>1 DEF Sending
  <2> QED BY <1>2, <1>3, <1>4, <1>5, <2>1, <2>2
<1>12. CASE rxStreamTimeoutHandler
  <2>1. UNCHANGED <<net, tx, txHistory>>
    BY <1>12 DEF rxStreamTimeoutHandler
  <2> QED BY <1>1, <1>2, <1>4, <1>5, <1>12, <2>1, TimeoutKeeps DEF Sending
<1>13. CASE WifiTxData
  <2>1. UNCHANGED <<net, tx, txHistory>>
    BY <1>13 DEF WifiTxData
  <2> QED BY <1>1, <1>2, <1>4, <1>5, <1>13, <2>1, ReportKeeps DEF Sending
<1> QED BY <1>6, <1>7, <1>8, <1>9, <1>10, <1>11, <1>12, <1>13 DEF Next

LEMMA Invariance == Spec => []Inv
  BY Initially, StepKeeps, PTL DEF Spec

(* The types: a sender never reads past its frame, and the receiver always *)
(* copies data to the place its sequence number says.                      *)
THEOREM TypeCorrect == Spec => []TypeOK
<1>1. Inv => TypeOK
  BY DEF Inv
<1> QED BY <1>1, Invariance, PTL

(* A stream that is expected to go on is always watched by the timer of    *)
(* the receiver, whatever is lost, repeated, late or given up, and however *)
(* the senders start their streams.                                        *)
THEOREM StreamAlwaysTimed == Spec => []StreamIsTimed
<1>1. Inv => StreamIsTimed
  BY DEF Inv
<1> QED BY <1>1, Invariance, PTL

------------------------------------------------------------------------------
(* Streams of patient senders.  A message on its way belongs to the last   *)
(* stream of its sender, so what the receiver has copied and what it       *)
(* answers can be told from where that stream is.                          *)

owner(m) == IF m.kind = "ack" THEN m.to ELSE m.src

(* The end of the last stream of s is known at both ends, or was given up. *)
Known(s) == tx[s].frame \in gaveUp \/ delivered(tx[s].frame)

(* A message on its way, seen from the node it concerns.                   *)
FlushFits(m, s) ==
  IF m.end THEN /\ tx[s].status \in {"finish_flush_sent", "idle"}
                /\ m.sn = tx[s].offset
           ELSE tx[s].status = "start_flush_sent" /\ m.sn = 0
DataFits(m, s) ==
  /\ tx[s].status # "start_flush_sent"
  /\ m.len = 1 /\ m.piece = <<tx[s].frame, m.sn>>
  /\ m.sn <= tx[s].offset /\ m.sn < Packets[tx[s].frame]
AckFits(m, s) ==
  /\ tx[s].status = "start_flush_sent" =>
       /\ m.nesn \in {0, NoStream}
       /\ m.nesn = 0 /\ rx_src_id = s => rx_nesn = 0
  /\ tx[s].status = "in_progress" =>
       m.nesn # NoStream /\ (rx_src_id = s => m.nesn <= rx_nesn)
  /\ tx[s].status = "finish_flush_sent" /\ m.nesn = NoStream => Known(s)
OnWay(m, s) ==
  /\ tx[s].frame \in Frame
  /\ m.kind = "flush" => FlushFits(m, s)
  /\ m.kind = "data" => DataFits(m, s)
  /\ m.kind = "ack" => AckFits(m, s)

(* The sender: between the flush that starts a stream and its answer,      *)
(* nothing else of it is on its way.                                       *)
Own(s) ==
  /\ tx[s].frame \in Frame => Source[tx[s].frame] = s
  /\ tx[s].tid => tx[s].status = "in_progress"
  /\ tx[s].status = "finish_flush_sent" =>
       tx[s].frame \in gaveUp \/ tx[s].offset = Packets[tx[s].frame]
AloneAtStart(s) ==
  tx[s].status = "start_flush_sent" =>
    \A m, n \in net : owner(m) = s /\ owner(n) = s => m = n

(* The receiver, while it follows s: it is at the packet the sender sends  *)
(* or one before it, and has copied all packets up to there.               *)
Heard(s) ==
  rx_src_id = s =>
    /\ tx[s].frame \in Frame
    /\ rx_nesn # NoStream /\ tx[s].status # "start_flush_sent" =>
         /\ tx[s].offset <= rx_nesn /\ rx_nesn <= Packets[tx[s].frame]
         /\ \A i \in Part : i < rx_nesn => BLE_RX_DATA[i] = <<tx[s].frame, i>>
    /\ tx[s].status = "in_progress" => rx_nesn # NoStream
    /\ tx[s].status = "finish_flush_sent" /\ rx_nesn = NoStream => Known(s)

(* The receiver by itself: data in its buffer is of the node it follows,   *)
(* and a report waits only between streams.                                *)
FromNode(s) == BLE_RX_DATA[0][1] \in Frame /\ Source[BLE_RX_DATA[0][1]] = s
Following ==
  /\ rx_status = "start_flush_received" => rx_nesn = 0
  /\ rx_status = "in_progress" /\ rx_nesn # NoStream =>
       rx_nesn >= 1 /\ FromNode(rx_src_id)
  /\ UartTxDataType =>
       rx_status = "idle" /\ rx_nesn = NoStream /\ FromNode(RX_MESH_ID)

StreamInv ==
  /\ \A s \in Node : Own(s) /\ AloneAtStart(s) /\ Heard(s)
  /\ \A m \in net : OnWay(m, owner(m))
  /\ Following
  /\ ReportIsOneFrame
  /\ OKIsDelivered

LEMMA StreamInitially == Init => StreamInv
<1> SUFFICES ASSUME Init PROVE StreamInv
  OBVIOUS
<1>1. \A s \in Node : tx[s].frame = None /\ tx[s].status = "idle" /\ ~tx[s].tid
  BY DEF Init
<1>2. \A s \in Node : Own(s) /\ AloneAtStart(s)
  BY <1>1, NoneAssumption DEF Own, AloneAtStart
<1>3. \A s \in Node : Heard(s)
  BY NoneAssumption DEF Init, Heard
<1>4. ReportIsOneFrame /\ OKIsDelivered
  BY DEF Init, ReportIsOneFrame, OKIsDelivered
<1>5. Following /\ net = {}
  BY DEF Init, Following
<1> QED BY <1>2, <1>3, <1>4, <1>5 DEF StreamInv

LEMMA OwnerIsNode ==
  ASSUME NEW m \in Message
  PROVE  owner(m) \in Node
  BY DEF Message, owner

(* What has been delivered stays delivered: the receiver takes no message  *)
(* while a report waits for the UART.                                      *)
LEMMA DeliveredStays ==
  ASSUME NEW f, delivered(f),
         \/ UNCHANGED rxReport
         \/ ~UartTxDataType /\ UNCHANGED reported
         \/ WifiTxData
  PROVE  delivered(f)'
<1>1. CASE UNCHANGED rxReport
  BY <1>1 DEF rxReport, delivered
<1>2. CASE ~UartTxDataType /\ UNCHANGED reported
  BY <1>2 DEF delivered
<1>3. CASE WifiTxData
  BY <1>3 DEF WifiTxData, delivered
<1> QED BY <1>1, <1>2, <1>3

(* The other nodes: a step of one sender does not concern them.            *)
LEMMA OthersKeep ==
  ASSUME StreamInv, net \subseteq Message, NEW s \in Node,
         \A i \in Node \ {s} : tx'[i] = tx[i],
         UNCHANGED rx, gaveUp \subseteq gaveUp',
         \A m \in net' : m \in net \/ owner(m) = s
  PROVE  /\ \A i \in Node \ {s} : Own(i)' /\ AloneAtStart(i)' /\ Heard(i)'
         /\ \A m \in net' : owner(m) # s => OnWay(m, owner(m))'
         /\ Following' /\ ReportIsOneFrame'
<1>1. UNCHANGED <<rx_src_id, rx_nesn, rx_status, BLE_RX_DATA, RX_MESH_ID,
                  UartTxDataType, reported>>
  BY DEF rx, rxState, rxReport
<1>2. \A f : delivered(f) => delivered(f)'
  BY <1>1, DeliveredStays DEF rxReport
<1>3. ASSUME NEW i \in Node \ {s}
      PROVE  Own(i)' /\ AloneAtStart(i)' /\ Heard(i)' /\ (Known(i) => Known(i)')
  <2>1. tx'[i] = tx[i]
    OBVIOUS
  <2>2. Known(i) => Known(i)'
    BY <1>2, <2>1 DEF Known
  <2>3. Own(i) /\ AloneAtStart(i) /\ Heard(i)
    BY DEF StreamInv
  <2>4. Own(i)'
    BY <2>1, <2>3 DEF Own
  <2>5. AloneAtStart(i)'
    BY <2>1, <2>3 DEF AloneAtStart
  <2>6. Heard(i)'
    BY <1>1, <2>1, <2>2, <2>3 DEF Heard
  <2> QED BY <2>2, <2>4, <2>5, <2>6
<1>4. ASSUME NEW m \in net', owner(m) # s
      PROVE  OnWay(m, owner(m))'
  <2> DEFINE i == owner(m)
  <2>1. m \in net /\ i \in Node \ {s}
    BY <1>4, OwnerIsNode
  <2>2. OnWay(m, i)
    BY <2>1 DEF StreamInv
  <2> HIDE DEF i
  <2>3. tx'[i] = tx[i] /\ (Known(i) => Known(i)')
    BY <1>3, <2>1
  <2>4. OnWay(m, i)'
    BY <1>1, <2>2, <2>3 DEF OnWay, FlushFits, DataFits, AckFits
  <2> QED BY <2>4 DEF i
<1>5. Following' /\ ReportIsOneFrame'
  BY <1>1 DEF StreamInv, Following, FromNode, ReportIsOneFrame
<1> QED BY <1>3, <1>4, <1>5

(* It is enough to look at the sender that makes the step.                 *)
LEMMA SenderEnough ==
  ASSUME StreamInv, net \subseteq Message, NEW s \in Node,
         \A i \in Node \ {s} : tx'[i] = tx[i],
         UNCHANGED rx, gaveUp \subseteq gaveUp',
         \A m \in net' : m \in net \/ owner(m) = s,
         Own(s)', AloneAtStart(s)', Heard(s)', OKIsDelivered',
         \A m \in net' : owner(m) = s => OnWay(m, s)'
  PROVE  StreamInv'
<1>1. \A i \in Node : Own(i)' /\ AloneAtStart(i)' /\ Heard(i)'
  BY OthersKeep
<1>2. \A m \in net' : OnWay(m, owner(m))'
  BY OthersKeep
<1>3. Following' /\ ReportIsOneFrame'
  BY OthersKeep
<1> QED BY <1>1, <1>2, <1>3 DEF StreamInv

LEMMA OKKept ==
  ASSUME OKIsDelivered, UNCHANGED <<rx, outcome>>, gaveUp \subseteq gaveUp'
  PROVE  OKIsDelivered'
  BY DEF OKIsDelivered, delivered, rx, rxReport

LEMMA StartStreamFollows ==
  ASSUME Sending, StreamInv, Patient = TRUE,
         NEW s \in Node, NEW f \in Frame, startStream(s, f)
  PROVE  StreamInv'
<1> DEFINE t == [tx[s] EXCEPT !.status = "start_flush_sent", !.sn = 0,
                              !.offset = 0, !.last = 0, !.frame = f]
<1>1. tx[s] \in Sender /\ net \subseteq Message
  BY DEF Sending
<1>2. /\ t.status = "start_flush_sent" /\ t.frame = f
      /\ t.sn = 0 /\ t.tid = tx[s].tid
  BY <1>1, Zenon DEF Sender
<1>3. /\ tx' = [tx EXCEPT ![s] = t] /\ send(net, Flush(s, t, FALSE))
      /\ Source[f] = s /\ UNCHANGED <<rx, outcome, gaveUp>>
      /\ tx[s].status # "in_progress" /\ \A m \in net : ~concerns(m, s)
  BY DEF startStream, mayStart
<1> HIDE DEF t
<1>4. tx'[s] = t /\ \A i \in Node \ {s} : tx'[i] = tx[i]
  BY <1>3 DEF Sending
<1>5. \A m \in net : owner(m) # s
  BY <1>3 DEF concerns, owner
<1>6. \A m \in net' : m \in net \/ m = Flush(s, t, FALSE)
  BY <1>3 DEF send
<1>7. /\ owner(Flush(s, t, FALSE)) = s
      /\ Flush(s, t, FALSE).kind = "flush"
      /\ Flush(s, t, FALSE).end = FALSE /\ Flush(s, t, FALSE).sn = 0
  BY <1>2 DEF Flush, owner
<1>8. Own(s)'
  BY <1>2, <1>3, <1>4 DEF StreamInv, Own
<1>9. AloneAtStart(s)'
  BY <1>5, <1>6 DEF AloneAtStart
<1>10. Heard(s)'
  BY <1>2, <1>4 DEF Heard
<1>11. \A m \in net' : owner(m) = s => OnWay(m, s)'
  BY <1>2, <1>4, <1>5, <1>6, <1>7 DEF OnWay, FlushFits
<1>12. OKIsDelivered'
  BY <1>3, OKKept DEF StreamInv
<1>13. \A m \in net' : m \in net \/ owner(m) = s
  BY <1>6, <1>7
<1> QED BY <1>1, <1>3, <1>4, <1>8, <1>9, <1>10, <1>11, <1>12, <1>13,
           SenderEnough

(* What is left of the messages and of the receiver, when the sender goes  *)
(* on in its stream: what was behind it is still behind it.                *)
LEMMA RetryFollows ==
  ASSUME Sending, StreamInv, NEW s \in Node, streamSendRetryTimer(s)
  PROVE  StreamInv'
<1> DEFINE t == [tx[s] EXCEPT !.tid = FALSE, !.retries = @ + 1]
<1>1. /\ tx[s] \in Sender /\ Consistent(tx[s]) /\ tx[s].tid
      /\ net \subseteq Message
      /\ Own(s) /\ Heard(s)
  BY DEF Sending, streamSendRetryTimer, StreamInv
<1>2. /\ tx[s].status = "in_progress" /\ tx[s].frame \in Frame
      /\ tx[s].sn = tx[s].offset /\ tx[s].last = 1
      /\ tx[s].offset < Packets[tx[s].frame]
  BY <1>1 DEF Own, Consistent
<1>3. /\ t.status = tx[s].status /\ t.sn = tx[s].sn
      /\ t.offset = tx[s].offset /\ t.last = tx[s].last
      /\ t.frame = tx[s].frame /\ t.tid = FALSE
  BY <1>1, Zenon DEF Sender
<1>4. UNCHANGED <<rx, outcome>> /\ gaveUp \subseteq gaveUp'
  BY DEF streamSendRetryTimer
<1>5. UNCHANGED <<rx_src_id, rx_nesn, BLE_RX_DATA>>
  BY <1>4 DEF rx, rxState, rxReport
<1>6. \A m \in net : owner(m) = s => OnWay(m, s)
  BY DEF StreamInv
<1>7. OKIsDelivered'
  BY <1>4, OKKept DEF StreamInv
<1>8. CASE t.retries < MAX_SEND_RETRIES
  <2> DEFINE u == [t EXCEPT !.tid = TRUE]
  <2>1. tx' = [tx EXCEPT ![s] = u] /\ send(net, Data(s, t))
    BY <1>8 DEF streamSendRetryTimer, resent
  <2>2. /\ u.status = "in_progress" /\ u.frame = tx[s].frame
        /\ u.offset = tx[s].offset
    <3>1. /\ u.status = t.status /\ u.frame = t.frame
          /\ u.offset = t.offset
      BY <1>1, Zenon DEF Sender
    <3> QED BY <1>2, <1>3, <3>1
  <2> HIDE DEF t, u
  <2>3. tx'[s] = u /\ \A i \in Node \ {s} : tx'[i] = tx[i]
    BY <2>1 DEF Sending
  <2>4. /\ owner(Data(s, t)) = s
        /\ Data(s, t).kind = "data" /\ Data(s, t).sn = tx[s].offset
        /\ Data(s, t).len = 1
        /\ Data(s, t).piece = <<tx[s].frame, tx[s].offset>>
    BY <1>2, <1>3 DEF Data, owner
  <2>5. \A m \in net' : m \in net \/ m = Data(s, t)
    BY <2>1 DEF send
  <2>6. Own(s)' /\ AloneAtStart(s)'
    BY <1>1, <2>2, <2>3 DEF Own, AloneAtStart
  <2>7. Heard(s)'
    BY <1>1, <1>2, <1>5, <2>2, <2>3 DEF Heard
  <2>8. \A m \in net' : owner(m) = s => OnWay(m, s)'
    <3> SUFFICES ASSUME NEW m \in net', owner(m) = s
                 PROVE  OnWay(m, s)'
      OBVIOUS
    <3>1. CASE m \in net
      BY <1>2, <1>5, <1>6, <2>2, <2>3, <3>1
      DEF OnWay, FlushFits, DataFits, AckFits
    <3>2. CASE m = Data(s, t)
      <4>1. tx[s].offset \in 0 .. 5
        BY <1>1 DEF Sender
      <4> QED BY <1>2, <2>2, <2>3, <2>4, <3>2, <4>1 DEF OnWay, DataFits
    <3> QED BY <2>5, <3>1, <3>2
  <2> QED BY <1>1, <1>4, <1>7, <2>3, <2>4, <2>5, <2>6, <2>7, <2>8, SenderEnough
<1>9. CASE ~(t.retries < MAX_SEND_RETRIES)
  <2> DEFINE v == [t EXCEPT !.retries = 0]
             u == [v EXCEPT !.status = "finish_flush_sent", !.last = 0]
  <2>1. /\ endStream(s, v, net) /\ gaveUp' = gaveUp \cup {t.frame}
    BY <1>9 DEF streamSendRetryTimer
  <2>2. /\ v.status = "in_progress" /\ v.sn = tx[s].offset
        /\ u.status = "finish_flush_sent" /\ u.frame = tx[s].frame
        /\ u.offset = tx[s].offset /\ u.tid = FALSE
    <3>1. /\ v.status = t.status /\ v.sn = t.sn
          /\ u.status = "finish_flush_sent" /\ u.frame = t.frame
          /\ u.offset = t.offset /\ u.tid = t.tid
      BY <1>1, Zenon DEF Sender
    <3> QED BY <1>2, <1>3, <3>1
  <2>3. tx' = [tx EXCEPT ![s] = u] /\ send(net, Flush(s, v, TRUE))
    BY <2>1, <2>2 DEF endStream
  <2>4. tx[s].frame \in gaveUp'
    BY <1>3, <2>1
  <2> HIDE DEF t, u, v
  <2>5. tx'[s] = u /\ \A i \in Node \ {s} : tx'[i] = tx[i]
    BY <2>3 DEF Sending
  <2>6. /\ owner(Flush(s, v, TRUE)) = s
        /\ Flush(s, v, TRUE).kind = "flush" /\ Flush(s, v, TRUE).end = TRUE
        /\ Flush(s, v, TRUE).sn = tx[s].offset
    BY <2>2 DEF Flush, owner
  <2>7. \A m \in net' : m \in net \/ m = Flush(s, v, TRUE)
    BY <2>3 DEF send
  <2>8. Own(s)' /\ AloneAtStart(s)'
    BY <1>1, <2>2, <2>4, <2>5 DEF Own, AloneAtStart
  <2>9. Heard(s)'
    BY <1>1, <1>2, <1>5, <2>2, <2>4, <2>5 DEF Heard, Known
  <2>10. \A m \in net' : owner(m) = s => OnWay(m, s)'
    <3> SUFFICES ASSUME NEW m \in net', owner(m) = s
                 PROVE  OnWay(m, s)'
      OBVIOUS
    <3>1. CASE m \in net
      BY <1>2, <1>5, <1>6, <2>2, <2>4, <2>5, <3>1
      DEF OnWay, FlushFits, DataFits, AckFits, Known
    <3>2. CASE m = Flush(s, v, TRUE)
      BY <1>2, <2>2, <2>5, <2>6, <3>2 DEF OnWay, FlushFits
    <3> QED BY <2>7, <3>1, <3>2
  <2> QED BY <1>1, <1>4, <1>7, <2>5, <2>6, <2>7, <2>8, <2>9, <2>10, SenderEnough
<1> QED BY <1>8, <1>9

(* What sendNextPacket does: a packet, or the flush after the last one.    *)
LEMMA NextPacketEffect ==
  ASSUME tx \in [Node -> Sender], NEW s \in Node, NEW old \in Sender,
         old.status = "in_progress", NEW rest, sendNextPacket(s, old, rest)
  PROVE  /\ \A i \in Node \ {s} : tx'[i] = tx[i]
         /\ tx'[s].frame = old.frame /\ tx'[s].offset = old.offset
         /\ old.offset < Packets[old.frame] =>
              /\ tx'[s].status = "in_progress"
              /\ \E p : /\ p.kind = "data" /\ owner(p) = s
                        /\ p.sn = old.sn /\ p.len = 1
                        /\ p.piece = <<old.frame, old.offset>>
                        /\ net' \subseteq rest \cup {p}
         /\ ~(old.offset < Packets[old.frame]) =>
              /\ tx'[s].status = "finish_flush_sent" /\ ~tx'[s].tid
              /\ \E p : /\ p.kind = "flush" /\ owner(p) = s
                        /\ p.sn = old.sn /\ p.end
                        /\ net' \subseteq rest \cup {p}
<1> DEFINE t == [old EXCEPT !.retries = 0, !.tid = FALSE]
           u == [t EXCEPT !.last = 1, !.tid = TRUE]
           v == [t EXCEPT !.status = "finish_flush_sent", !.last = 0]
<1>1. /\ t.frame = old.frame /\ t.status = old.status
      /\ t.sn = old.sn /\ t.offset = old.offset
      /\ u.frame = old.frame /\ u.status = old.status
      /\ u.sn = old.sn /\ u.offset = old.offset /\ u.last = 1
      /\ v.frame = old.frame /\ v.status = "finish_flush_sent"
      /\ v.offset = old.offset /\ v.tid = FALSE
  BY Zenon DEF Sender
<1>2. CASE pending(t)
  <2>1. tx' = [tx EXCEPT ![s] = u] /\ send(rest, Data(s, u))
    BY <1>2 DEF sendNextPacket
  <2>2. old.offset < Packets[old.frame]
    BY <1>1, <1>2 DEF pending
  <2> HIDE DEF t, u, v
  <2> DEFINE p == Data(s, u)
  <2>3. /\ p.kind = "data" /\ owner(p) = s /\ p.sn = old.sn /\ p.len = 1
        /\ p.piece = <<old.frame, old.offset>>
    BY <1>1 DEF Data, owner
  <2>4. net' \subseteq rest \cup {p}
    BY <2>1 DEF send
  <2> HIDE DEF p
  <2>5. tx'[s] = u /\ \A i \in Node \ {s} : tx'[i] = tx[i]
    BY <2>1
  <2> QED BY <1>1, <2>2, <2>3, <2>4, <2>5
<1>3. CASE ~pending(t)
  <2>1. endStream(s, t, rest)
    BY <1>3 DEF sendNextPacket
  <2>2. tx' = [tx EXCEPT ![s] = v] /\ send(rest, Flush(s, t, TRUE))
    BY <1>1, <2>1 DEF endStream
  <2>3. ~(old.offset < Packets[old.frame])
    BY <1>1, <1>3 DEF pending
  <2> HIDE DEF t, u, v
  <2> DEFINE p == Flush(s, t, TRUE)
  <2>4. /\ p.kind = "flush" /\ owner(p) = s /\ p.sn = old.sn /\ p.end
    BY <1>1 DEF Flush, owner
  <2>5. net' \subseteq rest \cup {p}
    BY <2>2 DEF send
  <2> HIDE DEF p
  <2>6. tx'[s] = v /\ \A i \in Node \ {s} : tx'[i] = tx[i]
    BY <2>2
  <2> QED BY <1>1, <2>3, <2>4, <2>5, <2>6
<1> QED BY <1>2, <1>3

LEMMA AcknowledgedFollows ==
  ASSUME Sending, StreamInv, NEW m \in net, Acknowledged(m)
  PROVE  StreamInv'
<1> DEFINE s == m.to
           t == tx[s]
           moved == [t EXCEPT !.status = "in_progress", !.offset = @ + t.last]
           next == [moved EXCEPT !.sn = @ + t.last]
           over == [t EXCEPT !.status = "idle", !.sn = 0]
           rest == net \ {m}
<1>1. m.kind = "ack" /\ m \in Message /\ net \subseteq Message
  BY DEF Acknowledged, Sending
<1>2. s \in Node /\ owner(m) = s
  BY <1>1 DEF Message, owner
<1>3. t \in Sender /\ Consistent(t) /\ Own(s) /\ Heard(s) /\ AloneAtStart(s)
  BY <1>2 DEF Sending, StreamInv
<1>4. /\ OnWay(m, s) /\ AckFits(m, s)
      /\ \A p \in net : owner(p) = s => OnWay(p, s)
  BY <1>1, <1>2 DEF StreamInv, OnWay
<1>5. UNCHANGED <<rx, gaveUp>> /\ gaveUp \subseteq gaveUp'
  BY DEF Acknowledged
<1>6. UNCHANGED <<rx_src_id, rx_nesn, BLE_RX_DATA>>
  BY <1>5 DEF rx, rxState, rxReport
<1>7. t.offset \in 0 .. 5 /\ t.sn \in 0 .. 5 /\ t.frame \in Frame
  BY <1>3, <1>4 DEF Sender, OnWay
<1>8. Packets[t.frame] \in 1 .. 5
  BY <1>7, PacketsAssumption
<1>9. CASE begins(t, m.nesn)
  <2>1. sendNextPacket(s, moved, rest) /\ UNCHANGED outcome
    BY <1>9 DEF Acknowledged, begins, confirms
  <2>2. /\ t.status = "start_flush_sent" /\ m.nesn = 0
        /\ t.sn = 0 /\ t.offset = 0 /\ t.last = 0
    BY <1>3, <1>9 DEF begins, Consistent
  <2>3. t.offset + t.last = 0
    BY <2>2
  <2>4. /\ moved \in Sender
        /\ moved.status = "in_progress" /\ moved.frame = t.frame
        /\ moved.sn = 0 /\ moved.offset = 0
    BY <1>3, <2>2, <2>3, 0 \in 0 .. 5, Zenon DEF Sender
  <2>5. \A p \in rest : owner(p) # s
    BY <1>2, <1>3, <2>2 DEF AloneAtStart
  <2>6. rx_src_id = s => rx_nesn = 0
    BY <1>4, <2>2 DEF AckFits
  <2> HIDE DEF moved, next, over
  <2>7. /\ \A i \in Node \ {s} : tx'[i] = tx[i]
        /\ tx'[s].frame = t.frame /\ tx'[s].offset = 0
        /\ tx'[s].status = "in_progress"
    BY <1>2, <1>8, <2>1, <2>4, NextPacketEffect DEF Sending
  <2>8. PICK p : /\ p.kind = "data" /\ owner(p) = s
                 /\ p.sn = 0 /\ p.len = 1 /\ p.piece = <<t.frame, 0>>
                 /\ net' \subseteq rest \cup {p}
    <3>1. moved.offset < Packets[moved.frame]
      BY <1>8, <2>4
    <3>2. PICK p : /\ p.kind = "data" /\ owner(p) = s
                   /\ p.sn = moved.sn /\ p.len = 1
                   /\ p.piece = <<moved.frame, moved.offset>>
                   /\ net' \subseteq rest \cup {p}
      <4>1. tx \in [Node -> Sender]
        BY DEF Sending
      <4> HIDE DEF s, t, rest
      <4> QED BY <1>2, <2>1, <2>4, <3>1, <4>1, NextPacketEffect
    <3> QED BY <2>4, <3>2
  <2> HIDE DEF s, t
  <2>9. Own(s)' /\ AloneAtStart(s)'
    BY <1>3, <2>7 DEF Own, AloneAtStart, t
  <2>10. Heard(s)'
    <3> SUFFICES ASSUME rx_src_id = s
                 PROVE  Heard(s)'
      BY <1>6 DEF Heard
    <3>1. rx_nesn = 0 /\ rx_nesn # NoStream
      BY <2>6 DEF NoStream
    <3>2. \A i \in Part : ~(i < rx_nesn)
      BY <3>1 DEF Part
    <3> QED BY <1>6, <1>7, <1>8, <2>7, <3>1, <3>2 DEF Heard
  <2>11. \A q \in net' : owner(q) = s => OnWay(q, s)'
    BY <1>7, <1>8, <2>5, <2>7, <2>8 DEF OnWay, DataFits
  <2>12. \A q \in net' : q \in net \/ owner(q) = s
    BY <2>8
  <2>13. OKIsDelivered'
    BY <1>5, <2>1, OKKept DEF StreamInv
  <2> QED BY <1>1, <1>2, <1>5, <2>7, <2>9, <2>10, <2>11, <2>12, <2>13,
             SenderEnough
<1>10. CASE confirms(t, m.nesn)
  <2>1. sendNextPacket(s, next, rest) /\ UNCHANGED outcome
    BY <1>10 DEF Acknowledged, begins, confirms
  <2>2. /\ t.status = "in_progress" /\ t.sn = t.offset /\ t.last = 1
        /\ t.offset < Packets[t.frame] /\ m.nesn = t.sn + t.last
    BY <1>3, <1>10 DEF confirms, Consistent
  <2> DEFINE k == t.offset + 1
  <2>3. /\ k \in 1 .. 5 /\ k <= Packets[t.frame]
        /\ t.offset + t.last = k /\ t.sn + t.last = k /\ m.nesn = k
    BY <1>7, <1>8, <2>2
  <2>4. /\ next \in Sender
        /\ next.status = "in_progress" /\ next.frame = t.frame
        /\ next.sn = k /\ next.offset = k
    <3>1. k \in 0 .. 5
      BY <2>3
    <3> HIDE DEF k
    <3> QED BY <1>3, <2>3, <3>1, Zenon DEF Sender
  <2>5. rx_src_id = s => rx_nesn # NoStream /\ k <= rx_nesn
    BY <1>3, <1>4, <2>2, <2>3 DEF AckFits, Heard
  <2> HIDE DEF moved, next, over
  <2>6. /\ \A i \in Node \ {s} : tx'[i] = tx[i]
        /\ tx'[s].frame = t.frame /\ tx'[s].offset = k
        /\ tx'[s].status \in {"in_progress", "finish_flush_sent"}
        /\ tx'[s].status = "finish_flush_sent" =>
             ~tx'[s].tid /\ k = Packets[t.frame]
    BY <1>2, <1>8, <2>1, <2>3, <2>4, NextPacketEffect DEF Sending
  <2>7. PICK p :
          /\ owner(p) = s /\ p.sn = k /\ net' \subseteq rest \cup {p}
          /\ \/ /\ p.kind = "data" /\ p.len = 1 /\ p.piece = <<t.frame, k>>
                /\ k < Packets[t.frame]
             \/ /\ p.kind = "flush" /\ p.end
                /\ tx'[s].status = "finish_flush_sent"
    <3>1. CASE k < Packets[t.frame]
      <4>1. next.offset < Packets[next.frame]
        BY <2>4, <3>1
      <4>2. PICK p : /\ p.kind = "data" /\ owner(p) = s
                     /\ p.sn = next.sn /\ p.len = 1
                     /\ p.piece = <<next.frame, next.offset>>
                     /\ net' \subseteq rest \cup {p}
        <5>1. tx \in [Node -> Sender]
          BY DEF Sending
        <5> HIDE DEF s, t, rest, k
        <5> QED BY <1>2, <2>1, <2>4, <4>1, <5>1, NextPacketEffect
      <4> HIDE DEF k
      <4> QED BY <2>4, <3>1, <4>2
    <3>2. CASE ~(k < Packets[t.frame])
      BY <1>2, <2>1, <2>4, <3>2, NextPacketEffect DEF Sending
    <3> QED BY <3>1, <3>2
  <2>8. t.offset <= k
    BY <1>7
  <2>9. Own(s)' /\ AloneAtStart(s)'
    BY <1>3, <2>6 DEF Own, AloneAtStart
  <2>10. Heard(s)'
    BY <1>3, <1>6, <2>2, <2>5, <2>6 DEF Heard
  <2>11. \A q \in net' : owner(q) = s => OnWay(q, s)'
    <3> SUFFICES ASSUME NEW q \in net', owner(q) = s
                 PROVE  OnWay(q, s)'
      OBVIOUS
    <3>1. CASE q \in net
      <4>1. /\ OnWay(q, s) /\ q.kind # "flush"
            /\ q.kind = "ack" => /\ q.nesn # NoStream
                                 /\ rx_src_id = s => q.nesn <= rx_nesn
        BY <1>4, <2>2, <3>1 DEF OnWay, FlushFits, AckFits
      <4>2. q.kind = "data" => DataFits(q, s) /\ q.sn \in 0 .. 5
        BY <1>1, <3>1, <4>1, MessageFields DEF OnWay
      <4>3. q.kind = "data" => DataFits(q, s)'
        BY <1>7, <2>3, <2>6, <2>8, <4>2 DEF DataFits
      <4>4. q.kind = "ack" => AckFits(q, s)'
        BY <1>6, <2>6, <4>1 DEF AckFits
      <4> QED BY <1>7, <2>6, <4>1, <4>3, <4>4 DEF OnWay
    <3>2. CASE q = p
      <4>1. k <= k
        BY <2>3
      <4> HIDE DEF k
      <4> QED BY <1>7, <2>6, <2>7, <3>2, <4>1 DEF OnWay, FlushFits, DataFits
    <3> QED BY <2>7, <3>1, <3>2
  <2>12. \A q \in net' : q \in net \/ owner(q) = s
    BY <2>7
  <2>13. OKIsDelivered'
    BY <1>5, <2>1, OKKept DEF StreamInv
  <2> HIDE DEF s
  <2> QED BY <1>1, <1>2, <1>5, <2>6, <2>9, <2>10, <2>11, <2>12, <2>13,
             SenderEnough
<1>11. CASE t.status = "finish_flush_sent"
  <2>1. /\ tx' = [tx EXCEPT ![s] = over] /\ net' = rest
        /\ outcome' = [outcome EXCEPT ![t.frame] =
                         IF m.nesn = NoStream THEN "OK" ELSE "NG"]
    BY <1>11 DEF Acknowledged, begins, confirms
  <2>2. /\ over.status = "idle" /\ over.frame = t.frame
        /\ over.offset = t.offset /\ over.tid = t.tid
    BY <1>3, Zenon DEF Sender
  <2> HIDE DEF over
  <2>3. tx'[s] = over /\ \A i \in Node \ {s} : tx'[i] = tx[i]
    BY <1>2, <2>1 DEF Sending
  <2>4. Own(s)' /\ AloneAtStart(s)'
    BY <1>3, <1>11, <2>2, <2>3 DEF Own, AloneAtStart
  <2>5. Heard(s)'
    BY <1>3, <1>6, <1>11, <2>2, <2>3 DEF Heard
  <2>6. \A q \in net' : owner(q) = s => OnWay(q, s)'
    BY <1>4, <1>6, <1>11, <2>1, <2>2, <2>3
    DEF OnWay, FlushFits, DataFits, AckFits
  <2>7. OKIsDelivered'
    <3> SUFFICES ASSUME NEW f \in Frame, outcome'[f] = "OK", f \notin gaveUp
                 PROVE  delivered(f)'
      BY <1>5 DEF OKIsDelivered
    <3>1. delivered(f)
      <4>1. CASE f = t.frame
        <5>1. m.nesn = NoStream \/ outcome[f] = "OK"
          BY <2>1, <4>1
        <5> QED BY <1>4, <1>11, <4>1, <5>1
                DEF AckFits, Known, StreamInv, OKIsDelivered
      <4>2. CASE f # t.frame
        BY <2>1, <4>2 DEF StreamInv, OKIsDelivered
      <4> QED BY <4>1, <4>2
    <3> QED BY <1>5, <3>1, DeliveredStays DEF rx
  <2>8. \A q \in net' : q \in net \/ owner(q) = s
    BY <2>1
  <2> HIDE DEF s
  <2> QED BY <1>1, <1>2, <1>5, <2>3, <2>4, <2>5, <2>6, <2>7, <2>8,
             SenderEnough
<1>12. CASE /\ ~begins(t, m.nesn) /\ ~confirms(t, m.nesn)
            /\ t.status # "finish_flush_sent"
  <2>1. UNCHANGED <<tx, outcome>> /\ net' = rest
    BY <1>12 DEF Acknowledged
  <2>2. Own(s)' /\ AloneAtStart(s)' /\ Heard(s)'
    BY <1>3, <1>5, <1>6, <2>1 DEF Own, AloneAtStart, Heard, Known, delivered,
       rx, rxReport
  <2>3. \A q \in net' : owner(q) = s => OnWay(q, s)'
    BY <1>4, <1>5, <1>6, <1>12, <2>1
    DEF OnWay, FlushFits, DataFits, AckFits
  <2>4. OKIsDelivered'
    BY <1>5, <2>1, OKKept DEF StreamInv
  <2>5. \A i \in Node \ {s} : tx'[i] = tx[i]
    BY <2>1
  <2>6. \A q \in net' : q \in net \/ owner(q) = s
    BY <2>1
  <2> HIDE DEF s
  <2> QED BY <1>1, <1>2, <1>5, <2>2, <2>3, <2>4, <2>5, <2>6, SenderEnough
<1> QED BY <1>9, <1>10, <1>11, <1>12

(* The receiver has taken a message, and may have answered: what does not  *)
(* depend on where it now is.                                              *)
LEMMA TakenKeeps ==
  ASSUME StreamInv, net \subseteq Message, NEW m \in net, m.kind # "ack",
         answer(m) \/ ignore(m), UNCHANGED <<tx, txHistory>>,
         ~UartTxDataType, UNCHANGED reported
  PROVE  /\ owner(m) = m.src /\ m.src \in Node
         /\ \A q \in net' :
              q \in net \/ (answer(m) /\ q = Ack(m, rx_nesn'))
         /\ \A i \in Node : /\ Own(i)' /\ AloneAtStart(i)'
                            /\ Known(i) => Known(i)'
         /\ ReportIsOneFrame' /\ OKIsDelivered'
<1>1. owner(m) = m.src /\ m.src \in Node
  BY OwnerIsNode DEF owner
<1>2. \A q \in net' :
        \/ q \in net \ {m}
        \/ answer(m) /\ q = Ack(m, rx_nesn') /\ owner(q) = m.src
  BY DEF answer, ignore, send, Ack, owner
<1>3. UNCHANGED <<tx, unsent, outcome, gaveUp>>
  BY DEF txHistory
<1>4. \A f : delivered(f) => delivered(f)'
  BY DeliveredStays
<1>5. ASSUME NEW i \in Node
      PROVE  Own(i)' /\ AloneAtStart(i)' /\ (Known(i) => Known(i)')
  <2>1. Own(i) /\ AloneAtStart(i)
    BY DEF StreamInv
  <2>2. AloneAtStart(i)'
    BY <1>1, <1>2, <1>3, <2>1 DEF AloneAtStart
  <2> QED BY <1>3, <1>4, <2>1, <2>2 DEF Own, Known
<1>6. ReportIsOneFrame'
  BY DEF StreamInv, ReportIsOneFrame
<1>7. OKIsDelivered'
  BY <1>3, <1>4 DEF StreamInv, OKIsDelivered
<1> QED BY <1>1, <1>2, <1>5, <1>6, <1>7

(* Messages that stay on their way fit, if the receiver leaves its node,   *)
(* goes on with it, or turns to one that has no acknowledgement coming.    *)
LEMMA WayKeeps ==
  ASSUME StreamInv, net \subseteq Message, UNCHANGED tx,
         NEW q \in net, NEW i \in Node, owner(q) = i,
         Known(i) => Known(i)',
         q.kind = "ack" /\ rx_src_id' = i =>
           \/ rx_src_id = i /\ rx_nesn' = rx_nesn
           \/ rx_src_id = i /\ rx_nesn' \in Int /\ rx_nesn \in Int
              /\ q.nesn \in Int
              /\ rx_nesn' >= rx_nesn /\ tx[i].status # "start_flush_sent"
           \/ tx[i].status \in {"finish_flush_sent", "idle"}
  PROVE  OnWay(q, i)'
<1>1. OnWay(q, i)
  BY DEF StreamInv
<1>2. q.kind = "ack" => AckFits(q, i)'
  BY <1>1 DEF OnWay, AckFits
<1> QED BY <1>1, <1>2 DEF OnWay, FlushFits, DataFits

(* A flush, of the beginning or of the end of the last stream of its node. *)
LEMMA FlushFollows ==
  ASSUME Receiver, StreamInv, net \subseteq Message,
         NEW m \in net, m.kind = "flush",
         UNCHANGED <<tx, txHistory>>, ~UartTxDataType,
         \/ StartFlush(m) \/ RepeatedFlush(m) \/ EndFlush(m)
         \/ BrokenFlush(m) \/ OtherFlush(m)
  PROVE  StreamInv'
<1> DEFINE s == m.src
           a == Ack(m, rx_nesn')
<1>1. UNCHANGED reported /\ (answer(m) \/ ignore(m))
  BY DEF StartFlush, RepeatedFlush, EndFlush, BrokenFlush, OtherFlush,
         rx, rxReport
<1>2. /\ owner(m) = s /\ s \in Node
      /\ \A q \in net' : q \in net \/ (answer(m) /\ q = a)
      /\ \A i \in Node : Own(i)' /\ AloneAtStart(i)' /\ (Known(i) => Known(i)')
      /\ ReportIsOneFrame' /\ OKIsDelivered'
  BY <1>1, TakenKeeps
<1>3. OnWay(m, s) /\ FlushFits(m, s) /\ tx[s].frame \in Frame
  BY <1>2 DEF StreamInv, OnWay
<1>4. m.sn \in 0 .. 5 /\ m.sn # NoStream
  BY MessageFields DEF NoStream
<1>5. a.kind = "ack" /\ owner(a) = s /\ a.nesn = rx_nesn'
  BY DEF Ack, owner
<1>6. UNCHANGED <<tx, gaveUp>>
  BY DEF txHistory
<1>7. tx[s].status \in {"start_flush_sent", "finish_flush_sent", "idle"}
  BY <1>3 DEF FlushFits
<1>8. \A i \in Node : Own(i) /\ Heard(i) /\ AloneAtStart(i)
  BY DEF StreamInv
<1> SUFFICES /\ \A i \in Node : Heard(i)'
             /\ \A q \in net' : OnWay(q, owner(q))'
             /\ Following'
  BY <1>2 DEF StreamInv
<1> HIDE DEF s, a
<1>9. ASSUME UNCHANGED rx
      PROVE  (\A i \in Node : Heard(i)') /\ Following'
  <2>1. UNCHANGED <<rx_src_id, rx_nesn, rx_status, BLE_RX_DATA, RX_MESH_ID,
                    UartTxDataType>>
    BY <1>9 DEF rx, rxState, rxReport
  <2>2. ASSUME NEW i \in Node
        PROVE  Heard(i)'
    <3>1. Heard(i) /\ (Known(i) => Known(i)')
      BY <1>2, <1>8
    <3> QED BY <1>6, <2>1, <3>1 DEF Heard
  <2> QED BY <2>1, <2>2 DEF StreamInv, Following, FromNode
<1>10. CASE StartFlush(m)
  <2>1. /\ rx_src_id' = s /\ rx_nesn' = 0 /\ rx_status' = "start_flush_received"
        /\ m.sn = 0 /\ UNCHANGED rxReport
    BY <1>10 DEF StartFlush, s
  <2>2. Following'
    BY <2>1 DEF Following, rxReport
  <2>3. ASSUME NEW i \in Node
        PROVE  Heard(i)'
    <3> SUFFICES ASSUME i = s
                 PROVE  Heard(i)'
      BY <2>1 DEF Heard
    <3>1. tx[s].status # "start_flush_sent" => tx[s].offset = 0
      BY <1>3, <1>7, <2>1 DEF FlushFits
    <3>2. Packets[tx[s].frame] \in 1 .. 5
      BY <1>3, PacketsAssumption
    <3>3. \A j \in Part : ~(j < 0)
      BY DEF Part
    <3> QED BY <1>3, <1>6, <1>7, <2>1, <3>1, <3>2, <3>3 DEF Heard, NoStream
  <2>4. ASSUME NEW q \in net'
        PROVE  OnWay(q, owner(q))'
    <3>1. CASE q \in net
      <4> DEFINE i == owner(q)
      <4>1. i \in Node
        BY <3>1, OwnerIsNode
      <4>2. ASSUME q.kind = "ack", i = s
            PROVE  tx[i].status \in {"finish_flush_sent", "idle"}
        <5>1. tx[s].status # "start_flush_sent"
          BY <1>2, <1>8, <3>1, <4>2 DEF AloneAtStart
        <5> QED BY <1>7, <4>2, <5>1
      <4> HIDE DEF i
      <4>3. OnWay(q, i)'
        BY <1>2, <1>6, <2>1, <3>1, <4>1, <4>2, WayKeeps DEF i
      <4> QED BY <4>3 DEF i
    <3>2. CASE q = a
      BY <1>3, <1>5, <1>6, <1>7, <2>1, <3>2 DEF OnWay, AckFits, NoStream
    <3> QED BY <1>2, <3>1, <3>2
  <2> QED BY <2>2, <2>3, <2>4
<1>11. CASE RepeatedFlush(m) \/ OtherFlush(m)
  <2>1. UNCHANGED rx
    BY <1>11 DEF RepeatedFlush, OtherFlush
  <2>2. UNCHANGED <<rx_src_id, rx_nesn>>
    BY <2>1 DEF rx, rxState
  <2>3. ASSUME NEW q \in net'
        PROVE  OnWay(q, owner(q))'
    <3>1. CASE q \in net
      BY <1>2, <1>6, <2>2, <3>1, OwnerIsNode, WayKeeps
    <3>2. CASE answer(m) /\ q = a
      <4>1. CASE RepeatedFlush(m)
        <5>1. rx_nesn = 0
          BY <4>1 DEF RepeatedFlush, StreamInv, Following
        <5> QED BY <1>3, <1>5, <1>6, <1>7, <2>2, <3>2, <5>1
                DEF OnWay, AckFits, NoStream
      <4>2. CASE OtherFlush(m)
        <5>1. ignore(m)
          BY <4>2 DEF OtherFlush
        <5>2. q \in net
          BY <5>1 DEF ignore
        <5> QED BY <3>1, <5>2
      <4> QED BY <1>11, <4>1, <4>2
    <3> QED BY <1>2, <3>1, <3>2
  <2> QED BY <1>9, <2>1, <2>3
<1>12. CASE EndFlush(m)
  <2>1. /\ rx_status = "in_progress" /\ rx_src_id = s /\ m.sn = rx_nesn
        /\ rx_src_id' = s /\ rx_nesn' = NoStream /\ rx_status' = "idle"
        /\ UNCHANGED BLE_RX_DATA
        /\ IF Whole(BLE_RX_DATA)
           THEN RX_MESH_ID' = s /\ UartTxDataType' = TRUE
           ELSE UNCHANGED UartTxDataType
    BY <1>12 DEF EndFlush, s
  <2>2. rx_nesn >= 1 /\ FromNode(s)
    BY <1>4, <2>1 DEF StreamInv, Following
  <2>3. /\ tx[s].status \in {"finish_flush_sent", "idle"}
        /\ rx_nesn = tx[s].offset
    BY <1>3, <2>1, <2>2 DEF FlushFits
  <2>4. Following'
    BY <2>1, <2>2 DEF Following, FromNode, NoStream
  <2>5. tx[s].status = "finish_flush_sent" => Known(s)'
    <3> SUFFICES ASSUME tx[s].status = "finish_flush_sent",
                        tx[s].frame \notin gaveUp
                 PROVE  delivered(tx[s].frame)'
      BY <1>6 DEF Known
    <3> DEFINE f == tx[s].frame
    <3>1. tx[s].offset = Packets[f] /\ Source[f] = s
      BY <1>2, <1>3, <1>8 DEF Own
    <3>2. \A i \in Part : i < rx_nesn => BLE_RX_DATA[i] = <<f, i>>
      BY <1>2, <1>4, <1>8, <2>1, <2>3 DEF Heard
    <3>3. Packets[f] \in 1 .. 5
      BY <1>3, PacketsAssumption
    <3>4. f \in Frame /\ f # None
      BY <1>3, NoneAssumption
    <3> HIDE DEF f
    <3>5. BLE_RX_DATA[0] = <<f, 0>>
      <4>1. 0 \in Part /\ 0 < rx_nesn
        BY <1>4, <2>1, <2>2 DEF Part
      <4> QED BY <3>2, <4>1
    <3>6. \A i \in 0 .. Packets[f] - 1 : BLE_RX_DATA[i] = <<f, i>>
      BY <2>3, <3>1, <3>2, <3>3 DEF Part
    <3>7. Whole(BLE_RX_DATA)
      BY <3>4, <3>5, <3>6 DEF Whole
    <3>8. UartTxDataType' /\ RX_MESH_ID' = Source[f] /\ BLE_RX_DATA'[0][1] = f
      BY <2>1, <3>1, <3>5, <3>7
    <3> QED BY <1>6, <3>8 DEF delivered, f
  <2>6. ASSUME NEW i \in Node
        PROVE  Heard(i)'
    <3> SUFFICES ASSUME i = s
                 PROVE  Heard(i)'
      BY <2>1 DEF Heard
    <3> QED BY <1>3, <1>6, <2>1, <2>3, <2>5 DEF Heard
  <2>7. ASSUME NEW q \in net'
        PROVE  OnWay(q, owner(q))'
    <3>1. CASE q \in net
      BY <1>2, <1>6, <2>1, <2>3, <3>1, OwnerIsNode, WayKeeps
    <3>2. CASE q = a
      BY <1>3, <1>5, <1>6, <2>1, <2>3, <2>5, <3>2 DEF OnWay, AckFits
    <3> QED BY <1>2, <3>1, <3>2
  <2> QED BY <2>4, <2>6, <2>7
<1>13. CASE BrokenFlush(m)
  <2>1. /\ rx_src_id = s /\ m.sn # rx_nesn
        /\ rx_src_id' = None /\ rx_nesn' = NoStream /\ rx_status' = "idle"
        /\ UNCHANGED rxReport
    BY <1>13 DEF BrokenFlush, dropped, resetRxStreamState, s
  <2>2. Following'
    BY <2>1 DEF Following, StreamInv, FromNode, rxReport
  <2>3. ASSUME NEW i \in Node
        PROVE  Heard(i)'
    BY <2>1, NoneAssumption DEF Heard
  <2>4. tx[s].status = "finish_flush_sent" => Known(s)
    <3> SUFFICES ASSUME tx[s].status = "finish_flush_sent",
                        tx[s].frame \notin gaveUp, rx_nesn # NoStream
                 PROVE  FALSE
      BY <1>2, <1>8, <2>1 DEF Known, Heard
    <3>1. /\ tx[s].offset = Packets[tx[s].frame]
          /\ tx[s].offset <= rx_nesn /\ rx_nesn <= Packets[tx[s].frame]
      BY <1>2, <1>3, <1>8, <2>1 DEF Own, Heard
    <3>2. Packets[tx[s].frame] \in 1 .. 5 /\ rx_nesn \in 0 .. 5
      BY <1>3, PacketsAssumption DEF Receiver
    <3>3. m.sn = tx[s].offset
      BY <1>3 DEF FlushFits
    <3> QED BY <2>1, <3>1, <3>2, <3>3
  <2>5. ASSUME NEW q \in net'
        PROVE  OnWay(q, owner(q))'
    <3>1. CASE q \in net
      BY <1>2, <1>6, <2>1, <3>1, OwnerIsNode, WayKeeps, NoneAssumption
    <3>2. CASE q = a
      BY <1>2, <1>3, <1>5, <1>6, <1>7, <2>1, <2>4, <3>2, NoneAssumption
      DEF OnWay, AckFits, NoStream
    <3> QED BY <1>2, <3>1, <3>2
  <2> QED BY <2>2, <2>3, <2>5
<1> QED BY <1>10, <1>11, <1>12, <1>13

(* Data, which the sender has sent after the answer to its first flush.    *)
LEMMA DataFollows ==
  ASSUME Receiver, Sending, StreamInv, net \subseteq Message,
         NEW m \in net, m.kind = "data",
         UNCHANGED <<tx, txHistory>>, ~UartTxDataType,
         NextData(m) \/ OtherData(m) \/ ForeignData(m)
  PROVE  StreamInv'
<1> DEFINE s == m.src
           a == Ack(m, rx_nesn')
           f == tx[s].frame
<1>1. UNCHANGED reported /\ (answer(m) \/ ignore(m))
  BY DEF NextData, OtherData, ForeignData, rx, rxReport
<1>2. /\ owner(m) = s /\ s \in Node
      /\ \A q \in net' : q \in net \/ (answer(m) /\ q = a)
      /\ \A i \in Node : Own(i)' /\ AloneAtStart(i)' /\ (Known(i) => Known(i)')
      /\ ReportIsOneFrame' /\ OKIsDelivered'
  BY <1>1, TakenKeeps
<1>3. DataFits(m, s) /\ f \in Frame
  BY <1>2 DEF StreamInv, OnWay
<1>4. /\ m.sn \in 0 .. 5 /\ m.sn # NoStream /\ m.sn \in Part
      /\ m.len = 1 /\ m.piece = <<f, m.sn>>
      /\ m.sn <= tx[s].offset /\ m.sn < Packets[f]
      /\ tx[s].status # "start_flush_sent"
      /\ Packets[f] \in 1 .. 5
  <2>1. Packets[f] \in 1 .. 5 /\ m.sn \in 0 .. 5
    BY <1>3, MessageFields, PacketsAssumption
  <2> QED BY <1>3, <2>1 DEF DataFits, NoStream, Part
<1>5. a.kind = "ack" /\ owner(a) = s /\ a.nesn = rx_nesn'
  BY DEF Ack, owner
<1>6. UNCHANGED <<tx, gaveUp>>
  BY DEF txHistory
<1>7. \A i \in Node : Own(i) /\ Heard(i)
  BY DEF StreamInv
<1>8. Source[f] = s
  BY <1>2, <1>3, <1>7 DEF Own
<1> SUFFICES /\ \A i \in Node : Heard(i)'
             /\ \A q \in net' : OnWay(q, owner(q))'
             /\ Following'
  BY <1>2 DEF StreamInv
<1> HIDE DEF a
<1>9. CASE NextData(m)
  <2>1. /\ rx_src_id = s /\ m.sn = rx_nesn /\ rx_src_id' = s
        /\ rx_nesn' = rx_nesn + m.len /\ rx_status' = "in_progress"
        /\ BLE_RX_DATA' = [BLE_RX_DATA EXCEPT ![rx_stream_offset] = m.piece]
        /\ UartTxDataType' = UartTxDataType
    <3>1. m.len = 1 /\ m.len # 0
      BY <1>4
    <3>2. BLE_RX_DATA' = [BLE_RX_DATA EXCEPT ![rx_stream_offset] = m.piece]
      BY <1>9, <3>1 DEF NextData
    <3> QED BY <1>9, <3>2 DEF NextData, fromSender
  <2>2. /\ rx_nesn' = m.sn + 1 /\ rx_nesn' \in 1 .. 5 /\ rx_nesn' # NoStream
        /\ rx_nesn' <= Packets[f]
    BY <1>4, <2>1 DEF NoStream
  <2>3. rx_stream_offset = m.sn
    BY <1>4, <2>1 DEF Receiver
  <2>4. \A i \in Part : i < m.sn + 1 => BLE_RX_DATA'[i] = <<f, i>>
    <3> SUFFICES ASSUME NEW i \in Part, i < m.sn + 1
                 PROVE  BLE_RX_DATA'[i] = <<f, i>>
      OBVIOUS
    <3>1. BLE_RX_DATA' = [BLE_RX_DATA EXCEPT ![m.sn] = m.piece]
      BY <2>1, <2>3
    <3>2. i < m.sn => BLE_RX_DATA[i] = <<f, i>>
      BY <1>2, <1>4, <1>7, <2>1 DEF Heard
    <3>3. i < m.sn \/ i = m.sn
      BY <1>4 DEF Part
    <3>4. BLE_RX_DATA \in [Part -> (Frame \cup {None}) \X Part]
      BY DEF Receiver
    <3> QED BY <1>4, <3>1, <3>2, <3>3, <3>4
  <2>5. BLE_RX_DATA'[0] = <<f, 0>>
    <3>1. 0 \in Part /\ 0 < m.sn + 1
      BY <1>4 DEF Part
    <3> QED BY <2>4, <3>1
  <2>6. FromNode(rx_src_id)'
    BY <1>3, <1>8, <2>1, <2>5 DEF FromNode
  <2>7. Following'
    BY <2>1, <2>2, <2>6 DEF Following
  <2>8. tx[s].offset <= m.sn
    BY <1>2, <1>4, <1>7, <2>1 DEF Heard
  <2>9. tx[s].offset \in Int /\ tx[s].offset <= rx_nesn'
    <3>1. tx[s].offset \in 0 .. 5
      BY <1>2 DEF Sending, Sender
    <3> QED BY <1>4, <2>2, <2>8, <3>1
  <2>10. ASSUME NEW i \in Node
         PROVE  Heard(i)'
    <3> SUFFICES ASSUME i = s
                 PROVE  Heard(i)'
      BY <2>1 DEF Heard
    <3>1. \A j \in Part : j < rx_nesn' => BLE_RX_DATA'[j] = <<f, j>>
      BY <2>2, <2>4
    <3> QED BY <1>3, <1>6, <2>1, <2>2, <2>9, <3>1 DEF Heard
  <2>11. ASSUME NEW q \in net'
         PROVE  OnWay(q, owner(q))'
    <3>1. CASE q \in net
      <4> DEFINE i == owner(q)
      <4>1. i \in Node /\ q \in Message
        BY <3>1, OwnerIsNode
      <4>2. q.kind = "ack" => q.nesn \in 0 .. 5 \cup {NoStream}
        BY <4>1 DEF Message
      <4>3. rx_nesn' >= rx_nesn /\ rx_nesn \in Int /\ rx_nesn' \in Int
        BY <1>4, <2>1, <2>2
      <4> HIDE DEF i
      <4>4. OnWay(q, i)'
        BY <1>2, <1>4, <1>6, <2>1, <3>1, <4>1, <4>2, <4>3, WayKeeps
        DEF i, NoStream
      <4> QED BY <4>4 DEF i
    <3>2. CASE q = a
      <4>1. rx_nesn' <= rx_nesn'
        BY <2>2
      <4> QED BY <1>3, <1>4, <1>5, <1>6, <2>2, <3>2, <4>1 DEF OnWay, AckFits
    <3> QED BY <1>2, <3>1, <3>2
  <2> QED BY <2>7, <2>10, <2>11
<1>10. CASE OtherData(m)
  <2>1. /\ rx_src_id = s /\ m.sn # rx_nesn
        /\ UNCHANGED <<rx_src_id, rx_nesn, BLE_RX_DATA, UartTxDataType>>
    BY <1>10 DEF OtherData, fromSender, rxReport
  <2>2. rx_nesn \in 0 .. 5 \cup {NoStream}
    BY DEF Receiver
  <2>3. rx_nesn # NoStream =>
          /\ tx[s].offset <= rx_nesn
          /\ \A i \in Part : i < rx_nesn => BLE_RX_DATA[i] = <<f, i>>
    BY <1>2, <1>4, <1>7, <2>1 DEF Heard
  <2>4. rx_nesn # NoStream => rx_nesn >= 1
    <3>1. tx[s].offset \in 0 .. 5
      BY <1>2 DEF Sending, Sender
    <3> QED BY <1>4, <2>1, <2>2, <2>3, <3>1 DEF NoStream
  <2>5. rx_nesn # NoStream => FromNode(s)
    <3> SUFFICES ASSUME rx_nesn # NoStream
                 PROVE  FromNode(s)
      OBVIOUS
    <3>1. 0 \in Part /\ 0 < rx_nesn
      BY <2>2, <2>4 DEF Part
    <3>2. BLE_RX_DATA[0] = <<f, 0>>
      BY <2>3, <3>1
    <3> QED BY <1>3, <1>8, <3>2 DEF FromNode
  <2>6. Following'
    BY <2>1, <2>4, <2>5, <1>10 DEF Following, FromNode, OtherData
  <2>7. ASSUME NEW i \in Node
        PROVE  Heard(i)'
    BY <1>2, <1>6, <1>7, <2>1 DEF Heard
  <2>8. ASSUME NEW q \in net'
        PROVE  OnWay(q, owner(q))'
    <3>1. CASE q \in net
      BY <1>2, <1>6, <2>1, <3>1, OwnerIsNode, WayKeeps
    <3>2. CASE q = a
      <4>1. tx[s].status = "in_progress" => rx_nesn # NoStream
        BY <1>2, <1>7, <2>1 DEF Heard
      <4>2. tx[s].status = "finish_flush_sent" /\ rx_nesn = NoStream => Known(s)'
        BY <1>2, <1>7, <2>1 DEF Heard
      <4>3. rx_nesn <= rx_nesn
        BY <2>2 DEF NoStream
      <4> QED BY <1>3, <1>4, <1>5, <1>6, <2>1, <3>2, <4>1, <4>2, <4>3
              DEF OnWay, AckFits
    <3> QED BY <1>2, <3>1, <3>2
  <2> QED BY <2>6, <2>7, <2>8
<1>11. CASE ForeignData(m)
  <2>1. UNCHANGED rx /\ net' \subseteq net
    BY <1>11 DEF ForeignData, ignore
  <2>2. UNCHANGED <<rx_src_id, rx_nesn, rx_status, BLE_RX_DATA, RX_MESH_ID,
                    UartTxDataType>>
    BY <2>1 DEF rx, rxState, rxReport
  <2>3. ASSUME NEW i \in Node
        PROVE  Heard(i)'
    BY <1>2, <1>6, <1>7, <2>2 DEF Heard
  <2>4. ASSUME NEW q \in net'
        PROVE  OnWay(q, owner(q))'
    BY <1>2, <1>6, <2>1, <2>2, OwnerIsNode, WayKeeps
  <2>5. Following'
    BY <2>2 DEF StreamInv, Following, FromNode
  <2> QED BY <2>3, <2>4, <2>5
<1> QED BY <1>9, <1>10, <1>11

(* Messages are lost, and the receiver's timer runs out.                   *)
LEMMA LoseFollows ==
  ASSUME StreamInv, net \subseteq Message, net' \subseteq net,
         UNCHANGED <<tx, rx, txHistory>>
  PROVE  StreamInv'
<1>1. UNCHANGED <<tx, gaveUp, outcome, rx_src_id, rx_nesn, rx_status, BLE_RX_DATA,
                  RX_MESH_ID, UartTxDataType, reported>>
  BY DEF rx, rxState, rxReport, txHistory
<1>2. \A i \in Node : Known(i) => Known(i)'
  BY <1>1 DEF Known, delivered
<1>3. ASSUME NEW i \in Node
      PROVE  Own(i)' /\ AloneAtStart(i)' /\ Heard(i)'
  <2>1. Own(i) /\ AloneAtStart(i) /\ Heard(i)
    BY DEF StreamInv
  <2>2. AloneAtStart(i)'
    BY <1>1, <2>1 DEF AloneAtStart
  <2> QED BY <1>1, <1>2, <2>1, <2>2 DEF Own, Heard
<1>4. ASSUME NEW q \in net'
      PROVE  OnWay(q, owner(q))'
  BY <1>1, <1>2, OwnerIsNode, WayKeeps
<1>5. Following' /\ ReportIsOneFrame'
  BY <1>1 DEF StreamInv, Following, FromNode, ReportIsOneFrame
<1>6. OKIsDelivered'
  BY <1>1 DEF StreamInv, OKIsDelivered, delivered
<1> QED BY <1>3, <1>4, <1>5, <1>6 DEF StreamInv

LEMMA TimeoutFollows ==
  ASSUME StreamInv, net \subseteq Message, rxStreamTimeoutHandler
  PROVE  StreamInv'
<1>1. /\ rx_src_id' = None /\ rx_status' = "idle" /\ rx_nesn' = NoStream
      /\ UNCHANGED <<net, tx, gaveUp, outcome, rxReport>>
  BY DEF rxStreamTimeoutHandler, resetRxStreamState, txHistory
<1>2. \A f : delivered(f) => delivered(f)'
  BY <1>1, DeliveredStays
<1>3. \A i \in Node : rx_src_id' # i
  BY <1>1, NoneAssumption
<1>4. ASSUME NEW i \in Node
      PROVE  /\ Own(i)' /\ AloneAtStart(i)' /\ Heard(i)'
             /\ Known(i) => Known(i)'
  <2>1. Own(i) /\ AloneAtStart(i)
    BY DEF StreamInv
  <2> QED BY <1>1, <1>2, <1>3, <2>1 DEF Own, AloneAtStart, Heard, Known
<1>5. ASSUME NEW q \in net'
      PROVE  OnWay(q, owner(q))'
  BY <1>1, <1>3, <1>4, OwnerIsNode, WayKeeps
<1>6. Following' /\ ReportIsOneFrame'
  BY <1>1 DEF StreamInv, Following, FromNode, ReportIsOneFrame, rxReport
<1>7. OKIsDelivered'
  BY <1>1, <1>2 DEF StreamInv, OKIsDelivered
<1> QED BY <1>4, <1>5, <1>6, <1>7 DEF StreamInv

(* A report is taken between streams: no packet of one is cleared with it. *)
LEMMA ReportFollows ==
  ASSUME StreamInv, net \subseteq Message, WifiTxData
  PROVE  StreamInv'
<1>1. /\ UartTxDataType /\ ~UartTxDataType'
      /\ reported' = reported \cup {<<BLE_RX_DATA[0][1], RX_MESH_ID>>}
      /\ UNCHANGED <<net, tx, gaveUp, outcome, rx_src_id, rx_status, rx_nesn>>
  BY DEF WifiTxData, rxState, txHistory
<1>2. rx_status = "idle" /\ rx_nesn = NoStream /\ FromNode(RX_MESH_ID)
  BY <1>1 DEF StreamInv, Following
<1>3. \A f : delivered(f) => delivered(f)'
  BY DeliveredStays
<1>4. ASSUME NEW i \in Node
      PROVE  /\ Own(i)' /\ AloneAtStart(i)' /\ Heard(i)'
             /\ Known(i) => Known(i)'
  <2>1. Own(i) /\ AloneAtStart(i) /\ Heard(i)
    BY DEF StreamInv
  <2>2. Known(i) => Known(i)'
    BY <1>1, <1>3 DEF Known
  <2> QED BY <1>1, <1>2, <2>1, <2>2 DEF Own, AloneAtStart, Heard
<1>5. ASSUME NEW q \in net'
      PROVE  OnWay(q, owner(q))'
  BY <1>1, <1>4, OwnerIsNode, WayKeeps
<1>6. Following'
  BY <1>1, <1>2 DEF Following
<1>7. ReportIsOneFrame'
  BY <1>1, <1>2 DEF StreamInv, ReportIsOneFrame, FromNode
<1>8. OKIsDelivered'
  BY <1>1, <1>3 DEF StreamInv, OKIsDelivered
<1> QED BY <1>4, <1>5, <1>6, <1>7, <1>8 DEF StreamInv

LEMMA StreamStep ==
  ASSUME Patient = TRUE
  PROVE  Inv /\ StreamInv /\ [Next]_vars => StreamInv'
<1> SUFFICES ASSUME Inv, StreamInv, [Next]_vars PROVE StreamInv'
  OBVIOUS
<1>1. Sending /\ Receiver /\ net \subseteq Message
  BY InvParts DEF Sending
<1>2. CASE UNCHANGED vars
  BY <1>1, <1>2, LoseFollows DEF vars
<1>3. CASE \E s \in Node, f \in Frame : startStream(s, f)
  BY <1>1, <1>3, StartStreamFollows
<1>4. CASE \E s \in Node : streamSendRetryTimer(s)
  BY <1>1, <1>4, RetryFollows
<1>5. CASE \E m \in net : Acknowledged(m)
  BY <1>1, <1>5, AcknowledgedFollows
<1>6. CASE \E m \in net : appDataServerHandler(m)
  BY <1>1, <1>6, FlushFollows, DataFollows DEF appDataServerHandler
<1>7. CASE \E m \in net : Lose(m)
  BY <1>1, <1>7, LoseFollows DEF Lose
<1>8. CASE rxStreamTimeoutHandler
  BY <1>1, <1>8, TimeoutFollows
<1>9. CASE WifiTxData
  BY <1>1, <1>9, ReportFollows
<1> QED BY <1>2, <1>3, <1>4, <1>5, <1>6, <1>7, <1>8, <1>9 DEF Next

LEMMA StreamInvariance ==
  ASSUME Patient = TRUE
  PROVE  Spec => []StreamInv
<1>1. Inv /\ StreamInv /\ [Next]_vars => StreamInv'
  BY StreamStep
<1> QED BY <1>1, StreamInitially, Invariance, PTL DEF Spec

(* Streams of any nodes follow each other into the one BLE_RX_DATA, and    *)
(* messages are lost and repeated, but what the UART is given is a frame   *)
(* under the address of the node that sent it, if every node waits until   *)
(* its last stream is over before it starts the next.                      *)
THEOREM ReportsAreFrames ==
  ASSUME Patient = TRUE
  PROVE  Spec => []ReportIsOneFrame
<1>1. StreamInv => ReportIsOneFrame
  BY DEF StreamInv
<1> QED BY <1>1, StreamInvariance, PTL

(* A stream that ends with f_SendMSGOK, and no packet of which was given   *)
(* up, has brought its whole frame to the other end.                       *)
THEOREM OKMeansDelivered ==
  ASSUME Patient = TRUE
  PROVE  Spec => []OKIsDelivered
<1>1. StreamInv => OKIsDelivered
  BY DEF StreamInv
<1> QED BY <1>1, StreamInvariance, PTL
=============================================================================
