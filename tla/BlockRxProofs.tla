--------------------------- MODULE BlockRxProofs ---------------------------
(***************************************************************************)
(* Proofs about the block receiver, for any set of frames and any traffic: *)
(* its types, that a lost packet never leaves the buffer closed without a  *)
(* timer to open it, and that frames of one or two packets come through    *)
(* whole unless their reception begins while a report waits.               *)
(***************************************************************************)
EXTENDS BlockRx, TLAPS

(* A tick keeps a timer within its range, leaves a stopped timer stopped   *)
(* and never stops one that runs or has overflowed.                        *)
LEMMA TickKeeps ==
  ASSUME NEW n \in Nat, NEW t \in Timer(n)
  PROVE  /\ Tick(t) \in Timer(n)
         /\ t = Idle <=> Tick(t) = Idle
  BY DEF Timer, Tick, Idle, Overflow

(* The data of a packet that has a frame.                                  *)
LEMMA PacketFields ==
  ASSUME NEW p \in Traffic, p.frame # None
  PROVE  /\ p.frame \in Frame
         /\ p.seq \in Slot /\ p.total \in Slot
         /\ p.len \in Int
  BY TrafficAssumption DEF Packet, Slot

Inv == TypeOK /\ NeverWedged

LEMMA Initially == Init => Inv
<1> SUFFICES ASSUME Init PROVE Inv
  OBVIOUS
<1>1. /\ tRxMeshTimeOut2s \in Timer(C_T_tRxMeshTimeOut2s)
      /\ tmeshfinishdataWait100ms \in Timer(C_T_tmeshfinishdataWait100ms)
  BY DEF Init, RxInit, Timer, Idle, Overflow, C_T_tRxMeshTimeOut2s,
         C_T_tmeshfinishdataWait100ms
<1>2. BLE_RX_DATA \in [Slot -> Frame \cup {None}]
  BY DEF Init, RxInit, Cleared
<1>3. rx_src_id \in Address /\ RX_MESH_ID \in Address
  BY DEF Init, RxInit, Address
<1>4. net \subseteq Traffic
  BY DEF Init, Traffic
<1> QED BY <1>1, <1>2, <1>3, <1>4 DEF Init, RxInit, Inv, TypeOK, NeverWedged

------------------------------------------------------------------------------
(* What the block handler writes has its type, and a packet stored in the  *)
(* buffer finds the timeout armed or arms it.                              *)
LEMMA HandlerKeeps ==
  ASSUME Inv, NEW p \in Traffic, handleCSRmeshDataBlockInd(p),
         net' \subseteq Traffic
  PROVE  Inv'
<1> USE DEF Inv
<1>1. CASE ~(p.frame # None /\ (f_Block_Buffer_Empty \/ belongs(p)))
  BY <1>1 DEF handleCSRmeshDataBlockInd, rxBuffer, rxReport, rxTimers,
              rxHistory, TypeOK, NeverWedged
<1>2. CASE p.frame # None /\ (f_Block_Buffer_Empty \/ belongs(p))
  <2>1. open(p) /\ take(p)
    BY <1>2 DEF handleCSRmeshDataBlockInd
  <2>2. /\ p.frame \in Frame
        /\ p.seq \in Slot /\ p.total \in Slot
    BY <1>2, PacketFields
  <2>3. /\ f_Block_Buffer_Empty' = FALSE
        /\ rx_src_id' \in Address
        /\ Rx_MessageID' \in {MsgId[f] : f \in Frame} \cup {None}
        /\ tRxMeshTimeOut2s' \in Timer(C_T_tRxMeshTimeOut2s)
        /\ tRxMeshTimeOut2s' # Idle
        /\ disturbed' \in BOOLEAN
    <3>1. CASE f_Block_Buffer_Empty
      BY <2>1, <2>2, <3>1 DEF open, Address, C_T_tRxMeshTimeOut2s, Timer,
                              Idle, Overflow, TypeOK
    <3>2. CASE ~f_Block_Buffer_Empty
      BY <2>1, <3>2 DEF open, TypeOK, NeverWedged
    <3> QED BY <3>1, <3>2
  <2>4. /\ f_rxmeshdata' \subseteq Slot
        /\ BLE_RX_DATA' \in [Slot -> Frame \cup {None}]
        /\ pieces' \subseteq Slot
    BY <2>1, <2>2 DEF take, stored, TypeOK
  <2>5. /\ RX_MESH_ID' \in Address
        /\ UartTxDataType' \in BOOLEAN
        /\ tmeshfinishdataWait100ms' \in Timer(C_T_tmeshfinishdataWait100ms)
        /\ accepted' \in BOOLEAN
    <3>1. CASE lastOf(p)
      <4>1. finish(stored(p), rx_src_id')
        BY <2>1, <3>1 DEF take
      <4>2. MeshRxdCheck_New(stored(p)) \subseteq BOOLEAN
        BY DEF MeshRxdCheck_New
      <4>3. PICK ok \in BOOLEAN :
              /\ IF ok THEN RX_MESH_ID' = rx_src_id' /\ UartTxDataType' = TRUE
                       ELSE UNCHANGED rxReport
              /\ accepted' = ok
        BY <4>1, <4>2 DEF finish
      <4>4. RX_MESH_ID' \in Address /\ UartTxDataType' \in BOOLEAN
        BY <2>3, <4>3 DEF rxReport, TypeOK
      <4>5. tmeshfinishdataWait100ms' \in Timer(C_T_tmeshfinishdataWait100ms)
        BY <4>1 DEF finish, Timer, Overflow, C_T_tmeshfinishdataWait100ms
      <4> QED BY <4>3, <4>4, <4>5
    <3>2. CASE ~lastOf(p)
      BY <2>1, <3>2 DEF take, rxReport, TypeOK
    <3> QED BY <3>1, <3>2
  <2> QED BY <2>3, <2>4, <2>5 DEF TypeOK, NeverWedged
<1> QED BY <1>1, <1>2

(* One step per action of the receiver.                                    *)
LEMMA Preserved == Inv /\ [Next]_vars => Inv'
<1> SUFFICES ASSUME Inv, [Next]_vars PROVE Inv'
  OBVIOUS
<1> USE DEF Inv
<1>1. ASSUME NEW p \in net, Receive(p) PROVE Inv'
  <2>1. p \in Traffic /\ net' \subseteq Traffic
    BY <1>1 DEF Receive, TypeOK
  <2> QED BY <1>1, <2>1, HandlerKeeps DEF Receive
<1>2. CASE timer_100ms_RBINT
  <2>1. /\ tmeshfinishdataWait100ms' \in Timer(C_T_tmeshfinishdataWait100ms)
        /\ tmeshfinishdataWait100ms = Idle =>
             tmeshfinishdataWait100ms' = Idle
    BY <1>2, TickKeeps DEF timer_100ms_RBINT, TypeOK,
                           C_T_tmeshfinishdataWait100ms
  <2> QED BY <1>2, <2>1 DEF timer_100ms_RBINT, TypeOK, NeverWedged, rxBuffer,
                            rxReport, rxHistory
<1>3. CASE timer_1s_RBINT
  <2>1. /\ tRxMeshTimeOut2s' \in Timer(C_T_tRxMeshTimeOut2s)
        /\ tRxMeshTimeOut2s = Idle <=> tRxMeshTimeOut2s' = Idle
    BY <1>3, TickKeeps DEF timer_1s_RBINT, TypeOK, C_T_tRxMeshTimeOut2s
  <2> QED BY <1>3, <2>1 DEF timer_1s_RBINT, TypeOK, NeverWedged, rxBuffer,
                            rxReport, rxHistory
<1>4. CASE time1mshandle
  <2>1. /\ f_Block_Buffer_Empty' \in BOOLEAN
        /\ tRxMeshTimeOut2s' \in Timer(C_T_tRxMeshTimeOut2s)
        /\ tmeshfinishdataWait100ms' \in Timer(C_T_tmeshfinishdataWait100ms)
        /\ NeverWedged'
    <3>1. CASE reopens
      BY <1>4, <3>1 DEF time1mshandle, NeverWedged, Timer, Idle, Overflow,
           C_T_tRxMeshTimeOut2s, C_T_tmeshfinishdataWait100ms
    <3>2. CASE ~reopens
      BY <1>4, <3>2 DEF time1mshandle, TypeOK, NeverWedged, rxTimers
    <3> QED BY <3>1, <3>2
  <2>2. /\ rx_src_id' \in Address
        /\ Rx_MessageID' \in {MsgId[f] : f \in Frame} \cup {None}
        /\ f_rxmeshdata' \subseteq Slot
        /\ BLE_RX_DATA' \in [Slot -> Frame \cup {None}]
        /\ RX_MESH_ID' \in Address
        /\ UartTxDataType' \in BOOLEAN
    BY <1>4 DEF time1mshandle, WifiTxData, rxBuffer, rxReport, TypeOK,
                Cleared, Address
  <2>3. UNCHANGED <<net, pieces, accepted, disturbed>>
    BY <1>4 DEF time1mshandle, rxHistory
  <2> QED BY <2>1, <2>2, <2>3 DEF TypeOK
<1>5. CASE UNCHANGED vars
  BY <1>5 DEF vars, rxBuffer, rxReport, rxTimers, rxHistory, TypeOK,
              NeverWedged
<1> QED BY <1>1, <1>2, <1>3, <1>4, <1>5 DEF Next

------------------------------------------------------------------------------
(* The variables of the receiver keep their types: no packet number, stray *)
(* header or timer leads outside the buffer or the timer's range.          *)
THEOREM TypeCorrect == Spec => []TypeOK
<1>1. Inv => TypeOK
  BY DEF Inv
<1> QED BY <1>1, Initially, Preserved, PTL DEF Spec

(* Whatever the mesh loses or reorders, a closed buffer has its timeout    *)
(* running, and an open one has none left over from before.                *)
THEOREM ReceiverNeverWedged == Spec => []NeverWedged
<1>1. Inv => NeverWedged
  BY DEF Inv
<1> QED BY <1>1, Initially, Preserved, PTL DEF Spec

------------------------------------------------------------------------------
(* Frames of one or two packets come through the receiver whole, whatever  *)
(* is lost, late or interleaved with packets of other nodes, although the  *)
(* flags of a reception that timed out stay on: the packet that completes  *)
(* such a frame never finds the other one already noted but by itself.     *)
(* The UART may take a report at any time, or never: a report that waits   *)
(* when the buffer reopens stays whole until a packet opens a reception,   *)
(* and from then on nothing is claimed until one begins with none waiting. *)

(* Frames of at most two packets, told apart by source and message id.     *)
ShortFrames ==
  /\ \A f \in Frame : Total[f] <= 2
  /\ \A f, g \in Frame :
       Source[f] = Source[g] /\ MsgId[f] = MsgId[g] => f = g
  /\ \A p \in Traffic : /\ p.frame \in Frame
                        /\ p.total = Total[p.frame]
                        /\ p.seq \in 1 .. p.total
                        /\ p.len > 3
  /\ \A p, q \in Traffic : p.frame = q.frame /\ p.seq = q.seq => p = q

(* The reception in progress is one of frame f: what it has stored is f's  *)
(* and will not come again; once complete it has been accepted, and until  *)
(* then the buffer holds what was stored.                                  *)
ReceptionOf(f) ==
  /\ rx_src_id = Source[f] /\ Rx_MessageID = MsgId[f]
  /\ pieces # {} /\ pieces \subseteq 1 .. Total[f]
  /\ \A p \in net : p.frame = f => p.seq \notin pieces
  /\ IF pieces = 1 .. Total[f]
     THEN /\ accepted
          /\ UartTxDataType =>
               /\ \A i \in pieces : BLE_RX_DATA[i] = f
               /\ RX_MESH_ID = Source[f]
     ELSE /\ ~UartTxDataType
          /\ pieces \subseteq f_rxmeshdata
          /\ \A i \in pieces : BLE_RX_DATA[i] = f

PairInv ==
  /\ Inv
  /\ ReportIsOneFrame
  /\ ~f_Block_Buffer_Empty /\ ~disturbed => \E f \in Frame : ReceptionOf(f)

LEMMA PairInitially == Init => PairInv
  BY Initially DEF Init, RxInit, PairInv, ReportIsOneFrame

------------------------------------------------------------------------------
(* The packets of short frames.                                            *)
LEMMA ShortPacket ==
  ASSUME ShortFrames, NEW p \in Traffic
  PROVE  /\ p.frame \in Frame /\ p.frame # None
         /\ p.total = Total[p.frame] /\ p.total \in 1 .. 2
         /\ p.seq \in 1 .. p.total /\ p.len > 3
<1>1. p.frame \in Frame
  BY DEF ShortFrames
<1>2. Total[p.frame] \in 1 .. 2
  BY <1>1, TotalAssumption DEF ShortFrames
<1> QED BY <1>1, <1>2, FrameAssumption DEF ShortFrames

(* Two different packets of a frame that has at most two are all of it.    *)
LEMMA OtherOfTwo ==
  ASSUME NEW n \in 1 .. 2, NEW S, S # {}, S \subseteq 1 .. n,
         NEW s \in 1 .. n, s \notin S
  PROVE  n = 2 /\ S # 1 .. 2 /\ S \cup {s} = 1 .. 2
<1>1. PICK t \in S : TRUE
  OBVIOUS
<1>2. t \in 1 .. n /\ t # s
  BY <1>1
<1>3. n = 2
  BY <1>2
<1>4. \A x \in 1 .. 2 : x = s \/ x = t
  BY <1>2
<1>5. \A x : x \in S => x \in 1 .. 2
  BY <1>3
<1>6. \A x : x \in 1 .. 2 <=> x \in S \cup {s}
  BY <1>1, <1>3, <1>4, <1>5
<1> QED BY <1>3, <1>6

(* The buffer with every packet of f in place passes the check.            *)
LEMMA PurePasses ==
  ASSUME NEW f \in Frame, NEW data,
         \A i \in 1 .. Total[f] : data[i] = f
  PROVE  Pure(data) /\ MeshRxdCheck_New(data) = {TRUE}
<1>1. 1 \in 1 .. Total[f]
  BY TotalAssumption
<1>2. data[1] = f /\ f # None
  BY <1>1, FrameAssumption
<1>3. Pure(data)
  BY <1>2 DEF Pure
<1> QED BY <1>3 DEF MeshRxdCheck_New

(* What waits for the UART during a reception of f is all of f.            *)
LEMMA ReceptionReports ==
  \A f \in Frame : ReceptionOf(f) => ReportIsOneFrame
<1> SUFFICES ASSUME NEW f \in Frame, ReceptionOf(f), UartTxDataType
             PROVE  Pure(BLE_RX_DATA) /\ RX_MESH_ID = Source[BLE_RX_DATA[1]]
  BY DEF ReportIsOneFrame
<1>1. /\ \A i \in 1 .. Total[f] : BLE_RX_DATA[i] = f
      /\ RX_MESH_ID = Source[f]
  BY DEF ReceptionOf
<1>2. 1 \in 1 .. Total[f]
  BY TotalAssumption
<1> QED BY <1>1, <1>2, PurePasses

(* A reception that ends with a good buffer leaves its report.             *)
LEMMA FinishAccepts ==
  ASSUME NEW data, NEW src, MeshRxdCheck_New(data) = {TRUE},
         finish(data, src)
  PROVE  accepted' = TRUE /\ RX_MESH_ID' = src
<1>1. PICK ok \in {TRUE} :
        /\ IF ok THEN RX_MESH_ID' = src /\ UartTxDataType' = TRUE
                 ELSE UNCHANGED rxReport
        /\ accepted' = ok
  BY DEF finish
<1> QED BY <1>1

(* A packet that is stored continues, or begins, a reception of its frame. *)
LEMMA StoreKeeps ==
  ASSUME ShortFrames, PairInv, NEW p \in net,
         net' = net \ {p},
         f_Block_Buffer_Empty \/ belongs(p),
         open(p), take(p), ~disturbed'
  PROVE  ReceptionOf(p.frame)'
<1> DEFINE f == p.frame
<1>1. p \in Traffic
  BY DEF PairInv, Inv, TypeOK
<1>2. /\ f \in Frame /\ f # None
      /\ p.total = Total[f] /\ p.total \in 1 .. 2
      /\ p.seq \in 1 .. p.total /\ p.len > 3
  BY <1>1, ShortPacket
<1>3. /\ p.seq \in Slot
      /\ BLE_RX_DATA \in [Slot -> Frame \cup {None}]
  BY <1>2 DEF PairInv, Inv, TypeOK, Slot
<1>4. /\ BLE_RX_DATA' = [BLE_RX_DATA EXCEPT ![p.seq] = f]
      /\ BLE_RX_DATA' = stored(p)
      /\ BLE_RX_DATA'[p.seq] = f
      /\ \A i \in Slot : i # p.seq => BLE_RX_DATA'[i] = BLE_RX_DATA[i]
  BY <1>2, <1>3 DEF take, stored
<1>5. \A q \in net' : q.frame = f => q.seq # p.seq
  BY <1>1 DEF ShortFrames, PairInv, Inv, TypeOK
<1>6. ASSUME f_Block_Buffer_Empty PROVE ReceptionOf(f)'
  <2>1. /\ rx_src_id' = Source[f] /\ Rx_MessageID' = MsgId[f]
        /\ pieces' = {p.seq}
        /\ ~UartTxDataType
    BY <1>2, <1>6 DEF open, take
  <2>2. CASE p.total = 1
    <3>1. p.seq = 1 /\ pieces' = 1 .. Total[f] /\ lastOf(p)
      BY <1>2, <1>6, <2>1, <2>2 DEF lastOf
    <3>2. \A i \in 1 .. Total[f] : BLE_RX_DATA'[i] = f
      BY <1>4, <2>1, <3>1
    <3>3. accepted' /\ RX_MESH_ID' = Source[f]
      <4>1. MeshRxdCheck_New(BLE_RX_DATA') = {TRUE}
        BY <1>2, <3>2, PurePasses
      <4>2. finish(BLE_RX_DATA', Source[f])
        BY <1>4, <2>1, <3>1 DEF take
      <4> QED BY <4>1, <4>2, FinishAccepts
    <3> QED BY <1>5, <2>1, <3>1, <3>2, <3>3 DEF ReceptionOf
  <2>3. CASE p.total = 2
    <3>1. ~lastOf(p) /\ pieces' # 1 .. Total[f]
      BY <1>2, <1>6, <2>1, <2>3 DEF lastOf
    <3>2. /\ f_rxmeshdata' = f_rxmeshdata \cup {p.seq}
          /\ UartTxDataType' = UartTxDataType
      BY <3>1 DEF take, rxReport
    <3> QED BY <1>2, <1>4, <1>5, <2>1, <3>1, <3>2 DEF ReceptionOf
  <2> QED BY <1>2, <2>2, <2>3
<1>7. ASSUME ~f_Block_Buffer_Empty PROVE ReceptionOf(f)'
  <2>1. rx_src_id = Source[f] /\ Rx_MessageID = MsgId[f]
    BY <1>7 DEF belongs, f
  <2>2. ReceptionOf(f)
    <3>1. PICK g \in Frame : ReceptionOf(g)
      BY <1>7 DEF PairInv, open
    <3> QED BY <1>2, <2>1, <3>1 DEF ReceptionOf, ShortFrames
  <2>3. p.seq \notin pieces
    BY <2>2 DEF ReceptionOf, f
  <2>4. /\ Total[f] = 2
        /\ pieces # 1 .. 2
        /\ pieces \cup {p.seq} = 1 .. 2
    <3>1. pieces # {} /\ pieces \subseteq 1 .. Total[f]
      BY <2>2 DEF ReceptionOf
    <3> QED BY <1>2, <2>3, <3>1, OtherOfTwo
  <2>5. /\ pieces \subseteq f_rxmeshdata
        /\ \A i \in pieces : BLE_RX_DATA[i] = f
    BY <2>2, <2>4 DEF ReceptionOf
  <2>6. lastOf(p)
    BY <1>2, <1>7, <2>4, <2>5 DEF lastOf
  <2>7. pieces' = 1 .. Total[f]
    BY <1>2, <1>7, <2>4 DEF take
  <2>8. \A i \in 1 .. Total[f] : BLE_RX_DATA'[i] = f
    BY <1>4, <2>4, <2>5 DEF Slot
  <2>9. rx_src_id' = Source[f] /\ Rx_MessageID' = MsgId[f]
    BY <1>7, <2>1 DEF open
  <2>10. accepted' /\ RX_MESH_ID' = Source[f]
    <3>1. MeshRxdCheck_New(BLE_RX_DATA') = {TRUE}
      BY <1>2, <2>8, PurePasses
    <3>2. finish(BLE_RX_DATA', Source[f])
      BY <1>4, <2>6, <2>9 DEF take
    <3> QED BY <3>1, <3>2, FinishAccepts
  <2>11. \A q \in net' : q.frame = f => q.seq \notin pieces'
    BY <1>1, <1>5, <1>7, <2>2, <2>7, <1>2 DEF take, ReceptionOf
  <2> QED BY <2>4, <2>7, <2>8, <2>9, <2>10, <2>11 DEF ReceptionOf
<1> QED BY <1>6, <1>7 DEF f

(* One step per action.                                                    *)
LEMMA PairPreserved ==
  ASSUME ShortFrames
  PROVE  PairInv /\ [Next]_vars => PairInv'
<1> SUFFICES ASSUME PairInv, [Next]_vars PROVE PairInv'
  OBVIOUS
<1>1. Inv'
  BY Preserved DEF PairInv
<1>2. ASSUME NEW p \in net, Receive(p) PROVE PairInv'
  <2>1. p \in Traffic /\ net' = net \ {p}
    BY <1>2 DEF Receive, PairInv, Inv, TypeOK
  <2>2. p.frame \in Frame /\ p.frame # None
    BY <2>1, ShortPacket
  <2>3. CASE f_Block_Buffer_Empty \/ belongs(p)
    <3>1. open(p) /\ take(p)
      BY <1>2, <2>2, <2>3 DEF Receive, handleCSRmeshDataBlockInd
    <3>2. CASE disturbed'
      BY <1>1, <3>2 DEF PairInv, ReportIsOneFrame
    <3>3. CASE ~disturbed'
      <4>1. ReceptionOf(p.frame)'
        BY <2>1, <2>3, <3>1, <3>3, StoreKeeps
      <4>2. ReportIsOneFrame'
        <5>1. (\A f \in Frame : ReceptionOf(f) => ReportIsOneFrame)'
          BY ReceptionReports, PTL
        <5> QED BY <2>2, <4>1, <5>1
      <4> QED BY <1>1, <2>2, <4>1, <4>2 DEF PairInv
    <3> QED BY <3>2, <3>3
  <2>4. CASE ~(f_Block_Buffer_Empty \/ belongs(p))
    <3>1. UNCHANGED <<f_Block_Buffer_Empty, rxBuffer, rxReport, rxTimers,
                      rxHistory>>
      BY <1>2, <2>4 DEF Receive, handleCSRmeshDataBlockInd
    <3>2. \A f \in Frame : ReceptionOf(f) => ReceptionOf(f)'
      BY <2>1, <3>1 DEF ReceptionOf, rxBuffer, rxReport, rxHistory
    <3>3. ReportIsOneFrame'
      BY <3>1 DEF PairInv, ReportIsOneFrame, Pure, rxBuffer, rxReport,
                  rxHistory
    <3> QED BY <1>1, <3>1, <3>2, <3>3 DEF PairInv, rxHistory
  <2> QED BY <2>3, <2>4
<1>3. ASSUME UNCHANGED <<net, f_Block_Buffer_Empty, rxBuffer, rxReport,
                         rxHistory>>
      PROVE  PairInv'
  <2>1. \A f \in Frame : ReceptionOf(f) => ReceptionOf(f)'
    BY <1>3 DEF ReceptionOf, rxBuffer, rxReport, rxHistory
  <2>2. ReportIsOneFrame'
    BY <1>3 DEF PairInv, ReportIsOneFrame, Pure, rxBuffer, rxReport,
                rxHistory
  <2> QED BY <1>1, <1>3, <2>1, <2>2 DEF PairInv, rxHistory
<1>4. CASE timer_100ms_RBINT
  BY <1>3, <1>4 DEF timer_100ms_RBINT
<1>5. CASE timer_1s_RBINT
  BY <1>3, <1>5 DEF timer_1s_RBINT
<1>6. CASE time1mshandle
  <2>1. CASE WifiTxData
    <3>1. /\ UNCHANGED <<net, pieces, accepted, disturbed, rx_src_id,
                         Rx_MessageID>>
          /\ UartTxDataType /\ UartTxDataType' = FALSE
          /\ ~f_Block_Buffer_Empty' => ~f_Block_Buffer_Empty
      BY <1>6, <2>1 DEF time1mshandle, WifiTxData, rxHistory
    <3>2. \A f \in Frame : ReceptionOf(f) => ReceptionOf(f)'
      BY <3>1 DEF ReceptionOf
    <3>3. ReportIsOneFrame'
      BY <3>1 DEF ReportIsOneFrame
    <3> QED BY <1>1, <3>1, <3>2, <3>3 DEF PairInv
  <2>2. CASE UNCHANGED <<rxBuffer, rxReport>>
    <3>1. CASE reopens
      <4>1. f_Block_Buffer_Empty' = TRUE /\ UNCHANGED rxHistory
        BY <1>6, <3>1 DEF time1mshandle
      <4>2. ReportIsOneFrame'
        BY <2>2, <4>1 DEF PairInv, ReportIsOneFrame, Pure, rxBuffer,
                          rxReport, rxHistory
      <4> QED BY <1>1, <4>1, <4>2 DEF PairInv
    <3>2. CASE ~reopens
      BY <1>3, <1>6, <2>2, <3>2 DEF time1mshandle
    <3> QED BY <3>1, <3>2
  <2> QED BY <1>6, <2>1, <2>2 DEF time1mshandle
<1>7. CASE UNCHANGED vars
  BY <1>3, <1>7 DEF vars
<1> QED BY <1>2, <1>4, <1>5, <1>6, <1>7 DEF Next

------------------------------------------------------------------------------
(* What the receiver of short frames hands to the UART is one frame whole, *)
(* under its own source, also after the buffer has reopened, as long as no *)
(* reception begins while it waits.                                        *)
THEOREM ShortFramesReportedWhole ==
  ASSUME ShortFrames
  PROVE  Spec => []ReportIsOneFrame
<1>1. PairInv => ReportIsOneFrame
  BY DEF PairInv
<1> QED BY <1>1, PairInitially, PairPreserved, PTL DEF Spec

(* A reception that began with no report waiting and got every packet of a *)
(* short frame accepted it.                                                *)
THEOREM ShortFramesAccepted ==
  ASSUME ShortFrames
  PROVE  Spec => []CompleteIsAccepted
<1>1. PairInv => CompleteIsAccepted
  <2> SUFFICES ASSUME PairInv, ~f_Block_Buffer_Empty, ~disturbed, NEW f \in Frame,
                      rx_src_id = Source[f], Rx_MessageID = MsgId[f],
                      pieces = 1 .. Total[f]
               PROVE  accepted
    BY DEF CompleteIsAccepted
  <2>1. PICK g \in Frame : ReceptionOf(g)
    BY DEF PairInv
  <2>2. g = f
    BY <2>1 DEF ReceptionOf, ShortFrames
  <2> QED BY <2>1, <2>2 DEF ReceptionOf
<1> QED BY <1>1, PairInitially, PairPreserved, PTL DEF Spec
=============================================================================
