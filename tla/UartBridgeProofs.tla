--------------------------- MODULE UartBridgeProofs ---------------------------
(***************************************************************************)
(* Proofs about the byte level of the UART, for frames, buffers and        *)
(* reports of any size and any behaviour of the host, the mesh and the     *)
(* driver: its types, that a timely frame is taken, that a report is taken *)
(* in time and that nothing stays in the queue of an idle driver.          *)
(***************************************************************************)
EXTENDS UartBridge, TLAPS

RxTypes ==
  /\ onTime \in BOOLEAN /\ tWifiSendData \in BOOLEAN
  /\ CommRxState \in {"cRxdPrepare", "cRxdWait", "cRxd", "cRxdEnd"}
  /\ WifiRxData \in Cleared .. HostLen
  /\ WifiDataCount \in 0 .. CountModulus - 1 /\ f_rxdataOK \in BOOLEAN
  /\ tUartWait10ms \in Timer(C_T_tUartWait10ms) \ {Idle}
  /\ tWifitsfrmwt \in Timer(C_T_tWifitsfrmwt)
  /\ tWifi2mscyc \in Timer(C_T_Wifi2mscyc)
  /\ hostAt \in 0 .. HostLen - 1
  /\ quiet \in 0 .. Quiet
  /\ current \in BOOLEAN /\ timely \in BOOLEAN

TxTypes ==
  /\ CommState \in {"cTxdPrepare", "cTxd", "cTxdEnd"}
  /\ UartTxDataType \in {"none", "report"} /\ tHeartPack5s \in BOOLEAN
  /\ WifiTxData \in ReportSize \cup {0, HeartbeatSize}
  /\ queued \in 0 .. QueueSize /\ busy \in 0 .. DriverBuffer
  /\ tWifiTwoByteSentTime \in Timer(C_T_WifiTwoByteSentTime)
  /\ twifitstxcyc \in Timer(C_T_wifitstxcyc) /\ m4msCount \in 0 .. 3

(* What a tick does to a timer.                                            *)
LEMMA TickKeeps ==
  ASSUME NEW n \in Nat, NEW t \in Timer(n)
  PROVE  /\ Tick(t) \in Timer(n)
         /\ t = Idle <=> Tick(t) = Idle
         /\ t > 1 => Tick(t) = t - 1
         /\ t <= 0 => Tick(t) = t
         /\ t = 1 \/ t = Overflow => Tick(t) = Overflow
  BY DEF Timer, Tick, Idle, Overflow

LEMMA TimersTick ==
  ASSUME RxTypes
  PROVE  /\ Tick(tUartWait10ms) \in Timer(C_T_tUartWait10ms) \ {Idle}
         /\ tUartWait10ms > 1 => Tick(tUartWait10ms) = tUartWait10ms - 1
         /\ tUartWait10ms <= 1 => Tick(tUartWait10ms) = Overflow
         /\ Tick(tWifitsfrmwt) \in Timer(C_T_tWifitsfrmwt)
         /\ tWifitsfrmwt > 1 => Tick(tWifitsfrmwt) = tWifitsfrmwt - 1
         /\ tWifitsfrmwt = 1 => Tick(tWifitsfrmwt) = Overflow
         /\ tWifitsfrmwt = Idle => Tick(tWifitsfrmwt) = Idle
         /\ Tick(tWifi2mscyc) \in Timer(C_T_Wifi2mscyc)
         /\ tWifi2mscyc > 1 => Tick(tWifi2mscyc) = tWifi2mscyc - 1
         /\ tWifi2mscyc = 1 => Tick(tWifi2mscyc) = Overflow
  BY LengthAssumption DEF RxTypes, Timer, Tick, Idle, Overflow,
     C_T_tWifitsfrmwt, C_T_Wifi2mscyc

------------------------------------------------------------------------------
(* The receive machine.                                                    *)

(* Ticks until the receive machine waits for a frame, with nothing of      *)
(* another one in WifiRxData, if no byte comes in the meantime.            *)
WayBack ==
  (IF CommRxState = "cRxdPrepare" THEN IF f_rxdataOK THEN 8 ELSE 1
   ELSE IF CommRxState = "cRxd" THEN IF f_rxdataOK THEN 13 ELSE 6
   ELSE IF CommRxState = "cRxdEnd"
        THEN tWifi2mscyc + (IF f_rxdataOK THEN 8 ELSE 1)
   ELSE IF f_rxdataOK THEN 7
   ELSE IF tWifitsfrmwt = Idle THEN 0 ELSE tWifitsfrmwt + 1)
  + (IF tWifiSendData THEN 1 ELSE 0)
LongestWay == 13

(* The machine is on its way back since the last byte, and the bar that a  *)
(* complete frame puts up lasts no longer than the silence it asks for.    *)
RxInv ==
  /\ RxTypes
  /\ ~onTime => tWifiSendData
  /\ tWifiSendData => CommRxState = "cRxdPrepare"
  /\ CommRxState = "cRxdWait" /\ ~f_rxdataOK =>
       tWifitsfrmwt > 0 \/ (tWifitsfrmwt = Idle /\ WifiDataCount = 0)
  /\ CommRxState = "cRxdEnd" => tWifi2mscyc > 0
  /\ onTime /\ WayBack > 0 => quiet + WayBack <= LongestWay
  /\ tUartWait10ms > 0 => tUartWait10ms <= Quiet - quiet

LEMMA RxInitially == Init => RxInv
<1> SUFFICES ASSUME Init PROVE RxInv
  OBVIOUS
<1>1. RxTypes
  <2>1. /\ onTime \in BOOLEAN /\ tWifiSendData \in BOOLEAN
        /\ f_rxdataOK \in BOOLEAN /\ current \in BOOLEAN /\ timely \in BOOLEAN
    BY Zenon DEF Init
  <2>2. /\ CommRxState = "cRxdPrepare"
        /\ WifiRxData \in Cleared .. HostLen
        /\ WifiDataCount \in 0 .. CountModulus - 1
        /\ hostAt \in 0 .. HostLen - 1
        /\ quiet \in 0 .. Quiet
    BY LengthAssumption DEF Init, Cleared, Quiet
  <2>3. /\ tUartWait10ms \in Timer(C_T_tUartWait10ms) \ {Idle}
        /\ tWifitsfrmwt \in Timer(C_T_tWifitsfrmwt)
        /\ tWifi2mscyc \in Timer(C_T_Wifi2mscyc)
    BY LengthAssumption DEF Init, Timer, Idle, Overflow, C_T_tWifitsfrmwt,
                            C_T_Wifi2mscyc
  <2> QED BY <2>1, <2>2, <2>3 DEF RxTypes
<1> QED BY <1>1, LengthAssumption DEF Init, RxInv, Quiet

(* Nothing else touches the receive machine.                               *)
LEMMA RxElsewhere ==
  ASSUME RxInv, \/ Report \/ Heartbeat \/ Transmitted \/ UNCHANGED vars
  PROVE  RxInv'
<1>1. UNCHANGED <<start, receiver, host>>
  BY DEF Report, Heartbeat, Transmitted, vars
<1> QED BY <1>1 DEF start, receiver, host, RxInv, RxTypes, WayBack

LEMMA RxStarts ==
  ASSUME RxInv, Start
  PROVE  RxInv'
<1>1. /\ ~onTime /\ onTime' = TRUE /\ quiet' = 0
      /\ UNCHANGED <<tWifiSendData, receiver, hostAt, current, timely>>
  BY DEF Start
<1>2. RxTypes'
  BY <1>1, LengthAssumption DEF RxInv, RxTypes, receiver, Quiet
<1>3. WayBack' <= LongestWay /\ WayBack' \in Int
  BY <1>1 DEF RxInv, RxTypes, WayBack, LongestWay, receiver
<1>4. tUartWait10ms' <= Quiet - quiet'
  BY <1>1, <1>2, LengthAssumption DEF RxTypes, Timer, Quiet, Overflow
<1>5. /\ CommRxState' = "cRxdWait" /\ ~f_rxdataOK' =>
           tWifitsfrmwt' > 0 \/ (tWifitsfrmwt' = Idle /\ WifiDataCount' = 0)
      /\ CommRxState' = "cRxdEnd" => tWifi2mscyc' > 0
      /\ tWifiSendData' => CommRxState' = "cRxdPrepare"
  BY <1>1 DEF RxInv, receiver
<1>6. quiet' + WayBack' <= LongestWay
  BY <1>1, <1>3
<1> QED BY <1>1, <1>2, <1>4, <1>5, <1>6 DEF RxInv

(* A byte of the host that is not barred is stored, and may complete a     *)
(* frame; whatever it does, the way back is no longer than the longest.    *)
LEMMA ByteStored ==
  ASSUME RxInv, NEW fits \in BOOLEAN, uartRxDataCallback(fits),
         fits => WifiDataCount < HostLen
  PROVE  /\ WifiRxData' = stored(fits)
         /\ WifiRxData' \in Cleared .. HostLen
         /\ WifiDataCount' \in 0 .. CountModulus - 1
         /\ tWifitsfrmwt' = C_T_tWifitsfrmwt
         /\ f_rxdataOK' \in BOOLEAN
         /\ tUartWait10ms' \in {C_T_tUartWait10ms, tUartWait10ms}
         /\ f_rxdataOK => f_rxdataOK'
         /\ UNCHANGED <<CommRxState, tWifi2mscyc>>
<1>1. /\ WifiRxData' = stored(fits)
      /\ tWifitsfrmwt' = C_T_tWifitsfrmwt
      /\ UNCHANGED <<CommRxState, tWifi2mscyc>>
  BY DEF uartRxDataCallback
<1>2. WifiRxData' \in Cleared .. HostLen
  BY <1>1, LengthAssumption DEF RxInv, RxTypes, stored, Cleared
<1>3. PICK total \in Totals(WifiRxData') :
        LET complete == WifiDataCount > LengthAt /\ counted >= total
        IN /\ WifiDataCount' = IF complete THEN 0 ELSE counted
           /\ f_rxdataOK' = (f_rxdataOK \/ complete)
           /\ tUartWait10ms' = barred(complete)
  BY DEF uartRxDataCallback
<1> DEFINE complete == WifiDataCount > LengthAt /\ counted >= total
<1>4. CASE complete
  <2>1. WifiDataCount' = 0 /\ f_rxdataOK' = TRUE
        /\ tUartWait10ms' = C_T_tUartWait10ms
    BY <1>3, <1>4 DEF barred
  <2> QED BY <1>1, <1>2, <2>1, LengthAssumption
<1>5. CASE ~complete
  <2>1. WifiDataCount' = counted /\ f_rxdataOK' = f_rxdataOK
        /\ tUartWait10ms' = tUartWait10ms
    BY <1>3, <1>5 DEF barred, RxInv, RxTypes
  <2>2. WifiDataCount' \in 0 .. CountModulus - 1
    BY <2>1, LengthAssumption DEF RxInv, RxTypes, counted
  <2> QED BY <1>1, <1>2, <2>1, <2>2 DEF RxInv, RxTypes
<1> QED BY <1>4, <1>5

LEMMA RxByteKeeps ==
  ASSUME RxInv, NEW at \in 0 .. HostLen - 1, NEW joined \in BOOLEAN,
         HostByte(at, joined)
  PROVE  RxInv'
<1> DEFINE fits == /\ at = WifiDataCount
                   /\ at > 0 => current /\ WifiRxData = at
           taken == fov(tUartWait10ms) \/ joined
<1>1. /\ quiet' = 0 /\ hostAt' = (at + 1) % HostLen
      /\ UNCHANGED start
      /\ IF taken THEN uartRxDataCallback(fits)
                  ELSE UNCHANGED receiver
  BY DEF HostByte
<1>2. hostAt' \in 0 .. HostLen - 1 /\ quiet' \in 0 .. Quiet
  BY <1>1, LengthAssumption DEF Quiet
<1>3. current' \in BOOLEAN /\ timely' \in BOOLEAN
  BY Zenon DEF HostByte
<1>4. CASE taken
  <2>1. uartRxDataCallback(fits)
    BY <1>4, Zenon DEF HostByte
  <2>2. fits \in BOOLEAN
    BY Zenon
  <2>3. fits => WifiDataCount < HostLen
    BY LengthAssumption
  <2> HIDE DEF fits
  <2>4. /\ WifiRxData' \in Cleared .. HostLen
        /\ WifiDataCount' \in 0 .. CountModulus - 1
        /\ tWifitsfrmwt' = C_T_tWifitsfrmwt
        /\ f_rxdataOK' \in BOOLEAN
        /\ tUartWait10ms' \in {C_T_tUartWait10ms, tUartWait10ms}
        /\ UNCHANGED <<CommRxState, tWifi2mscyc>>
    BY <2>1, <2>2, <2>3, ByteStored
  <2>5. RxTypes'
    BY <1>1, <1>2, <1>3, <2>4, LengthAssumption
    DEF RxInv, RxTypes, start, Timer, Idle, Overflow, C_T_tWifitsfrmwt
  <2>6. WayBack' \in Int /\ WayBack' <= LongestWay
    BY <1>1, <2>4, <2>5 DEF RxInv, RxTypes, WayBack, LongestWay, start, Timer,
       Idle, Overflow, C_T_tWifitsfrmwt, C_T_Wifi2mscyc
  <2>7. tUartWait10ms' <= Quiet
    BY <2>5, LengthAssumption DEF RxTypes, Timer, Overflow, Idle, Quiet
  <2>8. CommRxState' = "cRxdWait" /\ ~f_rxdataOK' =>
          tWifitsfrmwt' > 0 \/ (tWifitsfrmwt' = Idle /\ WifiDataCount' = 0)
    BY <2>4 DEF C_T_tWifitsfrmwt
  <2>9. quiet' = 0 /\ UNCHANGED <<onTime, tWifiSendData>>
    BY <1>1 DEF start
  <2>10. tUartWait10ms' <= Quiet - quiet'
    BY <2>5, <2>7, <2>9, LengthAssumption DEF RxTypes, Timer, Overflow, Quiet
  <2>11. ~tWifiSendData' \/ CommRxState' = "cRxdPrepare"
    BY <2>4, <2>9 DEF RxInv
  <2>12. CommRxState' = "cRxdEnd" => tWifi2mscyc' > 0
    BY <2>4 DEF RxInv
  <2>13. onTime' \/ tWifiSendData'
    BY <2>9 DEF RxInv
  <2>14. quiet' + WayBack' <= LongestWay
    BY <2>6, <2>9
  <2> QED BY <2>5, <2>8, <2>10, <2>11, <2>12, <2>13, <2>14 DEF RxInv
<1>5. CASE ~taken
  <2>1. UNCHANGED <<start, receiver>>
    BY <1>1, <1>5
  <2>2. RxTypes'
    BY <1>2, <1>3, <2>1 DEF RxInv, RxTypes, start, receiver
  <2>3. WayBack' = WayBack
    BY <2>1 DEF WayBack, start, receiver
  <2>4. quiet' <= quiet /\ WayBack \in Int /\ tUartWait10ms \in Int
    BY <1>1, LengthAssumption DEF RxInv, RxTypes, WayBack, Timer, Quiet,
       Overflow, C_T_tWifitsfrmwt, C_T_Wifi2mscyc
  <2> QED BY <1>1, <2>1, <2>2, <2>3, <2>4, LengthAssumption
          DEF RxInv, RxTypes, start, receiver, Quiet, LongestWay
<1> QED BY <1>4, <1>5

(* The tick that does not reach the receive machine: before it runs, or    *)
(* the first one after.                                                    *)
LEMMA RxWaitsToRun ==
  ASSUME RxInv, time1mshandle, ~(onTime /\ ~tWifiSendData)
  PROVE  /\ CommRxState = "cRxdPrepare" /\ CommRxState' = "cRxdPrepare"
         /\ tWifitsfrmwt' = Tick(tWifitsfrmwt)
         /\ tWifi2mscyc' = Tick(tWifi2mscyc)
         /\ tWifiSendData = TRUE /\ tWifiSendData' = ~onTime
         /\ UNCHANGED <<WifiRxData, WifiDataCount, f_rxdataOK>>
  BY DEF RxInv, RxTypes, time1mshandle, processuartdata, TimersOnly

(* What every tick does.                                                   *)
LEMMA AnyTick ==
  ASSUME RxInv, time1mshandle
  PROVE  /\ tUartWait10ms' = Tick(tUartWait10ms)
         /\ quiet' = IF quiet < Quiet THEN quiet + 1 ELSE quiet
         /\ UNCHANGED <<onTime, hostAt, current, timely>>
         /\ tUartWait10ms' \in Timer(C_T_tUartWait10ms) \ {Idle}
         /\ quiet' \in 0 .. Quiet
         /\ tUartWait10ms' > 0 => tUartWait10ms' <= Quiet - quiet'
<1>1. /\ tUartWait10ms' = Tick(tUartWait10ms)
      /\ quiet' = IF quiet < Quiet THEN quiet + 1 ELSE quiet
      /\ UNCHANGED <<onTime, hostAt, current, timely>>
  BY DEF time1mshandle
<1> QED BY <1>1, TimersTick, LengthAssumption
        DEF RxInv, RxTypes, Quiet, Timer, Overflow, Idle

(* A step of the receive machine.                                          *)
RxTick == cRxdPrepare \/ cRxdWait \/ cRxd \/ cRxdEnd

LEMMA RxTickKeepsTypes ==
  ASSUME RxTypes, RxTick
  PROVE  /\ CommRxState' \in {"cRxdPrepare", "cRxdWait", "cRxd", "cRxdEnd"}
         /\ WifiRxData' \in Cleared .. HostLen
         /\ WifiDataCount' \in 0 .. CountModulus - 1 /\ f_rxdataOK' \in BOOLEAN
         /\ tWifitsfrmwt' \in Timer(C_T_tWifitsfrmwt)
         /\ tWifi2mscyc' \in Timer(C_T_Wifi2mscyc)
<1>1. CASE cRxdPrepare
  BY <1>1, TimersTick, LengthAssumption
  DEF cRxdPrepare, RxTypes, Cleared, Timer, Idle, Overflow, C_T_tWifitsfrmwt
<1>2. CASE cRxdWait
  BY <1>2, TimersTick DEF cRxdWait, RxTypes
<1>3. CASE cRxd
  <2>1. PICK ok \in WifiRxdCheckOk :
         /\ CommRxState' = IF ok THEN "cRxdEnd" ELSE "cRxdPrepare"
         /\ tWifi2mscyc' = IF ok THEN C_T_Wifi2mscyc ELSE Tick(tWifi2mscyc)
    BY <1>3 DEF cRxd
  <2>2. C_T_Wifi2mscyc \in Timer(C_T_Wifi2mscyc)
    BY DEF Timer, Overflow, C_T_Wifi2mscyc
  <2> QED BY <1>3, <2>1, <2>2, TimersTick DEF cRxd, RxTypes
<1>4. CASE cRxdEnd
  BY <1>4, TimersTick DEF cRxdEnd, RxTypes
<1> QED BY <1>1, <1>2, <1>3, <1>4 DEF RxTick

(* Each tick brings the machine nearer.                                    *)
LEMMA RxTickNearer ==
  ASSUME RxInv, RxTick, UNCHANGED tWifiSendData, ~tWifiSendData
  PROVE  /\ WayBack \in Nat /\ WayBack' \in Nat
         /\ WayBack > 0 => WayBack' < WayBack
         /\ WayBack = 0 => WayBack' = 0
         /\ CommRxState' = "cRxdWait" /\ ~f_rxdataOK' =>
              tWifitsfrmwt' > 0 \/ (tWifitsfrmwt' = Idle /\ WifiDataCount' = 0)
         /\ CommRxState' = "cRxdEnd" => tWifi2mscyc' > 0
<1> USE DEF RxInv, WayBack
<1>1. CASE cRxdPrepare
  BY <1>1 DEF cRxdPrepare, RxTypes
<1>2. CASE cRxdWait
  BY <1>2, TimersTick DEF cRxdWait, RxTypes, fov, Timer, Overflow, Idle,
     C_T_tWifitsfrmwt
<1>3. CASE cRxd
  <2>1. PICK ok \in WifiRxdCheckOk :
         /\ CommRxState' = IF ok THEN "cRxdEnd" ELSE "cRxdPrepare"
         /\ tWifi2mscyc' = IF ok THEN C_T_Wifi2mscyc ELSE Tick(tWifi2mscyc)
    BY <1>3 DEF cRxd
  <2> QED BY <1>3, <2>1 DEF cRxd, RxTypes, C_T_Wifi2mscyc
<1>4. CASE cRxdEnd
  BY <1>4, TimersTick DEF cRxdEnd, RxTypes, fov, Timer, Overflow, Idle,
     C_T_Wifi2mscyc
<1> QED BY <1>1, <1>2, <1>3, <1>4 DEF RxTick

LEMMA RxTimeKeeps ==
  ASSUME RxInv, time1mshandle
  PROVE  RxInv'
<1>1. /\ UNCHANGED <<onTime, hostAt, current, timely>>
      /\ quiet' = IF quiet < Quiet THEN quiet + 1 ELSE quiet
      /\ tUartWait10ms' \in Timer(C_T_tUartWait10ms) \ {Idle}
      /\ quiet' \in 0 .. Quiet /\ quiet' <= quiet + 1
      /\ tUartWait10ms' > 0 => tUartWait10ms' <= Quiet - quiet'
  BY AnyTick, LengthAssumption DEF RxInv, RxTypes, Quiet
<1>2. CASE onTime /\ ~tWifiSendData
  <2>1. RxTick /\ UNCHANGED tWifiSendData
    BY <1>2 DEF time1mshandle, processuartdata, RxTick
  <2>2. RxTypes'
    BY <1>1, <2>1, RxTickKeepsTypes DEF RxInv, RxTypes
  <2> QED BY <1>1, <1>2, <2>1, <2>2, RxTickNearer, LengthAssumption
          DEF RxInv, RxTypes, Quiet, LongestWay
<1>3. CASE ~(onTime /\ ~tWifiSendData)
  <2>1. /\ CommRxState = "cRxdPrepare" /\ CommRxState' = "cRxdPrepare"
        /\ tWifitsfrmwt' = Tick(tWifitsfrmwt)
        /\ tWifi2mscyc' = Tick(tWifi2mscyc)
        /\ tWifiSendData = TRUE /\ tWifiSendData' = ~onTime
        /\ UNCHANGED <<WifiRxData, WifiDataCount, f_rxdataOK>>
    BY <1>3, RxWaitsToRun
  <2>2. RxTypes'
    BY <1>1, <2>1, TimersTick DEF RxInv, RxTypes
  <2>3. CASE onTime
    <3>1. tWifiSendData' = FALSE
      BY <2>1, <2>3, Zenon
    <3>2. WayBack' = WayBack - 1 /\ WayBack \in Nat
      BY <2>1, <3>1 DEF WayBack, RxInv, RxTypes
    <3> QED BY <1>1, <2>1, <2>2, <2>3, <3>1, <3>2, LengthAssumption
            DEF RxInv, RxTypes, Quiet, LongestWay
  <2>4. CASE ~onTime
    <3>1. tWifiSendData' /\ ~onTime'
      BY <1>1, <2>1, <2>4, Zenon
    <3> QED BY <1>1, <2>1, <2>2, <3>1 DEF RxInv
  <2> QED BY <2>3, <2>4
<1> QED BY <1>2, <1>3

LEMMA RxStepKeeps == RxInv /\ [Next]_vars => RxInv'
  BY RxElsewhere, RxStarts, RxByteKeeps, RxTimeKeeps DEF Next

LEMMA RxInvariance == Spec => []RxInv
  BY RxInitially, RxStepKeeps, PTL DEF Spec

------------------------------------------------------------------------------
(* The bar and the silence the host keeps before a frame are longer than   *)
(* the way back of the receive machine (20 ticks in the code).             *)
SilenceIsEnough == C_T_tUartWait10ms > LongestWay

(* A frame the host goes on with in time is all that WifiRxData holds, and *)
(* the gap timer has counted the silence since its last byte.              *)
FrameInv ==
  timely /\ hostAt > 0 /\ quiet <= MaxGap =>
    /\ onTime /\ ~tWifiSendData /\ current
    /\ WifiDataCount = hostAt /\ WifiRxData = hostAt
    /\ CommRxState = "cRxdWait" /\ ~f_rxdataOK /\ fov(tUartWait10ms)
    /\ tWifitsfrmwt = C_T_tWifitsfrmwt - quiet

(* A timely frame that has ended is complete and goes its way, behind the  *)
(* bar it has put up.                                                      *)
DueInv ==
  due # NoFrame =>
    /\ due \in {0, 1} /\ quiet <= due /\ Whole
    /\ onTime /\ ~tWifiSendData
    /\ ~(timely /\ hostAt > 0)
    /\ tUartWait10ms = C_T_tUartWait10ms - due
    /\ IF due = 0 THEN CommRxState = "cRxdWait" /\ f_rxdataOK
                  ELSE CommRxState = "cRxd"

(* No byte of a timely frame was the first behind the end of WifiRxData.   *)
HostInv == /\ timely => onTime
           /\ outside # "timely"
           /\ FrameInv /\ DueInv

(* After a silence the receive machine is ready for a frame.               *)
LEMMA ReadyAfterSilence ==
  ASSUME RxInv, SilenceIsEnough, onTime, quiet >= Quiet
  PROVE  /\ CommRxState = "cRxdWait" /\ ~f_rxdataOK /\ ~tWifiSendData
         /\ WifiDataCount = 0 /\ fov(tUartWait10ms)
<1>1. WayBack \in Nat
  BY DEF RxInv, RxTypes, WayBack, Timer, Overflow, Idle, C_T_tWifitsfrmwt,
         C_T_Wifi2mscyc
<1>2. WayBack = 0
  BY <1>1, LengthAssumption DEF RxInv, RxTypes, SilenceIsEnough, LongestWay,
     Quiet
<1>3. fov(tUartWait10ms)
  BY LengthAssumption DEF RxInv, RxTypes, Timer, Overflow, Idle, fov, Quiet
<1> QED BY <1>2, <1>3 DEF RxInv, RxTypes, WayBack, Timer, Overflow, Idle,
           C_T_tWifitsfrmwt, C_T_Wifi2mscyc

LEMMA HostInitially == Init => HostInv
  BY DEF Init, HostInv, FrameInv, DueInv

(* A byte that goes on with a timely frame, or begins one, is stored in    *)
(* its place; the last one completes it.                                   *)
LEMMA TimelyByte ==
  ASSUME RxInv, HostInv, SilenceIsEnough,
         NEW at \in 0 .. HostLen - 1, NEW joined \in BOOLEAN,
         HostByte(at, joined), timely'
  PROVE  /\ due = NoFrame
         /\ onTime' /\ ~tWifiSendData' /\ quiet' = 0
         /\ WifiRxData' = at + 1 /\ WifiDataCount < WifiRxDataSize
         /\ CommRxState' = "cRxdWait"
         /\ IF at = HostLen - 1
            THEN /\ hostAt' = 0 /\ due' = 0 /\ f_rxdataOK'
                 /\ tUartWait10ms' = C_T_tUartWait10ms
            ELSE /\ hostAt' = at + 1 /\ due' = due /\ ~f_rxdataOK' /\ current'
                 /\ WifiDataCount' = at + 1
                 /\ fov(tUartWait10ms')
                 /\ tWifitsfrmwt' = C_T_tWifitsfrmwt
<1> DEFINE fits == /\ at = WifiDataCount
                   /\ at > 0 => current /\ WifiRxData = at
<1>1. /\ UNCHANGED start /\ quiet' = 0 /\ hostAt' = (at + 1) % HostLen
      /\ at \in {0, hostAt}
  BY DEF HostByte
<1>2. IF at > 0 THEN timely /\ quiet <= MaxGap ELSE onTime /\ quiet >= Quiet
  BY DEF HostByte
<1>3. due = NoFrame
  BY <1>1, <1>2, LengthAssumption DEF HostInv, DueInv, SilenceIsEnough,
     LongestWay, Quiet, RxInv, RxTypes
<1>4. due' = IF at = HostLen - 1 THEN 0 ELSE due
  BY <1>3 DEF HostByte
<1>5. /\ onTime /\ ~tWifiSendData /\ fits
      /\ CommRxState = "cRxdWait" /\ ~f_rxdataOK /\ fov(tUartWait10ms)
  <2>1. CASE at = 0
    BY <1>2, <2>1, ReadyAfterSilence
  <2>2. CASE at > 0
    BY <1>1, <1>2, <2>2 DEF HostInv, FrameInv
  <2> QED BY <2>1, <2>2
<1>6. uartRxDataCallback(fits) /\ current' = (fits \/ (at > 0 /\ current))
  BY <1>5, Zenon DEF HostByte
<1>7. WifiDataCount = at /\ WifiDataCount < WifiRxDataSize
      /\ counted = at + 1
  BY <1>5, LengthAssumption DEF counted
<1> HIDE DEF fits
<1>8. WifiRxData' = at + 1 /\ tWifitsfrmwt' = C_T_tWifitsfrmwt
      /\ UNCHANGED CommRxState
  BY <1>5, <1>6, <1>7 DEF uartRxDataCallback, stored
<1>9. PICK total \in Totals(WifiRxData') :
        LET complete == WifiDataCount > LengthAt /\ counted >= total
        IN /\ WifiDataCount' = IF complete THEN 0 ELSE counted
           /\ f_rxdataOK' = (f_rxdataOK \/ complete)
           /\ tUartWait10ms' = barred(complete)
  BY <1>6 DEF uartRxDataCallback
<1> DEFINE complete == WifiDataCount > LengthAt /\ counted >= total
<1>10. complete <=> at = HostLen - 1
  <2>1. at > LengthAt => total = HostLen
    BY <1>8, <1>9, LengthAssumption DEF Totals
  <2> QED BY <1>7, <2>1, LengthAssumption
<1>11. hostAt' = IF at = HostLen - 1 THEN 0 ELSE at + 1
  BY <1>1, LengthAssumption
<1>12. onTime' /\ ~tWifiSendData'
  BY <1>1, <1>5 DEF start
<1>13. current' = TRUE
  BY <1>5, <1>6
<1>14. CASE at = HostLen - 1
  BY <1>1, <1>3, <1>4, <1>5, <1>7, <1>8, <1>9, <1>10, <1>11, <1>12, <1>14
  DEF barred
<1>15. CASE at # HostLen - 1
  BY <1>1, <1>3, <1>4, <1>5, <1>7, <1>8, <1>9, <1>10, <1>11, <1>12, <1>13, <1>15
  DEF barred, fov
<1> QED BY <1>14, <1>15

LEMMA HostByteKeeps ==
  ASSUME RxInv, HostInv, SilenceIsEnough,
         NEW at \in 0 .. HostLen - 1, NEW joined \in BOOLEAN,
         HostByte(at, joined)
  PROVE  HostInv'
<1>1. CASE timely'
  <2>1. FrameInv' /\ onTime'
    <3>1. CASE at = HostLen - 1
      BY <1>1, <3>1, TimelyByte DEF FrameInv
    <3>2. CASE at # HostLen - 1
      BY <1>1, <3>2, TimelyByte DEF FrameInv, C_T_tWifitsfrmwt
    <3> QED BY <3>1, <3>2
  <2>2. DueInv'
    BY <1>1, TimelyByte, LengthAssumption DEF DueInv, Whole
  <2>3. outside' # "timely"
    <3>1. ~(WifiDataCount >= WifiRxDataSize)
      BY <1>1, TimelyByte, LengthAssumption DEF RxInv, RxTypes
    <3>2. outside' = outside
      BY <3>1 DEF HostByte
    <3> QED BY <3>2 DEF HostInv
  <2> QED BY <2>1, <2>2, <2>3 DEF HostInv
<1>2. CASE ~timely'
  <2>1. FrameInv'
    BY <1>2 DEF FrameInv
  <2>2. /\ due' = IF joined THEN NoFrame ELSE due
        /\ quiet' = 0 /\ UNCHANGED start
    BY <1>2 DEF HostByte
  <2>3. DueInv'
    <3> SUFFICES ASSUME due # NoFrame, ~joined
                 PROVE  DueInv'
      BY <2>2 DEF DueInv
    <3>1. ~fov(tUartWait10ms)
      BY LengthAssumption DEF HostInv, DueInv, fov, Overflow,
         SilenceIsEnough, LongestWay
    <3>2. UNCHANGED receiver
      BY <3>1 DEF HostByte
    <3>3. quiet' <= due' /\ ~(timely' /\ hostAt' > 0)
      BY <1>2, <2>2 DEF HostInv, DueInv
    <3> QED BY <2>2, <3>2, <3>3 DEF HostInv, DueInv, Whole, start, receiver
  <2>4. outside' # "timely"
    BY <1>2 DEF HostByte, HostInv
  <2> QED BY <1>2, <2>1, <2>3, <2>4 DEF HostInv
<1> QED BY <1>1, <1>2

(* A tick takes the frame that has ended one step on, and leaves the one   *)
(* under way alone until the gap timer ends it.                            *)
LEMMA HostTimeKeeps ==
  ASSUME RxInv, HostInv, SilenceIsEnough, time1mshandle
  PROVE  HostInv'
<1>1. /\ tUartWait10ms' = Tick(tUartWait10ms)
      /\ quiet' = IF quiet < Quiet THEN quiet + 1 ELSE quiet
      /\ UNCHANGED <<onTime, hostAt, current, timely>>
      /\ due' = IF onTime /\ CommRxState = "cRxd" /\ Whole
                THEN NoFrame ELSE Aged(due, DueLimit)
  BY DEF time1mshandle
<1>2. onTime /\ ~tWifiSendData => RxTick /\ UNCHANGED tWifiSendData
  BY DEF time1mshandle, processuartdata, RxTick
<1>3. FrameInv'
  <2> SUFFICES ASSUME timely, hostAt > 0, quiet' <= MaxGap
               PROVE  FrameInv'
    BY <1>1 DEF FrameInv
  <2>1. quiet' = quiet + 1 /\ quiet \in 0 .. 3
    BY <1>1, LengthAssumption DEF RxInv, RxTypes, MaxGap, SilenceIsEnough,
       LongestWay, Quiet
  <2>2. /\ onTime /\ ~tWifiSendData /\ current
        /\ WifiDataCount = hostAt /\ WifiRxData = hostAt
        /\ CommRxState = "cRxdWait" /\ ~f_rxdataOK /\ fov(tUartWait10ms)
        /\ tWifitsfrmwt = C_T_tWifitsfrmwt - quiet
    BY <2>1 DEF HostInv, FrameInv, MaxGap
  <2>3. cRxdWait
    BY <1>2, <2>2 DEF RxTick, cRxdPrepare, cRxd, cRxdEnd
  <2>4. tWifitsfrmwt > 1
    BY <2>1, <2>2 DEF C_T_tWifitsfrmwt
  <2>5. Tick(tWifitsfrmwt) = tWifitsfrmwt - 1
    BY <2>4, TimersTick DEF RxInv
  <2>6. /\ tWifitsfrmwt' = tWifitsfrmwt - 1 /\ f_rxdataOK' = FALSE
        /\ CommRxState' = "cRxdWait"
        /\ UNCHANGED <<WifiRxData, WifiDataCount>>
    <3>1. ~fov(Tick(tWifitsfrmwt))
      BY <2>4, <2>5, TimersTick DEF RxInv, RxTypes, fov, Timer, Overflow,
                                    C_T_tWifitsfrmwt
    <3> QED BY <2>2, <2>3, <2>5, <3>1 DEF cRxdWait
  <2>7. fov(tUartWait10ms')
    BY <1>1, <2>2 DEF fov, Tick, Overflow
  <2> QED BY <1>1, <1>2, <2>1, <2>2, <2>6, <2>7 DEF FrameInv, C_T_tWifitsfrmwt
<1>4. DueInv'
  <2> SUFFICES ASSUME due' # NoFrame
               PROVE  DueInv'
    BY DEF DueInv
  <2>1. due # NoFrame
    BY <1>1 DEF Aged, NoFrame
  <2>2. due = 0
    BY <1>1, <2>1 DEF HostInv, DueInv
  <2>3. /\ quiet = 0 /\ Whole /\ onTime /\ ~tWifiSendData
        /\ ~(timely /\ hostAt > 0)
        /\ tUartWait10ms = C_T_tUartWait10ms
        /\ CommRxState = "cRxdWait" /\ f_rxdataOK
    BY <2>1, <2>2, LengthAssumption DEF HostInv, DueInv, RxInv, RxTypes, Quiet
  <2>4. cRxdWait
    BY <1>2, <2>3 DEF RxTick, cRxdPrepare, cRxd, cRxdEnd
  <2>5. CommRxState' = "cRxd" /\ UNCHANGED WifiRxData
    BY <2>3, <2>4 DEF cRxdWait
  <2>6. due' = 1 /\ quiet' <= 1
    BY <1>1, <2>2, <2>3 DEF Aged, DueLimit, Quiet
  <2>7. tUartWait10ms' = C_T_tUartWait10ms - 1
    BY <1>1, <2>3, TimersTick, LengthAssumption DEF RxInv, SilenceIsEnough,
       LongestWay
  <2> QED BY <1>1, <1>2, <2>3, <2>5, <2>6, <2>7 DEF DueInv, Whole
<1>5. UNCHANGED outside
  BY DEF time1mshandle
<1> QED BY <1>1, <1>3, <1>4, <1>5 DEF HostInv

LEMMA HostStepKeeps ==
  ASSUME SilenceIsEnough
  PROVE  RxInv /\ HostInv /\ [Next]_vars => HostInv'
<1> SUFFICES ASSUME RxInv, HostInv, [Next]_vars PROVE HostInv'
  OBVIOUS
<1>1. CASE Start
  <2>1. ~onTime /\ UNCHANGED <<tWifiSendData, timely, hostAt, due, outside>>
    BY <1>1 DEF Start
  <2>2. ~timely /\ due = NoFrame
    BY <2>1 DEF HostInv, DueInv
  <2> QED BY <2>1, <2>2 DEF HostInv, FrameInv, DueInv
<1>2. CASE Report \/ Heartbeat \/ Transmitted \/ UNCHANGED vars
  <2>1. UNCHANGED <<start, receiver, host>>
    BY <1>2 DEF Report, Heartbeat, Transmitted, vars
  <2> QED BY <2>1 DEF start, receiver, host, HostInv, FrameInv, DueInv, Whole
<1> QED BY <1>1, <1>2, HostByteKeeps, HostTimeKeeps DEF Next

(* A timely frame is stored within WifiRxData and is there, whole, and the *)
(* receive machine has taken it with the second tick after its last byte,  *)
(* unless bytes follow it in the same callback (uart_time.c, the gap       *)
(* timer, tUartWait10ms and processuartdata), whatever fragments, frames   *)
(* and bytes behind frames came before it, as long as none was stored      *)
(* behind the end of WifiRxData.  For every length of a frame and of the   *)
(* buffer and every width of the count, if the silence between frames is   *)
(* longer than the 13 ticks the machine may need to get ready.             *)
THEOREM FrameTaken ==
  ASSUME SilenceIsEnough
  PROVE  Spec => []FrameIsTaken
<1>1. RxInv /\ HostInv /\ [Next]_vars => HostInv'
  BY HostStepKeeps
<1>2. HostInv => FrameIsTaken
  BY DEF HostInv, DueInv, FrameIsTaken, DueLimit
<1> QED BY <1>1, <1>2, HostInitially, RxInvariance, PTL DEF Spec

------------------------------------------------------------------------------
(* The transmit machine.                                                   *)

(* What a call of sendPendingData does: it takes nothing into the queue,   *)
(* the driver never holds more than it has room for, and a driver that has *)
(* room for a chunk is given one, if there is anything to send.            *)
ChunkFits == DriverBuffer >= SERIAL_RX_DATA_LENGTH

LEMMA SendEffect ==
  ASSUME NEW length \in 0 .. QueueSize, NEW inDriver \in 0 .. DriverBuffer,
         sendPendingData(length, inDriver)
  PROVE  /\ queued' \in 0 .. length
         /\ busy' \in 0 .. DriverBuffer
         /\ tWifiTwoByteSentTime' = C_T_WifiTwoByteSentTime
         /\ ChunkFits /\ busy' = 0 => queued' = 0
<1> DEFINE size == IF length > SERIAL_RX_DATA_LENGTH
                   THEN SERIAL_RX_DATA_LENGTH ELSE length
           needed == IF length = 0 THEN 0 ELSE (length + size - 1) \div size
           room == IF length = 0 THEN 0
                   ELSE (DriverBuffer - inDriver) \div size
           chunks == IF needed < room THEN needed ELSE room
           out == chunks * size
<1>1. /\ queued' = IF out > length THEN 0 ELSE length - out
      /\ busy' = inDriver + out
      /\ tWifiTwoByteSentTime' = C_T_WifiTwoByteSentTime
  BY DEF sendPendingData
<1>2. /\ DriverBuffer \in Nat /\ inDriver \in Nat /\ inDriver <= DriverBuffer
      /\ length \in Nat
  BY LoadAssumption
<1>3. CASE length = 0
  <2>1. out = 0
    BY <1>3 DEF SERIAL_RX_DATA_LENGTH
  <2> HIDE DEF out
  <2> QED BY <1>1, <1>2, <1>3, <2>1
<1>4. CASE length # 0
  <2>1. /\ out \in Nat /\ inDriver + out <= DriverBuffer
        /\ ChunkFits /\ inDriver = 0 => out > 0
    <3>1. CASE length = 1
      BY <1>2, <3>1 DEF SERIAL_RX_DATA_LENGTH, ChunkFits
    <3>2. CASE length = 2
      BY <1>2, <3>2 DEF SERIAL_RX_DATA_LENGTH, ChunkFits
    <3>3. CASE length >= 3
      <4>1. size = 3
        BY <3>3 DEF SERIAL_RX_DATA_LENGTH
      <4>2. /\ needed = (length + 2) \div 3 /\ needed \in Nat
            /\ room = (DriverBuffer - inDriver) \div 3 /\ room \in Nat
        BY <1>2, <1>4, <3>3, <4>1
      <4> HIDE DEF size
      <4> QED BY <1>2, <3>3, <4>1, <4>2 DEF SERIAL_RX_DATA_LENGTH, ChunkFits
    <3> QED BY <1>2, <1>4, <3>1, <3>2, <3>3
  <2> HIDE DEF out
  <2> QED BY <1>1, <1>2, <1>4, <2>1
<1> QED BY <1>3, <1>4

(* The queue never holds more than it has room for.                        *)
LEMMA QueuedFits ==
  ASSUME NEW n \in ReportSize \cup {0, HeartbeatSize},
         queued \in 0 .. QueueSize
  PROVE  Queued(n) \in 0 .. QueueSize
<1>1. n \in Nat
  BY LoadAssumption DEF HeartbeatSize
<1> QED BY <1>1, LoadAssumption DEF Queued

(* The ticks of the 4 ms base.                                             *)
LEMMA Ticks4ms ==
  ASSUME m4msCount \in 0 .. 3, twifitstxcyc \in Timer(C_T_wifitstxcyc)
  PROVE  /\ Count4ms \in 0 .. 3
         /\ m4msCount < 3 => Count4ms = m4msCount + 1
         /\ m4msCount = 3 => Count4ms = 0
         /\ Ticked4ms \in Timer(C_T_wifitstxcyc)
         /\ twifitstxcyc # Idle => Ticked4ms # Idle
         /\ twifitstxcyc # Idle /\ m4msCount = 3 => fov(Ticked4ms)
  BY DEF Count4ms, Ticked4ms, Timer, Tick, Overflow, Idle, fov, C_T_wifitstxcyc

LEMMA TxInitially == Init => TxTypes
<1> SUFFICES ASSUME Init PROVE TxTypes
  OBVIOUS
<1>1. /\ tWifiTwoByteSentTime \in Timer(C_T_WifiTwoByteSentTime)
      /\ twifitstxcyc \in Timer(C_T_wifitstxcyc)
  BY DEF Init, Timer, Idle, Overflow, C_T_WifiTwoByteSentTime, C_T_wifitstxcyc
<1>2. tHeartPack5s \in BOOLEAN
  BY Zenon DEF Init
<1>3. /\ CommState = "cTxdPrepare" /\ UartTxDataType = "none"
      /\ WifiTxData = 0 /\ busy = 0 /\ m4msCount = 0
      /\ queued = 0
  BY DEF Init
<1> QED BY <1>1, <1>2, <1>3, LoadAssumption DEF TxTypes

LEMMA TransmittedKeepsTypes ==
  ASSUME TxTypes, Transmitted
  PROVE  TxTypes'
<1>1. /\ queued' \in 0 .. QueueSize /\ busy' \in 0 .. DriverBuffer
      /\ tWifiTwoByteSentTime' \in Timer(C_T_WifiTwoByteSentTime)
  <2>1. CASE uartTxDataCallback
    <3>1. 0 \in 0 .. DriverBuffer /\ QueueSize \in Nat
      BY LoadAssumption
    <3>2. C_T_WifiTwoByteSentTime \in Timer(C_T_WifiTwoByteSentTime)
      BY DEF Timer, Overflow, C_T_WifiTwoByteSentTime
    <3>3. /\ queued' \in 0 .. queued /\ busy' \in 0 .. DriverBuffer
          /\ tWifiTwoByteSentTime' = C_T_WifiTwoByteSentTime
      BY <2>1, <3>1, SendEffect DEF TxTypes, uartTxDataCallback
    <3> QED BY <3>1, <3>2, <3>3 DEF TxTypes
  <2>2. CASE DriverSends
    BY <2>2, LoadAssumption DEF TxTypes, DriverSends
  <2> QED BY <2>1, <2>2 DEF Transmitted
<1>2. UNCHANGED transmitter
  BY DEF Transmitted
<1> QED BY <1>1, <1>2 DEF TxTypes, transmitter

(* A step of the transmit machine.                                         *)
TxTick == cTxdPrepare \/ cTxd \/ cTxdEnd

LEMMA TxTickKeepsTypes ==
  ASSUME TxTypes, m4msCount' = Count4ms,
         TxTick \/ (TimersOnly /\ CommState' \in {CommState, "cTxdPrepare"})
  PROVE  TxTypes'
<1>1. /\ Count4ms \in 0 .. 3
      /\ Ticked4ms \in Timer(C_T_wifitstxcyc)
      /\ Tick(tWifiTwoByteSentTime) \in Timer(C_T_WifiTwoByteSentTime)
  BY Ticks4ms, TickKeeps DEF TxTypes, C_T_WifiTwoByteSentTime
<1>2. CASE cTxdPrepare
  BY <1>1, <1>2 DEF cTxdPrepare, TxTypes
<1>3. CASE cTxd
  <2>1. /\ queued' \in 0 .. QueueSize /\ busy' \in 0 .. DriverBuffer
        /\ tWifiTwoByteSentTime' = C_T_WifiTwoByteSentTime
    <3>1. Queued(WifiTxData) \in 0 .. QueueSize
      BY QueuedFits DEF TxTypes
    <3>2. sendPendingData(Queued(WifiTxData), busy)
      BY <1>3 DEF cTxd
    <3>3. queued' \in 0 .. Queued(WifiTxData)
      BY <3>1, <3>2, SendEffect DEF TxTypes
    <3> HIDE DEF Queued
    <3> QED BY <3>1, <3>2, <3>3, SendEffect, LoadAssumption DEF TxTypes
  <2>2. /\ C_T_WifiTwoByteSentTime \in Timer(C_T_WifiTwoByteSentTime)
        /\ C_T_wifitstxcyc \in Timer(C_T_wifitstxcyc)
    BY DEF Timer, Overflow, C_T_WifiTwoByteSentTime, C_T_wifitstxcyc
  <2> QED BY <1>1, <1>3, <2>1, <2>2 DEF cTxd, TxTypes
<1>4. CASE cTxdEnd
  BY <1>1, <1>4 DEF cTxdEnd, TxTypes
<1>5. CASE TimersOnly /\ CommState' \in {CommState, "cTxdPrepare"}
  BY <1>1, <1>5 DEF TimersOnly, TxTypes
<1> QED BY <1>2, <1>3, <1>4, <1>5 DEF TxTick

(* What a millisecond brings the transmit machine.                         *)
LEMMA TxTime ==
  ASSUME time1mshandle
  PROVE  /\ m4msCount' = Count4ms
         /\ UNCHANGED <<sides, onTime, requests>>
         /\ onTime /\ ~tWifiSendData => TxTick /\ tWifiSendData' = tWifiSendData
         /\ onTime /\ tWifiSendData =>
              TimersOnly /\ CommState' = "cTxdPrepare" /\ tWifiSendData' = FALSE
         /\ ~onTime => /\ TimersOnly /\ CommState' = CommState
                       /\ tWifiSendData' = tWifiSendData
  BY DEF time1mshandle, processuartdata, TxTick

LEMMA TxStepKeeps == TxTypes /\ [Next]_vars => TxTypes'
<1> SUFFICES ASSUME TxTypes, [Next]_vars PROVE TxTypes'
  OBVIOUS
<1>1. CASE \/ Start \/ UNCHANGED vars
           \/ \E at \in 0 .. HostLen - 1, joined \in BOOLEAN :
                HostByte(at, joined)
  <2>1. UNCHANGED <<queue, transmitter>>
    BY <1>1 DEF Start, HostByte, vars
  <2> QED BY <2>1 DEF queue, transmitter, TxTypes
<1>2. CASE Report \/ Heartbeat
  BY <1>2 DEF Report, Heartbeat, queue, TxTypes
<1>3. CASE Transmitted
  BY <1>3, TransmittedKeepsTypes
<1>4. CASE time1mshandle
  <2>1. TxTick \/ (TimersOnly /\ CommState' \in {CommState, "cTxdPrepare"})
    <3>1. CASE onTime /\ ~tWifiSendData
      BY <1>4, <3>1, TxTime, Zenon
    <3>2. CASE ~(onTime /\ ~tWifiSendData)
      BY <1>4, <3>2, TxTime, Zenon
    <3> QED BY <3>1, <3>2
  <2>2. m4msCount' = Count4ms
    BY <1>4, TxTime
  <2> QED BY <2>1, <2>2, TxTickKeepsTypes
<1> QED BY <1>1, <1>2, <1>3, <1>4 DEF Next

LEMMA TxTypesHold == Spec => []TxTypes
  BY TxInitially, TxStepKeeps, PTL DEF Spec

(* Every variable of the bridge keeps its type: above all, the bar against *)
(* a frame too early always has an end, and neither the queue nor the      *)
(* driver is ever given more than it has room for (uart_time.c).  Of       *)
(* WifiDataCount only the width of the code's byte is claimed, not that it *)
(* stays within WifiRxData.                                                *)
THEOREM TypeCorrect == Spec => []TypeOK
<1>1. RxInv /\ TxTypes => TypeOK
  BY DEF RxInv, RxTypes, TxTypes, TypeOK
<1> QED BY <1>1, RxInvariance, TxTypesHold, PTL

(* The machine runs from where it was initialised, its pause has an end in *)
(* sight, and what waits is a report.                                      *)
TxInv ==
  /\ tWifiSendData => CommState = "cTxdPrepare"
  /\ CommState = "cTxdEnd" => tWifiTwoByteSentTime # Idle /\ twifitstxcyc # Idle
  /\ waits # NoFrame => waits \in Nat /\ onTime /\ UartTxDataType = "report"

LEMMA TxInvInitially == Init => TxInv
  BY DEF Init, TxInv

LEMMA TxTimeKeeps ==
  ASSUME RxInv, TxTypes, TxInv, time1mshandle
  PROVE  TxInv'
<1>1. UNCHANGED onTime
  BY TxTime
<1>2. CASE onTime /\ ~tWifiSendData
  <2>1. TxTick /\ tWifiSendData' = tWifiSendData
    BY <1>2, TxTime
  <2>2. CASE cTxdPrepare
    <3>1. waits' = NoFrame
      BY <2>2 DEF cTxdPrepare, nextReport, TxInv, Aged, NoFrame
    <3>2. CommState' # "cTxdEnd" /\ ~tWifiSendData'
      BY <1>2, <2>1, <2>2 DEF cTxdPrepare
    <3> QED BY <3>1, <3>2 DEF TxInv
  <2>3. CASE cTxd
    <3>1. tWifiTwoByteSentTime' = C_T_WifiTwoByteSentTime
      BY <2>3 DEF cTxd, sendPendingData
    <3> QED BY <1>1, <1>2, <2>1, <2>3, <3>1
            DEF cTxd, TxInv, Aged, NoFrame, Idle, C_T_WifiTwoByteSentTime,
                C_T_wifitstxcyc
  <2>4. CASE cTxdEnd
    <3>1. tWifiTwoByteSentTime' # Idle /\ twifitstxcyc' # Idle
      BY <2>4, Ticks4ms, TickKeeps DEF cTxdEnd, TxInv, TxTypes,
         C_T_WifiTwoByteSentTime
    <3> QED BY <1>1, <1>2, <2>1, <2>4, <3>1 DEF cTxdEnd, TxInv, Aged, NoFrame
  <2> QED BY <2>1, <2>2, <2>3, <2>4 DEF TxTick
<1>3. CASE ~(onTime /\ ~tWifiSendData)
  <2>1. TimersOnly /\ CommState' = "cTxdPrepare"
    BY <1>3, TxTime DEF RxInv, TxInv
  <2> QED BY <1>1, <2>1 DEF TimersOnly, TxInv, Aged, NoFrame
<1> QED BY <1>2, <1>3

LEMMA TxInvStep == RxInv /\ TxTypes /\ TxInv /\ [Next]_vars => TxInv'
<1> SUFFICES ASSUME RxInv, TxTypes, TxInv, [Next]_vars PROVE TxInv'
  OBVIOUS
<1>1. CASE Start
  <2>1. /\ UNCHANGED <<tWifiSendData, queue, transmitter>>
        /\ onTime' = TRUE
        /\ waits' = IF UartTxDataType = "none" THEN waits ELSE 0
    BY <1>1 DEF Start
  <2> QED BY <2>1 DEF TxInv, TxTypes, queue, transmitter
<1>2. CASE \/ \E at \in 0 .. HostLen - 1, joined \in BOOLEAN :
                HostByte(at, joined)
           \/ UNCHANGED vars
  <2>1. UNCHANGED <<start, queue, transmitter, mesh>>
    BY <1>2 DEF HostByte, vars
  <2> QED BY <2>1 DEF start, queue, transmitter, mesh, TxInv
<1>3. CASE Report \/ Heartbeat
  BY <1>3 DEF Report, Heartbeat, start, queue, TxInv, TxTypes, NoFrame
<1>4. CASE Transmitted
  <2>1. UNCHANGED <<start, transmitter, waits>>
    BY <1>4 DEF Transmitted
  <2>2. \/ tWifiTwoByteSentTime' = C_T_WifiTwoByteSentTime
        \/ UNCHANGED tWifiTwoByteSentTime
    BY <1>4 DEF Transmitted, DriverSends, uartTxDataCallback, sendPendingData
  <2> QED BY <2>1, <2>2
          DEF start, transmitter, TxInv, Idle, C_T_WifiTwoByteSentTime
<1> QED BY <1>1, <1>2, <1>3, <1>4, TxTimeKeeps DEF Next

LEMMA TxInvariance == Spec => [](RxInv /\ TxTypes /\ TxInv)
<1>1. RxInv /\ TxTypes /\ TxInv /\ [Next]_vars => TxInv'
  BY TxInvStep
<1> QED BY <1>1, TxInvInitially, RxInvariance, TxTypesHold, PTL DEF Spec

------------------------------------------------------------------------------
(* How long a report waits.                                                *)

(* Ticks until the machine takes the next report at the latest: the end of *)
(* its pause comes with the tick of the 4 ms timers, whatever the driver   *)
(* does.                                                                   *)
Ahead ==
  IF CommState = "cTxd" THEN 5 - Count4ms
  ELSE IF CommState = "cTxdEnd" THEN 4 - m4msCount
  ELSE IF tWifiSendData THEN 1 ELSE 0

WaitInv == waits # NoFrame => waits + Ahead <= WaitLimit - 1

LEMMA WaitTime ==
  ASSUME RxInv, TxTypes, TxInv, WaitInv, time1mshandle
  PROVE  WaitInv'
<1> SUFFICES ASSUME waits' # NoFrame
             PROVE  waits' + Ahead' <= WaitLimit - 1
  BY DEF WaitInv
<1>1. m4msCount' = Count4ms /\ UNCHANGED onTime
  BY TxTime
<1>2. CASE onTime /\ ~tWifiSendData
  <2>1. TxTick /\ tWifiSendData' = FALSE
    BY <1>2, TxTime DEF RxInv, RxTypes
  <2>2. CASE cTxdPrepare
    <3>1. waits = NoFrame
      BY <2>2 DEF cTxdPrepare, nextReport, TxInv
    <3> QED BY <2>2, <3>1 DEF cTxdPrepare, Aged, NoFrame
  <2>3. CASE cTxd
    <3>1. /\ waits \in Nat /\ waits + (5 - Count4ms) <= 5
          /\ waits' = Aged(waits, WaitLimit)
          /\ CommState' = "cTxdEnd"
      BY <2>3 DEF cTxd, TxInv, WaitInv, Ahead, Aged, NoFrame,
                  WaitLimit
    <3>2. Count4ms \in 0 .. 3
      BY Ticks4ms DEF TxTypes
    <3> QED BY <1>1, <3>1, <3>2 DEF Ahead, Aged, WaitLimit
  <2>4. CASE cTxdEnd
    <3>1. /\ waits \in Nat /\ waits + (4 - m4msCount) <= 5
          /\ waits' = Aged(waits, WaitLimit)
          /\ CommState' \in {"cTxdPrepare", "cTxdEnd"}
          /\ fov(Ticked4ms) => CommState' = "cTxdPrepare"
      BY <2>4 DEF cTxdEnd, TxInv, WaitInv, Ahead, Aged,
                  NoFrame, WaitLimit
    <3>2. /\ m4msCount \in 0 .. 3
          /\ m4msCount < 3 => Count4ms = m4msCount + 1
          /\ m4msCount = 3 => CommState' = "cTxdPrepare"
      BY <2>4, <3>1, Ticks4ms DEF cTxdEnd, TxTypes, TxInv
    <3> QED BY <1>1, <2>1, <3>1, <3>2 DEF Ahead, Aged, WaitLimit
  <2> QED BY <2>1, <2>2, <2>3, <2>4 DEF TxTick
<1>3. CASE ~(onTime /\ ~tWifiSendData)
  <2>1. TimersOnly /\ waits' = Aged(waits, WaitLimit)
    BY <1>3, TxTime DEF TimersOnly
  <2>2. waits # NoFrame
    BY <2>1 DEF Aged, NoFrame
  <2>3. /\ onTime /\ tWifiSendData /\ CommState = "cTxdPrepare"
        /\ waits \in Nat /\ waits + 1 <= WaitLimit - 1
    BY <1>3, <2>2 DEF TxInv, WaitInv, Ahead, RxInv, RxTypes
  <2>4. CommState' = "cTxdPrepare" /\ ~tWifiSendData'
    BY <2>3, TxTime
  <2> QED BY <2>1, <2>3, <2>4 DEF Ahead, Aged, WaitLimit
<1> QED BY <1>2, <1>3

LEMMA WaitStep ==
  RxInv /\ TxTypes /\ TxInv /\ WaitInv /\ [Next]_vars => WaitInv'
<1> SUFFICES ASSUME RxInv, TxTypes, TxInv, WaitInv, [Next]_vars
             PROVE  WaitInv'
  OBVIOUS
<1>1. Ahead \in 0 .. WaitLimit - 1
  BY Ticks4ms DEF TxTypes, Ahead, WaitLimit
<1>2. CASE /\ UNCHANGED <<tWifiSendData, CommState, m4msCount>>
           /\ waits' \in {waits, 0}
  <2>1. Ahead' = Ahead
    BY <1>2 DEF Ahead, Count4ms
  <2> QED BY <1>1, <1>2, <2>1 DEF WaitInv, WaitLimit
<1>3. CASE \/ Start \/ Report \/ Heartbeat \/ Transmitted \/ UNCHANGED vars
           \/ \E at \in 0 .. HostLen - 1, joined \in BOOLEAN :
                HostByte(at, joined)
  BY <1>2, <1>3 DEF Start, Report, Heartbeat, Transmitted, HostByte, vars,
     start, transmitter, mesh
<1> QED BY <1>3, WaitTime DEF Next

(* A report is taken from BLE_RX_DATA with the sixth tick after it was     *)
(* asked for at the latest, behind the report before it and its pause but  *)
(* never behind a heartbeat, however much else is queued, however long the *)
(* reports are and whatever the driver has room for (uart_time.c, the      *)
(* transmit machine: the tick of the 4 ms timer ends the pause of the      *)
(* report before).                                                         *)
THEOREM ReportTaken == Spec => []ReportIsTaken
<1>1. Init => WaitInv
  BY DEF Init, WaitInv
<1>2. RxInv /\ TxTypes /\ TxInv /\ WaitInv /\ [Next]_vars => WaitInv'
  BY WaitStep
<1>3. RxInv /\ TxTypes /\ TxInv /\ WaitInv => ReportIsTaken
  <2> SUFFICES ASSUME TxTypes, TxInv, WaitInv, waits # NoFrame
               PROVE  waits \in 0 .. WaitLimit - 1
    BY DEF ReportIsTaken
  <2>1. Ahead \in Nat
    BY Ticks4ms DEF TxTypes, Ahead
  <2> QED BY <2>1 DEF TxInv, WaitInv, WaitLimit
<1> QED BY <1>1, <1>2, <1>3, TxInvariance, PTL DEF Spec

------------------------------------------------------------------------------
(* What the queue of an idle driver holds.                                 *)

LEMMA NothingStaysStep ==
  ASSUME ChunkFits
  PROVE  RxInv /\ TxTypes /\ NothingStays /\ [Next]_vars => NothingStays'
<1> SUFFICES ASSUME RxInv, TxTypes, NothingStays, [Next]_vars
             PROVE  NothingStays'
  OBVIOUS
<1>1. CASE UNCHANGED <<queued, busy>>
  BY <1>1 DEF NothingStays
<1>2. CASE Transmitted
  <2>1. CASE DriverSends
    <3>1. busy' # 0
      BY <2>1 DEF DriverSends
    <3> QED BY <3>1 DEF NothingStays
  <2>2. CASE uartTxDataCallback
    <3>1. 0 \in 0 .. DriverBuffer
      BY LoadAssumption
    <3> QED BY <2>2, <3>1, SendEffect
            DEF TxTypes, NothingStays, uartTxDataCallback
  <2> QED BY <1>2, <2>1, <2>2 DEF Transmitted
<1>3. CASE time1mshandle
  <2>1. TxTick \/ TimersOnly
    BY <1>3, TxTime DEF RxInv, RxTypes
  <2>2. CASE cTxdPrepare \/ cTxdEnd \/ TimersOnly
    BY <1>1, <2>2 DEF cTxdPrepare, cTxdEnd, TimersOnly
  <2>3. CASE cTxd
    <3>1. Queued(WifiTxData) \in 0 .. QueueSize
      BY QueuedFits DEF TxTypes
    <3> QED BY <2>3, <3>1, SendEffect DEF TxTypes, NothingStays, cTxd
  <2> QED BY <2>1, <2>2, <2>3 DEF TxTick
<1>4. CASE \/ Start \/ Report \/ Heartbeat \/ UNCHANGED vars
           \/ \E at \in 0 .. HostLen - 1, joined \in BOOLEAN :
                HostByte(at, joined)
  BY <1>1, <1>4 DEF Start, Report, Heartbeat, HostByte, vars, queue
<1> QED BY <1>2, <1>3, <1>4 DEF Next

(* What the driver had no room for does not stay in the queue when the     *)
(* driver is idle (uart_time.c, sendPendingData and uartTxDataCallback),   *)
(* for reports of any size and at any load, as long as an empty driver has *)
(* room for a chunk (64 bytes against 30).                                 *)
THEOREM QueueIsEmptied ==
  ASSUME ChunkFits
  PROVE  Spec => []NothingStays
<1>1. Init => NothingStays
  BY DEF Init, NothingStays
<1>2. RxInv /\ TxTypes /\ NothingStays /\ [Next]_vars => NothingStays'
  BY NothingStaysStep
<1> QED BY <1>1, <1>2, TxInvariance, PTL DEF Spec
=============================================================================
