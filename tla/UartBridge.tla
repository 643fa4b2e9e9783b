----------------------------- MODULE UartBridge -----------------------------
(***************************************************************************)
(* The byte level of the UART (uart_time.c): the receive machine, which    *)
(* puts the bytes of the host together into frames, and the transmit       *)
(* machine, which queues reports and hands them to the UART driver.  Both  *)
(* are driven by time1mshandle, once per millisecond, and by the callbacks *)
(* of the driver in between.                                               *)
(*                                                                         *)
(* Of WifiRxData the model keeps how many of its first bytes are, in their *)
(* places, the first bytes of one frame of the host.  Nothing keeps the    *)
(* receive callback from storing behind the end of WifiRxData: what such a *)
(* byte overwrites depends on the linker and is not modelled; `outside`    *)
(* tells that it happened.  Lengths are scaled down: the length byte of a  *)
(* frame has place LengthAt (5 in the code), and sizes of reports, of the  *)
(* queue and its chunks and of the driver's buffer are in units of ten     *)
(* bytes.                                                                  *)
(***************************************************************************)
EXTENDS Integers, SoftTimer

CONSTANTS
  LengthAt,       \* place of the length byte
  HostLen,        \* bytes of a frame of the host
  WifiRxDataSize, \* cells of WifiRxData, 40
  CountModulus,   \* values of the byte WifiDataCount, 256
  C_T_tUartWait10ms, \* ticks after a frame without reception, 20
  ReportSize,     \* sizes a report may have
  QueueSize,      \* room in the queue to the UART
  DriverBuffer,   \* room in the transmit buffer of the driver
  Requests,       \* reports asked for before all others have been sent
  Sides           \* which sides of the bridge may be busy

ASSUME LengthAssumption ==
  /\ LengthAt \in Nat /\ C_T_tUartWait10ms \in Nat \ {0}
  /\ HostLen \in Nat /\ WifiRxDataSize \in Nat
  /\ HostLen > LengthAt + 1 /\ WifiRxDataSize >= HostLen
  /\ CountModulus \in Nat /\ CountModulus > WifiRxDataSize
ASSUME LoadAssumption ==
  /\ ReportSize \subseteq Nat \ {0}
  /\ QueueSize \in Nat /\ DriverBuffer \in Nat /\ Requests \in Nat
ASSUME SideAssumption == Sides \subseteq SUBSET {"host", "mesh"}

VARIABLES
  sides,                  \* the sides that are busy in this behaviour
  onTime,                 \* tOnTimeWait3s has overflowed
  tWifiSendData,          \* its overflow, which the first run consumes
  CommRxState, WifiRxData, WifiDataCount, f_rxdataOK,
  tUartWait10ms, tWifitsfrmwt, tWifi2mscyc,
  CommState, UartTxDataType, tHeartPack5s, WifiTxData,
  queued,                 \* units in the queue to the UART
  busy,                   \* units in the driver
  tWifiTwoByteSentTime, twifitstxcyc, m4msCount,
  hostAt,                 \* the next byte of the frame the host is sending
  current,                \* that frame is the one WifiRxData begins with
  quiet,                  \* history: milliseconds since its last byte
  timely,                 \* history: this frame began and went on in time
  due,                    \* history: milliseconds since a timely frame ended
  inCallback,             \* the callback that stored the last byte goes on
  outside,                \* history: whose byte was the first one stored
                          \* behind the end of WifiRxData
  requests,               \* reports asked for since everything was sent
  waits,                  \* history: milliseconds a report has waited
  padding                 \* history: bytes were sent that no report contains

start == <<onTime, tWifiSendData>>
receiver == <<CommRxState, WifiRxData, WifiDataCount, f_rxdataOK,
              tUartWait10ms, tWifitsfrmwt, tWifi2mscyc>>
queue == <<queued, busy, padding, tWifiTwoByteSentTime>>
transmitter == <<CommState, UartTxDataType, tHeartPack5s, WifiTxData,
                 twifitstxcyc, m4msCount>>
host == <<hostAt, current, quiet, timely, due, outside>>
mesh == <<requests, waits>>
vars == <<sides, start, receiver, queue, transmitter, host, inCallback, mesh>>

C_T_WifiTwoByteSentTime == 2
C_T_wifitstxcyc == 1
C_T_Wifi2mscyc == 4
(* Mutant: a gap of four milliseconds ends a frame.                        *)
frmwt_short == 4
C_T_tWifitsfrmwt == 5
SERIAL_RX_DATA_LENGTH == 3
HeartbeatSize == 2

Quiet == C_T_tUartWait10ms
MaxGap == 4
DueLimit == 2
WaitLimit == 6
Aged(age, limit) == IF age \in 0 .. limit THEN age + 1 ELSE age
NoFrame == -1
Cleared == -1

------------------------------------------------------------------------------
(* Frames from the host.                                                   *)

(* The number of bytes a frame is taken to have is read from the place of  *)
(* the length byte; another byte there may mean anything.  It is compared  *)
(* from LengthAt + 2 bytes on, so that smaller numbers are the same.       *)
Totals(data) == IF data > LengthAt THEN {HostLen}
                                   ELSE LengthAt + 2 .. CountModulus + 2

barred(complete) ==
  IF complete THEN C_T_tUartWait10ms ELSE tUartWait10ms

(* The byte is stored at WifiDataCount; fits says that it goes on with the *)
(* frame WifiRxData begins with.                                           *)
stored(fits) ==
  CASE fits -> WifiDataCount + 1
    [] ~fits /\ WifiRxData > WifiDataCount -> WifiDataCount
    [] ~fits /\ WifiRxData = Cleared /\ WifiDataCount < WifiRxDataSize -> 0
    [] OTHER -> WifiRxData

(* One turn of the loop, which stores a byte wherever WifiDataCount is.    *)
counted == (WifiDataCount + 1) % CountModulus

uartRxDataCallback(fits) ==
  /\ WifiRxData' = stored(fits)
  /\ \E total \in Totals(WifiRxData') :
       LET complete == WifiDataCount > LengthAt /\ counted >= total
       IN /\ WifiDataCount' = IF complete THEN 0 ELSE counted
          /\ f_rxdataOK' = (f_rxdataOK \/ complete)
          /\ tUartWait10ms' = barred(complete)
  /\ tWifitsfrmwt' = C_T_tWifitsfrmwt
  /\ UNCHANGED <<CommRxState, tWifi2mscyc>>

(* The host sends the next byte of its frame, or gives the frame up and    *)
(* begins another.  A callback brings one byte or several: the bar against *)
(* frames too early is looked at with its first byte only, and those that  *)
(* joined it are stored even behind a frame it has completed.              *)
HostByte(at, joined) ==
  LET goesOn == at > 0
      fits == /\ at = WifiDataCount
              /\ goesOn => current /\ WifiRxData = at
      inTime == IF goesOn THEN timely /\ quiet <= MaxGap
                          ELSE onTime /\ quiet >= Quiet
      taken == fov(tUartWait10ms) \/ joined
      behind == taken /\ WifiDataCount >= WifiRxDataSize
  IN /\ "host" \in sides
     /\ at \in {0, hostAt} /\ (joined => inCallback)
     /\ IF taken
        THEN /\ uartRxDataCallback(fits)
             /\ current' = (fits \/ (goesOn /\ current))
        ELSE UNCHANGED receiver /\ current' = (goesOn /\ current)
     /\ inCallback' = taken
     /\ hostAt' = (at + 1) % HostLen
     /\ quiet' = 0
     /\ timely' = inTime
     /\ due' = CASE inTime /\ at = HostLen - 1 -> 0
                 [] ~(inTime /\ at = HostLen - 1) /\ joined -> NoFrame
                 [] OTHER -> due
     /\ outside' = CASE ~behind \/ outside # "no" -> outside
                     [] behind /\ outside = "no" ->
                          IF inTime THEN "timely" ELSE "stray"
     /\ UNCHANGED <<sides, start, queue, transmitter, mesh>>

(* WifiRxdCheck_New: a frame of the host passes, a mixture of bytes may.   *)
Whole == WifiRxData = HostLen
WifiRxdCheckOk == CASE Whole -> {TRUE}
                    [] WifiRxData = Cleared -> {FALSE}
                    [] OTHER -> BOOLEAN

cRxdPrepare ==
  /\ CommRxState = "cRxdPrepare"
  /\ CommRxState' = "cRxdWait"
  /\ WifiRxData' = Cleared
  /\ WifiDataCount' = 0
  /\ tWifitsfrmwt' = Idle
  /\ tWifi2mscyc' = Tick(tWifi2mscyc)
  /\ UNCHANGED f_rxdataOK

(* The state after a complete frame, after a gap, or unchanged.            *)
cRxdWait ==
  /\ CommRxState = "cRxdWait"
  /\ f_rxdataOK' = FALSE
  /\ CommRxState' = CASE f_rxdataOK -> "cRxd"
                      [] ~f_rxdataOK /\ fov(Tick(tWifitsfrmwt)) -> "cRxdPrepare"
                      [] OTHER -> "cRxdWait"
  /\ tWifitsfrmwt' = Tick(tWifitsfrmwt)
  /\ tWifi2mscyc' = Tick(tWifi2mscyc)
  /\ UNCHANGED <<WifiRxData, WifiDataCount>>

cRxd ==
  /\ CommRxState = "cRxd"
  /\ \E ok \in WifiRxdCheckOk :
       /\ CommRxState' = IF ok THEN "cRxdEnd" ELSE "cRxdPrepare"
       /\ tWifi2mscyc' = IF ok THEN C_T_Wifi2mscyc ELSE Tick(tWifi2mscyc)
  /\ tWifitsfrmwt' = Tick(tWifitsfrmwt)
  /\ UNCHANGED <<WifiRxData, WifiDataCount, f_rxdataOK>>

cRxdEnd ==
  /\ CommRxState = "cRxdEnd"
  /\ CommRxState' = IF fov(Tick(tWifi2mscyc)) THEN "cRxdPrepare" ELSE "cRxdEnd"
  /\ tWifitsfrmwt' = Tick(tWifitsfrmwt)
  /\ tWifi2mscyc' = Tick(tWifi2mscyc)
  /\ UNCHANGED <<WifiRxData, WifiDataCount, f_rxdataOK>>

------------------------------------------------------------------------------
(* Reports to the host.                                                    *)

(* The loop of sendPendingData: every chunk has the size the queue gave    *)
(* at first, and the loop ends with the queue or with a chunk the driver   *)
(* has no room for.  What the last chunk has more than the queue is        *)
(* whatever the buffer held.                                               *)
sendPendingData(length, inDriver) ==
  LET size == IF length > SERIAL_RX_DATA_LENGTH
                THEN SERIAL_RX_DATA_LENGTH ELSE length
      needed == IF length = 0 THEN 0 ELSE (length + size - 1) \div size
      room == IF length = 0 THEN 0 ELSE (DriverBuffer - inDriver) \div size
      chunks == IF needed < room THEN needed ELSE room
      sent == chunks * size
  IN /\ queued' = IF sent > length THEN 0 ELSE length - sent
     /\ padding' = (padding \/ sent > length)
     /\ busy' = inDriver + sent
     /\ tWifiTwoByteSentTime' = C_T_WifiTwoByteSentTime

(* BQSafeQueueBytes: a report the queue has no room for is not queued.     *)
Queued(size) == IF queued + size <= QueueSize THEN queued + size ELSE queued

(* The driver has sent some of what it holds; with the last of it, it      *)
(* calls uartTxDataCallback.                                               *)
DriverSends ==
  /\ busy' \in 1 .. busy - 1
  /\ UNCHANGED <<queued, padding, tWifiTwoByteSentTime, requests>>
AllSent == /\ queued = 0 /\ UartTxDataType = "none"
           /\ ~tHeartPack5s /\ CommState # "cTxd"
(* Mutant: the callback only begins the pause.                             *)
uartTxDataCallback_pause ==
  /\ busy' = 0 /\ tWifiTwoByteSentTime' = C_T_WifiTwoByteSentTime
  /\ UNCHANGED <<queued, padding>>
uartTxDataCallback == sendPendingData(queued, 0)

Transmitted ==
  /\ busy > 0
  /\ \/ DriverSends
     \/ uartTxDataCallback /\ requests' = IF AllSent THEN 0 ELSE requests
  /\ inCallback' = FALSE
  /\ UNCHANGED <<sides, start, receiver, transmitter, host, waits>>

(* A message has come whole (data_model_handler.c).                        *)
Report ==
  /\ "mesh" \in sides /\ requests < Requests
  /\ UartTxDataType' = "report"
  /\ requests' = requests + 1
  /\ waits' = IF onTime /\ UartTxDataType = "none" THEN 0 ELSE waits
  /\ inCallback' = FALSE
  /\ UNCHANGED <<sides, start, receiver, queue, CommState, tHeartPack5s,
                 WifiTxData, twifitstxcyc, m4msCount, host>>

(* The time of the next heartbeat has come.                                *)
Heartbeat ==
  /\ "mesh" \in sides /\ requests < Requests
  /\ ~tHeartPack5s /\ tHeartPack5s' = TRUE
  /\ requests' = requests + 1
  /\ inCallback' = FALSE
  /\ UNCHANGED <<sides, start, receiver, queue, CommState, UartTxDataType,
                 WifiTxData, twifitstxcyc, m4msCount, host, waits>>

(* timer_RBINT: the 4 ms timers tick with every fourth millisecond.        *)
(* Mutant: they tick when four have passed since.                          *)
Count4ms_late == IF m4msCount >= 4 THEN 0 ELSE m4msCount + 1
Count4ms == IF m4msCount + 1 >= 4 THEN 0 ELSE m4msCount + 1
Ticked4ms == IF Count4ms = 0 THEN Tick(twifitstxcyc) ELSE twifitstxcyc

(* Mutant: a heartbeat that is due goes before a report.                   *)
nextReport_heartbeat ==
  IF tHeartPack5s THEN "heartbeat" ELSE UartTxDataType
nextReport ==
  IF UartTxDataType = "none" /\ tHeartPack5s THEN "heartbeat"
                                             ELSE UartTxDataType

cTxdPrepare ==
  /\ CommState = "cTxdPrepare"
  /\ \/ /\ nextReport = "report"
        /\ WifiTxData' \in ReportSize
        /\ UartTxDataType' = "none" /\ waits' = NoFrame
        /\ CommState' = "cTxd"
        /\ UNCHANGED tHeartPack5s
     \/ /\ nextReport = "heartbeat"
        /\ WifiTxData' = HeartbeatSize
        /\ tHeartPack5s' = FALSE
        /\ CommState' = "cTxd"
        /\ waits' = Aged(waits, WaitLimit)
        /\ UNCHANGED UartTxDataType
     \/ /\ nextReport = "none"
        /\ WifiTxData' = 0
        /\ UNCHANGED <<CommState, UartTxDataType, tHeartPack5s, waits>>
  /\ twifitstxcyc' = Ticked4ms
  /\ tWifiTwoByteSentTime' = Tick(tWifiTwoByteSentTime)
  /\ UNCHANGED <<queued, busy, padding>>

(* SendDataToUart.                                                         *)
cTxd ==
  /\ CommState = "cTxd" /\ CommState' = "cTxdEnd"
  /\ sendPendingData(Queued(WifiTxData), busy)
  /\ twifitstxcyc' = C_T_wifitstxcyc
  /\ waits' = Aged(waits, WaitLimit)
  /\ UNCHANGED <<UartTxDataType, tHeartPack5s, WifiTxData>>

cTxdEnd ==
  /\ CommState = "cTxdEnd"
  /\ CommState' = IF \/ fov(Tick(tWifiTwoByteSentTime))
                       \/ fov(Ticked4ms)
                    THEN "cTxdPrepare" ELSE "cTxdEnd"
  /\ twifitstxcyc' = Ticked4ms
  /\ tWifiTwoByteSentTime' = Tick(tWifiTwoByteSentTime)
  /\ waits' = Aged(waits, WaitLimit)
  /\ UNCHANGED <<UartTxDataType, tHeartPack5s, WifiTxData, queued, busy,
                 padding>>

------------------------------------------------------------------------------
(* InitUart: three seconds after it the machines begin to run.             *)
Start ==
  /\ ~onTime /\ onTime' = TRUE
  /\ quiet' = 0
  /\ waits' = IF UartTxDataType = "none" THEN waits ELSE 0
  /\ inCallback' = FALSE
  /\ UNCHANGED <<sides, tWifiSendData, receiver, queue, transmitter, hostAt,
                 current, timely, due, outside, requests>>

TimersOnly ==
  /\ tWifitsfrmwt' = Tick(tWifitsfrmwt)
  /\ tWifi2mscyc' = Tick(tWifi2mscyc)
  /\ tWifiTwoByteSentTime' = Tick(tWifiTwoByteSentTime)
  /\ twifitstxcyc' = Ticked4ms
  /\ waits' = Aged(waits, WaitLimit)
  /\ UNCHANGED <<WifiRxData, WifiDataCount, f_rxdataOK, UartTxDataType,
                 tHeartPack5s, WifiTxData, queued, busy, padding>>

processuartdata ==
  \/ /\ ~onTime
     /\ TimersOnly
     /\ UNCHANGED <<CommState, CommRxState, tWifiSendData>>
  \/ /\ onTime /\ tWifiSendData
     /\ TimersOnly
     /\ CommState' = "cTxdPrepare" /\ CommRxState' = "cRxdPrepare"
     /\ tWifiSendData' = FALSE
  \/ /\ onTime /\ ~tWifiSendData
     /\ cTxdPrepare \/ cTxd \/ cTxdEnd
     /\ cRxdPrepare \/ cRxdWait \/ cRxd \/ cRxdEnd
     /\ UNCHANGED tWifiSendData

time1mshandle ==
  /\ m4msCount' = Count4ms
  /\ tUartWait10ms' = Tick(tUartWait10ms)
  /\ processuartdata
  /\ quiet' = IF quiet < Quiet THEN quiet + 1 ELSE quiet
  /\ due' = IF onTime /\ CommRxState = "cRxd" /\ Whole THEN NoFrame
                                                      ELSE Aged(due, DueLimit)
  /\ inCallback' = FALSE
  /\ UNCHANGED <<sides, onTime, hostAt, current, timely, outside, requests>>

Init ==
  /\ sides \in Sides
  /\ onTime = FALSE /\ tWifiSendData = TRUE
  /\ CommRxState = "cRxdPrepare" /\ WifiRxData = Cleared /\ WifiDataCount = 0
  /\ f_rxdataOK = FALSE
  /\ tUartWait10ms = C_T_tUartWait10ms
  /\ tWifitsfrmwt = Idle /\ tWifi2mscyc = Idle
  /\ CommState = "cTxdPrepare" /\ UartTxDataType = "none"
  /\ tHeartPack5s = FALSE /\ WifiTxData = 0
  /\ queued = 0 /\ busy = 0 /\ padding = FALSE
  /\ tWifiTwoByteSentTime = Idle /\ twifitstxcyc = Idle /\ m4msCount = 0
  /\ hostAt = 0 /\ current = FALSE /\ inCallback = FALSE
  /\ quiet = 0 /\ timely = FALSE /\ due = NoFrame /\ outside = "no"
  /\ requests = 0 /\ waits = NoFrame

Next ==
  \/ Start
  \/ \E at \in 0 .. HostLen - 1, joined \in BOOLEAN : HostByte(at, joined)
  \/ Report \/ Heartbeat \/ Transmitted
  \/ time1mshandle

Spec == Init /\ [][Next]_vars

------------------------------------------------------------------------------
TypeOK ==
  /\ onTime \in BOOLEAN /\ tWifiSendData \in BOOLEAN
  /\ CommRxState \in {"cRxdPrepare", "cRxdWait", "cRxd", "cRxdEnd"}
  /\ WifiRxData \in Cleared .. HostLen
  /\ WifiDataCount \in 0 .. CountModulus - 1 /\ f_rxdataOK \in BOOLEAN
  /\ tUartWait10ms \in Timer(C_T_tUartWait10ms) \ {Idle}
  /\ tWifitsfrmwt \in Timer(C_T_tWifitsfrmwt)
  /\ tWifi2mscyc \in Timer(C_T_Wifi2mscyc)
  /\ CommState \in {"cTxdPrepare", "cTxd", "cTxdEnd"}
  /\ UartTxDataType \in {"none", "report"} /\ tHeartPack5s \in BOOLEAN
  /\ WifiTxData \in ReportSize \cup {0, HeartbeatSize}
  /\ queued \in 0 .. QueueSize /\ busy \in 0 .. DriverBuffer
  /\ tWifiTwoByteSentTime \in Timer(C_T_WifiTwoByteSentTime)
  /\ twifitstxcyc \in Timer(C_T_wifitstxcyc) /\ m4msCount \in 0 .. 3

(* A frame the host begins after 20 ms of silence, with the bridge past    *)
(* its first 3 s, and continues with at most four ticks between its bytes, *)
(* is stored within WifiRxData, and is accepted whole and taken with the   *)
(* second tick after its last byte, unless more bytes follow in the same   *)
(* callback.  Whatever fragments, overlong frames and bytes behind frames  *)
(* came before it, as long as none of them was stored behind the end of    *)
(* WifiRxData: what that destroys is not known (uart_time.c, the gap       *)
(* timer, tUartWait10ms and the machine that clears WifiRxData).           *)
FrameIsTaken ==
  /\ outside # "timely"
  /\ outside = "no" => due \in {NoFrame} \cup 0 .. DueLimit - 1

(* A report is taken from BLE_RX_DATA with the sixth tick after it was     *)
(* asked for at the latest: behind the report before it and its pause, but *)
(* never behind a heartbeat, and however often finished transmissions      *)
(* begin the pause anew (uart_time.c, the transmit machine).               *)
ReportIsTaken == waits \in {NoFrame} \cup 0 .. WaitLimit - 1

(* What the driver had no room for does not stay in the queue when the     *)
(* driver is idle: the callback of the driver goes on with it              *)
(* (uart_time.c, sendPendingData and uartTxDataCallback).                  *)
NothingStays == busy = 0 => queued = 0

(* The UART sends the queued reports and nothing else (uart_time.c,        *)
(* sendPendingData, which asks the queue for as many bytes as it sends).   *)
OnlyReports == ~padding
=============================================================================
