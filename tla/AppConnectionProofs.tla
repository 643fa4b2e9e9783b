------------------------ MODULE AppConnectionProofs ------------------------
(***************************************************************************)
(* The state of the application follows its link, the bearer state of the  *)
(* stack follows both, and the parameter update ends with its connection:  *)
(* for every number of timers and whatever the central does.               *)
(***************************************************************************)
EXTENDS AppConnection, FiniteSetTheorems, TLAPS

Linked == link # "none"
Engaged == state \in {"connected", "disconnecting"}

(* Adverts run in a connection only if it was made in the idle state; if   *)
(* the bearer is disabled then, the connection has seen it.                *)
ConnInv ==
  /\ gatt_data \in [device_id : {Peer, CM_INVALID_DEVICE_ID},
                    ota_reset_required : BOOLEAN]
  /\ bearer_tx_state \in Bearers /\ transmit_state \in Bearers
  /\ state \in {"init", "idle", "advertising", "connected", "disconnecting"}
  /\ link \in {"none", "connected", "disconnecting"}
  /\ gatt_advert_tid \in BOOLEAN /\ g_cskey_flags \in BOOLEAN
  /\ unmanaged \in BOOLEAN /\ silenced \in BOOLEAN
  /\ state = "init" => ~Linked /\ ~advert /\ ~gatt_advert_tid
  /\ ~Linked => ~Connected
  /\ ~Linked /\ state # "init" => transmit_state = bearer_tx_state
  /\ link = "connected" => Connected /\ transmit_state.promiscuous
  /\ Engaged => Linked /\ Connected /\ transmit_state.promiscuous
  /\ state = "disconnecting" => link = "disconnecting"
  /\ Linked => Engaged \/ (unmanaged /\ silenced)
  /\ Linked /\ gatt_advert_tid => unmanaged
  /\ Linked /\ ~bearer_tx_state.gatt => silenced

(* The data of no connection.                                              *)
LEMMA Fresh ==
  /\ InitialiseGattData \in [device_id : {Peer, CM_INVALID_DEVICE_ID},
                              ota_reset_required : BOOLEAN]
  /\ InitialiseGattData.device_id = CM_INVALID_DEVICE_ID
  /\ Untold \in Bearers
  BY DEF InitialiseGattData, Untold, Bearers

LEMMA ConnInit == Init => ConnInv
  BY Fresh DEF Init, ConnInv, Linked, Engaged, Connected

(* The start of the program again leaves no connection.                    *)
LEMMA ConnRestart ==
  ConnInv /\ Restart /\ link' = "none" => ConnInv'
  BY Fresh DEF Restart, ConnInv, Linked, Engaged, Connected

LEMMA ConnStep == ConnInv /\ [Next]_vars => ConnInv'
<1> SUFFICES ASSUME ConnInv, [Next]_vars PROVE ConnInv'
  OBVIOUS
<1> USE PeerAssumption DEF ConnInv, Linked, Engaged, Connected, Bearers
<1>1. CASE handleCmInitCfm
  BY <1>1 DEF handleCmInitCfm, AppDataInit, SetAdvertising,
     InitialiseGattData, IsGattBearerEnabled, connHistory
<1>2. CASE ConnectionMade
  <2>1. /\ bearer_tx_state' = bearer_tx_state
        /\ link' = "connected" /\ state' = "connected"
        /\ g_cskey_flags' = g_cskey_flags
        /\ gatt_data' = [gatt_data EXCEPT !.device_id = Peer]
        /\ transmit_state' = [bearer_tx_state EXCEPT !.promiscuous = TRUE]
        /\ gatt_advert_tid' = (gatt_advert_tid /\ state # "advertising")
        /\ unmanaged' = (state = "idle")
        /\ silenced' = ~bearer_tx_state.gatt
    BY <1>2 DEF ConnectionMade, advertsAfterConnect, IsGattBearerEnabled
  <2>2. state \in {"idle", "advertising"}
    BY <1>2 DEF ConnectionMade
  <2>3. /\ gatt_data' \in [device_id : {Peer, CM_INVALID_DEVICE_ID},
                           ota_reset_required : BOOLEAN]
        /\ gatt_data'.device_id = Peer
    BY <2>1
  <2>4. transmit_state' \in Bearers /\ transmit_state'.promiscuous
    BY <2>1
  <2> QED
    BY <2>1, <2>2, <2>3, <2>4
<1>3. CASE ConnectionLost
  <2>1. CASE otaReset \/ state \notin {"connected", "disconnecting"}
    BY <1>3, <2>1, ConnRestart DEF ConnectionLost
  <2>2. CASE ~(otaReset \/ state \notin {"connected", "disconnecting"})
    BY <1>3, <2>2, Fresh
    DEF ConnectionLost, restored, AppDataInit, SetAdvertising, connHistory
  <2> QED
    BY <2>1, <2>2
<1>4. CASE handleBondNotify
  BY <1>4 DEF handleBondNotify, CMDisconnect, bearers, connHistory
<1>5. CASE handleEncryptionChangeNotify
  <2>1. CASE link = "connected"
    BY <1>5, <2>1
    DEF handleEncryptionChangeNotify, CMDisconnect, bearers, connHistory
  <2>2. CASE link # "connected"
    BY <1>5, <2>2, ConnRestart DEF handleEncryptionChangeNotify
  <2> QED
    BY <2>1, <2>2
<1>6. CASE handleCmConnectionUpdated
  <2>1. CASE state \in {"connected", "disconnecting"}
    <3>1. gatt_data' = [gatt_data EXCEPT !.device_id = Peer]
      BY <1>6, <2>1 DEF handleCmConnectionUpdated
    <3>2. /\ gatt_data' \in [device_id : {Peer, CM_INVALID_DEVICE_ID},
                             ota_reset_required : BOOLEAN]
          /\ gatt_data'.device_id = Peer
      BY <3>1
    <3> QED
      BY <1>6, <2>1, <3>2
      DEF handleCmConnectionUpdated, bearers, connHistory
  <2>2. CASE state \notin {"connected", "disconnecting"}
    BY <1>6, <2>2, ConnRestart DEF handleCmConnectionUpdated
  <2> QED
    BY <2>1, <2>2
<1>7. CASE AppOtaReset
  <2>1. /\ gatt_data' \in [device_id : {Peer, CM_INVALID_DEVICE_ID},
                           ota_reset_required : BOOLEAN]
        /\ gatt_data'.device_id = gatt_data.device_id
    BY <1>7 DEF AppOtaReset
  <2> QED
    BY <1>7, <2>1 DEF AppOtaReset, CMDisconnect, bearers, connHistory
<1>8. CASE ConnectionParamUpdateEvent \/ CpuTimer
  BY <1>8 DEF ConnectionParamUpdateEvent, CpuTimer, bearers, connHistory
<1>9. CASE AssocComplete
  <2>1. /\ bearer_tx_state' \in Bearers
        /\ bearer_tx_state'.gatt = bearer_tx_state.gatt
    BY <1>9 DEF AssocComplete
  <2> QED
    BY <1>9, <2>1 DEF AssocComplete, updateWhenApart, connHistory
<1>10. CASE RemoveAssociation
  <2>1. /\ bearer_tx_state' \in Bearers
        /\ bearer_tx_state'.gatt = g_cskey_flags
        /\ bearer_tx_state'.promiscuous
        /\ transmit_state' = bearer_tx_state'
    BY <1>10 DEF RemoveAssociation
  <2> QED
    BY <1>10, <2>1 DEF RemoveAssociation
<1>11. ASSUME NEW b \in Bearers, BearerState(b) PROVE ConnInv'
  <2>1. /\ state # "init" /\ bearer_tx_state' = b
        /\ transmit_state' = IF Connected THEN transmit_state ELSE b
        /\ link' = link /\ unmanaged' = unmanaged
        /\ g_cskey_flags' = g_cskey_flags
        /\ silenced' = (silenced \/ (link # "none" /\ ~b.gatt))
    BY <1>11 DEF BearerState, updateWhenApart
  <2>2. CASE Connected
    BY <1>11, <2>1, <2>2 DEF BearerState
  <2>3. CASE ~Connected
    <3>1. ~Engaged
      BY <2>3
    <3>2. CASE b.gatt
      BY <1>11, <2>1, <2>3, <3>1, <3>2
      DEF BearerState, GattTriggerConnectableAdverts
    <3>3. CASE ~b.gatt
      BY <1>11, <2>1, <2>3, <3>1, <3>3
      DEF BearerState, GattTriggerConnectableAdverts, SetIdle
    <3> QED
      BY <3>2, <3>3
  <2> QED
    BY <2>2, <2>3
<1>12. CASE gattAdvertTimerHandler
  <2>1. CASE bearer_tx_state.gatt
    BY <1>12, <2>1
    DEF gattAdvertTimerHandler, GattTriggerConnectableAdverts,
        IsGattBearerEnabled, bearers, connHistory
  <2>2. CASE ~bearer_tx_state.gatt
    <3>1. /\ state' = "idle" /\ gatt_advert_tid' = FALSE
          /\ gatt_advert_tid /\ state # "init"
          /\ advert' = advert /\ link' = link
          /\ g_cskey_flags' = g_cskey_flags
          /\ bearer_tx_state' = bearer_tx_state
          /\ transmit_state' = transmit_state
          /\ unmanaged' = unmanaged /\ silenced' = silenced
          /\ gatt_data' = IF state = "disconnecting"
                          THEN InitialiseGattData ELSE gatt_data
      BY <1>12, <2>2
      DEF gattAdvertTimerHandler, GattTriggerConnectableAdverts, SetIdle,
          AppDataInit, IsGattBearerEnabled, bearers, connHistory
    <3> QED
      BY <2>2, <3>1, Fresh
  <2> QED
    BY <2>1, <2>2
<1>13. CASE AdvertEnds
  BY <1>13 DEF AdvertEnds, bearers, connHistory
<1>14. CASE UNCHANGED vars
  BY <1>14 DEF vars, bearers, connHistory
<1> QED
  BY <1>1, <1>2, <1>3, <1>4, <1>5, <1>6, <1>7, <1>8, <1>9, <1>10, <1>11,
     <1>12, <1>13, <1>14 DEF Next

(* The connection runs in step with its link.                              *)
THEOREM ConnCorrect == Spec => []ConnInv
  BY ConnInit, ConnStep, PTL DEF Spec

(* The stack is promiscuous in every connection (handleConnNotify), however*)
(* associations and bearer events fall into it.                            *)
THEOREM PromiscuousCorrect == Spec => []PromiscuousWhileConnected
<1>1. ConnInv => PromiscuousWhileConnected
  BY DEF ConnInv, PromiscuousWhileConnected, Engaged
<1> QED
  BY <1>1, ConnCorrect, PTL

(* Between connections the stack has what is stored.                       *)
THEOREM StoredCorrect == Spec => []StoredWhenApart
<1>1. ConnInv => StoredWhenApart
  BY DEF ConnInv, StoredWhenApart, Linked
<1> QED
  BY <1>1, ConnCorrect, PTL

(* No event of a connection finds the application in a state where it      *)
(* panics, but for connections made in the idle state (AppSetState).       *)
THEOREM StateCorrect == Spec => []StateFollowsLink
<1>1. ConnInv => StateFollowsLink
  BY DEF ConnInv, StateFollowsLink, Linked, Engaged
<1> QED
  BY <1>1, ConnCorrect, PTL
(* A program that has just started was not asked for a reset.              *)
ResetInv == state = "init" => ~gatt_data.ota_reset_required

ResetAct == [ gatt_data.ota_reset_required /\ ~gatt_data'.ota_reset_required
              => state' = "init" \/ (unmanaged /\ silenced) ]_vars

LEMMA ResetInit == Init => ResetInv
  BY DEF Init, ResetInv, InitialiseGattData

LEMMA ResetRestart == Restart => state' = "init" /\ ResetInv'
  BY DEF Restart, ResetInv, InitialiseGattData

(* Only the end of a connection, the first event of the program, and the   *)
(* advert timer in the disconnecting state initialise the data.            *)
LEMMA ResetStep == ConnInv /\ ResetInv /\ [Next]_vars => ResetInv' /\ ResetAct
<1> SUFFICES ASSUME ConnInv, ResetInv, [Next]_vars
             PROVE  ResetInv' /\ ResetAct
  OBVIOUS
<1> DEFINE Kept == gatt_data'.ota_reset_required = gatt_data.ota_reset_required
<1>1. ASSUME Kept, state' = "init" => state = "init"
      PROVE  ResetInv' /\ ResetAct
  BY <1>1 DEF ResetInv, ResetAct
<1>2. CASE Restart
  BY <1>2, ResetRestart DEF ResetAct
<1>3. CASE handleCmInitCfm
  BY <1>3 DEF handleCmInitCfm, SetAdvertising, ResetInv, ResetAct
<1>4. CASE ConnectionMade
  <2>1. gatt_data' = [gatt_data EXCEPT !.device_id = Peer]
        /\ state' = "connected"
    BY <1>4 DEF ConnectionMade
  <2> QED
    BY <1>1, <2>1 DEF ConnInv
<1>5. CASE ConnectionLost
  <2>1. CASE Restart
    BY <1>2, <2>1
  <2>2. CASE ~Restart
    <3>1. ~gatt_data.ota_reset_required /\ state' # "init"
      BY <1>5, <2>2 DEF ConnectionLost, otaReset, SetAdvertising
    <3> QED
      BY <3>1 DEF ResetInv, ResetAct
  <2> QED
    BY <2>1, <2>2
<1>6. CASE handleBondNotify \/ handleEncryptionChangeNotify
  <2>1. Restart \/ (gatt_data' = gatt_data /\ state' # "init")
        \/ (gatt_data' = gatt_data /\ state' = state)
    BY <1>6 DEF handleBondNotify, handleEncryptionChangeNotify
  <2> QED
    BY <1>1, <1>2, <2>1
<1>7. CASE handleCmConnectionUpdated
  <2>1. \/ Restart
        \/ /\ gatt_data' = [gatt_data EXCEPT !.device_id = Peer]
           /\ state' = state
    BY <1>7 DEF handleCmConnectionUpdated
  <2> QED
    BY <1>1, <1>2, <2>1 DEF ConnInv
<1>8. CASE AppOtaReset
  <2>1. gatt_data' = [gatt_data EXCEPT !.ota_reset_required = TRUE]
        /\ state' = state /\ link # "none"
    BY <1>8 DEF AppOtaReset
  <2>2. gatt_data'.ota_reset_required /\ state' # "init"
    BY <2>1 DEF ConnInv, Linked
  <2> QED
    BY <2>2 DEF ResetInv, ResetAct
<1>9. CASE ConnectionParamUpdateEvent \/ CpuTimer \/ AssocComplete
           \/ RemoveAssociation \/ AdvertEnds
  BY <1>1, <1>9 DEF ConnectionParamUpdateEvent, CpuTimer, AssocComplete,
     RemoveAssociation, AdvertEnds
<1>10. ASSUME NEW b \in Bearers, BearerState(b)
       PROVE  ResetInv' /\ ResetAct
  <2>1. gatt_data' = gatt_data /\ state' \in {state, "idle"}
    BY <1>10 DEF BearerState, GattTriggerConnectableAdverts, SetIdle, ConnInv,
       Engaged
  <2> QED
    BY <1>1, <2>1
<1>11. CASE gattAdvertTimerHandler
  <2>1. CASE gatt_data' = gatt_data /\ state' \in {state, "idle"}
    BY <1>1, <2>1
  <2>2. CASE ~(gatt_data' = gatt_data /\ state' \in {state, "idle"})
    <3>1. /\ state = "disconnecting" /\ state' = "idle"
          /\ gatt_advert_tid /\ ~bearer_tx_state.gatt
      BY <1>11, <2>2 DEF gattAdvertTimerHandler,
         GattTriggerConnectableAdverts, SetIdle, IsGattBearerEnabled
    <3>2. unmanaged /\ silenced
      BY <3>1 DEF ConnInv, Linked, Engaged
    <3> QED
      BY <3>1, <3>2 DEF ResetInv, ResetAct
  <2> QED
    BY <2>1, <2>2
<1>12. CASE UNCHANGED vars
  BY <1>1, <1>12 DEF vars
<1> QED
  BY <1>3, <1>4, <1>5, <1>6, <1>7, <1>8, <1>9, <1>10, <1>11, <1>12 DEF Next

(* A reset that the central asked for is not lost (AppOtaReset), with the  *)
(* exception of StateFollowsLink.                                          *)
THEOREM ResetCorrect == Spec => ResetIsKept
  BY ResetInit, ResetStep, ConnInit, ConnStep, PTL
  DEF Spec, ResetIsKept, ResetAct

------------------------------------------------------------------------------
(* The procedure has the timer that tid names or a request without an      *)
(* answer, and never more than that, until a request overlaps another.     *)
ProcInv ==
  /\ timers \in [TimerId -> Expiry]
  /\ unanswered \in Nat
  /\ overlapped \in BOOLEAN
  /\ ~overlapped =>
       /\ Running = {tid} \ {TIMER_INVALID}
       /\ unanswered > 0 => tid = TIMER_INVALID /\ unanswered = 1
       /\ link = "none" => tid = TIMER_INVALID

(* A timer that is created when none is running is the only one, and tid   *)
(* names it.                                                               *)
LEMMA TimerAlone ==
  ASSUME NEW running \in [TimerId -> Expiry],
         NEW handler \in Expiry \ {"none"},
         TimerCreate(running, handler)
  PROVE  /\ timers' \in [TimerId -> Expiry]
         /\ (\A t \in TimerId : running[t] = "none") =>
              /\ {t \in TimerId : timers'[t] # "none"} = {tid'}
              /\ tid' # TIMER_INVALID
<1> DEFINE new == CHOOSE u \in Unused(running) : TRUE
<1>1. tid' = new /\ timers' = [running EXCEPT ![new] = handler]
  BY DEF TimerCreate
<1>2. timers' \in [TimerId -> Expiry]
  BY <1>1
<1>3. ASSUME \A t \in TimerId : running[t] = "none"
      PROVE  /\ {t \in TimerId : timers'[t] # "none"} = {tid'}
             /\ tid' # TIMER_INVALID
  <2>1. Unused(running) = TimerId
    BY <1>3 DEF Unused
  <2>2. 1 \in TimerId /\ \A v \in TimerId : 1 <= v
    BY TimersAssumption DEF TimerId
  <2>3. new \in TimerId
    BY <2>1, <2>2
  <2> HIDE DEF new
  <2>4. {t \in TimerId : timers'[t] # "none"} = {new}
    BY <1>1, <1>3, <2>3
  <2>5. new # TIMER_INVALID
    BY <2>3 DEF TimerId, TIMER_INVALID
  <2> QED
    BY <1>1, <2>4, <2>5
<1> QED
  BY <1>2, <1>3

LEMMA DeletedType ==
  ASSUME NEW t
  PROVE  /\ timers \in [TimerId -> Expiry] =>
              Deleted(timers, t) \in [TimerId -> Expiry]
         /\ Running \subseteq {t} =>
              \A u \in TimerId : Deleted(timers, t)[u] = "none"
  BY DEF Deleted, Expiry, Running

LEMMA ProcInit == Init => ProcInv
<1> SUFFICES ASSUME Init PROVE ProcInv
  OBVIOUS
<1>1. /\ timers = [t \in TimerId |-> "none"] /\ tid = TIMER_INVALID
      /\ unanswered = 0 /\ overlapped = FALSE
  BY DEF Init, CpuInit
<1>2. timers \in [TimerId -> Expiry] /\ Running = {}
  BY <1>1 DEF Expiry, Running
<1>3. unanswered \in Nat /\ ~(unanswered > 0) /\ {tid} \ {TIMER_INVALID} = {}
  BY <1>1
<1>4. overlapped \in BOOLEAN
  BY <1>1
<1> QED
  BY <1>1, <1>2, <1>3, <1>4, Zenon DEF ProcInv

LEMMA ProcRestart == Restart => ProcInv'
<1> SUFFICES ASSUME Restart PROVE ProcInv'
  OBVIOUS
<1>1. /\ timers' = [t \in TimerId |-> "none"] /\ tid' = TIMER_INVALID
      /\ unanswered' = 0 /\ overlapped' = FALSE
  BY DEF Restart
<1>2. timers' \in [TimerId -> Expiry] /\ Running' = {}
  BY <1>1 DEF Expiry, Running
<1>3. /\ unanswered' \in Nat /\ ~(unanswered' > 0)
      /\ {tid'} \ {TIMER_INVALID} = {}
  BY <1>1
<1>4. overlapped' \in BOOLEAN
  BY <1>1
<1> QED
  BY <1>1, <1>2, <1>3, <1>4, Zenon DEF ProcInv

(* Stopping deletes the one timer there is.                                *)
LEMMA ProcStop == ProcInv /\ AppDataInit => ProcInv'
<1> SUFFICES ASSUME ProcInv, AppDataInit PROVE ProcInv'
  OBVIOUS
<1>1. /\ timers' = Deleted(timers, tid) /\ tid' = TIMER_INVALID
      /\ unanswered' = unanswered /\ overlapped' = overlapped
  BY DEF AppDataInit, StopConnParamsUpdate
<1>2. timers' \in [TimerId -> Expiry]
  BY <1>1, DeletedType DEF ProcInv
<1>3. ~overlapped => Running' = {}
  BY <1>1, DeletedType DEF ProcInv, Running
<1> QED
  BY <1>1, <1>2, <1>3 DEF ProcInv

(* A request is the only one without an answer, or overlaps one.           *)
LEMMA ProcRequest ==
  ASSUME ProcInv, request, timers' \in [TimerId -> Expiry],
         ~overlapped => Running' = {}
  PROVE  ProcInv'
<1>1. /\ tid' = TIMER_INVALID /\ unanswered' = unanswered + 1
      /\ overlapped' = (overlapped \/ unanswered > 0)
  BY DEF request
<1>2. unanswered' \in Nat /\ {tid'} \ {TIMER_INVALID} = {}
  BY <1>1 DEF ProcInv
<1>3. overlapped' \in BOOLEAN
  BY <1>1, Zenon
<1>4. ASSUME ~overlapped'
      PROVE  Running' = {} /\ unanswered' = 1
  <2>1. ~overlapped /\ ~(unanswered > 0)
    BY <1>1, <1>4, Zenon
  <2>2. unanswered' = 1
    BY <1>1, <2>1 DEF ProcInv
  <2> QED
    BY <2>1, <2>2
<1> QED
  BY <1>1, <1>2, <1>3, <1>4, Zenon DEF ProcInv

LEMMA ProcStep == ProcInv /\ [Next]_vars => ProcInv'
<1> SUFFICES ASSUME ProcInv, [Next]_vars PROVE ProcInv'
  OBVIOUS
<1> USE DEF ProcInv
<1>1. CASE handleCmInitCfm
  BY <1>1, ProcStop DEF handleCmInitCfm
<1>2. CASE ConnectionMade
  <2>1. /\ TimerCreate(Deleted(timers, tid), "handleGapCppTimerExpiry")
        /\ unanswered' = 0 /\ link' = "connected"
        /\ overlapped' = (overlapped /\ Running # {})
    BY <1>2 DEF ConnectionMade, RequestConnParamsUpdate
  <2>2. /\ timers' \in [TimerId -> Expiry]
        /\ Running \subseteq {tid} => Running' = {tid'} /\ tid' # TIMER_INVALID
    BY <2>1, DeletedType, TimerAlone DEF Expiry, Running
  <2> QED
    BY <2>1, <2>2
<1>3. CASE ConnectionLost
  BY <1>3, ProcStop, ProcRestart DEF ConnectionLost
<1>4. CASE \/ handleBondNotify \/ AppOtaReset \/ AssocComplete
           \/ RemoveAssociation \/ AdvertEnds \/ UNCHANGED vars
  <2>1. UNCHANGED cpuVars /\ (link' = "none" => link = "none")
    BY <1>4
    DEF handleBondNotify, AppOtaReset, AssocComplete, RemoveAssociation,
        AdvertEnds, vars, CMDisconnect
  <2> QED
    BY <2>1 DEF cpuVars, Running
<1>5. CASE handleEncryptionChangeNotify
  <2>1. CASE link = "connected"
    <3>1. UNCHANGED cpuVars /\ link' = "disconnecting"
      BY <1>5, <2>1 DEF handleEncryptionChangeNotify, CMDisconnect
    <3> QED
      BY <3>1 DEF cpuVars, Running
  <2>2. CASE link # "connected"
    BY <1>5, <2>2, ProcRestart DEF handleEncryptionChangeNotify
  <2> QED
    BY <2>1, <2>2
<1>6. CASE handleCmConnectionUpdated
  <2>1. CASE state \in {"connected", "disconnecting"}
    BY <1>6, <2>1 DEF handleCmConnectionUpdated, cpuVars, Running
  <2>2. CASE state \notin {"connected", "disconnecting"}
    BY <1>6, <2>2, ProcRestart DEF handleCmConnectionUpdated
  <2> QED
    BY <2>1, <2>2
<1>7. ASSUME NEW success \in BOOLEAN, link # "none", link' = link,
             handleConnParamUpdateCfm(success)
      PROVE  ProcInv'
  <2>1. /\ unanswered > 0 /\ unanswered' = unanswered - 1
        /\ overlapped' = overlapped
    BY <1>7 DEF handleConnParamUpdateCfm
  <2>2. \/ UNCHANGED <<timers, tid>>
        \/ TimerCreate(timers, "handleGapCppTimerExpiry")
    BY <1>7 DEF handleConnParamUpdateCfm
  <2>3. CASE UNCHANGED <<timers, tid>>
    BY <1>7, <2>1, <2>3 DEF Running
  <2>4. CASE TimerCreate(timers, "handleGapCppTimerExpiry")
    <3>1. /\ timers' \in [TimerId -> Expiry]
          /\ Running = {} => Running' = {tid'} /\ tid' # TIMER_INVALID
      BY <2>4, TimerAlone DEF Expiry, Running
    <3> QED
      BY <1>7, <2>1, <3>1
  <2> QED
    BY <2>2, <2>3, <2>4
<1>8. ASSUME NEW long \in BOOLEAN, link' = link,
             handleConnParamUpdateInd(long)
      PROVE  ProcInv'
  <2>1. CASE tid = TIMER_INVALID /\ long
    <3>1. request /\ timers' = timers
      BY <1>8, <2>1 DEF handleConnParamUpdateInd
    <3>2. ~overlapped => Running' = {}
      BY <2>1, <3>1 DEF Running
    <3> QED
      BY <3>1, <3>2, ProcRequest
  <2>2. CASE ~(tid = TIMER_INVALID /\ long)
    BY <1>8, <2>2 DEF handleConnParamUpdateInd, Running
  <2> QED
    BY <2>1, <2>2
<1>9. ASSUME link # "none", link' = link, handleServerAccessed PROVE ProcInv'
  <2>1. unanswered' = unanswered /\ overlapped' = overlapped
    BY <1>9 DEF handleServerAccessed
  <2>2. CASE cpc_timer_active /\ tid # TIMER_INVALID
    <3>1. TimerCreate(Deleted(timers, tid), "requestConnParamUpdate")
      BY <1>9, <2>2 DEF handleServerAccessed
    <3>2. /\ timers' \in [TimerId -> Expiry]
          /\ Running \subseteq {tid} =>
               Running' = {tid'} /\ tid' # TIMER_INVALID
      BY <3>1, DeletedType, TimerAlone DEF Expiry, Running
    <3> QED
      BY <1>9, <2>1, <2>2, <3>2
  <2>3. CASE ~(cpc_timer_active /\ tid # TIMER_INVALID)
    BY <1>9, <2>1, <2>3 DEF handleServerAccessed, Running
  <2> QED
    BY <2>2, <2>3
<1>10. CASE ConnectionParamUpdateEvent
  BY <1>10, <1>7, <1>8, <1>9 DEF ConnectionParamUpdateEvent
<1>11. ASSUME NEW t \in TimerId, link' = link, handleGapCppTimerExpiry(t)
       PROVE  ProcInv'
  <2>1. /\ timers[t] = "handleGapCppTimerExpiry"
        /\ TimerCreate(Deleted(timers, t), "requestConnParamUpdate")
        /\ unanswered' = unanswered /\ overlapped' = overlapped
    BY <1>11 DEF handleGapCppTimerExpiry
  <2>2. t \in Running
    BY <2>1 DEF Running
  <2>3. /\ timers' \in [TimerId -> Expiry]
        /\ Running \subseteq {t} => Running' = {tid'} /\ tid' # TIMER_INVALID
    BY <2>1, DeletedType, TimerAlone DEF Expiry, Running
  <2> QED
    BY <1>11, <2>1, <2>2, <2>3
<1>12. ASSUME NEW t \in TimerId, link' = link, requestConnParamUpdate(t)
       PROVE  ProcInv'
  <2>1. timers[t] # "none" /\ timers' = Deleted(timers, t) /\ request
    BY <1>12 DEF requestConnParamUpdate
  <2>2. t \in Running
    BY <2>1 DEF Running
  <2>3. timers' \in [TimerId -> Expiry]
    BY <2>1, DeletedType
  <2>4. ~overlapped => Running' = {}
    BY <2>1, <2>2, DeletedType DEF Running
  <2> QED
    BY <2>1, <2>3, <2>4, ProcRequest
<1>13. CASE CpuTimer
  BY <1>13, <1>11, <1>12 DEF CpuTimer
<1>14. ASSUME NEW b \in Bearers, BearerState(b) PROVE ProcInv'
  BY <1>14, ProcStop
  DEF BearerState, GattTriggerConnectableAdverts, SetIdle, cpuVars, Running
<1>15. CASE gattAdvertTimerHandler
  BY <1>15, ProcStop
  DEF gattAdvertTimerHandler, GattTriggerConnectableAdverts, SetIdle,
      cpuVars, Running
<1> QED
  BY <1>1, <1>2, <1>3, <1>4, <1>5, <1>6, <1>10, <1>13, <1>14, <1>15
  DEF Next

(* The procedure ends with its connection, for any number of timers, as    *)
(* long as no request overlaps another (StopConnParamsUpdate).             *)
THEOREM ProcedureCorrect == Spec => []NoTimerOutlivesConnection
<1>1. ProcInv => NoTimerOutlivesConnection
  BY DEF ProcInv, NoTimerOutlivesConnection
<1>2. Spec => []ProcInv
  BY ProcInit, ProcStep, PTL DEF Spec
<1> QED
  BY <1>1, <1>2, PTL

------------------------------------------------------------------------------
(* The types.  tid names a timer that runs, if any; and there is always    *)
(* one to be created, since the timers and the requests without an answer  *)
(* together are no more than the bound.                                    *)
Used(running) == {t \in TimerId : running[t] # "none"}

Bounded ==
  /\ CpuTypeOK
  /\ tid # TIMER_INVALID => tid \in Running
  /\ unanswered + Cardinality(Running) <= MaxTimers

LEMMA UsedCount ==
  ASSUME NEW running
  PROVE  /\ IsFiniteSet(Used(running)) /\ Cardinality(Used(running)) \in Nat
         /\ Cardinality(Used(running)) < MaxTimers => Unused(running) # {}
<1>1. IsFiniteSet(TimerId) /\ Cardinality(TimerId) = MaxTimers
  BY TimersAssumption, FS_Interval DEF TimerId
<1>2. Used(running) \in SUBSET TimerId
  BY DEF Used
<1>3. IsFiniteSet(Used(running)) /\ Cardinality(Used(running)) \in Nat
  BY <1>1, <1>2, FS_Subset, FS_CardinalityType
<1>4. Unused(running) = {} => Used(running) = TimerId
  BY DEF Unused, Used
<1> QED BY <1>1, <1>3, <1>4, TimersAssumption

LEMMA Created ==
  ASSUME NEW running \in [TimerId -> Expiry],
         NEW handler \in Expiry \ {"none"},
         TimerCreate(running, handler), Cardinality(Used(running)) < MaxTimers
  PROVE  /\ timers' \in [TimerId -> Expiry] /\ tid' \in TimerId
         /\ tid' \in Running'
         /\ Cardinality(Running') = Cardinality(Used(running)) + 1
<1> DEFINE new == CHOOSE u \in Unused(running) : TRUE
<1>1. tid' = new /\ timers' = [running EXCEPT ![new] = handler]
  BY DEF TimerCreate
<1>2. new \in Unused(running)
  BY UsedCount
<1>3. new \in TimerId /\ running[new] = "none"
  BY <1>2 DEF Unused
<1> HIDE DEF new
<1>4. Running' = Used(running) \cup {new} /\ new \notin Used(running)
  BY <1>1, <1>3 DEF Running, Used
<1>5. Cardinality(Used(running) \cup {new}) = Cardinality(Used(running)) + 1
  BY <1>4, UsedCount, FS_AddElement
<1> QED BY <1>1, <1>3, <1>4, <1>5

LEMMA DeletedCount ==
  ASSUME NEW running \in [TimerId -> Expiry], NEW t
  PROVE  /\ Deleted(running, t) \in [TimerId -> Expiry]
         /\ Used(Deleted(running, t)) = Used(running) \ {t}
         /\ Cardinality(Used(Deleted(running, t))) =
              IF t \in Used(running) THEN Cardinality(Used(running)) - 1
              ELSE Cardinality(Used(running))
<1>1. Used(Deleted(running, t)) = Used(running) \ {t}
  BY DEF Used, Deleted
<1> QED BY <1>1, UsedCount, FS_RemoveElement DEF Deleted, Expiry

LEMMA BoundedFacts ==
  ASSUME Bounded
  PROVE  /\ Used(timers) = Running /\ IsFiniteSet(Running)
         /\ Cardinality(Running) \in Nat
         /\ timers \in [TimerId -> Expiry] /\ unanswered \in Nat
<1>1. Used(timers) = Running
  BY DEF Used, Running
<1> QED BY <1>1, UsedCount DEF Bounded, CpuTypeOK

NoTimers ==
  /\ timers = [t \in TimerId |-> "none"] /\ tid = TIMER_INVALID
  /\ cpc_timer_active = FALSE /\ retries_left = 0 /\ two_sets = FALSE
  /\ cur_set = 0 /\ unanswered = 0 /\ activity = 0 /\ overlapped = FALSE

LEMMA BoundedNone == NoTimers => Bounded
<1> SUFFICES ASSUME NoTimers PROVE Bounded
  OBVIOUS
<1>1. Running = {} /\ timers \in [TimerId -> Expiry]
  BY DEF NoTimers, Running, Expiry
<1>2. retries_left \in 0 .. MAX_RETRY /\ cur_set \in 0 .. 2
  BY DEF NoTimers, MAX_RETRY
<1>3. activity \in 0 .. MaxActivity /\ unanswered \in Nat
  BY ActivityAssumption DEF NoTimers
<1>4. CpuTypeOK
  BY <1>1, <1>2, <1>3 DEF NoTimers, CpuTypeOK
<1>5. unanswered + Cardinality(Running) <= MaxTimers
  <2>1. unanswered = 0 /\ Cardinality(Running) = 0
    BY <1>1, FS_EmptySet DEF NoTimers
  <2> QED BY <2>1, TimersAssumption
<1> QED BY <1>4, <1>5 DEF Bounded, NoTimers

LEMMA BoundedInit == Init => Bounded
  BY BoundedNone DEF Init, CpuInit, NoTimers

LEMMA BoundedRestart == Restart => Bounded'
<1>1. Restart => NoTimers'
  BY DEF Restart, NoTimers
<1> QED BY <1>1, BoundedNone, PTL

LEMMA BoundedStop == Bounded /\ AppDataInit => Bounded'
<1> SUFFICES ASSUME Bounded, AppDataInit PROVE Bounded'
  OBVIOUS
<1>1. /\ timers' = Deleted(timers, tid) /\ tid' = TIMER_INVALID
      /\ UNCHANGED <<procedure, unanswered, activity, overlapped>>
  BY DEF AppDataInit, StopConnParamsUpdate
<1>2. /\ timers' \in [TimerId -> Expiry] /\ Running' = Used(timers')
      /\ Cardinality(Running') <= Cardinality(Running)
      /\ Cardinality(Running') \in Nat
  <2>1. Running' = Used(Deleted(timers, tid))
    BY <1>1 DEF Running, Used
  <2>2. Cardinality(Used(Deleted(timers, tid))) \in Nat
    BY UsedCount
  <2> QED BY <1>1, <2>1, <2>2, BoundedFacts, DeletedCount
<1>3. CpuTypeOK'
  <2>1. UNCHANGED <<cpc_timer_active, retries_left, two_sets, cur_set,
                    unanswered, activity, overlapped>>
    BY <1>1 DEF procedure
  <2> QED BY <1>1, <1>2, <2>1 DEF Bounded, CpuTypeOK
<1>4. unanswered + Cardinality(Running') <= MaxTimers
  <2> DEFINE c == Cardinality(Running')
  <2>1. c \in Nat /\ c <= Cardinality(Running)
    BY <1>2
  <2> HIDE DEF c
  <2>2. unanswered + c <= MaxTimers
    BY <2>1, BoundedFacts, TimersAssumption DEF Bounded
  <2> QED BY <2>2 DEF c
<1> QED BY <1>1, <1>3, <1>4 DEF Bounded

(* A timer is created in the place of one, or of a request.                *)
LEMMA BoundedCreate ==
  ASSUME Bounded, NEW running \in [TimerId -> Expiry],
         NEW handler \in Expiry \ {"none"}, TimerCreate(running, handler),
         unanswered' \in Nat,
         unanswered' + Cardinality(Used(running)) < MaxTimers,
         activity' \in 0 .. MaxActivity, overlapped' \in BOOLEAN,
         cpc_timer_active' \in BOOLEAN, retries_left' \in 0 .. MAX_RETRY,
         two_sets' \in BOOLEAN, cur_set' \in 0 .. 2
  PROVE  Bounded'
<1> DEFINE n == Cardinality(Used(running))
<1>1. n \in Nat
  BY UsedCount
<1>2. n < MaxTimers
  BY <1>1, TimersAssumption
<1>3. /\ timers' \in [TimerId -> Expiry] /\ tid' \in TimerId
      /\ tid' \in Running' /\ Cardinality(Running') = n + 1
  BY <1>2, Created
<1>4. CpuTypeOK'
  BY <1>3 DEF CpuTypeOK
<1> HIDE DEF n
<1>5. unanswered' + Cardinality(Running') <= MaxTimers
  <2> DEFINE u == unanswered'
  <2>1. u \in Nat /\ u + n < MaxTimers
    BY DEF n
  <2> HIDE DEF u
  <2>2. u + (n + 1) <= MaxTimers
    BY <1>1, <2>1, TimersAssumption
  <2> QED BY <1>3, <2>2 DEF u
<1> QED BY <1>3, <1>4, <1>5 DEF Bounded

(* A request takes the place of a timer, or comes within the bound.        *)
LEMMA BoundedRequest ==
  ASSUME Bounded, request, timers' \in [TimerId -> Expiry],
         unanswered + Cardinality(Used(timers')) < MaxTimers,
         activity' \in 0 .. MaxActivity
  PROVE  Bounded'
<1>1. /\ tid' = TIMER_INVALID /\ cpc_timer_active' = FALSE
      /\ retries_left' = oneLess /\ unanswered' = unanswered + 1
      /\ overlapped' = (overlapped \/ unanswered > 0)
      /\ UNCHANGED <<two_sets, cur_set>>
  BY DEF request
<1>2. retries_left' \in 0 .. MAX_RETRY
  BY <1>1 DEF oneLess, Bounded, CpuTypeOK, MAX_RETRY
<1>3. unanswered' \in Nat
  BY <1>1, BoundedFacts
<1>4. overlapped' \in BOOLEAN
  BY <1>1, Zenon
<1>5. CpuTypeOK'
  BY <1>1, <1>2, <1>3, <1>4 DEF Bounded, CpuTypeOK
<1>6. unanswered' + Cardinality(Running') <= MaxTimers
  <2> DEFINE c == Cardinality(Used(timers'))
  <2>1. Running' = Used(timers')
    BY DEF Running, Used
  <2>2. c \in Nat
    BY UsedCount
  <2> HIDE DEF c
  <2>3. unanswered + c < MaxTimers
    BY DEF c
  <2>4. (unanswered + 1) + c <= MaxTimers
    BY <2>2, <2>3, BoundedFacts, TimersAssumption
  <2> QED BY <1>1, <2>1, <2>4 DEF c
<1> QED BY <1>1, <1>5, <1>6 DEF Bounded

LEMMA BoundedStep == Bounded /\ [Next]_vars => Bounded'
<1> SUFFICES ASSUME Bounded, [Next]_vars PROVE Bounded'
  OBVIOUS
<1>1. /\ timers \in [TimerId -> Expiry] /\ unanswered \in Nat
      /\ cpc_timer_active \in BOOLEAN /\ retries_left \in 0 .. MAX_RETRY
      /\ two_sets \in BOOLEAN /\ cur_set \in 0 .. 2
      /\ activity \in 0 .. MaxActivity /\ overlapped \in BOOLEAN
      /\ unanswered + Cardinality(Running) <= MaxTimers
      /\ Used(timers) = Running /\ Cardinality(Running) \in Nat
  BY BoundedFacts DEF Bounded, CpuTypeOK
<1>2. {"handleGapCppTimerExpiry", "requestConnParamUpdate"}
        \subseteq Expiry \ {"none"}
  BY DEF Expiry
<1>3. UNCHANGED cpuVars => Bounded'
  BY DEF cpuVars, procedure, Bounded, CpuTypeOK, Running
<1>4. UNCHANGED <<timers, tid, overlapped, unanswered>>
        /\ activity' \in 0 .. MaxActivity /\ cpc_timer_active' \in BOOLEAN
        /\ retries_left' \in 0 .. MAX_RETRY /\ two_sets' \in BOOLEAN
        /\ cur_set' \in 0 .. 2
      => Bounded'
  BY DEF Bounded, CpuTypeOK, Running
<1>5. CASE handleCmInitCfm
  BY <1>5, BoundedStop DEF handleCmInitCfm
<1>6. CASE ConnectionMade
  <2> DEFINE running == Deleted(timers, tid)
  <2>1. /\ TimerCreate(running, "handleGapCppTimerExpiry")
        /\ cpc_timer_active' = FALSE /\ retries_left' = MAX_RETRY
        /\ two_sets' = TRUE /\ cur_set' = 1
        /\ unanswered' = 0 /\ activity' = 0
        /\ overlapped' = (overlapped /\ Running # {})
        /\ Cardinality(Running) < MaxTimers
    BY <1>6 DEF ConnectionMade, RequestConnParamsUpdate
  <2>2. overlapped' \in BOOLEAN
    BY <2>1, Zenon
  <2>3. /\ retries_left' \in 0 .. MAX_RETRY /\ activity' \in 0 .. MaxActivity
        /\ cur_set' \in 0 .. 2 /\ unanswered' \in Nat
    BY <2>1, ActivityAssumption DEF MAX_RETRY
  <2>4. /\ running \in [TimerId -> Expiry]
        /\ Cardinality(Used(running)) < MaxTimers
        /\ Cardinality(Used(running)) \in Nat
    BY <1>1, <2>1, UsedCount, DeletedCount, TimersAssumption
  <2>5. unanswered' + Cardinality(Used(running)) < MaxTimers
    BY <2>1, <2>4
  <2> HIDE DEF running
  <2> QED BY <1>2, <2>1, <2>2, <2>3, <2>4, <2>5, BoundedCreate
<1>7. CASE ConnectionLost
  BY <1>7, BoundedRestart, BoundedStop DEF ConnectionLost
<1>8. CASE \/ handleBondNotify \/ AppOtaReset \/ AssocComplete
           \/ RemoveAssociation \/ AdvertEnds \/ UNCHANGED vars
  BY <1>3, <1>8
  DEF handleBondNotify, AppOtaReset, AssocComplete, RemoveAssociation,
      AdvertEnds, vars
<1>9. CASE handleEncryptionChangeNotify \/ handleCmConnectionUpdated
  BY <1>3, <1>9, BoundedRestart
  DEF handleEncryptionChangeNotify, handleCmConnectionUpdated
<1>10. ASSUME NEW success \in BOOLEAN, handleConnParamUpdateCfm(success)
       PROVE  Bounded'
  <2>1. /\ unanswered > 0 /\ unanswered' = unanswered - 1
        /\ UNCHANGED <<activity, overlapped>>
    BY <1>10 DEF handleConnParamUpdateCfm
  <2>2. /\ unanswered' \in Nat
        /\ unanswered' + Cardinality(Running) < MaxTimers
    <3>1. unanswered - 1 \in Nat
          /\ (unanswered - 1) + Cardinality(Running) < MaxTimers
      BY <1>1, <2>1, TimersAssumption
    <3> QED BY <2>1, <3>1
  <2>3. /\ cpc_timer_active' \in BOOLEAN /\ two_sets' \in BOOLEAN
        /\ retries_left' \in 0 .. MAX_RETRY /\ cur_set' \in 0 .. 2
    <3>1. /\ cpc_timer_active' = cpc_timer_active
          /\ two_sets' = two_sets \/ two_sets' = FALSE
          /\ retries_left' = retries_left \/ retries_left' = MAX_RETRY
          /\ cur_set' = cur_set \/ cur_set' = 2
      BY <1>10 DEF handleConnParamUpdateCfm, secondSet, procedure
    <3>2. retries_left' \in 0 .. MAX_RETRY /\ cur_set' \in 0 .. 2
      BY <1>1, <3>1 DEF MAX_RETRY
    <3> QED BY <1>1, <3>1, <3>2
  <2>4. CASE TimerCreate(timers, "handleGapCppTimerExpiry")
    BY <1>1, <1>2, <2>1, <2>2, <2>3, <2>4, BoundedCreate
  <2>5. CASE UNCHANGED <<timers, tid>>
    <3>1. CpuTypeOK'
      BY <1>1, <2>1, <2>2, <2>3, <2>5 DEF Bounded, CpuTypeOK
    <3>2. Running' = Running
      BY <2>5 DEF Running
    <3>3. (unanswered - 1) + Cardinality(Running) <= MaxTimers
      BY <1>1, <2>1, TimersAssumption
    <3> QED BY <2>1, <2>5, <3>1, <3>2, <3>3 DEF Bounded
  <2> QED BY <1>10, <2>4, <2>5 DEF handleConnParamUpdateCfm
<1>11. ASSUME NEW long \in BOOLEAN, handleConnParamUpdateInd(long)
       PROVE  Bounded'
  <2>1. /\ activity < MaxActivity /\ activity' = activity + 1
        /\ unanswered + Cardinality(Running) < MaxTimers
    BY <1>11 DEF handleConnParamUpdateInd
  <2>2. activity' \in 0 .. MaxActivity
    BY <1>1, <2>1, ActivityAssumption
  <2>3. CASE tid = TIMER_INVALID /\ long
    <3>1. request /\ timers' = timers
      BY <1>11, <2>3 DEF handleConnParamUpdateInd
    <3> QED BY <1>1, <2>1, <2>2, <3>1, BoundedRequest
  <2>4. CASE ~(tid = TIMER_INVALID /\ long)
    <3>1. UNCHANGED <<timers, tid, procedure, unanswered, overlapped>>
      BY <1>11, <2>4 DEF handleConnParamUpdateInd
    <3> QED BY <1>1, <1>4, <2>2, <3>1 DEF procedure
  <2> QED BY <2>3, <2>4
<1>12. ASSUME handleServerAccessed PROVE Bounded'
  <2> DEFINE running == Deleted(timers, tid)
  <2>1. /\ activity < MaxActivity /\ activity' = activity + 1
        /\ UNCHANGED <<cpc_timer_active, retries_left, two_sets, cur_set,
                       unanswered, overlapped>>
    BY <1>12 DEF handleServerAccessed, procedure
  <2>2. activity' \in 0 .. MaxActivity
    BY <1>1, <2>1, ActivityAssumption
  <2>3. CASE cpc_timer_active /\ tid # TIMER_INVALID
    <3>1. TimerCreate(running, "requestConnParamUpdate")
      BY <1>12, <2>3 DEF handleServerAccessed
    <3>2. tid \in Used(timers)
      BY <1>1, <2>3 DEF Bounded
    <3>3. /\ running \in [TimerId -> Expiry]
          /\ Cardinality(Used(running)) = Cardinality(Running) - 1
      BY <1>1, <3>2, DeletedCount
    <3>4. unanswered + Cardinality(Used(running)) < MaxTimers
      BY <1>1, <3>3, TimersAssumption
    <3>5. unanswered' + Cardinality(Used(running)) < MaxTimers
      BY <2>1, <3>4
    <3> HIDE DEF running
    <3> QED BY <1>1, <1>2, <2>1, <2>2, <3>1, <3>3, <3>5, BoundedCreate
  <2>4. CASE ~(cpc_timer_active /\ tid # TIMER_INVALID)
    <3>1. UNCHANGED <<timers, tid>>
      BY <1>12, <2>4 DEF handleServerAccessed
    <3> QED BY <1>1, <1>4, <2>1, <2>2, <3>1
  <2> QED BY <2>3, <2>4
<1>13. CASE ConnectionParamUpdateEvent
  BY <1>10, <1>11, <1>12, <1>13 DEF ConnectionParamUpdateEvent
<1>14. ASSUME NEW t \in TimerId, handleGapCppTimerExpiry(t) PROVE Bounded'
  <2> DEFINE running == Deleted(timers, t)
  <2>1. /\ timers[t] = "handleGapCppTimerExpiry"
        /\ TimerCreate(running, "requestConnParamUpdate")
        /\ cpc_timer_active' = TRUE
        /\ UNCHANGED <<retries_left, two_sets, cur_set, unanswered, activity,
                       overlapped>>
    BY <1>14 DEF handleGapCppTimerExpiry
  <2>2. t \in Used(timers)
    BY <2>1 DEF Used
  <2>3. /\ running \in [TimerId -> Expiry]
        /\ Cardinality(Used(running)) = Cardinality(Running) - 1
    BY <1>1, <2>2, DeletedCount
  <2>4. unanswered + Cardinality(Used(running)) < MaxTimers
    BY <1>1, <2>3, TimersAssumption
  <2>5. unanswered' + Cardinality(Used(running)) < MaxTimers
    BY <2>1, <2>4
  <2> HIDE DEF running
  <2> QED BY <1>1, <1>2, <2>1, <2>3, <2>5, BoundedCreate
<1>15. ASSUME NEW t \in TimerId, requestConnParamUpdate(t) PROVE Bounded'
  <2>1. /\ timers[t] = "requestConnParamUpdate"
        /\ timers' = Deleted(timers, t) /\ request /\ activity' = activity
    BY <1>15 DEF requestConnParamUpdate
  <2>2. t \in Used(timers)
    BY <2>1 DEF Used
  <2>3. /\ timers' \in [TimerId -> Expiry]
        /\ Cardinality(Used(timers')) = Cardinality(Running) - 1
    BY <1>1, <2>1, <2>2, DeletedCount
  <2> DEFINE c == Cardinality(Used(timers'))
  <2>4. c = Cardinality(Running) - 1
    BY <2>3
  <2> HIDE DEF c
  <2>5. unanswered + c < MaxTimers
    BY <1>1, <2>4, TimersAssumption
  <2> QED BY <1>1, <2>1, <2>3, <2>5, BoundedRequest DEF c
<1>16. CASE CpuTimer
  BY <1>14, <1>15, <1>16 DEF CpuTimer
<1>17. CASE \/ \E b \in Bearers : BearerState(b)
            \/ gattAdvertTimerHandler
  BY <1>3, <1>17, BoundedStop
  DEF BearerState, gattAdvertTimerHandler, GattTriggerConnectableAdverts,
      SetIdle
<1> QED BY <1>5, <1>6, <1>7, <1>8, <1>9, <1>13, <1>16, <1>17 DEF Next

Flags == advert \in BOOLEAN /\ associated \in BOOLEAN

LEMMA FlagsStep == ConnInv /\ Flags /\ [Next]_vars => Flags'
<1> SUFFICES ASSUME ConnInv, Flags, [Next]_vars PROVE Flags'
  OBVIOUS
<1>1. CASE \/ handleCmInitCfm \/ ConnectionMade \/ ConnectionLost
           \/ handleBondNotify \/ handleEncryptionChangeNotify
           \/ handleCmConnectionUpdated \/ AppOtaReset
  BY <1>1, Zenon
  DEF Flags, handleCmInitCfm, SetAdvertising, ConnectionMade, ConnectionLost,
      Restart, handleBondNotify, handleEncryptionChangeNotify,
      handleCmConnectionUpdated, AppOtaReset, bearers
<1>2. CASE \/ ConnectionParamUpdateEvent \/ CpuTimer \/ AssocComplete
           \/ RemoveAssociation \/ (\E b \in Bearers : BearerState(b))
           \/ gattAdvertTimerHandler \/ AdvertEnds \/ UNCHANGED vars
  BY <1>2, Zenon
  DEF Flags, ConnectionParamUpdateEvent, CpuTimer, AssocComplete,
      RemoveAssociation, BearerState, gattAdvertTimerHandler,
      GattTriggerConnectableAdverts, SetIdle, AdvertEnds, vars, bearers
<1> QED BY <1>1, <1>2 DEF Next

(* The types: in particular there is always a timer to be created, and the *)
(* count of retries never wraps (request).                                 *)
THEOREM TypeCorrect == Spec => []TypeOK
<1>1. Init => Flags
  BY DEF Init, Flags
<1>2. ConnInv /\ Bounded /\ Flags => TypeOK
  BY DEF ConnInv, Bounded, Flags, TypeOK
<1> QED BY <1>1, <1>2, ConnCorrect, FlagsStep, BoundedInit, BoundedStep, PTL
        DEF Spec
=============================================================================
