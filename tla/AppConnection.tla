--------------------------- MODULE AppConnection ---------------------------
(***************************************************************************)
(* The state of the application (connection_handler.c), its connectable    *)
(* adverts (advertisement_handler.c), and the bearer state it keeps and    *)
(* gives to the mesh stack (core_mesh_handler.c, app_mesh_handler.c).  The *)
(* connection parameter update runs inside a connection.                   *)
(*                                                                         *)
(* Handlers run to completion; calls of AppSetState from other handlers    *)
(* are part of their steps.  One central connects at a time.               *)
(***************************************************************************)
EXTENDS ConnParamUpdate

CONSTANTS Peer, CM_INVALID_DEVICE_ID

ASSUME PeerAssumption == Peer # CM_INVALID_DEVICE_ID

VARIABLES
  state,
  gatt_advert_tid,      \* is the advert timer running?
  gatt_data,            \* device_id and ota_reset_required
  bearer_tx_state,      \* what the application keeps
  transmit_state,       \* what the stack was told last
  g_cskey_flags,        \* is the bridge enabled by the user key?
  associated,
  link,                 \* of the connection manager
  advert,               \* an advert is on air
  unmanaged,            \* history: this connection was made in idle state
  silenced              \* history: it has seen the GATT bearer disabled

bearers == <<bearer_tx_state, transmit_state, associated>>
connHistory == <<unmanaged, silenced>>
vars == <<state, gatt_advert_tid, gatt_data, bearers, g_cskey_flags, link,
          advert, connHistory, cpuVars>>

Bearers == [gatt : BOOLEAN, promiscuous : BOOLEAN]
Untold == [gatt |-> FALSE, promiscuous |-> FALSE]

IsGattBearerEnabled == bearer_tx_state.gatt
Connected == gatt_data.device_id # CM_INVALID_DEVICE_ID

InitialiseGattData ==
  [device_id |-> CM_INVALID_DEVICE_ID, ota_reset_required |-> FALSE]

(* Mutant: the procedure is not stopped.                                   *)
AppDataInit_unstopped ==
  /\ gatt_data' = InitialiseGattData
  /\ UNCHANGED cpuVars

AppDataInit ==
  /\ gatt_data' = InitialiseGattData
  /\ StopConnParamsUpdate
  /\ UNCHANGED <<unanswered, activity, overlapped>>

------------------------------------------------------------------------------
(* AppSetState(app_state_idle): leaving advertising stops the adverts,     *)
(* leaving disconnecting resets the data.                                  *)
SetIdle(timer) ==
  /\ state' = "idle"
  /\ gatt_advert_tid' = (timer /\ state # "advertising")
  /\ IF state = "disconnecting" THEN AppDataInit
     ELSE UNCHANGED <<gatt_data, cpuVars>>

(* Mutant: the advert is sent, but no timer is started for the next.       *)
GattTriggerConnectableAdverts_once(timer, enabled) ==
  IF enabled
  THEN /\ advert' = TRUE /\ gatt_advert_tid' = FALSE
       /\ UNCHANGED <<state, gatt_data, cpuVars>>
  ELSE SetIdle(timer) /\ UNCHANGED advert

(* An advert, and the timer for the next; but with the bearer disabled the *)
(* application becomes idle, whatever its state was.                       *)
GattTriggerConnectableAdverts(timer, enabled) ==
  IF enabled
  THEN /\ advert' = TRUE /\ gatt_advert_tid' = TRUE
       /\ UNCHANGED <<state, gatt_data, cpuVars>>
  ELSE SetIdle(timer) /\ UNCHANGED advert

(* AppSetState(app_state_advertising), from a state without adverts.       *)
SetAdvertising ==
  IF IsGattBearerEnabled
  THEN /\ state' = "advertising"
       /\ advert' = TRUE /\ gatt_advert_tid' = TRUE
  ELSE /\ state' = "idle"
       /\ gatt_advert_tid' = FALSE
       /\ UNCHANGED advert

(* A panic, and the reset into the new image, start the program again.     *)
Restart ==
  /\ state' = "init"
  /\ gatt_advert_tid' = FALSE
  /\ gatt_data' = InitialiseGattData
  /\ transmit_state' = Untold
  /\ advert' = FALSE
  /\ unmanaged' = FALSE /\ silenced' = FALSE
  /\ timers' = [t \in TimerId |-> "none"] /\ tid' = TIMER_INVALID
  /\ cpc_timer_active' = FALSE /\ retries_left' = 0
  /\ two_sets' = FALSE /\ cur_set' = 0
  /\ unanswered' = 0 /\ activity' = 0 /\ overlapped' = FALSE
  /\ UNCHANGED <<bearer_tx_state, associated, g_cskey_flags>>

------------------------------------------------------------------------------
(* Events of the connection manager (appHandleConnMgrProcEvent).           *)
handleCmInitCfm ==
  /\ state = "init"
  /\ AppDataInit
  /\ transmit_state' = bearer_tx_state
  /\ SetAdvertising
  /\ UNCHANGED <<bearer_tx_state, associated, g_cskey_flags, link,
                 connHistory>>

(* Mutant: entering the connected state leaves the adverts alone.          *)
advertsAfterConnect_on == gatt_advert_tid

(* Entering the connected state stops adverts that the advertising state   *)
(* started; not those that a bearer event started in the idle state.       *)
advertsAfterConnect == gatt_advert_tid /\ state # "advertising"

ConnectionMade ==
  /\ link = "none" /\ advert
  /\ Cardinality(Running) < MaxTimers
  /\ link' = "connected"
  /\ advert' = FALSE
  /\ gatt_data' = [gatt_data EXCEPT !.device_id = Peer]
  /\ transmit_state' = [bearer_tx_state EXCEPT !.promiscuous = TRUE]
  /\ state' = "connected"
  /\ gatt_advert_tid' = advertsAfterConnect
  /\ RequestConnParamsUpdate
  /\ unanswered' = 0 /\ activity' = 0
  /\ overlapped' = (overlapped /\ Running # {})
  /\ unmanaged' = (state = "idle")
  /\ silenced' = ~IsGattBearerEnabled
  /\ UNCHANGED <<bearer_tx_state, associated, g_cskey_flags>>

(* Mutant: the promiscuous mode of the connection stays.                   *)
restored_not == transmit_state
restored == bearer_tx_state

(* Mutant: the data is reset before the request for a reset is looked at.  *)
otaReset_late == InitialiseGattData.ota_reset_required
otaReset == gatt_data.ota_reset_required

ConnectionLost ==
  /\ link # "none"
  /\ link' = "none"
  /\ IF otaReset \/ state \notin {"connected", "disconnecting"}
     THEN Restart
     ELSE /\ transmit_state' = restored
          /\ AppDataInit
          /\ SetAdvertising
          /\ UNCHANGED <<bearer_tx_state, associated, g_cskey_flags,
                         connHistory>>

CMDisconnect == link' = IF link = "connected" THEN "disconnecting" ELSE link

(* A failed pairing: AppSetState(app_state_disconnecting).                 *)
handleBondNotify ==
  /\ link = "connected"
  /\ state' = "disconnecting"
  /\ CMDisconnect
  /\ UNCHANGED <<gatt_advert_tid, gatt_data, bearers, g_cskey_flags, advert,
                 connHistory, cpuVars>>

(* A failed encryption disconnects without a change of state; while the    *)
(* link is being closed the connection manager panics.                     *)
handleEncryptionChangeNotify ==
  /\ link # "none"
  /\ IF link = "connected"
     THEN /\ CMDisconnect
          /\ UNCHANGED <<state, gatt_advert_tid, gatt_data, bearers,
                         g_cskey_flags, advert, connHistory, cpuVars>>
     ELSE Restart /\ link' = "none"

(* New parameters are in use.                                              *)
handleCmConnectionUpdated ==
  /\ link # "none"
  /\ IF state \in {"connected", "disconnecting"}
     THEN /\ gatt_data' = [gatt_data EXCEPT !.device_id = Peer]
          /\ UNCHANGED <<state, gatt_advert_tid, bearers, g_cskey_flags,
                         link, advert, connHistory, cpuVars>>
     ELSE Restart /\ link' = "none"

(* The central writes the new image: AppOtaReset.                          *)
AppOtaReset ==
  /\ link # "none" /\ Connected
  /\ gatt_data' = [gatt_data EXCEPT !.ota_reset_required = TRUE]
  /\ CMDisconnect
  /\ UNCHANGED <<state, gatt_advert_tid, bearers, g_cskey_flags, advert,
                 connHistory, cpuVars>>

(* Events of the parameter update procedure.                               *)
ConnectionParamUpdateEvent ==
  /\ link # "none"
  /\ \/ \E success \in BOOLEAN : handleConnParamUpdateCfm(success)
     \/ \E long \in BOOLEAN : handleConnParamUpdateInd(long)
     \/ handleServerAccessed
  /\ UNCHANGED <<state, gatt_advert_tid, gatt_data, bearers, g_cskey_flags,
                 link, advert, connHistory>>

(* Timers of the procedure, whether there is a connection or not.          *)
CpuTimer ==
  /\ \E t \in TimerId : handleGapCppTimerExpiry(t) \/ requestConnParamUpdate(t)
  /\ UNCHANGED <<state, gatt_advert_tid, gatt_data, bearers, g_cskey_flags,
                 link, advert, connHistory>>

------------------------------------------------------------------------------
(* Mesh events (appProcessMeshEvent), which need a network.  The stored    *)
(* state becomes the stack's at once only without a connection.            *)
(* Mutant: the connection is not looked at.                                *)
updateWhenApart_always(b) == transmit_state' = b

updateWhenApart(b) ==
  transmit_state' = IF Connected THEN transmit_state ELSE b

AssocComplete ==
  /\ state # "init" /\ ~associated
  /\ associated' = TRUE
  /\ bearer_tx_state' = [bearer_tx_state EXCEPT !.promiscuous = FALSE]
  /\ updateWhenApart(bearer_tx_state')
  /\ UNCHANGED <<state, gatt_advert_tid, gatt_data, g_cskey_flags, link,
                 advert, connHistory, cpuVars>>

BearerState(b) ==
  /\ state # "init" /\ associated
  /\ bearer_tx_state' = b
  /\ updateWhenApart(b)
  /\ IF Connected
     THEN UNCHANGED <<state, gatt_advert_tid, gatt_data, advert, cpuVars>>
     ELSE GattTriggerConnectableAdverts(gatt_advert_tid, b.gatt)
  /\ silenced' = (silenced \/ (link # "none" /\ ~b.gatt))
  /\ UNCHANGED <<associated, g_cskey_flags, link, unmanaged>>

(* The user key decides whether the bridge is enabled.  The stack is told  *)
(* in a connection too; no adverts are started or stopped.                 *)
RemoveAssociation ==
  /\ state # "init" /\ associated
  /\ associated' = FALSE
  /\ bearer_tx_state' = [gatt |-> g_cskey_flags, promiscuous |-> TRUE]
  /\ transmit_state' = bearer_tx_state'
  /\ silenced' = (silenced \/ (link # "none" /\ ~g_cskey_flags))
  /\ UNCHANGED <<state, gatt_advert_tid, gatt_data, g_cskey_flags, link,
                 advert, unmanaged, cpuVars>>

------------------------------------------------------------------------------
gattAdvertTimerHandler ==
  /\ gatt_advert_tid
  /\ GattTriggerConnectableAdverts(FALSE, IsGattBearerEnabled)
  /\ UNCHANGED <<bearers, g_cskey_flags, link, connHistory>>

(* An advert is over and nobody connected.                                 *)
AdvertEnds ==
  /\ advert
  /\ advert' = FALSE
  /\ UNCHANGED <<state, gatt_advert_tid, gatt_data, bearers, g_cskey_flags,
                 link, connHistory, cpuVars>>

------------------------------------------------------------------------------
Init ==
  /\ state = "init"
  /\ gatt_advert_tid = FALSE
  /\ gatt_data = InitialiseGattData
  /\ bearer_tx_state \in Bearers
  /\ transmit_state = Untold
  /\ g_cskey_flags \in BOOLEAN
  /\ associated \in BOOLEAN
  /\ link = "none" /\ advert = FALSE
  /\ unmanaged = FALSE /\ silenced = FALSE
  /\ CpuInit

Next ==
  \/ handleCmInitCfm
  \/ ConnectionMade \/ ConnectionLost
  \/ handleBondNotify \/ handleEncryptionChangeNotify
  \/ handleCmConnectionUpdated \/ AppOtaReset
  \/ ConnectionParamUpdateEvent \/ CpuTimer
  \/ AssocComplete \/ RemoveAssociation
  \/ \E b \in Bearers : BearerState(b)
  \/ gattAdvertTimerHandler \/ AdvertEnds

Spec == Init /\ [][Next]_vars

(* Timers expire, and the link layer answers each request.                 *)
Answer == ConnectionParamUpdateEvent /\ unanswered' < unanswered

FairSpec == /\ Spec
            /\ WF_vars(gattAdvertTimerHandler)
            /\ WF_vars(CpuTimer)
            /\ WF_vars(Answer)

------------------------------------------------------------------------------
TypeOK ==
  /\ CpuTypeOK
  /\ state \in {"init", "idle", "advertising", "connected", "disconnecting"}
  /\ gatt_advert_tid \in BOOLEAN
  /\ gatt_data \in [device_id : {Peer, CM_INVALID_DEVICE_ID},
                    ota_reset_required : BOOLEAN]
  /\ {bearer_tx_state, transmit_state} \subseteq Bearers
  /\ {g_cskey_flags, associated, advert, unmanaged, silenced} \subseteq BOOLEAN
  /\ link \in {"none", "connected", "disconnecting"}

(* While a central is connected the node relays for any network key, so    *)
(* that the central is heard before it shares one; neither an association  *)
(* nor a bearer event of the mesh during the connection ends that          *)
(* (handleConnNotify, CSR_MESH_ASSOC_COMPLETE_EVENT, RemoveAssociation).   *)
PromiscuousWhileConnected ==
  state \in {"connected", "disconnecting"} => transmit_state.promiscuous

(* Without a connection the stack has the bearer state that is stored:     *)
(* what came in during the last connection takes effect at its end         *)
(* (handleConnNotify, AppUpdateBearerState).                               *)
StoredWhenApart ==
  link = "none" /\ state # "init" => transmit_state = bearer_tx_state

(* The state of the application follows the link, so that the end of a     *)
(* connection never comes in a state where it panics ("Control should      *)
(* never come here", handleConnNotify).  The exception is a connection     *)
(* made in the idle state, from adverts that a bearer event started and    *)
(* whose timer is not stopped, that sees the GATT bearer disabled.         *)
StateFollowsLink ==
  /\ link # "none" => (\/ state \in {"connected", "disconnecting"}
                       \/ unmanaged /\ silenced)
  /\ state \in {"connected", "disconnecting"} => link # "none" /\ Connected

(* The parameter update procedure ends with its connection: no timer of it *)
(* is left to ask a central that is not there (StopConnParamsUpdate knows  *)
(* one timer).  It needs a central that answers a request before it causes *)
(* another by setting an interval of its own.                              *)
NoTimerOutlivesConnection ==
  link = "none" /\ ~overlapped => Running = {}

(* The reset into a new image, asked for by the central, happens when its  *)
(* connection ends, whatever was called in between (AppOtaReset,           *)
(* InitialiseGattData); with the same exception.                           *)
ResetIsKept ==
  [][gatt_data.ota_reset_required /\ ~gatt_data'.ota_reset_required
     => state' = "init" \/ (unmanaged /\ silenced)]_vars

(* A node in the advertising state sends adverts again and again, until a  *)
(* central connects (gattAdvertTimerHandler).                              *)
AdvertisesOn == state = "advertising" ~> (advert \/ state # "advertising")

(* In every connection the procedure comes to an end, by success or after  *)
(* the requests for both sets, unless the connection ends first.           *)
ProcedureEnds ==
  link # "none" ~> (link = "none" \/ (Running = {} /\ unanswered = 0))
=============================================================================
