---------------------------- MODULE NodeStorage ----------------------------
(***************************************************************************)
(* What the node keeps over a loss of power: the NVM words of              *)
(* app_mesh_handler.c, the status block of Flash_Run.c, and, in the mesh   *)
(* stack, its place in a network.  A handler changes its variables and     *)
(* then writes word after word; power may go before any of the writes.     *)
(*                                                                         *)
(* A handler runs to completion, so its variables change at its start and  *)
(* only its writes are steps.  One call of Nvm_Write is one step.          *)
(***************************************************************************)
EXTENDS Integers, Sequences, SoftTimer

CONSTANTS
  Id,         \* device ids a network may assign
  OwnIds,     \* those of them within 0x8000 .. 0x9000
  NoId,       \* the cleared id
  Group, NoGroup,
  Ttl, DefaultTtl,
  MaxModelGroups,
  Erased,     \* a word that was never written
  Old,        \* a word in the layout of an earlier version
  MaxCrash    \* bound: losses of power

ASSUME IdAssumption == OwnIds \subseteq Id /\ NoId \notin Id
ASSUME DefaultAssumption == NoGroup \notin Group /\ DefaultTtl \in Ttl
ASSUME SizeAssumption == MaxModelGroups \in Nat /\ MaxCrash \in Nat
VARIABLES
  nvm,                  \* the words, and "network", which the stack keeps
  power, handler, todo, \* the writes that the running handler has left
  g_app_nvm_fresh, assoc_state, bearer_tx_state, ttl_value,
  data_model_groups,
  dev_id_advert_tid,    \* is the timer running?
  tAdvUUID3Min,
  Local_MESH_ID, FlashWrite, FlashRead, tWriteFlashDelay, tPoweronWait3s,
  crashes,
  torn,                 \* history: power went in the middle of (dis)association
  lost                  \* history: the id had no chance to be stored

association == <<assoc_state, dev_id_advert_tid, tAdvUUID3Min>>
settings == <<bearer_tx_state, ttl_value, data_model_groups>>
status == <<Local_MESH_ID, FlashWrite, FlashRead, tWriteFlashDelay,
            tPoweronWait3s>>
history == <<crashes, torn, lost>>
vars == <<nvm, power, handler, todo, g_app_nvm_fresh, association, settings,
          status, history>>

Index == 0 .. MaxModelGroups - 1
Groups == [Index -> Group \cup {NoGroup}]

(* Ticks come in any order, so a count of one stands for any.              *)
C_T_tAdvUUID3Min == 1
(* Mutant: the delay is longer than its timer counts.                      *)
C_T_tWriteFlashDelay_long == 2
C_T_tWriteFlashDelay == 1
C_T_tPoweronWait3s == 1

NoNetwork == NoId

(* What user key 0 and the header files give a node that is new.  Of the   *)
(* bearer state only bearerPromiscuous is told apart: the other bearer     *)
(* flags are saved and restored in the same words.                         *)
Bearer == {"promiscuous", "own"}
DefaultBearer == "promiscuous"
initializeSupportedModelGroups == [i \in Index |-> NoGroup]

Word == {"sanity", "version", "assoc", "uuid", "bearer", "ttl", "groups",
         "status", "network"}

(* What was never written, or written by an earlier version, is none of    *)
(* the values of this one.                                                 *)
ASSUME MarkAssumption ==
  /\ Erased # Old
  /\ \A mark \in {Erased, Old} :
       /\ mark \notin {"current", "not_associated", "association_started",
                      "associated"}
       /\ mark \notin Bearer \cup Ttl \cup Groups

Write(word, value) == [word |-> word, value |-> value]

------------------------------------------------------------------------------
(* The writes of each handler, in the order of the code.                   *)

(* First start: nvmReadSanity writes the sanity word, the connection       *)
(* manager zeroes its bonds, which share words with the status block, and  *)
(* readPersistentStore resets the association.                             *)
FreshWrites ==
  << Write("sanity", TRUE), Write("status", NoId),
     Write("assoc", "not_associated"), Write("uuid", TRUE),
     Write("sanity", TRUE) >>

(* First start or new version: everything else is reset, the version last. *)
(* Mutant: the version goes first.                                         *)
DefaultWrites_versionFirst ==
  << Write("version", "current"), Write("bearer", DefaultBearer),
     Write("ttl", DefaultTtl),
     Write("groups", initializeSupportedModelGroups) >>

DefaultWrites ==
  << Write("bearer", DefaultBearer), Write("ttl", DefaultTtl),
     Write("groups", initializeSupportedModelGroups),
     Write("version", "current") >>

(* Mutant: the bearer state is changed, but not saved.                     *)
AssociatedWrites_noBearer(id) ==
  << Write("network", id), Write("assoc", "associated") >>

(* The stack keeps the keys of the network, then comes its event.          *)
AssociatedWrites(id) ==
  << Write("network", id), Write("assoc", "associated"),
     Write("bearer", "own") >>

(* Mutant: the groups of the old network stay.                             *)
RemovalWrites_noGroups ==
  << Write("network", NoNetwork), Write("bearer", DefaultBearer),
     Write("assoc", "not_associated"), Write("ttl", DefaultTtl) >>

RemovalWrites ==
  << Write("network", NoNetwork), Write("bearer", DefaultBearer),
     Write("assoc", "not_associated"), Write("ttl", DefaultTtl),
     Write("groups", initializeSupportedModelGroups) >>

------------------------------------------------------------------------------
Idle_ == power /\ handler = "none"

Begin(name, writes) == handler' = name /\ todo' = writes

(* InitiateAssociation: three minutes of adverts of the device UUID.       *)
(* Mutant: the timer is taken to be running still.                         *)
InitiateAssociation_noTimer ==
  /\ UNCHANGED dev_id_advert_tid
  /\ tAdvUUID3Min' = C_T_tAdvUUID3Min

InitiateAssociation ==
  /\ dev_id_advert_tid' = TRUE
  /\ tAdvUUID3Min' = C_T_tAdvUUID3Min

------------------------------------------------------------------------------
(* Start: AppInit, Nvm_Init, the connection manager, and                   *)
(* readPersistentStore up to its last writes.                              *)
PowerOn ==
  LET fresh == ~nvm["sanity"]
      reset == fresh \/ nvm["version"] # "current"
  IN /\ ~power
     /\ power' = TRUE
     /\ g_app_nvm_fresh' = fresh
     /\ Begin("boot", (IF fresh THEN FreshWrites ELSE <<>>)
                      \o (IF reset THEN DefaultWrites ELSE <<>>))
     /\ bearer_tx_state' = IF reset THEN DefaultBearer ELSE nvm["bearer"]
     /\ ttl_value' = IF reset THEN DefaultTtl ELSE nvm["ttl"]
     /\ FlashRead' = TRUE
     /\ tPoweronWait3s' = C_T_tPoweronWait3s
     /\ UNCHANGED <<nvm, association, data_model_groups, Local_MESH_ID,
                    FlashWrite, tWriteFlashDelay, history>>

(* Mutant: a node started afresh keeps what the stack has of a network.    *)
StartWrites_none == <<>>

StartWrites ==
  IF g_app_nvm_fresh THEN <<Write("network", NoNetwork)>> ELSE <<>>

(* The end of readPersistentStore, and AppMeshInit.  A word that is not    *)
(* app_state_not_associated is taken for an association.                   *)
AppMeshInit ==
  /\ power /\ handler = "boot" /\ todo = <<>>
  /\ data_model_groups' = nvm["groups"]
  /\ assoc_state' = nvm["assoc"]
  /\ IF nvm["assoc"] = "not_associated"
     THEN /\ InitiateAssociation
          /\ Begin(IF StartWrites = <<>> THEN "none" ELSE "association",
                   StartWrites)
     ELSE /\ Begin("none", <<>>)
          /\ UNCHANGED <<dev_id_advert_tid, tAdvUUID3Min>>
  /\ UNCHANGED <<nvm, power, g_app_nvm_fresh, bearer_tx_state, ttl_value,
                 status, history>>

(* The running handler writes its next word.                               *)
Nvm_Write ==
  /\ power /\ todo # <<>>
  /\ nvm' = [nvm EXCEPT ![Head(todo).word] = Head(todo).value]
  /\ todo' = Tail(todo)
  /\ handler' = IF Len(todo) = 1 /\ handler # "boot" THEN "none" ELSE handler
  /\ torn' = (torn /\ ~(Len(todo) = 1 /\ handler = "removal"))
  /\ UNCHANGED <<power, g_app_nvm_fresh, association, settings, status,
                 crashes, lost>>

------------------------------------------------------------------------------
(* Mesh events (appProcessMeshEvent).                                      *)
AssocStarted ==
  /\ Idle_ /\ assoc_state = "not_associated"
  /\ assoc_state' = "association_started"
  /\ UNCHANGED <<nvm, power, handler, todo, g_app_nvm_fresh,
                 dev_id_advert_tid, tAdvUUID3Min, settings, status, history>>

(* The status is written half a second later (setStatus).                  *)
(* Mutants: the delay is not started; the new id is not marked for writing.*)
setStatus_undelayed(id) ==
  /\ Local_MESH_ID' = id
  /\ FlashWrite' = TRUE
  /\ UNCHANGED tWriteFlashDelay

setStatus_unmarked(id) ==
  /\ Local_MESH_ID' = id
  /\ UNCHANGED <<FlashWrite, tWriteFlashDelay>>

setStatus(id) ==
  /\ Local_MESH_ID' = id
  /\ FlashWrite' = TRUE
  /\ tWriteFlashDelay' = C_T_tWriteFlashDelay

AssocComplete(id) ==
  /\ Idle_ /\ assoc_state = "association_started"
  /\ assoc_state' = "associated"
  /\ bearer_tx_state' = "own"
  /\ setStatus(IF id \in OwnIds THEN id ELSE Local_MESH_ID)
  /\ Begin("association", AssociatedWrites(id))
  /\ lost' = FlashRead
  /\ UNCHANGED <<nvm, power, g_app_nvm_fresh, dev_id_advert_tid,
                 tAdvUUID3Min, ttl_value, data_model_groups, FlashRead,
                 tPoweronWait3s, crashes, torn>>

AssocFailed ==
  /\ Idle_ /\ assoc_state = "association_started"
  /\ assoc_state' = "not_associated"
  /\ InitiateAssociation
  /\ Begin("setting", <<Write("assoc", "not_associated")>>)
  /\ UNCHANGED <<nvm, power, g_app_nvm_fresh, settings, status, history>>

(* Messages that configure the node need the keys of its network.          *)
configurable == Idle_ /\ nvm["network"] # NoNetwork

RemoveAssociation ==
  /\ configurable /\ assoc_state # "not_associated"
  /\ assoc_state' = "not_associated"
  /\ bearer_tx_state' = DefaultBearer
  /\ ttl_value' = DefaultTtl
  /\ data_model_groups' = initializeSupportedModelGroups
  /\ InitiateAssociation
  /\ Begin("removal", RemovalWrites)
  /\ UNCHANGED <<nvm, power, g_app_nvm_fresh, status, history>>

BearerState(bearer) ==
  /\ configurable
  /\ bearer_tx_state' = bearer
  /\ Begin("setting", <<Write("bearer", bearer)>>)
  /\ UNCHANGED <<nvm, power, g_app_nvm_fresh, association, ttl_value,
                 data_model_groups, status, history>>

SetParams(ttl) ==
  /\ configurable
  /\ ttl_value' = ttl
  /\ Begin("setting", <<Write("ttl", ttl)>>)
  /\ UNCHANGED <<nvm, power, g_app_nvm_fresh, association, bearer_tx_state,
                 data_model_groups, status, history>>

(* One word is written, the group of that index.                           *)
HandleGroupSetMsg(index, group) ==
  /\ configurable
  /\ data_model_groups' = [data_model_groups EXCEPT ![index] = group]
  /\ Begin("setting",
           <<Write("groups", [nvm["groups"] EXCEPT ![index] = group])>>)
  /\ UNCHANGED <<nvm, power, g_app_nvm_fresh, association, bearer_tx_state,
                 ttl_value, status, history>>

------------------------------------------------------------------------------
(* Timers and the 10 ms handler.                                           *)
(* Mutant: any node that is not in the middle of an association.           *)
unassociated_notStarted == assoc_state # "association_started"

unassociated == assoc_state = "not_associated"

deviceIdAdvertTimeoutHandler ==
  /\ Idle_ /\ dev_id_advert_tid
  /\ IF unassociated
     THEN /\ dev_id_advert_tid' = ~fov(tAdvUUID3Min)
          /\ IF Local_MESH_ID # NoId THEN setStatus(NoId)
             ELSE UNCHANGED <<Local_MESH_ID, FlashWrite, tWriteFlashDelay>>
     ELSE /\ dev_id_advert_tid' = FALSE
          /\ UNCHANGED <<Local_MESH_ID, FlashWrite, tWriteFlashDelay>>
  /\ UNCHANGED <<nvm, power, handler, todo, g_app_nvm_fresh, assoc_state,
                 tAdvUUID3Min, settings, FlashRead, tPoweronWait3s, history>>

timer_100ms_RBINT ==
  /\ Idle_ /\ tWriteFlashDelay > 0
  /\ tWriteFlashDelay' = Tick(tWriteFlashDelay)
  /\ UNCHANGED <<nvm, power, handler, todo, g_app_nvm_fresh, association,
                 settings, Local_MESH_ID, FlashWrite, FlashRead,
                 tPoweronWait3s, history>>

timer_1s_RBINT ==
  /\ Idle_
  /\ \/ /\ tPoweronWait3s > 0
        /\ tPoweronWait3s' = Tick(tPoweronWait3s)
        /\ UNCHANGED tAdvUUID3Min
     \/ /\ tAdvUUID3Min > 0
        /\ tAdvUUID3Min' = Tick(tAdvUUID3Min)
        /\ UNCHANGED tPoweronWait3s
  /\ UNCHANGED <<nvm, power, handler, todo, g_app_nvm_fresh, assoc_state,
                 dev_id_advert_tid, settings, Local_MESH_ID, FlashWrite,
                 FlashRead, tWriteFlashDelay, history>>

(* The status is written when its delay is over, else read once.           *)
writeDue == FlashWrite /\ fov(tWriteFlashDelay) /\ fov(tPoweronWait3s)
readDue == FlashRead /\ fov(tPoweronWait3s)

flash_run ==
  /\ Idle_
  /\ \/ /\ writeDue
        /\ FlashWrite' = FALSE
        /\ tWriteFlashDelay' = Idle
        /\ Begin("setting", <<Write("status", Local_MESH_ID)>>)
        /\ UNCHANGED <<Local_MESH_ID, FlashRead>>
     \/ /\ ~writeDue /\ readDue
        /\ FlashRead' = FALSE
        /\ Local_MESH_ID' = nvm["status"]
        /\ UNCHANGED <<FlashWrite, tWriteFlashDelay, handler, todo>>
  /\ UNCHANGED <<nvm, power, g_app_nvm_fresh, association, settings,
                 tPoweronWait3s, history>>

------------------------------------------------------------------------------
(* The variables of a node that is off hold nothing.                       *)
Off ==
  /\ power' = FALSE
  /\ Begin("none", <<>>)
  /\ g_app_nvm_fresh' = FALSE /\ assoc_state' = "not_associated"
  /\ bearer_tx_state' = DefaultBearer /\ ttl_value' = DefaultTtl
  /\ data_model_groups' = initializeSupportedModelGroups
  /\ dev_id_advert_tid' = FALSE /\ tAdvUUID3Min' = Idle
  /\ Local_MESH_ID' = NoId /\ FlashWrite' = FALSE /\ FlashRead' = FALSE
  /\ tWriteFlashDelay' = Idle /\ tPoweronWait3s' = Idle

(* Power goes.  A handler that writes one word, and the start of a new     *)
(* version, may be cut anywhere; the others leave a mixture.               *)
Crash ==
  /\ power /\ crashes < MaxCrash
  /\ Off
  /\ crashes' = crashes + 1
  /\ torn' = (\/ torn
              \/ handler \in {"association", "removal"}
              \/ handler = "boot" /\ g_app_nvm_fresh)
  /\ lost' = (\/ lost \/ FlashWrite
              \/ \E i \in DOMAIN todo : todo[i].word = "status")
  /\ UNCHANGED nvm

------------------------------------------------------------------------------
(* A new chip; one that ran an earlier version, in a network or not; one   *)
(* whose sanity word was damaged.                                          *)
Blank == [w \in Word |-> CASE w = "sanity" -> FALSE
                           [] w = "network" -> NoNetwork
                           [] OTHER -> Erased]

Used(sanity, id) ==
  [w \in Word |-> CASE w = "sanity" -> sanity
                    [] w = "uuid" -> TRUE
                    [] w \in {"status", "network"} -> id
                    [] w = "assoc" /\ id = NoNetwork -> "not_associated"
                    [] w = "assoc" /\ id # NoNetwork -> "associated"
                    [] OTHER -> Old]

Init ==
  /\ nvm \in {Blank} \cup
       {Used(sanity, id) : sanity \in BOOLEAN, id \in OwnIds \cup {NoNetwork}}
  /\ power = FALSE /\ handler = "none" /\ todo = <<>>
  /\ g_app_nvm_fresh = FALSE /\ assoc_state = "not_associated"
  /\ bearer_tx_state = DefaultBearer /\ ttl_value = DefaultTtl
  /\ data_model_groups = initializeSupportedModelGroups
  /\ dev_id_advert_tid = FALSE /\ tAdvUUID3Min = Idle
  /\ Local_MESH_ID = NoId /\ FlashWrite = FALSE /\ FlashRead = FALSE
  /\ tWriteFlashDelay = Idle /\ tPoweronWait3s = Idle
  /\ crashes = 0 /\ torn = FALSE /\ lost = FALSE

Next ==
  \/ PowerOn \/ AppMeshInit \/ Nvm_Write
  \/ AssocStarted \/ AssocFailed \/ RemoveAssociation
  \/ \E id \in Id : AssocComplete(id)
  \/ \E bearer \in Bearer : BearerState(bearer)
  \/ \E ttl \in Ttl : SetParams(ttl)
  \/ \E index \in Index, group \in Group : HandleGroupSetMsg(index, group)
  \/ deviceIdAdvertTimeoutHandler
  \/ timer_100ms_RBINT \/ timer_1s_RBINT \/ flash_run
  \/ Crash

Spec == Init /\ [][Next]_vars

(* Time bases tick, writes are made, and the 10 ms handler runs between    *)
(* two associations, however often they come.                              *)
FairSpec == /\ Spec
            /\ WF_vars(Nvm_Write) /\ WF_vars(AppMeshInit)
            /\ SF_vars(timer_100ms_RBINT)
            /\ SF_vars(timer_1s_RBINT /\ tPoweronWait3s' # tPoweronWait3s)
            /\ SF_vars(flash_run)

------------------------------------------------------------------------------
(* What the code writes into a word.                                       *)
Value(w) ==
  CASE w = "sanity" -> BOOLEAN
    [] w = "uuid" -> {TRUE}
    [] w = "version" -> {"current"}
    [] w = "assoc" -> {"not_associated", "associated"}
    [] w = "bearer" -> Bearer
    [] w = "ttl" -> Ttl
    [] w = "groups" -> Groups
    [] w \in {"status", "network"} -> Id \cup {NoId}

Written(w) == nvm[w] \notin {Erased, Old}

TypeOK ==
  /\ DOMAIN nvm = Word
  /\ \A w \in Word : nvm[w] \in Value(w) \cup
       (IF w \in {"sanity", "network"} THEN {} ELSE {Erased, Old})
  /\ power \in BOOLEAN
  /\ handler \in {"none", "boot", "association", "removal", "setting"}
  /\ \A i \in DOMAIN todo :
       todo[i].word \in Word /\ todo[i].value \in Value(todo[i].word)
  /\ g_app_nvm_fresh \in BOOLEAN
  /\ assoc_state \in
       {"not_associated", "association_started", "associated", Erased}
  /\ bearer_tx_state \in Bearer
  /\ ttl_value \in Ttl
  /\ data_model_groups \in Groups
  /\ dev_id_advert_tid \in BOOLEAN
  /\ tAdvUUID3Min \in Timer(C_T_tAdvUUID3Min)
  /\ Local_MESH_ID \in Id \cup {NoId, Erased}
  /\ FlashWrite \in BOOLEAN /\ FlashRead \in BOOLEAN
  /\ tWriteFlashDelay \in Timer(1)
  /\ tPoweronWait3s \in Timer(C_T_tPoweronWait3s)
  /\ crashes \in 0 .. MaxCrash
  /\ torn \in BOOLEAN /\ lost \in BOOLEAN

(* The version word is written after all that the next start will trust    *)
(* it for, wherever power goes (app_mesh_handler.c:501).                   *)
VersionIsLast ==
  nvm["version"] = "current" =>
    \A w \in {"bearer", "ttl", "groups"} : Written(w)

(* What a node runs on is what it would start with: between handlers the   *)
(* saved settings and association are those in use, whatever sequence of   *)
(* events, losses of power and starts led there.                           *)
SavedIsInUse ==
  Idle_ =>
    /\ nvm["bearer"] = bearer_tx_state
    /\ nvm["ttl"] = ttl_value
    /\ nvm["groups"] = data_model_groups
    /\ \/ nvm["assoc"] = assoc_state
       \/ assoc_state = "association_started"

(* The application and the stack agree whether there is a network, unless  *)
(* power went during an association or its removal.                        *)
AssociationMatchesStack ==
  Idle_ /\ ~torn =>
    (assoc_state = "associated" <=> nvm["network"] # NoNetwork)

(* With the same exception, nothing of a network that was left reaches the *)
(* next one: groups, TTL and bearers are those of a new node.              *)
NothingLeftBehind ==
  Idle_ /\ ~torn /\ assoc_state # "associated" =>
    /\ data_model_groups = initializeSupportedModelGroups
    /\ ttl_value = DefaultTtl
    /\ bearer_tx_state = DefaultBearer

(* A node without a network offers itself, until its three minutes are     *)
(* over: no failed association and no removal leaves it silent.            *)
UnassociatedIsAdvertised ==
  Idle_ /\ assoc_state = "not_associated" =>
    dev_id_advert_tid \/ fov(tAdvUUID3Min)

(* When nothing is left to write or read, the status block holds the id    *)
(* that the node reports to its host.                                      *)
StatusIsStored ==
  Idle_ /\ ~FlashWrite /\ ~FlashRead => nvm["status"] = Local_MESH_ID

(* That id is the node's own in its network, if it is within the range,    *)
(* unless the association came before the power-on read or power went      *)
(* before the delayed write.                                               *)
ReportsOwnId ==
  /\ Idle_ /\ ~FlashWrite /\ ~FlashRead /\ ~torn /\ ~lost
  /\ assoc_state = "associated" /\ nvm["network"] \in OwnIds
  => Local_MESH_ID = nvm["network"]

(* A change of the status reaches the block, while there is power.         *)
StatusGetsStored == FlashWrite ~> ~FlashWrite

(* A reset after the sanity word was written finds the other data written: *)
(* a node in operation never took an association or a device UUID from     *)
(* words that no code has written (app_mesh_handler.c:441).                *)
StartsOnWrittenData == Idle_ => Written("assoc") /\ Written("uuid")
=============================================================================
