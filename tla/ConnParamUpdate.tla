-------------------------- MODULE ConnParamUpdate --------------------------
(***************************************************************************)
(* The connection parameter update procedure (conn_param_update.c): after  *)
(* a pause the node asks its central for other connection parameters, and  *)
(* asks again when it is refused, first for one set, then for a second.    *)
(*                                                                         *)
(* The procedure knows one timer, by its id tid.  Timers are seen by what  *)
(* they call when they expire, whether tid names them or not.              *)
(***************************************************************************)
EXTENDS Integers, FiniteSets

CONSTANTS
  MaxTimers,    \* bound: timers of the procedure at one time
  MaxActivity   \* bound: what a central does of itself in one connection

ASSUME TimersAssumption == MaxTimers \in Nat \ {0}
ASSUME ActivityAssumption == MaxActivity \in Nat

VARIABLES
  timers,               \* for each timer id, what is called at its expiry
  tid,
  cpc_timer_active, retries_left, two_sets, cur_set,
  unanswered,           \* requests of this connection without an answer
  activity,             \* indications and accesses in this connection
  overlapped            \* history: a request was made before an answer

procedure == <<cpc_timer_active, retries_left, two_sets, cur_set>>
cpuVars == <<timers, tid, procedure, unanswered, activity, overlapped>>

TIMER_INVALID == 0
TimerId == 1 .. MaxTimers
MAX_RETRY == 3

(* Timers of the two pauses before a request (5 s, 30 s) and of the pause  *)
(* in which the central must be quiet (1 s).                               *)
Expiry == {"none", "handleGapCppTimerExpiry", "requestConnParamUpdate"}

Running == {t \in TimerId : timers[t] # "none"}

Unused(running) == {t \in TimerId : running[t] = "none"}
Deleted(running, t) == [u \in TimerId |-> IF u = t THEN "none" ELSE running[u]]

(* A new timer among those running; tid is overwritten, whatever it named. *)
TimerCreate(running, handler) ==
  LET t == CHOOSE u \in Unused(running) : TRUE
  IN tid' = t /\ timers' = [running EXCEPT ![t] = handler]

------------------------------------------------------------------------------
(* The procedure starts with a new connection.                             *)
RequestConnParamsUpdate ==
  /\ TimerCreate(Deleted(timers, tid), "handleGapCppTimerExpiry")
  /\ cpc_timer_active' = FALSE
  /\ retries_left' = MAX_RETRY
  /\ two_sets' = TRUE
  /\ cur_set' = 1

(* Only the timer that tid names is deleted.                               *)
StopConnParamsUpdate ==
  /\ timers' = Deleted(timers, tid)
  /\ tid' = TIMER_INVALID
  /\ UNCHANGED procedure

handleGapCppTimerExpiry(t) ==
  /\ timers[t] = "handleGapCppTimerExpiry"
  /\ TimerCreate(Deleted(timers, t), "requestConnParamUpdate")
  /\ cpc_timer_active' = TRUE
  /\ UNCHANGED <<retries_left, two_sets, cur_set, unanswered, activity,
                 overlapped>>

(* Mutant: the count goes below zero.                                      *)
oneLess_wraps == retries_left - 1

oneLess == IF retries_left > 0 THEN retries_left - 1 ELSE 0

(* A request, which the central, or the link layer, will answer.           *)
request ==
  /\ tid' = TIMER_INVALID
  /\ cpc_timer_active' = FALSE
  /\ retries_left' = oneLess
  /\ unanswered' = unanswered + 1
  /\ overlapped' = (overlapped \/ unanswered > 0)
  /\ UNCHANGED <<two_sets, cur_set>>

requestConnParamUpdate(t) ==
  /\ timers[t] = "requestConnParamUpdate"
  /\ timers' = Deleted(timers, t)
  /\ request
  /\ UNCHANGED activity

(* Mutant: the second set is not marked as the last.                       *)
secondSet_again ==
  /\ UNCHANGED two_sets
  /\ cur_set' = 2
  /\ retries_left' = MAX_RETRY

secondSet ==
  /\ two_sets' = FALSE
  /\ cur_set' = 2
  /\ retries_left' = MAX_RETRY

(* A refusal starts a pause before the next request of this set, or the    *)
(* first of the second set; after the last one nothing is started.         *)
handleConnParamUpdateCfm(success) ==
  /\ unanswered > 0
  /\ unanswered' = unanswered - 1
  /\ \/ success /\ UNCHANGED <<timers, tid, procedure>>
     \/ /\ ~success /\ retries_left > 0
        /\ TimerCreate(timers, "handleGapCppTimerExpiry")
        /\ UNCHANGED procedure
     \/ /\ ~success /\ retries_left = 0 /\ two_sets
        /\ secondSet
        /\ TimerCreate(timers, "handleGapCppTimerExpiry")
        /\ UNCHANGED cpc_timer_active
     \/ /\ ~success /\ retries_left = 0 /\ ~two_sets
        /\ retries_left' = MAX_RETRY
        /\ UNCHANGED <<timers, tid, cpc_timer_active, two_sets, cur_set>>
  /\ UNCHANGED <<activity, overlapped>>

(* The central has set an interval: if it is longer than the node wants,   *)
(* and no timer is running, the node asks at once.                         *)
handleConnParamUpdateInd(long) ==
  /\ activity < MaxActivity
  /\ unanswered + Cardinality(Running) < MaxTimers
  /\ activity' = activity + 1
  /\ IF tid = TIMER_INVALID /\ long
     THEN request /\ UNCHANGED timers
     ELSE UNCHANGED <<timers, tid, procedure, unanswered, overlapped>>

(* The central reads or writes: the quiet second starts again.             *)
handleServerAccessed ==
  /\ activity < MaxActivity
  /\ activity' = activity + 1
  /\ IF cpc_timer_active /\ tid # TIMER_INVALID
     THEN TimerCreate(Deleted(timers, tid), "requestConnParamUpdate")
     ELSE UNCHANGED <<timers, tid>>
  /\ UNCHANGED <<procedure, unanswered, overlapped>>

------------------------------------------------------------------------------
CpuInit ==
  /\ timers = [t \in TimerId |-> "none"]
  /\ tid = TIMER_INVALID
  /\ cpc_timer_active = FALSE /\ retries_left = 0
  /\ two_sets = FALSE /\ cur_set = 0
  /\ unanswered = 0 /\ activity = 0 /\ overlapped = FALSE

CpuTypeOK ==
  /\ timers \in [TimerId -> Expiry]
  /\ tid \in TimerId \cup {TIMER_INVALID}
  /\ cpc_timer_active \in BOOLEAN
  /\ retries_left \in 0 .. MAX_RETRY
  /\ two_sets \in BOOLEAN
  /\ cur_set \in 0 .. 2
  /\ unanswered \in Nat
  /\ activity \in 0 .. MaxActivity
  /\ overlapped \in BOOLEAN
=============================================================================
