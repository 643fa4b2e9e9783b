---------------------------- MODULE FrameChannel ----------------------------
(***************************************************************************)
(* What block messages are for: the frames one host gives to its module    *)
(* reach the host at the other end, each once, in order and under the      *)
(* sender's address.  The module keeps one frame that waits: the next one  *)
(* takes its place.  A frame that is only just coming in already spoils    *)
(* the one that waits, should it be sent at that moment, and with it every *)
(* promise.                                                                *)
(***************************************************************************)
EXTENDS Naturals, Sequences

CONSTANTS
  Frame,   \* the frames a host may send
  Node,    \* the sender's address
  None

VARIABLES
  waiting,    \* the frame that is to be sent next, or None
  marred,     \* has another one come in behind it?
  carried,    \* the frame on its way, or None
  delivered,  \* the reports the receiving host got
  spoilt      \* has a frame been sent marred?

vars == <<waiting, marred, carried, delivered, spoilt>>

Init ==
  /\ waiting = None /\ marred = FALSE /\ carried = None
  /\ delivered = <<>> /\ spoilt = FALSE

(* Another frame comes in behind the one that waits and is not accepted    *)
(* yet; it may happen to be of the length that does no harm.               *)
Arrive ==
  /\ waiting # None
  /\ marred' \in BOOLEAN
  /\ UNCHANGED <<waiting, carried, delivered, spoilt>>

Accept(f) ==
  /\ waiting' = f
  /\ marred' = FALSE
  /\ UNCHANGED <<carried, delivered, spoilt>>

(* A frame is on its way only when the one before it has been delivered.   *)
Begin ==
  /\ waiting # None /\ ~marred
  /\ carried = None
  /\ carried' = waiting
  /\ waiting' = None
  /\ UNCHANGED <<marred, delivered, spoilt>>

Deliver ==
  /\ carried # None
  /\ delivered' = Append(delivered, [source |-> Node, frame |-> carried])
  /\ carried' = None
  /\ UNCHANGED <<waiting, marred, spoilt>>

(* From here on anything may happen.                                       *)
BeginMarred == waiting # None /\ marred /\ spoilt'
AfterSpoilt == spoilt /\ spoilt'

Next ==
  \/ Arrive
  \/ \E f \in Frame : Accept(f)
  \/ Begin
  \/ Deliver
  \/ BeginMarred \/ AfterSpoilt

InOrder == Init /\ [][Next]_vars

(* A frame that waits is sent, and what is sent is delivered.              *)
Progress ==
  /\ waiting # None ~> waiting = None \/ spoilt
  /\ carried # None ~> carried = None \/ spoilt

Spec == InOrder /\ Progress
=============================================================================
