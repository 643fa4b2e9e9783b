------------------------------ MODULE ByteFifo ------------------------------
(***************************************************************************)
(* What the byte queue of the heater firmware promises its callers: a      *)
(* bounded first-in first-out queue whose oldest bytes give way to new     *)
(* ones when a caller forces data in, and whose front can be looked at     *)
(* before it is removed.  The ring of byte_queue.c (module ByteQueue) is   *)
(* shown to implement this specification.                                  *)
(***************************************************************************)
EXTENDS Naturals, Sequences

CONSTANTS
  Byte,      \* the values a queue cell can hold
  Capacity,  \* how many bytes the queue can hold
  Chunks,    \* the byte strings callers pass in
  Lens       \* the lengths callers ask for

VARIABLES
  queue,     \* the bytes held, oldest first
  peeked,    \* how many bytes at the front the last peek returned
  ret,       \* the bytes the last peek or pop returned
  accepted   \* what the last safe insertion answered

fifoVars == <<queue, peeked, ret, accepted>>

Smaller(m, n) == IF m <= n THEN m ELSE n

(* The newest n bytes of s. *)
LastOf(s, n) ==
  IF Len(s) <= n THEN s ELSE SubSeq(s, Len(s) - n + 1, Len(s))

Init ==
  /\ queue = <<>>
  /\ peeked = 0
  /\ ret = <<>>
  /\ accepted = TRUE

(* Data goes in at the back; what does not fit pushes the oldest bytes     *)
(* out, and an outstanding peek is forgotten when that happens.            *)
Put(d) ==
  /\ queue' = LastOf(queue \o d, Capacity)
  /\ peeked' = IF Smaller(Len(d), Capacity) > Capacity - Len(queue)
               THEN 0 ELSE peeked

Force(d) == Put(d) /\ UNCHANGED <<ret, accepted>>

Safe(d) ==
  /\ accepted' = (Len(d) <= Capacity - Len(queue))
  /\ IF accepted' THEN Put(d) ELSE UNCHANGED <<queue, peeked>>
  /\ UNCHANGED ret

(* The front of the queue, up to n bytes.  Peeking at nothing leaves an    *)
(* earlier peek outstanding.                                               *)
PeekCount(n) == IF n = 0 THEN peeked ELSE Smaller(n, Len(queue))

Front(n) == SubSeq(queue, 1, Smaller(n, Len(queue)))

Peek(n) ==
  /\ ret' = Front(n)
  /\ peeked' = PeekCount(n)
  /\ UNCHANGED <<queue, accepted>>

Commit ==
  /\ queue' = SubSeq(queue, peeked + 1, Len(queue))
  /\ peeked' = 0
  /\ UNCHANGED <<ret, accepted>>

Pop(n) ==
  /\ ret' = Front(n)
  /\ queue' = SubSeq(queue, PeekCount(n) + 1, Len(queue))
  /\ peeked' = 0
  /\ UNCHANGED accepted

Clear ==
  /\ queue' = <<>>
  /\ peeked' = 0
  /\ UNCHANGED <<ret, accepted>>

Next ==
  \/ \E d \in Chunks : Force(d) \/ Safe(d)
  \/ \E n \in Lens : Peek(n) \/ Pop(n)
  \/ Commit
  \/ Clear

Spec == Init /\ [][Next]_fifoVars
=============================================================================
