------------------------------ MODULE ByteQueue ------------------------------
(***************************************************************************)
(* One of the two byte queues of byte_queue.c: a ring of Size cells with   *)
(* the indexes g_head (next byte to read), g_peek (where g_head goes when  *)
(* the last peek is committed) and g_tail (next cell to write).  The two   *)
(* queues of the firmware share no state, so one is modelled.              *)
(*                                                                         *)
(* Every public call is an action.  Calls run to completion: the firmware  *)
(* is single-threaded and the queue is used from callbacks only.           *)
(***************************************************************************)
EXTENDS Integers, Sequences

CONSTANTS
  Byte,     \* the values a cell can hold
  Size,     \* BUFFER_SIZE, the number of cells
  Chunks,   \* the byte strings callers queue
  Lens      \* the lengths callers ask for

ASSUME SizeAssumption == Size \in Nat /\ Size >= 2
ASSUME ByteAssumption == Byte # {}
ASSUME ChunksAssumption == Chunks \subseteq Seq(Byte)
ASSUME LensAssumption == Lens \subseteq Nat

VARIABLES
  g_head, g_peek, g_tail,
  cells,    \* g_send_queue or g_recv_queue
  ret,      \* the bytes the last peek or pop returned
  accepted  \* what the last BQSafeQueueBytes answered

vars == <<g_head, g_peek, g_tail, cells, ret, accepted>>

BUFFER_LEN == Size - 1

Index == 0 .. Size - 1

(* Macros QUEUE_LENGTH and QUEUE_FREE.                                     *)
QUEUE_LENGTH(head, tail) ==
  IF tail >= head THEN tail - head ELSE Size - head + tail

(* Mutant: the cell that tells a full ring from an empty one counts as     *)
(* free.                                                                   *)
QUEUE_FREE_whole(head, tail) ==
  IF tail >= head THEN Size - tail + head ELSE head - tail

QUEUE_FREE(head, tail) ==
  IF tail >= head THEN BUFFER_LEN - tail + head ELSE head - tail - 1

(* Mutant: an index may rest one past the last cell.                       *)
Wrap_late(i) == IF i > Size THEN i - Size ELSE i

(* An index advanced past the end of the buffer comes back to its start.   *)
Wrap(i) == IF i >= Size THEN i - Size ELSE i

Length == QUEUE_LENGTH(g_head, g_tail)
Free == QUEUE_FREE(g_head, g_tail)

Smaller(m, n) == IF m <= n THEN m ELSE n

(* copyIntoBuffer: keep the last BUFFER_LEN bytes of an oversized chunk,   *)
(* move g_head (and g_peek with it) over the oldest bytes if the rest does *)
(* not fit, and write cell by cell from g_tail, around the end.            *)
Kept(d) == Smaller(Len(d), BUFFER_LEN)

copyIntoBuffer(d) ==
  LET n == Kept(d)
      over == n > Free
  IN /\ g_head' = IF over THEN Wrap(g_head + (n - Free)) ELSE g_head
     /\ g_peek' = IF over THEN g_head' ELSE g_peek
     /\ g_tail' = Wrap(g_tail + n)
     /\ cells' = [i \in Index |->
                    IF QUEUE_LENGTH(g_tail, i) < n
                    THEN d[Len(d) - n + QUEUE_LENGTH(g_tail, i) + 1]
                    ELSE cells[i]]

(* peekBuffer: the bytes returned and the new g_peek.  A request for no    *)
(* bytes returns before g_peek is touched.                                 *)
Peeked(n) == Smaller(n, Length)

Front(n) == [i \in 1 .. Peeked(n) |-> cells[Wrap(g_head + i - 1)]]

(* Mutant: a request for no bytes forgets the last peek.                   *)
PeekIndex_reset(n) == Wrap(g_head + Peeked(n))

PeekIndex(n) == IF n = 0 THEN g_peek ELSE Wrap(g_head + Peeked(n))

------------------------------------------------------------------------------
Init ==
  /\ g_head = 0 /\ g_peek = 0 /\ g_tail = 0
  /\ cells \in [Index -> Byte]
  /\ ret = <<>>
  /\ accepted = TRUE

BQForceQueueBytes(d) ==
  /\ copyIntoBuffer(d)
  /\ UNCHANGED <<ret, accepted>>

BQSafeQueueBytes(d) ==
  /\ accepted' = (Free >= Len(d))
  /\ IF accepted' THEN copyIntoBuffer(d)
                  ELSE UNCHANGED <<g_head, g_peek, g_tail, cells>>
  /\ UNCHANGED ret

BQPeekBytes(n) ==
  /\ ret' = Front(n)
  /\ g_peek' = PeekIndex(n)
  /\ UNCHANGED <<g_head, g_tail, cells, accepted>>

BQCommitLastPeek ==
  /\ g_head' = g_peek
  /\ UNCHANGED <<g_peek, g_tail, cells, ret, accepted>>

(* A peek followed by BQCommitLastPeek.                                    *)
BQPopBytes(n) ==
  /\ ret' = Front(n)
  /\ g_peek' = PeekIndex(n)
  /\ g_head' = PeekIndex(n)
  /\ UNCHANGED <<g_tail, cells, accepted>>

BQClearBuffer ==
  /\ g_head' = 0 /\ g_peek' = 0 /\ g_tail' = 0
  /\ UNCHANGED <<cells, ret, accepted>>

Next ==
  \/ \E d \in Chunks : BQForceQueueBytes(d) \/ BQSafeQueueBytes(d)
  \/ \E n \in Lens : BQPeekBytes(n) \/ BQPopBytes(n)
  \/ BQCommitLastPeek
  \/ BQClearBuffer

Spec == Init /\ [][Next]_vars

------------------------------------------------------------------------------
(* The indexes stay inside the buffer and a cell holds a byte: an index    *)
(* that reached Size would make the next MemCopy write past the array.     *)
TypeOK ==
  /\ g_head \in Index /\ g_peek \in Index /\ g_tail \in Index
  /\ cells \in [Index -> Byte]
  /\ ret \in Seq(Byte)
  /\ accepted \in BOOLEAN

(* What was peeked at is still in the queue, whatever was forced in since  *)
(* the peek: committing it never moves g_head past g_tail and so never     *)
(* makes stale cells readable.                                             *)
PeekWithinQueue == QUEUE_LENGTH(g_head, g_peek) <= Length

------------------------------------------------------------------------------
(* The ring as a queue of bytes.                                           *)
Contents == [i \in 1 .. Length |-> cells[Wrap(g_head + i - 1)]]

Fifo == INSTANCE ByteFifo WITH
          Capacity <- BUFFER_LEN,
          queue <- Contents,
          peeked <- QUEUE_LENGTH(g_head, g_peek)

(* Through any sequence of calls, wrap-arounds and forced overwrites       *)
(* included, the ring returns, keeps and drops exactly the bytes a bounded *)
(* first-in first-out queue would.                                         *)
ImplementsFifo == Fifo!Spec
=============================================================================
