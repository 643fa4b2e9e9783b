--------------------------- MODULE ByteQueueProofs ---------------------------
(***************************************************************************)
(* The ring of byte_queue.c, for every buffer size, every set of bytes and *)
(* every set of chunks: its indexes stay in range, an outstanding peek     *)
(* stays inside the data, and it implements the bounded queue of ByteFifo. *)
(***************************************************************************)
EXTENDS ByteQueue, SequenceTheorems, TLAPS

IInv == TypeOK /\ PeekWithinQueue

(* Distances around the ring: they stay below Size, the free space         *)
(* complements the length, and walking a distance leads back.              *)
LEMMA RingDistance ==
  ASSUME NEW h \in Index, NEW t \in Index
  PROVE  /\ QUEUE_LENGTH(h, t) \in 0 .. BUFFER_LEN
         /\ QUEUE_FREE(h, t) = BUFFER_LEN - QUEUE_LENGTH(h, t)
         /\ Wrap(h + QUEUE_LENGTH(h, t)) = t
BY SizeAssumption DEF Index, QUEUE_LENGTH, QUEUE_FREE, BUFFER_LEN, Wrap

LEMMA RingZero ==
  ASSUME NEW h \in Index
  PROVE  QUEUE_LENGTH(h, h) = 0
BY SizeAssumption DEF Index, QUEUE_LENGTH

(* Advancing an index by at most BUFFER_LEN cells lands in the buffer, and *)
(* at exactly that distance.                                               *)
LEMMA RingAdvance ==
  ASSUME NEW h \in Index, NEW n \in 0 .. BUFFER_LEN
  PROVE  /\ Wrap(h + n) \in Index
         /\ QUEUE_LENGTH(h, Wrap(h + n)) = n
BY SizeAssumption DEF Index, QUEUE_LENGTH, BUFFER_LEN, Wrap

(* Advancing the front of an interval shortens it.                         *)
LEMMA RingShorten ==
  ASSUME NEW h \in Index, NEW t \in Index, NEW n \in 0 .. QUEUE_LENGTH(h, t)
  PROVE  QUEUE_LENGTH(Wrap(h + n), t) = QUEUE_LENGTH(h, t) - n
BY SizeAssumption DEF Index, QUEUE_LENGTH, BUFFER_LEN, Wrap

(* Advancing the back of an interval lengthens it, while it fits.          *)
LEMMA RingLengthen ==
  ASSUME NEW h \in Index, NEW t \in Index,
         NEW n \in 0 .. BUFFER_LEN,
         QUEUE_LENGTH(h, t) + n <= BUFFER_LEN
  PROVE  QUEUE_LENGTH(h, Wrap(t + n)) = QUEUE_LENGTH(h, t) + n
BY SizeAssumption DEF Index, QUEUE_LENGTH, BUFFER_LEN, Wrap

LEMMA KeptFits ==
  ASSUME NEW d \in Chunks
  PROVE  /\ d \in Seq(Byte)
         /\ Len(d) \in Nat
         /\ Kept(d) \in 0 .. BUFFER_LEN
         /\ Kept(d) <= Len(d)
BY ChunksAssumption, SizeAssumption DEF Kept, Smaller, BUFFER_LEN

(* How many old bytes copyIntoBuffer gives up to make room.                *)
Dropped(d) == IF Kept(d) > Free THEN Kept(d) - Free ELSE 0

(* How far copyIntoBuffer moves the front and the back of the queue.       *)
LEMMA CopyMoves ==
  ASSUME IInv, NEW d \in Chunks, copyIntoBuffer(d)
  PROVE  /\ Length \in 0 .. BUFFER_LEN /\ Free = BUFFER_LEN - Length
         /\ Dropped(d) \in 0 .. Length
         /\ Length - Dropped(d) + Kept(d) <= BUFFER_LEN
         /\ g_head' = Wrap(g_head + Dropped(d)) /\ g_head' \in Index
         /\ g_tail' = Wrap(g_tail + Kept(d)) /\ g_tail' \in Index
         /\ QUEUE_LENGTH(g_head', g_tail) = Length - Dropped(d)
         /\ QUEUE_LENGTH(g_head', g_tail') = Length - Dropped(d) + Kept(d)
<1> DEFINE n == Kept(d)
           drop == Dropped(d)
<1>1. g_head \in Index /\ g_tail \in Index
  BY DEF IInv, TypeOK
<1>2. n \in 0 .. BUFFER_LEN /\ BUFFER_LEN \in Nat
  BY KeptFits, SizeAssumption DEF BUFFER_LEN
<1>3. Length \in 0 .. BUFFER_LEN /\ Free = BUFFER_LEN - Length
  BY <1>1, RingDistance DEF Length, Free
<1>4. drop \in 0 .. Length /\ Length - drop + n <= BUFFER_LEN
  BY <1>2, <1>3 DEF Dropped
<1>5. g_head' = Wrap(g_head + drop)
  <2>1. CASE n > Free
    BY <2>1 DEF copyIntoBuffer, Dropped
  <2>2. CASE ~(n > Free)
    <3>1. g_head' = g_head /\ drop = 0
      BY <2>2 DEF copyIntoBuffer, Dropped
    <3>2. Wrap(g_head) = g_head
      BY <1>1, SizeAssumption DEF Wrap, Index
    <3> QED BY <3>1, <3>2, <1>1, SizeAssumption DEF Index
  <2> QED BY <2>1, <2>2
<1>6. g_tail' = Wrap(g_tail + n)
  BY DEF copyIntoBuffer
<1> HIDE DEF n, drop
<1>7. drop \in 0 .. BUFFER_LEN
  BY <1>2, <1>3, <1>4
<1>8. g_head' \in Index /\ g_tail' \in Index
  BY <1>1, <1>2, <1>5, <1>6, <1>7, RingAdvance
<1>9. QUEUE_LENGTH(g_head', g_tail) = Length - drop
  BY <1>1, <1>4, <1>5, RingShorten DEF Length
<1>10. QUEUE_LENGTH(g_head', g_tail') = Length - drop + n
  BY <1>1, <1>2, <1>4, <1>6, <1>8, <1>9, RingLengthen
<1> QED BY <1>3, <1>4, <1>5, <1>6, <1>8, <1>9, <1>10 DEF n, drop

(* What copyIntoBuffer does to the indexes and the cells.                  *)
LEMMA CopyIntoBuffer ==
  ASSUME IInv, NEW d \in Chunks, copyIntoBuffer(d)
  PROVE  /\ g_head' \in Index /\ g_peek' \in Index /\ g_tail' \in Index
         /\ cells' \in [Index -> Byte]
         /\ QUEUE_LENGTH(g_head', g_peek') <= QUEUE_LENGTH(g_head', g_tail')
<1> DEFINE n == Kept(d)
<1>1. /\ g_head \in Index /\ g_peek \in Index /\ g_tail \in Index
      /\ cells \in [Index -> Byte]
      /\ QUEUE_LENGTH(g_head, g_peek) <= Length
  BY DEF IInv, TypeOK, PeekWithinQueue
<1>2. d \in Seq(Byte) /\ Len(d) \in Nat /\ n \in 0 .. BUFFER_LEN /\ n <= Len(d)
  BY KeptFits
<1>3. BUFFER_LEN \in Nat
  BY SizeAssumption DEF BUFFER_LEN
<1>4. g_peek' \in Index
  BY <1>1, CopyMoves DEF copyIntoBuffer
<1>5. QUEUE_LENGTH(g_head', g_peek') <= QUEUE_LENGTH(g_head', g_tail')
  <2>1. CASE n > Free
    <3>1. g_peek' = g_head'
      BY <2>1 DEF copyIntoBuffer
    <3>2. QUEUE_LENGTH(g_head', g_peek') = 0
      BY <3>1, CopyMoves, RingZero
    <3> QED BY <3>2, CopyMoves, RingDistance, <1>3
  <2>2. CASE ~(n > Free)
    <3>1. g_peek' = g_peek /\ g_head' = g_head /\ Dropped(d) = 0
      BY <2>2 DEF copyIntoBuffer, Dropped
    <3>2. QUEUE_LENGTH(g_head, g_peek) \in Nat
      BY <1>1, RingDistance, <1>3
    <3> HIDE DEF n
    <3>3. QUEUE_LENGTH(g_head', g_tail') = Length + n /\ Length \in Nat
      BY <3>1, CopyMoves, <1>3 DEF n
    <3> QED BY <3>1, <3>2, <3>3, <1>1, <1>2, <1>3
  <2> QED BY <2>1, <2>2
<1>6. cells' \in [Index -> Byte]
  <2> SUFFICES ASSUME NEW i \in Index, QUEUE_LENGTH(g_tail, i) < n
               PROVE  d[Len(d) - n + QUEUE_LENGTH(g_tail, i) + 1] \in Byte
    BY <1>1 DEF copyIntoBuffer
  <2>1. QUEUE_LENGTH(g_tail, i) \in Nat
    BY <1>1, RingDistance, <1>3
  <2>2. Len(d) - n + QUEUE_LENGTH(g_tail, i) + 1 \in 1 .. Len(d)
    BY <2>1, <1>2, <1>3
  <2> QED BY <2>2, <1>2
<1> QED BY <1>4, <1>5, <1>6, CopyMoves

LEMMA Initially == Init => IInv
<1> SUFFICES ASSUME Init PROVE IInv
  OBVIOUS
<1>1. 0 \in Index
  BY SizeAssumption DEF Index
<1>2. TypeOK
  BY <1>1 DEF Init, TypeOK
<1>3. PeekWithinQueue
  BY DEF Init, PeekWithinQueue, Length, QUEUE_LENGTH
<1> QED BY <1>2, <1>3 DEF IInv

(* A peek of n bytes ends inside the data and returns bytes.               *)
LEMMA PeekFits ==
  ASSUME IInv, NEW n \in Lens
  PROVE  /\ Front(n) \in Seq(Byte)
         /\ PeekIndex(n) \in Index
         /\ QUEUE_LENGTH(g_head, PeekIndex(n)) <= Length
         /\ QUEUE_LENGTH(PeekIndex(n), g_tail)
              = Length - QUEUE_LENGTH(g_head, PeekIndex(n))
<1>1. /\ g_head \in Index /\ g_peek \in Index /\ g_tail \in Index
      /\ cells \in [Index -> Byte]
      /\ QUEUE_LENGTH(g_head, g_peek) <= Length
  BY DEF IInv, TypeOK, PeekWithinQueue
<1>2. n \in Nat /\ BUFFER_LEN \in Nat
  BY LensAssumption, SizeAssumption DEF BUFFER_LEN
<1>3. Length \in 0 .. BUFFER_LEN
  BY <1>1, RingDistance DEF Length
<1>4. Peeked(n) \in 0 .. Length
  BY <1>2, <1>3 DEF Peeked, Smaller
<1>5. \A i \in 1 .. Peeked(n) : Wrap(g_head + i - 1) \in Index
  BY <1>1, <1>2, <1>3, <1>4, SizeAssumption DEF Wrap, Index, BUFFER_LEN
<1>6. Front(n) \in Seq(Byte)
  <2>1. Front(n) \in [1 .. Peeked(n) -> Byte]
    BY <1>1, <1>5 DEF Front
  <2>2. Peeked(n) \in Nat
    BY <1>4, <1>3, <1>2
  <2> QED BY <2>1, <2>2, SeqDef
<1>7. PeekIndex(n) \in Index /\ QUEUE_LENGTH(g_head, PeekIndex(n)) <= Length
  BY <1>1, <1>2, <1>3, <1>4, RingAdvance DEF PeekIndex
<1>8. QUEUE_LENGTH(PeekIndex(n), g_tail)
        = Length - QUEUE_LENGTH(g_head, PeekIndex(n))
  <2>1. QUEUE_LENGTH(g_head, PeekIndex(n)) \in 0 .. QUEUE_LENGTH(g_head, g_tail)
    BY <1>1, <1>2, <1>7, RingDistance DEF Length
  <2>2. Wrap(g_head + QUEUE_LENGTH(g_head, PeekIndex(n))) = PeekIndex(n)
    BY <1>1, <1>7, RingDistance
  <2> QED BY <2>1, <2>2, <1>1, RingShorten DEF Length
<1> QED BY <1>6, <1>7, <1>8

(* Every call preserves the inductive invariant.                           *)
LEMMA Preserved == IInv /\ [Next]_vars => IInv'
<1> SUFFICES ASSUME IInv, [Next]_vars PROVE IInv'
  OBVIOUS
<1>0. /\ g_head \in Index /\ g_peek \in Index /\ g_tail \in Index
      /\ cells \in [Index -> Byte] /\ ret \in Seq(Byte) /\ accepted \in BOOLEAN
      /\ QUEUE_LENGTH(g_head, g_peek) <= QUEUE_LENGTH(g_head, g_tail)
  BY DEF IInv, TypeOK, PeekWithinQueue, Length
<1>1. ASSUME NEW d \in Chunks, BQForceQueueBytes(d)
      PROVE  IInv'
  <2>1. copyIntoBuffer(d) /\ ret' = ret /\ accepted' = accepted
    BY <1>1 DEF BQForceQueueBytes
  <2> QED BY <2>1, <1>0, CopyIntoBuffer DEF IInv, TypeOK, PeekWithinQueue, Length
<1>2. ASSUME NEW d \in Chunks, BQSafeQueueBytes(d)
      PROVE  IInv'
  <2>1. ret' = ret /\ accepted' \in BOOLEAN
    BY <1>2 DEF BQSafeQueueBytes
  <2>2. CASE copyIntoBuffer(d)
    BY <2>1, <2>2, <1>0, CopyIntoBuffer DEF IInv, TypeOK, PeekWithinQueue, Length
  <2>3. CASE UNCHANGED <<g_head, g_peek, g_tail, cells>>
    BY <2>1, <2>3, <1>0 DEF IInv, TypeOK, PeekWithinQueue, Length
  <2> QED BY <2>2, <2>3, <1>2 DEF BQSafeQueueBytes
<1>3. ASSUME NEW n \in Lens, BQPeekBytes(n)
      PROVE  IInv'
  BY <1>3, <1>0, PeekFits DEF BQPeekBytes, IInv, TypeOK, PeekWithinQueue, Length
<1>4. ASSUME NEW n \in Lens, BQPopBytes(n)
      PROVE  IInv'
  <2>1. g_head' = PeekIndex(n) /\ g_peek' = PeekIndex(n) /\ g_tail' = g_tail
    BY <1>4 DEF BQPopBytes
  <2>2. QUEUE_LENGTH(g_head', g_peek') = 0 /\ QUEUE_LENGTH(g_head', g_tail') >= 0
    BY <2>1, <1>0, PeekFits, RingZero, RingDistance, SizeAssumption DEF BUFFER_LEN
  <2> QED BY <2>1, <2>2, <1>4, <1>0, PeekFits
          DEF BQPopBytes, IInv, TypeOK, PeekWithinQueue, Length
<1>5. ASSUME BQCommitLastPeek
      PROVE  IInv'
  <2>1. g_head' = g_peek /\ g_peek' = g_peek /\ g_tail' = g_tail
    BY <1>5 DEF BQCommitLastPeek
  <2>2. QUEUE_LENGTH(g_head', g_peek') = 0 /\ QUEUE_LENGTH(g_head', g_tail') >= 0
    BY <2>1, <1>0, RingZero, RingDistance, SizeAssumption DEF BUFFER_LEN
  <2> QED BY <2>1, <2>2, <1>5, <1>0
          DEF BQCommitLastPeek, IInv, TypeOK, PeekWithinQueue, Length
<1>6. ASSUME BQClearBuffer
      PROVE  IInv'
  <2>1. 0 \in Index
    BY SizeAssumption DEF Index
  <2> QED BY <2>1, <1>6, <1>0
          DEF BQClearBuffer, IInv, TypeOK, PeekWithinQueue, Length, QUEUE_LENGTH
<1>7. CASE UNCHANGED vars
  BY <1>7, <1>0 DEF vars, IInv, TypeOK, PeekWithinQueue, Length
<1> QED BY <1>1, <1>2, <1>3, <1>4, <1>5, <1>6, <1>7 DEF Next

(* The indexes of byte_queue.c never leave the buffer.                     *)
THEOREM TypeCorrect == Spec => []TypeOK
<1>1. IInv => TypeOK
  BY DEF IInv
<1> QED BY <1>1, Initially, Preserved, PTL DEF Spec

(* Committing a peek never moves g_head past g_tail, whatever was queued   *)
(* or forced in between the peek and the commit.                           *)
THEOREM PeekStaysWithinQueue == Spec => []PeekWithinQueue
<1>1. IInv => PeekWithinQueue
  BY DEF IInv
<1> QED BY <1>1, Initially, Preserved, PTL DEF Spec

------------------------------------------------------------------------------
(* The ring implements the bounded queue of ByteFifo.                      *)

(* The bytes read from a stretch of ring are a sequence as long as it is.  *)
LEMMA RingReads ==
  ASSUME NEW h \in Index, NEW l \in 0 .. BUFFER_LEN, NEW c \in [Index -> Byte]
  PROVE  /\ [i \in 1 .. l |-> c[Wrap(h + i - 1)]] \in Seq(Byte)
         /\ Len([i \in 1 .. l |-> c[Wrap(h + i - 1)]]) = l
<1> DEFINE C == [i \in 1 .. l |-> c[Wrap(h + i - 1)]]
<1>1. l \in Nat
  BY SizeAssumption DEF BUFFER_LEN
<1>2. \A i \in 1 .. l : Wrap(h + i - 1) \in Index
  BY SizeAssumption DEF Wrap, Index, BUFFER_LEN
<1>3. C \in [1 .. l -> Byte]
  BY <1>2
<1> HIDE DEF C
<1>4. C \in Seq(Byte)
  BY <1>1, <1>3, SeqDef
<1>5. Len(C) = l
  BY <1>1, <1>3, <1>4, LenProperties
<1> QED BY <1>4, <1>5 DEF C

LEMMA ContentsIsSeq ==
  ASSUME IInv
  PROVE  /\ Length \in 0 .. BUFFER_LEN
         /\ Contents \in Seq(Byte)
         /\ Len(Contents) = Length
         /\ \A i \in 1 .. Length : Contents[i] = cells[Wrap(g_head + i - 1)]
<1>1. g_head \in Index /\ g_tail \in Index /\ cells \in [Index -> Byte]
  BY DEF IInv, TypeOK
<1>2. Length \in 0 .. BUFFER_LEN
  BY <1>1, RingDistance DEF Length
<1> QED BY <1>1, <1>2, RingReads DEF Contents

(* Peeking reads the front of the queue, and moves g_peek as far as that   *)
(* front is long.                                                          *)
LEMMA PeekRefines ==
  ASSUME IInv, NEW n \in Lens
  PROVE  /\ Front(n) = Fifo!Front(n)
         /\ QUEUE_LENGTH(g_head, PeekIndex(n)) = Fifo!PeekCount(n)
<1>1. g_head \in Index /\ g_tail \in Index
  BY DEF IInv, TypeOK
<1>2. /\ Length \in 0 .. BUFFER_LEN /\ BUFFER_LEN \in Nat /\ n \in Nat
      /\ Peeked(n) \in 0 .. Length
      /\ Peeked(n) = Fifo!Smaller(n, Len(Contents))
  BY ContentsIsSeq, LensAssumption, SizeAssumption
     DEF Peeked, Smaller, Fifo!Smaller, BUFFER_LEN
<1>3. Front(n) = SubSeq(Contents, 1, Peeked(n))
  <2> DEFINE S == SubSeq(Contents, 1, Peeked(n))
  <2>1. \A i \in 1 .. Peeked(n) : i \in 1 .. Length
    BY <1>2
  <2>2. /\ S \in Seq(Byte) /\ Len(S) = Peeked(n)
        /\ \A i \in 1 .. Peeked(n) : S[i] = Contents[i]
    BY <1>2, <2>1, ContentsIsSeq
  <2>3. /\ Front(n) \in Seq(Byte) /\ Len(Front(n)) = Peeked(n)
        /\ \A i \in 1 .. Peeked(n) : Front(n)[i] = cells[Wrap(g_head + i - 1)]
    BY <1>2, PeekFits DEF Front
  <2>4. \A i \in 1 .. Len(S) : S[i] = Front(n)[i]
    BY <2>1, <2>2, <2>3, ContentsIsSeq
  <2> HIDE DEF S
  <2>5. S = Front(n)
    BY <2>2, <2>3, <2>4, SeqEqual
  <2> QED BY <2>5 DEF S
<1>4. QUEUE_LENGTH(g_head, PeekIndex(n)) = Fifo!PeekCount(n)
  <2>1. CASE n = 0
    BY <2>1 DEF PeekIndex, Fifo!PeekCount
  <2>2. CASE n # 0
    <3>1. Peeked(n) \in 0 .. BUFFER_LEN
      BY <1>2
    <3>2. QUEUE_LENGTH(g_head, Wrap(g_head + Peeked(n))) = Peeked(n)
      BY <3>1, <1>1, RingAdvance
    <3> QED BY <2>2, <3>2, <1>2 DEF PeekIndex, Fifo!PeekCount
  <2> QED BY <2>1, <2>2
<1> QED BY <1>2, <1>3, <1>4 DEF Fifo!Front

------------------------------------------------------------------------------
(* Two walks around the ring make one.                                     *)
LEMMA RingCompose ==
  ASSUME NEW h \in Index, NEW a \in Nat, NEW b \in Nat, a + b <= BUFFER_LEN
  PROVE  Wrap(Wrap(h + a) + b) = Wrap(h + (a + b))
BY SizeAssumption DEF Index, Wrap, BUFFER_LEN

(* A cell that holds data is as far behind the tail as the free space and  *)
(* the data in front of it are long.                                       *)
LEMMA RingBehind ==
  ASSUME NEW h \in Index, NEW t \in Index, NEW b \in Nat,
         b < QUEUE_LENGTH(h, t)
  PROVE  /\ Wrap(h + b) \in Index
         /\ QUEUE_LENGTH(t, Wrap(h + b)) = Size - QUEUE_LENGTH(h, t) + b
BY SizeAssumption DEF Index, QUEUE_LENGTH, Wrap

(* Lengths: with e bytes coming in, n of them kept and drop old ones given *)
(* up, the queue of l bytes becomes one of m, the last m of the l + e.     *)
LEMMA CopyLengths ==
  ASSUME NEW b, NEW l, NEW e, NEW n, NEW drop, NEW m, NEW off,
         /\ b \in Nat /\ l \in 0 .. b /\ e \in Nat
         /\ n \in 0 .. b /\ drop \in 0 .. l
         /\ n = (IF e <= b THEN e ELSE b)
         /\ drop = (IF n > b - l THEN n - (b - l) ELSE 0)
         /\ m = l - drop + n
         /\ off = drop + e - n
  PROVE  /\ m \in 0 .. b /\ m \in Nat /\ off \in Nat /\ off + m = l + e
         /\ l - drop \in Nat /\ n \in Nat /\ drop \in Nat /\ l \in Nat
         /\ l + e <= b => off = 0
         /\ ~(l + e <= b) => m = b
         /\ drop < l => e = n
OBVIOUS

(* The last m bytes of a sequence, one by one.                             *)
LEMMA LastOfFits ==
  ASSUME NEW s \in Seq(Byte), NEW b \in Nat, NEW m \in Nat, NEW off \in Nat,
         off + m = Len(s),
         Len(s) <= b => off = 0,
         ~(Len(s) <= b) => m = b
  PROVE  /\ Fifo!LastOf(s, b) \in Seq(Byte)
         /\ Len(Fifo!LastOf(s, b)) = m
         /\ \A k \in 1 .. m : Fifo!LastOf(s, b)[k] = s[k + off]
<1>1. CASE Len(s) <= b
  <2>1. off = 0 /\ Len(s) = m
    BY <1>1
  <2>2. Fifo!LastOf(s, b) = s
    BY <1>1 DEF Fifo!LastOf
  <2> QED BY <2>1, <2>2
<1>2. CASE ~(Len(s) <= b)
  <2>1. Fifo!LastOf(s, b) = SubSeq(s, Len(s) - b + 1, Len(s))
    BY <1>2 DEF Fifo!LastOf
  <2>2. Len(s) - b + 1 = off + 1 /\ m = Len(s) - off
    BY <1>2
  <2> DEFINE T == SubSeq(s, off + 1, Len(s))
  <2>3. \A i \in off + 1 .. Len(s) : i \in 1 .. Len(s)
    OBVIOUS
  <2>4. /\ T \in Seq(Byte) /\ Len(T) = Len(s) - off
        /\ \A k \in 1 .. Len(s) - off : T[k] = s[k + off]
    BY <2>3, SubSeqProperties
  <2> HIDE DEF T
  <2>5. T \in Seq(Byte) /\ Len(T) = m /\ \A k \in 1 .. m : T[k] = s[k + off]
    BY <2>2, <2>4
  <2> QED BY <2>1, <2>2, <2>5 DEF T
<1> QED BY <1>1, <1>2

(* The bytes that stay are those of the old queue.                         *)
LEMMA CopyKeepsOld ==
  ASSUME IInv, NEW d \in Chunks, copyIntoBuffer(d),
         NEW k \in Nat, 1 <= k, k <= Length - Dropped(d)
  PROVE  cells'[Wrap(g_head' + k - 1)] = Contents[k + Dropped(d)]
<1> DEFINE drop == Dropped(d)
           j == Wrap(g_head' + (k - 1))
<1>1. /\ g_head \in Index /\ g_tail \in Index /\ g_head' \in Index
      /\ g_head \in Nat /\ g_head' \in Nat
  BY CopyMoves, SizeAssumption DEF IInv, TypeOK, Index
<1>2. /\ Length \in 0 .. BUFFER_LEN /\ drop \in 0 .. Length
      /\ BUFFER_LEN = Size - 1 /\ Size \in Nat
      /\ Kept(d) \in Nat /\ Length - drop + Kept(d) <= BUFFER_LEN
      /\ g_head' = Wrap(g_head + drop)
      /\ QUEUE_LENGTH(g_head', g_tail) = Length - drop
  BY CopyMoves, KeptFits, SizeAssumption DEF BUFFER_LEN
<1> HIDE DEF drop
<1>3. /\ k - 1 \in Nat /\ k - 1 < Length - drop
      /\ drop \in Nat /\ drop + (k - 1) <= BUFFER_LEN
      /\ k + drop \in 1 .. Length
      /\ g_head' + k - 1 = g_head' + (k - 1)
      /\ g_head + (k + drop) - 1 = g_head + (drop + (k - 1))
  BY <1>1, <1>2 DEF drop
<1>4. j \in Index /\ QUEUE_LENGTH(g_tail, j) = Size - (Length - drop) + (k - 1)
  BY <1>1, <1>2, <1>3, RingBehind
<1>5. j = Wrap(g_head + (drop + (k - 1)))
  BY <1>1, <1>2, <1>3, RingCompose
<1> HIDE DEF j
<1>6. ~(QUEUE_LENGTH(g_tail, j) < Kept(d))
  BY <1>2, <1>3, <1>4
<1>7. cells'[j] = cells[j]
  BY <1>4, <1>6 DEF copyIntoBuffer
<1>8. Contents[k + drop] = cells[j]
  BY <1>3, <1>5, ContentsIsSeq
<1> QED BY <1>3, <1>7, <1>8 DEF drop, j

(* Those behind them are the last ones of the chunk.                       *)
LEMMA CopyWritesNew ==
  ASSUME IInv, NEW d \in Chunks, copyIntoBuffer(d),
         NEW q \in Nat, q < Kept(d)
  PROVE  cells'[Wrap(g_head' + (Length - Dropped(d) + q + 1) - 1)]
           = d[Len(d) - Kept(d) + q + 1]
<1> DEFINE l == Length - Dropped(d)
           j == Wrap(g_tail + q)
<1>1. /\ g_tail \in Index /\ g_head' \in Index /\ g_head' \in Nat
      /\ l \in Nat /\ l + q <= BUFFER_LEN /\ q \in 0 .. BUFFER_LEN
      /\ QUEUE_LENGTH(g_head', g_tail) = l
  <2>1. /\ g_tail \in Index /\ g_head' \in Index /\ g_head' \in Nat
    BY CopyMoves, SizeAssumption DEF IInv, TypeOK, Index
  <2>2. /\ Length \in 0 .. BUFFER_LEN /\ Dropped(d) \in 0 .. Length
        /\ BUFFER_LEN \in Nat /\ Kept(d) \in Nat
        /\ l + Kept(d) <= BUFFER_LEN
        /\ QUEUE_LENGTH(g_head', g_tail) = l
    BY CopyMoves, KeptFits, SizeAssumption DEF BUFFER_LEN
  <2> QED BY <2>1, <2>2
<1> HIDE DEF l
<1>2. g_tail = Wrap(g_head' + l)
  BY <1>1, RingDistance
<1>3. j = Wrap(g_head' + (l + q))
  BY <1>1, <1>2, RingCompose
<1>4. j \in Index /\ QUEUE_LENGTH(g_tail, j) = q
  BY <1>1, RingAdvance
<1>5. g_head' + (l + q + 1) - 1 = g_head' + (l + q)
  BY <1>1
<1> HIDE DEF j
<1>6. cells'[j] = d[Len(d) - Kept(d) + q + 1]
  BY <1>4 DEF copyIntoBuffer
<1> QED BY <1>3, <1>5, <1>6 DEF l

(* Data copied into the ring is the data put at the back of the queue, and *)
(* what no longer fits is dropped at its front.                            *)
LEMMA CopyRefines ==
  ASSUME IInv, IInv', NEW d \in Chunks, copyIntoBuffer(d)
  PROVE  Contents' = Fifo!LastOf(Contents \o d, BUFFER_LEN)
<1> DEFINE S == Contents \o d
           A == Fifo!LastOf(S, BUFFER_LEN)
<1>0. PICK n, drop, off, l, m : /\ n = Kept(d) /\ drop = Dropped(d)
                                /\ off = drop + Len(d) - n
                                /\ l = Length - drop
                                /\ m = Length'
  OBVIOUS
<1>1. /\ Contents \in Seq(Byte) /\ Len(Contents) = Length
      /\ d \in Seq(Byte) /\ Len(d) \in Nat
  BY ContentsIsSeq, KeptFits
<1>2. /\ BUFFER_LEN \in Nat /\ Length \in 0 .. BUFFER_LEN
      /\ n \in 0 .. BUFFER_LEN /\ drop \in 0 .. Length
      /\ n = (IF Len(d) <= BUFFER_LEN THEN Len(d) ELSE BUFFER_LEN)
      /\ drop = (IF n > BUFFER_LEN - Length THEN n - (BUFFER_LEN - Length) ELSE 0)
      /\ m = Length - drop + n
  <2>1. BUFFER_LEN \in Nat /\ Kept(d) \in 0 .. BUFFER_LEN
    BY KeptFits, SizeAssumption DEF BUFFER_LEN
  <2>2. Kept(d) = IF Len(d) <= BUFFER_LEN THEN Len(d) ELSE BUFFER_LEN
    BY DEF Kept, Smaller
  <2>3. /\ Length \in 0 .. BUFFER_LEN /\ Dropped(d) \in 0 .. Length
        /\ Free = BUFFER_LEN - Length
        /\ Length' = Length - Dropped(d) + Kept(d)
    BY CopyMoves DEF Length
  <2>4. Dropped(d) = IF Kept(d) > Free THEN Kept(d) - Free ELSE 0
    BY DEF Dropped
  <2> QED BY <1>0, <2>1, <2>2, <2>3, <2>4
<1>3. off = drop + Len(d) - n /\ l = Length - drop /\ Len(d) \in Nat
  BY <1>0, <1>1
<1>4. /\ m \in 0 .. BUFFER_LEN /\ m \in Nat /\ off \in Nat
      /\ l \in Nat /\ n \in Nat /\ drop \in Nat /\ Length \in Nat
      /\ Length + Len(d) <= BUFFER_LEN => off = 0
      /\ ~(Length + Len(d) <= BUFFER_LEN) => m = BUFFER_LEN
      /\ drop < Length => Len(d) = n
  BY <1>2, <1>3, CopyLengths
<1>4a. m = l + n
  BY <1>2, <1>3, <1>4
<1>4b. off + m = Length + Len(d)
  BY <1>3, <1>4, <1>4a
<1>5. /\ S \in Seq(Byte) /\ Len(S) = Length + Len(d)
      /\ \A i \in 1 .. Length : S[i] = Contents[i]
      /\ \A i \in 1 .. Len(d) : S[Length + i] = d[i]
  BY <1>1, <1>4
<1> HIDE DEF S
<1>6. A \in Seq(Byte) /\ Len(A) = m /\ \A k \in 1 .. m : A[k] = S[k + off]
  <2>1. /\ Len(S) <= BUFFER_LEN => off = 0
        /\ ~(Len(S) <= BUFFER_LEN) => m = BUFFER_LEN
        /\ off + m = Len(S)
    BY <1>4, <1>4b, <1>5
  <2>2. BUFFER_LEN \in Nat /\ m \in Nat /\ off \in Nat /\ S \in Seq(Byte)
    BY <1>2, <1>4, <1>5
  <2> QED BY <2>1, <2>2, LastOfFits
<1>7. /\ Contents' \in Seq(Byte) /\ Len(Contents') = m
      /\ \A k \in 1 .. m : Contents'[k] = cells'[Wrap(g_head' + k - 1)]
  <2>1. g_head' \in Index /\ cells' \in [Index -> Byte]
    BY DEF IInv, TypeOK
  <2>2. Contents' = [k \in 1 .. m |-> cells'[Wrap(g_head' + k - 1)]]
    BY <1>0 DEF Contents
  <2> QED BY <1>4, <2>1, <2>2, RingReads
<1>8. ASSUME NEW k \in 1 .. m, k <= l
      PROVE  Contents'[k] = S[k + off]
  <2>1. k \in Nat /\ 1 <= k
    BY <1>4
  <2>2. off = drop
    BY <1>3, <1>4, <1>8, <2>1
  <2>2a. k + drop \in 1 .. Length
    BY <1>3, <1>4, <1>4b, <1>8, <2>1
  <2>3. cells'[Wrap(g_head' + k - 1)] = Contents[k + drop]
    BY <1>8, <2>1, <1>0, CopyKeepsOld
  <2> QED BY <1>5, <1>7, <2>2, <2>2a, <2>3
<1>9. ASSUME NEW k \in 1 .. m, ~(k <= l)
      PROVE  Contents'[k] = S[k + off]
  <2>0. PICK q, i : q = k - l - 1 /\ i = Len(d) - n + q + 1
    OBVIOUS
  <2>1. q \in Nat /\ q < n
    BY <1>4, <1>4a, <1>9, <2>0
  <2>1a. k = l + q + 1
    BY <1>4, <1>9, <2>0
  <2>1b. n <= Len(d)
    BY <1>2, <1>3, <1>4
  <2>1c. i \in 1 .. Len(d)
    BY <1>3, <1>4, <2>0, <2>1, <2>1b
  <2>1d. k + off = Length + i
    BY <1>3, <1>4, <1>4b, <2>0, <2>1
  <2>2. cells'[Wrap(g_head' + (l + q + 1) - 1)] = d[i]
    BY <2>0, <2>1, <1>0, CopyWritesNew
  <2> QED BY <1>5, <1>7, <2>1a, <2>1c, <2>1d, <2>2
<1>10. \A k \in 1 .. Len(Contents') : Contents'[k] = A[k]
  <2> HIDE DEF A
  <2> QED BY <1>6, <1>7, <1>8, <1>9
<1> HIDE DEF A
<1>11. Contents' = A
  BY <1>6, <1>7, <1>10, SeqEqual
<1> QED BY <1>11 DEF A, S

------------------------------------------------------------------------------
(* Writing into the ring is putting into the queue, the fate of an         *)
(* outstanding peek included.                                              *)
LEMMA PutRefines ==
  ASSUME IInv, IInv', NEW d \in Chunks, copyIntoBuffer(d)
  PROVE  Fifo!Put(d)
<1>1. Contents' = Fifo!LastOf(Contents \o d, BUFFER_LEN)
  BY CopyRefines
<1>2. /\ Kept(d) = Fifo!Smaller(Len(d), BUFFER_LEN)
      /\ Free = BUFFER_LEN - Len(Contents)
  BY CopyMoves, ContentsIsSeq DEF Kept, Smaller, Fifo!Smaller
<1>3. QUEUE_LENGTH(g_head', g_peek')
        = IF Kept(d) > Free THEN 0 ELSE QUEUE_LENGTH(g_head, g_peek)
  <2>1. CASE Kept(d) > Free
    <3>1. g_peek' = g_head' /\ g_head' \in Index
      BY <2>1, CopyMoves DEF copyIntoBuffer
    <3> QED BY <2>1, <3>1, RingZero
  <2>2. CASE ~(Kept(d) > Free)
    BY <2>2 DEF copyIntoBuffer
  <2> QED BY <2>1, <2>2
<1> QED BY <1>1, <1>2, <1>3 DEF Fifo!Put

(* Moving g_head over k bytes removes the first k.                         *)
LEMMA AdvanceRefines ==
  ASSUME IInv, NEW k \in 0 .. Length,
         g_head' = Wrap(g_head + k), UNCHANGED <<g_tail, cells>>
  PROVE  Contents' = SubSeq(Contents, k + 1, Len(Contents))
<1> DEFINE T == SubSeq(Contents, k + 1, Len(Contents))
<1>1. /\ g_head \in Index /\ g_tail \in Index /\ cells \in [Index -> Byte]
      /\ Length \in 0 .. BUFFER_LEN /\ BUFFER_LEN \in Nat
      /\ k \in Nat /\ k \in 0 .. BUFFER_LEN
      /\ Contents \in Seq(Byte) /\ Len(Contents) = Length
  BY ContentsIsSeq, SizeAssumption DEF IInv, TypeOK, BUFFER_LEN
<1>2. g_head' \in Index /\ Length' = Length - k
  BY <1>1, RingAdvance, RingShorten DEF Length
<1>3. PICK m : m = Length - k
  OBVIOUS
<1>4. m \in 0 .. BUFFER_LEN /\ m \in Nat /\ m + k = Length
  BY <1>1, <1>3
<1>5. Contents' = [i \in 1 .. m |-> cells[Wrap(g_head' + i - 1)]]
  BY <1>2, <1>3 DEF Contents
<1>6. /\ Contents' \in Seq(Byte) /\ Len(Contents') = m
      /\ \A i \in 1 .. m : Contents'[i] = cells[Wrap(g_head' + i - 1)]
  BY <1>1, <1>2, <1>4, <1>5, RingReads
<1>7. T \in Seq(Byte) /\ Len(T) = m /\ \A i \in 1 .. m : T[i] = Contents[i + k]
  <2>1. \A i \in k + 1 .. Len(Contents) : i \in 1 .. Len(Contents)
    BY <1>1, <1>4
  <2>2. /\ T \in Seq(Byte) /\ Len(T) = Len(Contents) - k
        /\ \A i \in 1 .. Len(Contents) - k : T[i] = Contents[i + k]
    BY <1>1, <1>4, <2>1, SubSeqProperties
  <2> HIDE DEF T
  <2> QED BY <1>1, <1>3, <2>2
<1>8. \A i \in 1 .. m : Contents'[i] = T[i]
  <2> SUFFICES ASSUME NEW i \in 1 .. m PROVE Contents'[i] = T[i]
    OBVIOUS
  <2>1. /\ i \in Nat /\ i - 1 \in Nat /\ i + k \in 1 .. Length
        /\ k + (i - 1) <= BUFFER_LEN
        /\ g_head \in Nat /\ g_head' \in Nat
    BY <1>1, <1>2, <1>4, SizeAssumption DEF Index
  <2>2. /\ g_head' + i - 1 = g_head' + (i - 1)
        /\ g_head + (i + k) - 1 = g_head + (k + (i - 1))
    BY <1>1, <2>1
  <2>3. Wrap(g_head' + (i - 1)) = Wrap(g_head + (k + (i - 1)))
    BY <1>1, <2>1, RingCompose
  <2>4. Contents[i + k] = cells[Wrap(g_head + (k + (i - 1)))]
    BY <2>1, <2>2, ContentsIsSeq
  <2>5. T[i] = Contents[i + k]
    BY <1>7
  <2> HIDE DEF T
  <2> QED BY <1>6, <2>2, <2>3, <2>4, <2>5
<1> HIDE DEF T
<1>9. Contents' = T
  BY <1>6, <1>7, <1>8, SeqEqual
<1> QED BY <1>9 DEF T

(* A step of the ring is a step of the queue, or none.                     *)
LEMMA StepRefines ==
  ASSUME IInv, IInv', [Next]_vars
  PROVE  [Fifo!Next]_(Fifo!fifoVars)
<1> DEFINE peeked == QUEUE_LENGTH(g_head, g_peek)
<1>0. /\ g_head \in Index /\ g_peek \in Index /\ g_tail \in Index
      /\ Length \in 0 .. BUFFER_LEN /\ BUFFER_LEN \in Nat
      /\ peeked \in 0 .. Length
      /\ Len(Contents) = Length
  <2>1. /\ g_head \in Index /\ g_peek \in Index /\ g_tail \in Index
        /\ BUFFER_LEN \in Nat /\ peeked <= Length
    BY SizeAssumption DEF IInv, TypeOK, PeekWithinQueue, BUFFER_LEN
  <2>2. peeked \in 0 .. BUFFER_LEN
    BY <2>1, RingDistance
  <2> QED BY <2>1, <2>2, ContentsIsSeq
<1>1. ASSUME NEW d \in Chunks, BQForceQueueBytes(d)
      PROVE  Fifo!Force(d)
  BY <1>1, PutRefines DEF BQForceQueueBytes, Fifo!Force
<1>2. ASSUME NEW d \in Chunks, BQSafeQueueBytes(d)
      PROVE  Fifo!Safe(d)
  <2>1. accepted' = (Len(d) <= BUFFER_LEN - Len(Contents))
    <3>1. Free = BUFFER_LEN - Len(Contents) /\ Len(d) \in Nat
      BY <1>0, RingDistance, KeptFits DEF Free, Length
    <3>2. (Free >= Len(d)) <=> (Len(d) <= Free)
      BY <1>0, <3>1
    <3>3. accepted' = (Free >= Len(d))
      BY <1>2 DEF BQSafeQueueBytes
    <3> QED BY <3>1, <3>2, <3>3
  <2>2. ret' = ret
    BY <1>2 DEF BQSafeQueueBytes
  <2>3. CASE accepted'
    <3>1. Fifo!Put(d)
      BY <1>2, <2>3, PutRefines DEF BQSafeQueueBytes
    <3> QED BY <2>1, <2>2, <2>3, <3>1 DEF Fifo!Safe
  <2>4. CASE ~accepted'
    <3>1. UNCHANGED <<g_head, g_peek, g_tail, cells>>
      BY <1>2, <2>4 DEF BQSafeQueueBytes
    <3>2. UNCHANGED <<Contents, peeked>>
      BY <3>1 DEF Contents, Length
    <3> QED BY <2>1, <2>2, <2>4, <3>2 DEF Fifo!Safe
  <2> QED BY <2>3, <2>4
<1>3. ASSUME NEW n \in Lens, BQPeekBytes(n)
      PROVE  Fifo!Peek(n)
  <2>1. /\ ret' = Front(n) /\ g_peek' = PeekIndex(n)
        /\ UNCHANGED <<g_head, g_tail, cells, accepted>>
    BY <1>3 DEF BQPeekBytes
  <2>2. Contents' = Contents
    BY <2>1 DEF Contents, Length
  <2>3. QUEUE_LENGTH(g_head', g_peek') = Fifo!PeekCount(n)
    BY <2>1, PeekRefines
  <2> QED BY <2>1, <2>2, <2>3, PeekRefines DEF Fifo!Peek
<1>4. ASSUME NEW n \in Lens, BQPopBytes(n)
      PROVE  Fifo!Pop(n)
  <2>1. /\ ret' = Front(n) /\ g_peek' = PeekIndex(n) /\ g_head' = PeekIndex(n)
        /\ UNCHANGED <<g_tail, cells, accepted>>
    BY <1>4 DEF BQPopBytes
  <2>2. PICK k : k = QUEUE_LENGTH(g_head, PeekIndex(n))
    OBVIOUS
  <2>3. k \in 0 .. Length /\ g_head' = Wrap(g_head + k)
    BY <1>0, <2>1, <2>2, PeekFits, RingDistance
  <2>4. Contents' = SubSeq(Contents, k + 1, Len(Contents))
    BY <2>1, <2>3, AdvanceRefines
  <2>5. QUEUE_LENGTH(g_head', g_peek') = 0
    BY <2>1, PeekFits, RingZero
  <2> QED BY <2>1, <2>2, <2>4, <2>5, PeekRefines DEF Fifo!Pop
<1>5. ASSUME BQCommitLastPeek
      PROVE  Fifo!Commit
  <2>1. g_head' = g_peek /\ UNCHANGED <<g_peek, g_tail, cells, ret, accepted>>
    BY <1>5 DEF BQCommitLastPeek
  <2>2. g_head' = Wrap(g_head + peeked)
    BY <1>0, <2>1, RingDistance
  <2>3. Contents' = SubSeq(Contents, peeked + 1, Len(Contents))
    <3> HIDE DEF peeked
    <3> QED BY <1>0, <2>1, <2>2, AdvanceRefines
  <2>4. QUEUE_LENGTH(g_head', g_peek') = 0
    BY <1>0, <2>1, RingZero
  <2> QED BY <2>1, <2>3, <2>4 DEF Fifo!Commit
<1>6. ASSUME BQClearBuffer
      PROVE  Fifo!Clear
  <2>1. /\ g_head' = 0 /\ g_peek' = 0 /\ g_tail' = 0
        /\ UNCHANGED <<ret, accepted>>
    BY <1>6 DEF BQClearBuffer
  <2>2. Contents' = <<>> /\ QUEUE_LENGTH(g_head', g_peek') = 0
    <3>1. Length' = 0 /\ QUEUE_LENGTH(g_head', g_peek') = 0
      BY <2>1 DEF Length, QUEUE_LENGTH
    <3>2. /\ g_head' \in Index /\ cells' \in [Index -> Byte]
          /\ 0 \in 0 .. BUFFER_LEN
      BY <1>0 DEF IInv, TypeOK
    <3>3. Contents' = [i \in 1 .. 0 |-> cells'[Wrap(g_head' + i - 1)]]
      BY <3>1 DEF Contents
    <3>4. Contents' \in Seq(Byte) /\ Len(Contents') = 0
      BY <3>2, <3>3, RingReads
    <3> QED BY <3>1, <3>4, EmptySeq
  <2> QED BY <2>1, <2>2 DEF Fifo!Clear
<1>7. CASE UNCHANGED vars
  BY <1>7 DEF vars, Fifo!fifoVars, Contents, Length
<1> QED BY <1>1, <1>2, <1>3, <1>4, <1>5, <1>6, <1>7 DEF Next, Fifo!Next

(* Any sequence of calls on the ring is a behaviour of the bounded queue.  *)
THEOREM RingImplementsFifo == Spec => ImplementsFifo
<1>1. ASSUME Init PROVE Fifo!Init
  <2>1. /\ g_head = 0 /\ g_peek = 0 /\ g_tail = 0
        /\ ret = <<>> /\ accepted = TRUE
    BY <1>1 DEF Init
  <2>2. Length = 0 /\ QUEUE_LENGTH(g_head, g_peek) = 0
    BY <2>1 DEF Length, QUEUE_LENGTH
  <2>3. Contents = <<>>
    <3>1. IInv
      BY <1>1, Initially
    <3>2. Contents \in Seq(Byte) /\ Len(Contents) = 0
      BY <2>2, <3>1, ContentsIsSeq
    <3> QED BY <3>2, EmptySeq
  <2> QED BY <2>1, <2>2, <2>3 DEF Fifo!Init
<1>2. IInv /\ IInv' /\ [Next]_vars => [Fifo!Next]_(Fifo!fifoVars)
  BY StepRefines
<1>3. Init => Fifo!Init
  BY <1>1
<1> QED BY <1>2, <1>3, Initially, Preserved, PTL DEF Spec, ImplementsFifo, Fifo!Spec
==============================================================================
