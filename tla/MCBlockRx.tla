----------------------------- MODULE MCBlockRx -----------------------------
(***************************************************************************)
(* Small sets of frames for the block receiver.  Two nodes send to it; all *)
(* frames in flight carry different (source, message id) pairs.            *)
(***************************************************************************)
EXTENDS BlockRx

CONSTANTS na, nb

MCSource == [f \in Frame |-> IF f % 2 = 1 THEN na ELSE nb]
MCMsgId == [f \in Frame |-> (f + 1) \div 2]

(* The packets of frame f: full ones of ten bytes and a shorter last one.  *)
PacketsOf(f) ==
  {[frame |-> f, seq |-> i, total |-> Total[f],
    len |-> IF i = Total[f] THEN 6 ELSE 10] : i \in 1 .. Total[f]}

Whole(frames) == UNION {PacketsOf(f) : f \in frames}

(* What a frame with a full last packet brings besides: a header of an     *)
(* earlier frame without data, or three bytes of something else.           *)
Stray == {[frame |-> 11, seq |-> 2, total |-> 4, len |-> 3],
          [frame |-> None, seq |-> 0, total |-> 0, len |-> 3]}

(* Short frames together, some of three packets among them, or longer ones *)
(* with stray headers.                                                     *)
MCFrame == 1 .. 12
MCTotal == <<2, 2, 2, 1, 3, 2, 3, 3, 1, 2, 4, 3>>
MCDeliveries == {Whole(1 .. 4), Whole(5 .. 7), Whole(8 .. 10),
                 Whole(11 .. 12) \cup Stray}
MCColliding == 1 .. 4
=============================================================================
