----------------------------- MODULE MCBlockTx -----------------------------
(***************************************************************************)
(* Three frames for the block sender, sent in any order.                   *)
(***************************************************************************)
EXTENDS BlockTx

MCFrame == 1 .. 3

(* One packet; two packets; four packets, the last of them full, which     *)
(* makes for the longest transfer.                                         *)
AnyLen == <<5, 12, 30>>

AllPhases == 1 .. 20
=============================================================================
