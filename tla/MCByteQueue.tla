---------------------------- MODULE MCByteQueue ----------------------------
(***************************************************************************)
(* A ring of four cells, three of them data, and chunks up to one byte     *)
(* longer than it holds.                                                   *)
(***************************************************************************)
EXTENDS ByteQueue

MCByte == 1 .. 2
MCChunks == UNION {[1 .. n -> MCByte] : n \in 0 .. 4}
MCLens == 0 .. 4
=============================================================================
