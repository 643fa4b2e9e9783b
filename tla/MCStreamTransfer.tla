-------------------------- MODULE MCStreamTransfer --------------------------
(***************************************************************************)
(* Two nodes with streams of one and two packets for a third.              *)
(***************************************************************************)
EXTENDS StreamTransfer

CONSTANTS na, nb, fa, fb, fc

Nodes == {na, nb}
Frames == {fa, fb, fc}
MCSource == [f \in Frame |-> IF f = fb THEN nb ELSE na]
MCPackets == [f \in Frame |-> IF f = fa THEN 2 ELSE 1]
=============================================================================
