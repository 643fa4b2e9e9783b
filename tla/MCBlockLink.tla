---------------------------- MODULE MCBlockLink ----------------------------
(***************************************************************************)
(* Three frames over the link: of one, two and three packets.  The host    *)
(* sends at any time, so that one phase of each 1 s base is enough; the    *)
(* receiver's 100 ms base has every phase.                                 *)
(***************************************************************************)
EXTENDS BlockLink

MCFrame == 1 .. 3
MCLen == <<5, 12, 22>>
MCPhase == {20}
MCRxPhase == {8}
=============================================================================
