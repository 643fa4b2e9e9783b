--------------------------- MODULE MCNodeStorage ---------------------------
(***************************************************************************)
(* A node that may lose power twice, with one id in the range it reports   *)
(* and one outside, one group and two TTLs.                                *)
(***************************************************************************)
EXTENDS NodeStorage

CONSTANTS idOwn, idOther

MCId == {idOwn, idOther}
MCOwnIds == {idOwn}
=============================================================================
