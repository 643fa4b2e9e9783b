---------------------------- MODULE MCUartBridge ----------------------------
(***************************************************************************)
(* The two machines of the UART share nothing but the millisecond: one     *)
(* side of the bridge is busy at a time.                                   *)
(***************************************************************************)
EXTENDS UartBridge

OneSide == {{"host"}, {"mesh"}}
=============================================================================
