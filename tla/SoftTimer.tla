----------------------------- MODULE SoftTimer -----------------------------
(***************************************************************************)
(* The software timers of time_uart.c.  A timer is a word with a running   *)
(* bit, an overflow bit ("fov") and a count; the tick of its time base     *)
(* (1 ms, 4 ms, 10 ms, 100 ms or 1 s) counts a running word down.  Here a  *)
(* stopped word is Idle, a running one is its count, an overflowed one is  *)
(* Overflow.  Nothing resets an overflow but the code that reads it.       *)
(***************************************************************************)
EXTENDS Integers

Idle == 0
Overflow == -1

Timer(n) == Overflow .. n

fov(t) == t = Overflow

(* One tick: the last count becomes the overflow; a timer armed with n     *)
(* overflows at its n-th tick.                                             *)
Tick(t) == CASE t > 1 -> t - 1
             [] t = 1 -> Overflow
             [] OTHER -> t
=============================================================================
