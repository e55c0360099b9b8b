---------------------------- MODULE MCInterrupts ----------------------------
(* The devices of the kernel: timer, keyboard and, behind the second
   controller, the clock, which has no handler.                             *)
EXTENDS Interrupts
=============================================================================
