------------------------------ MODULE MCBltDrv -------------------------------
(* Instances of BltDrv for TLC. *)
EXTENDS BltDrv

CONSTANTS t1, t2, t3

(* t1 and t2 draw, one of them with the MMU on; t3 waits for pictures, and *)
(* would like to have the device too.                                      *)
DrawingOps ==
  ({t1} \X {"open", "close", "set", "mmu", "trigger"})
    \cup ({t2} \X {"set", "trigger", "flush"})
    \cup ({t3} \X {"open", "flush"})
=============================================================================
