------------------------------ MODULE MCVpeDrv -------------------------------
(* Instances of VpeDrv for TLC. *)
EXTENDS VpeDrv

CONSTANTS t1, t2, t3

(* t1 shows pictures; t2 may show and wait for some too, and stop the      *)
(* engine; t3 would like to have the device.                               *)
SharedOps ==
  ({t1} \X {"open", "close", "trigger", "wait"})
    \cup ({t2} \X {"open", "trigger", "wait", "stop"})
    \cup ({t3} \X {"open", "close"})
=============================================================================
