------------------------------- MODULE MCAuBuf -------------------------------
(* Instances of AuBuf for TLC. *)
EXTENDS AuBuf

CONSTANTS r1, r2
=============================================================================
