------------------------------- MODULE MCAuMix -------------------------------
(* An instance of AuMix for TLC. *)
EXTENDS AuMix

CONSTANTS t1, t2, s1
=============================================================================
