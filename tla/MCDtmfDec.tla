----------------------------- MODULE MCDtmfDec ------------------------------
(* Instances of DtmfDec for TLC. *)
EXTENDS DtmfDec

CONSTANTS k1, k2, k3

(* Three keys: one pressed, one that disturbs it, and a third.             *)
ThreeKeys == {k1, k2, k3}

(* The sizes of a block where every sample is one (a rate below 79 Hz      *)
(* makes bsize 0), where one is just that, and where it takes some.        *)
BlockSizes == {0, 1, 3}
=============================================================================
