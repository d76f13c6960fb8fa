------------------------------ MODULE DtmfDec -------------------------------
(***************************************************************************)
(* The DTMF decoder of librem (src/rem/src/dtmf/dec.c).  The samples are   *)
(* collected into blocks; each block is heard as one key or as none; and   *)
(* from the keys heard in successive blocks the decoder makes out the      *)
(* presses of keys, which it reports to the application.                   *)
(*                                                                         *)
(* One step is one sample.  What a block sounds like is any key or None:   *)
(* the filters and their thresholds are floating point.  That a caller     *)
(* passes the samples in pieces of any size makes no difference to the     *)
(* code, which keeps no state of a piece.                                  *)
(***************************************************************************)
EXTENDS Integers

CONSTANTS
  Keys,         \* the keys of a telephone
  None,         \* no key
  Sizes         \* samples in a block, for the rates and channels in use

ASSUME DtmfAssumption ==
  /\ None \notin Keys
  /\ Sizes \subseteq Nat

VARIABLES
  bsize, bidx, digit, digit1,   \* struct dtmf_dec
  heard,        \* the keys of the last two blocks since the reset, latest first
  fresh,        \* how many of them there were, up to 2
  armed         \* the keys that were let go for two blocks since the last report

decVars == <<bsize, bidx, digit, digit1>>
vars == <<bsize, bidx, digit, digit1, heard, fresh, armed>>

(* decode_digit: a key, or none.                                           *)
Heard == Keys \cup {None}

(* dtmf_dec_alloc.                                                         *)
Init ==
  /\ bsize \in Sizes
  /\ bidx = 0
  /\ digit = None
  /\ digit1 = None
  /\ heard = <<None, None>>
  /\ fresh = 0
  /\ armed = Keys

(* dtmf_dec_reset.                                                         *)
Reset ==
  /\ bsize' \in Sizes
  /\ bidx' = 0
  /\ digit' = None
  /\ digit1' = None
  /\ heard' = <<None, None>>
  /\ fresh' = 0
  /\ armed' = Keys

-----------------------------------------------------------------------------
(* dtmf_dec_probe.                                                         *)

(* A sample in the middle of a block.                                      *)
Sample ==
  /\ bidx + 1 < bsize
  /\ bidx' = bidx + 1
  /\ UNCHANGED <<bsize, digit, digit1, heard, fresh, armed>>

(* A fault: one block without the key is enough to end its press.          *)
NextDigitHasty(digit0) ==
  IF digit0 # digit
    THEN IF digit0 # digit1 THEN None ELSE digit0
    ELSE digit

(* A fault: one block of another key is enough to begin its press.         *)
NextDigitEager(digit0) ==
  IF digit0 # digit /\ digit1 # digit THEN digit0 ELSE digit

(* A fault: a press only begins when the last one has ended.               *)
NextDigitDeaf(digit0) ==
  IF digit0 # digit /\ digit1 # digit
    THEN IF digit0 # digit1 \/ digit # None THEN None ELSE digit0
    ELSE digit

(* The key that is pressed, once digit0 was heard: it changes when two     *)
(* blocks in a row are not of the key pressed so far, to what both are.    *)
NextDigit(digit0) ==
  IF digit0 # digit /\ digit1 # digit
    THEN IF digit0 # digit1 THEN None ELSE digit0
    ELSE digit

(* The handler is called with the key.                                     *)
Reports(digit0) == NextDigit(digit0) # digit /\ NextDigit(digit0) # None

(* The last sample of a block.                                             *)
Block(digit0) ==
  /\ bidx + 1 >= bsize
  /\ digit' = NextDigit(digit0)
  /\ digit1' = digit0
  /\ bidx' = 0
  /\ heard' = <<digit0, heard[1]>>
  /\ fresh' = IF fresh = 2 THEN 2 ELSE fresh + 1
  /\ armed' = (armed \cup (IF fresh = 0 THEN {} ELSE Keys \ {digit0, heard[1]}))
                \ (IF Reports(digit0) THEN {digit'} ELSE {})
  /\ UNCHANGED bsize

Next ==
  \/ Reset
  \/ Sample
  \/ \E digit0 \in Heard : Block(digit0)

Spec == Init /\ [][Next]_vars


-----------------------------------------------------------------------------
(* Properties.                                                             *)

(* Every variable has its type; the index stays inside the block.          *)
TypeOK ==
  /\ bsize \in Sizes
  /\ bidx \in Nat /\ (bidx = 0 \/ bidx < bsize)
  /\ digit \in Heard
  /\ digit1 \in Heard
  /\ heard \in Heard \X Heard
  /\ fresh \in 0..2
  /\ armed \subseteq Keys

(* What two blocks in a row sound like is what is pressed: no press of two *)
(* blocks is missed, however noisy the blocks before, and none outlasts    *)
(* two silent blocks.                                                      *)
NoneMissed == fresh = 2 /\ heard[1] = heard[2] => digit = heard[1]

(* A key is only pressed if it was heard in two blocks since the reset,    *)
(* and it is not reported again before two blocks in a row went without    *)
(* it, whatever gaps the blocks of one press have.                         *)
PressedIsHeard == digit # None => digit \notin armed /\ fresh = 2

(* A key is reported when two blocks in a row were of it, and once for     *)
(* each press: two blocks without it have passed since it was reported.    *)
ReportedOnce ==
  [][ \A k \in Keys : digit # k /\ digit' = k =>
        k \in armed /\ fresh' = 2 /\ heard' = <<k, k>> ]_vars
=============================================================================
