------------------------------ MODULE AudioFifo ------------------------------
(***************************************************************************)
(* What an audio buffer of librem promises to the two sides that share it, *)
(* with no list of frames, no lock and no clock.                           *)
(*                                                                         *)
(* The bytes the writers append form one stream, numbered from 0.  The     *)
(* buffer holds the window lo .. hi-1 of it.  A reader receives the oldest *)
(* bytes of the window, or silence while the buffer is filling up; an      *)
(* overrun and a flush forget bytes at the old end and nowhere else.       *)
(***************************************************************************)
EXTENDS Integers

CONSTANTS
  WriteSizes,   \* sizes a writer may append
  ReadSizes,    \* sizes a reader may ask for
  WishSz,       \* bytes wanted before reading (re)starts
  MaxSz         \* bytes above which old data is discarded; 0: no limit

VARIABLES
  lo,           \* stream offset of the oldest byte held
  hi,           \* stream offset after the newest byte held
  filling       \* TRUE until WishSz bytes have been collected

fifoVars == <<lo, hi, filling>>

Min2(a, b) == IF a < b THEN a ELSE b

(* How much must be there before a read of n bytes is served.              *)
Need(n) == IF filling THEN WishSz ELSE n

FifoInit ==
  /\ lo = 0
  /\ hi = 0
  /\ filling = TRUE

Put(n) ==
  /\ hi' = hi + n
  /\ lo' \in lo .. hi'
  /\ lo' # lo => MaxSz # 0 /\ hi' - lo > MaxSz
  /\ UNCHANGED filling

Underrun(n) ==
  /\ hi - lo < Need(n)
  /\ filling' = TRUE
  /\ UNCHANGED <<lo, hi>>

Deliver(n) ==
  /\ hi - lo >= Need(n)
  /\ lo' = lo + Min2(n, hi - lo)
  /\ filling' = FALSE
  /\ UNCHANGED hi

Forget ==
  /\ lo' = hi
  /\ filling' = TRUE
  /\ UNCHANGED hi

FifoNext ==
  \/ \E n \in WriteSizes : Put(n)
  \/ \E n \in ReadSizes : Underrun(n) \/ Deliver(n)
  \/ Forget

FifoSpec == FifoInit /\ [][FifoNext]_fifoVars
=============================================================================
