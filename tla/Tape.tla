-------------------------------- MODULE Tape ---------------------------------
(***************************************************************************)
(* What aufile promises to those who record and play, with no disk, no     *)
(* buffer, no header and no chunks: a tape.                                *)
(*                                                                         *)
(* A recording comes onto the tape all at once, when it is closed.  One    *)
(* that is cut off leaves the tape blank.  Playing gives the tape from its *)
(* beginning on, as much as is asked for until it ends, and leaves it as   *)
(* it is.  The promise is made until the disk is full, and again for the   *)
(* next recording.                                                         *)
(***************************************************************************)
EXTENDS Integers, Sequences

CONSTANT Pieces         \* how many bytes are put or asked for at a time

VARIABLES
  mode,         \* "write", "read" or "none"
  tape,         \* the bytes on the tape
  take,         \* what has been recorded so far
  played,       \* what has been played so far
  torn          \* the disk was full

tapeVars == <<mode, tape, take, played, torn>>

TapeInit ==
  /\ mode = "none"
  /\ tape = <<>> /\ take = <<>> /\ played = <<>>
  /\ torn = FALSE

Record ==
  /\ mode = "none" /\ mode' = "write"
  /\ tape' = <<>>
  /\ torn' = FALSE
  /\ UNCHANGED <<take, played>>

(* Bytes are numbered.                                                     *)
Put(n) ==
  /\ mode = "write"
  /\ take' = take \o [i \in 1 .. n |-> Len(take) + i]
  /\ UNCHANGED <<mode, tape, played, torn>>

Keep ==
  /\ mode = "write" /\ mode' = "none"
  /\ tape' = take
  /\ take' = <<>>
  /\ UNCHANGED <<played, torn>>

CutOff ==
  /\ mode = "write" /\ mode' = "none"
  /\ take' = <<>>
  /\ UNCHANGED <<tape, played, torn>>

(* Somebody else puts another tape in.                                     *)
Exchange ==
  /\ mode = "none"
  /\ tape' \in Seq(Nat)
  /\ torn' = FALSE
  /\ UNCHANGED <<mode, take, played>>

Play ==
  /\ mode = "none" /\ mode' = "read"
  /\ ~torn
  /\ UNCHANGED <<tape, take, played, torn>>

Hear(n) ==
  /\ mode = "read"
  /\ LET end == IF Len(played) + n < Len(tape) THEN Len(played) + n ELSE Len(tape)
     IN  played' = SubSeq(tape, 1, end)
  /\ UNCHANGED <<mode, tape, take, torn>>

Stop ==
  /\ mode = "read" /\ mode' = "none"
  /\ played' = <<>>
  /\ UNCHANGED <<tape, take, torn>>

Tear ==
  /\ mode' = "none"
  /\ tape' = <<>> /\ take' = <<>> /\ played' = <<>>
  /\ torn' = TRUE

TapeNext ==
  \/ Record \/ Keep \/ CutOff
  \/ \E n \in Pieces : Put(n) \/ Hear(n)
  \/ Exchange
  \/ Play \/ Stop
  \/ Tear

TapeSpec == TapeInit /\ [][TapeNext]_tapeVars
=============================================================================
