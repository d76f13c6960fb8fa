-------------------------------- MODULE Engine -------------------------------
(***************************************************************************)
(* What the drivers of the picture engines promise to the process that has *)
(* the device open, with no counts, locks, clocks, handlers, registers or  *)
(* threads: the device has one holder at a time, and its pictures are made *)
(* one after the other.  Each is asked for, drawn and told of, in this     *)
(* order and once, so whoever hears that it is done may use it.            *)
(*                                                                         *)
(* The promise about pictures is made to callers who ask for the next one  *)
(* when they have heard of the last: for others they are a muddle from     *)
(* then on.  The device still has one holder.                              *)
(***************************************************************************)
CONSTANT
  MayAbandon    \* whether a holder who leaves abandons the picture, or waits for it

VARIABLES
  holder,       \* "nobody" or "somebody"; "lost" after an open that has failed
  picture       \* how far it is; "none" if there is nothing to wait for

engVars == <<holder, picture>>

EngInit ==
  /\ holder = "nobody"
  /\ picture = "none"

Take ==
  /\ holder = "nobody" /\ holder' = "somebody"
  /\ UNCHANGED picture

Release ==
  /\ holder = "somebody" /\ holder' = "nobody"
  /\ picture \in {"none", "muddle"}
  /\ UNCHANGED picture

Lose ==
  /\ holder = "somebody" /\ holder' = "lost"
  /\ picture \in {"none", "muddle"}
  /\ UNCHANGED picture

Goes(from, to) ==
  /\ holder = "somebody"
  /\ picture = from
  /\ picture' = to
  /\ UNCHANGED holder

Ask == Goes("none", "asked")

Start == Goes("asked", "drawing")

Finish == Goes("drawing", "drawn")

Tell == Goes("drawn", "none")

(* The engine may give up; nobody hears of that, but the picture may be    *)
(* called off.                                                             *)
Abort == Goes("drawing", "aborted")

CallOff == Goes("aborted", "none")

Abandon ==
  /\ MayAbandon
  /\ \E from \in {"drawing", "drawn"} : Goes(from, "none")

Muddle == \E from \in {"none", "asked", "drawing", "drawn", "aborted"} : Goes(from, "muddle")

EngNext ==
  \/ Take \/ Release \/ Lose
  \/ Ask \/ Start \/ Finish \/ Tell
  \/ Abort \/ CallOff \/ Abandon \/ Muddle

EngSpec == EngInit /\ [][EngNext]_engVars
=============================================================================
