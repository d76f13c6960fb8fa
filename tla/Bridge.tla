-------------------------------- MODULE Bridge -------------------------------
(***************************************************************************)
(* What the audio mixer of librem promises to those who use it, with no    *)
(* thread, no mutex, no clock and no announcements.                        *)
(*                                                                         *)
(* Whoever takes part in the conference queues frames of sound.  Now and   *)
(* then there is a round: everyone gives one frame, or silence, and then   *)
(* everyone is handed the sum of what the others gave.  Nobody comes or    *)
(* goes in the middle of a round, so a frame that was given is heard by    *)
(* all the others, once, together with one of each of them.                *)
(***************************************************************************)
EXTENDS Integers

CONSTANTS
  Sources,      \* all that may take part
  MaxFrames     \* frames that a queue holds

VARIABLES
  members,      \* who takes part
  queue,        \* frames of each that wait to be given
  given,        \* who has given a frame in this round
  heard,        \* who has been handed the sum in this round
  over          \* the conference has been closed

bridgeVars == <<members, queue, given, heard, over>>

BridgeInit ==
  /\ members = {}
  /\ queue = [s \in Sources |-> 0]
  /\ given = {}
  /\ heard = {}
  /\ over = FALSE

BetweenRounds == given = {}

Join(s) ==
  /\ BetweenRounds
  /\ members' = members \cup {s}
  /\ UNCHANGED <<queue, given, heard, over>>

Part(s) ==
  /\ BetweenRounds
  /\ members' = members \ {s}
  /\ UNCHANGED <<queue, given, heard, over>>

(* A full queue drops a frame for the new one.                             *)
Queue(s) ==
  /\ queue' = [queue EXCEPT ![s] = IF @ < MaxFrames THEN @ + 1 ELSE @]
  /\ UNCHANGED <<members, given, heard, over>>

Drop(s) ==
  /\ queue' = [queue EXCEPT ![s] = 0]
  /\ UNCHANGED <<members, given, heard, over>>

(* Silence is given where the queue is empty, or filling up.               *)
Give(s) ==
  /\ heard = {}
  /\ s \in members \ given
  /\ given' = given \cup {s}
  /\ \/ queue[s] > 0 /\ queue' = [queue EXCEPT ![s] = @ - 1]
     \/ UNCHANGED queue
  /\ UNCHANGED <<members, heard, over>>

Hear(s) ==
  /\ given = members
  /\ s \in members \ heard
  /\ heard' = heard \cup {s}
  /\ UNCHANGED <<members, queue, given, over>>

RoundEnds ==
  /\ given = members /\ heard = members
  /\ given' = {}
  /\ heard' = {}
  /\ UNCHANGED <<members, queue, over>>

Close ==
  /\ members = {} /\ BetweenRounds
  /\ over' = TRUE
  /\ UNCHANGED <<members, queue, given, heard>>

BridgeNext ==
  /\ ~over
  /\ \/ \E s \in Sources :
          Join(s) \/ Part(s) \/ Queue(s) \/ Drop(s) \/ Give(s) \/ Hear(s)
     \/ RoundEnds
     \/ Close

BridgeSpec == BridgeInit /\ [][BridgeNext]_bridgeVars
=============================================================================
