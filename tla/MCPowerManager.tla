--------------------------- MODULE MCPowerManager ----------------------------
(* Instances of PowerManager for TLC. *)
EXTENDS PowerManager

(* Nothing is claimed of what follows once the word was written by two at  *)
(* a time: the runs end there, and where a report that has begun would     *)
(* write over another.                                                     *)
Apart == ~muddled /\ \A p \in Reporters : mid[p] # NoReport => mid[p].seen = word

(* Nor of what follows when the request was carried out, or never will be. *)
Running == pc # "off" /\ ~crowded
(* Cards and cable have bits of their own: one of the two at a time is     *)
(* reported wrong.                                                         *)
OneAstray == astray # {"card", "usbd"}
=============================================================================
