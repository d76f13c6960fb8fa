----------------------------- MODULE MCAuFile -------------------------------
(* Instances of AuFile for TLC. *)
EXTENDS AuFile

(* A plain file, one with a chunk before and one after the data, one with  *)
(* a chunk too large, one with an unknown width, and one whose data is cut *)
(* off.                                                                    *)
Plain == [head |-> TRUE, wav |-> "PCM", bps |-> 16, riff |-> 40,
          before |-> <<>>, data |-> 2, body |-> <<1, 2>>]

Complete ==
  {Plain,
   [Plain EXCEPT !.before = <<1, 2>>, !.body = <<1, 2, Stray, Stray>>],
   [Plain EXCEPT !.before = <<50>>],
   [Plain EXCEPT !.bps = 8],
   [Plain EXCEPT !.data = 4]}

EndsEmpty == [Plain EXCEPT !.before = <<0>>, !.data = NoData, !.body = <<>>]

(* Files that end in their header, or before their data: after the fmt     *)
(* chunk, a chunk of some size and an empty one.                           *)
CutOff ==
  {[Plain EXCEPT !.head = FALSE, !.data = NoData, !.body = <<>>],
   [Plain EXCEPT !.data = NoData, !.body = <<>>],
   [Plain EXCEPT !.before = <<1>>, !.data = NoData, !.body = <<>>],
   EndsEmpty}

OneCutOff == {EndsEmpty}

AllFiles == Complete \cup CutOff
=============================================================================
