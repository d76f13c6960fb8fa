------------------------------ MODULE Conference -----------------------------
(***************************************************************************)
(* What the video mixer of librem promises to those who use it, with no    *)
(* thread, no lock, no order of drawing and nothing left in a frame.       *)
(*                                                                         *)
(* A conference has members, each with the frame it was last given, and a  *)
(* view of its own.  Now and then a viewer is handed a picture.  Between   *)
(* the moment it is composed and the moment it is handed over everyone     *)
(* else may come, go and change, but not the viewer's view: the picture of *)
(* a member shows the conference as it was at one moment, and the view as  *)
(* it is when the picture arrives.                                         *)
(***************************************************************************)
EXTENDS Integers

CONSTANTS
  Sources,      \* all that may take part
  Content,      \* those that are slides, not people
  None,         \* nobody: no focus is set
  Sizes,        \* sizes of frames, 0 for no frame
  Remains       \* what a picture of who has left may show

VARIABLES
  members,      \* who takes part
  frame,        \* size of the frame each was given
  focus,        \* whom each wants to see large, ...
  full,         \* ... in the background of all the others
  selfview,     \* who wants to see oneself
  hide,         \* who does not want to see slides
  hand          \* the picture each is about to be handed, a set of at most one

view == <<focus, full, selfview, hide>>

confVars == <<members, frame, focus, full, selfview, hide, hand>>

(* Whom viewer v sees.                                                     *)
Seen(v) ==
  {s \in members : (s = v => selfview[v]) /\ (s \in Content => ~hide[v])}

(* A picture is the frames of those seen, in the place they have among the *)
(* others.                                                                 *)
Picture(v) ==
  {[src |-> s, size |-> frame[s], among |-> Seen(v),
    focus |-> focus[v], full |-> full[v]] : s \in {x \in Seen(v) : frame[x] # 0}}

ConfInit ==
  /\ members = {}
  /\ frame = [s \in Sources |-> 0]
  /\ focus = [s \in Sources |-> None]
  /\ full = [s \in Sources |-> FALSE]
  /\ selfview = [s \in Sources |-> FALSE]
  /\ hide = [s \in Sources |-> FALSE]
  /\ hand = [s \in Sources |-> {}]

Enter(s) ==
  /\ members' = members \cup {s}
  /\ UNCHANGED <<frame, view, hand>>

Leave(s) ==
  /\ members' = members \ {s}
  /\ UNCHANGED <<frame, view, hand>>

NewFrame(s, size) ==
  /\ size # 0
  /\ frame' = [frame EXCEPT ![s] = size]
  /\ UNCHANGED <<members, view, hand>>

(* A frame goes with its source, which is no member any more.              *)
DropFrame(s) ==
  /\ s \notin members
  /\ frame' = [frame EXCEPT ![s] = 0]
  /\ UNCHANGED <<members, view, hand>>

Focus(v, s, back) ==
  /\ hand[v] = {}
  /\ focus' = [focus EXCEPT ![v] = s]
  /\ full' = [full EXCEPT ![v] = back]
  /\ UNCHANGED <<members, frame, selfview, hide, hand>>

ToggleSelf(v) ==
  /\ hand[v] = {}
  /\ selfview' = [selfview EXCEPT ![v] = ~@]
  /\ UNCHANGED <<members, frame, focus, full, hide, hand>>

ToggleContent(v) ==
  /\ hand[v] = {}
  /\ hide' = [hide EXCEPT ![v] = ~@]
  /\ UNCHANGED <<members, frame, focus, full, selfview, hand>>

(* Who is no member may see remains of what was there before.              *)
Compose(v) ==
  /\ hand[v] = {}
  /\ \E rest \in {{}} \cup (IF v \in members THEN {} ELSE {{Remains}}) :
       hand' = [hand EXCEPT ![v] = {Picture(v) \cup rest}]
  /\ UNCHANGED <<members, frame, view>>

HandOver(v) ==
  /\ hand[v] # {}
  /\ hand' = [hand EXCEPT ![v] = {}]
  /\ UNCHANGED <<members, frame, view>>

ConfNext ==
  \E s \in Sources :
    \/ Enter(s) \/ Leave(s)
    \/ \E size \in Sizes : NewFrame(s, size)
    \/ DropFrame(s)
    \/ \E f \in Sources \cup {None}, back \in BOOLEAN : Focus(s, f, back)
    \/ ToggleSelf(s) \/ ToggleContent(s)
    \/ Compose(s) \/ HandOver(s)

ConfSpec == ConfInit /\ [][ConfNext]_confVars
=============================================================================
