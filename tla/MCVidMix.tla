------------------------------- MODULE MCVidMix ------------------------------
(* Instances of VidMix for TLC. *)
EXTENDS VidLayout

CONSTANTS s1, s2

(* s1 watches, with everything that changes its view, until it is          *)
(* destroyed; s2, a source of content, comes and goes, and changes the     *)
(* size of its frames.  s1 has no frame of its own, but takes its place in *)
(* the layout when it shows itself.                                        *)
ViewOps ==
  ({s1} \X {"enable", "start", "set_size", "selfview", "content_hide", "focus_idx",
             "set_focus", "destroy"})
    \cup ({s2} \X {"enable", "destroy"})

ViewPuts == {<<s2, 1>>, <<s2, 2>>}

ViewOuts == {<<s1, 0>>, <<s1, 1>>, <<s2, 0>>}

(* Threads start and end while others draw or show content, and the waits  *)
(* of two writers may overlap.                                             *)
LifeOps == ({s1} \X {"start", "stop", "destroy"}) \cup ({s2} \X {"enable", "start"})

LifePuts == {<<s2, 1>>, <<s2, 2>>}

LifeOuts == {<<s1, 1>>, <<s2, 0>>}

(* s1 has the focus on s2, which is destroyed.                             *)
FocusOps == ({s1} \X {"enable", "start", "set_focus"}) \cup ({s2} \X {"enable", "destroy"})

FocusPuts == {<<s2, 1>>}

FocusOuts == {<<s1, 1>>, <<s2, 0>>}

(* Pictures of even and odd sizes, smaller than a grid and larger; as many *)
(* shown as fill the grid, the column and the row, and one more; frames    *)
(* that are square, wide and high.                                         *)
ViewLayouts ==
  {l \in [w : {7, 22}, h : {5, 18}, n : {0, 1, 2, 4, 5, 6, 7, 8, 10, 11, 13},
          focus : -1..13, full : BOOLEAN] : l.focus <= l.n}

ViewFrames == {[w |-> 1, h |-> 1], [w |-> 4, h |-> 3], [w |-> 2, h |-> 5]}
=============================================================================
