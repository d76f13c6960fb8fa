----------------------------- MODULE VidMixProofs ----------------------------
(***************************************************************************)
(* Theorems about VidMix, for any number of sources and any calls.         *)
(*                                                                         *)
(* The inductive invariant IInv has four parts, and one lemma per part     *)
(* says that every step keeps it.  That pictures hold no remains follows   *)
(* from two of them: what is in a frame that need not be cleared is to be  *)
(* drawn (NothingStale), and what is to be drawn is drawn (Painted).       *)
(*                                                                         *)
(* That VidMix implements Conference is proved step by step: a step is one *)
(* of the conference (ConfThreads, ConfChanges) or is not noticed there    *)
(* (ConfStutters).                                                         *)
(*                                                                         *)
(* Where the tiles are is arithmetic: the theorems about VidLayout hold in *)
(* every state, for layouts and frames of any size.                        *)
(***************************************************************************)
EXTENDS VidLayout, WellFoundedInduction, TLAPS

(* Sizes are numbers: 0, and those of the frames that are put, which are   *)
(* not 0.                                                                  *)
LEMMA FrameSizesTyped ==
  /\ FrameSizes \subseteq Nat
  /\ 0 \in FrameSizes
  /\ \A put \in Puts : put[2] \in FrameSizes
BY VidMixAssumption DEF FrameSizes

(* The initial states satisfy the invariant.                               *)
LEMMA InvInit == Init => IInv
<1> SUFFICES ASSUME Init PROVE IInv
  OBVIOUS
<1>1. TypeOK
  BY FrameSizesTyped DEF Init, TypeOK, VidPcs, CtlPcs, Locked, Drawing, Writing
<1>2. NothingStale /\ Painted /\ CallsAlive
  BY DEF Init, NothingStale, Painted, CallsAlive
<1>3. QED
  BY <1>1, <1>2 DEF IInv

(* The tiles a viewer draws are tiles, and the background is one of them.  *)
LEMMA TilesTyped ==
  ASSUME TypeOK, NEW v \in Sources
  PROVE  FullTile(v) \subseteq Tiles(v) /\ Tiles(v) \subseteq Tile /\ FullTile(v) \subseteq Tile
<1>1. ASSUME NEW s \in Sources
      PROVE  TileOf(v, s) \in Tile
  BY VidMixAssumption, FrameSizesTyped DEF TileOf, Tile, TypeOK, Visible
<1>2. Visible(v) \subseteq Sources
  BY DEF Visible, TypeOK
<1>3. QED
  BY <1>1, <1>2 DEF FullTile, Tiles

-----------------------------------------------------------------------------

(* Types.                                                                  *)
LEMMA TypeOKStep ==
  ASSUME IInv, Next
  PROVE  TypeOK'
<1> USE VidMixAssumption DEF IInv, TypeOK, Drawing, Locked, VidPcs, Writing,
   CtlPcs
<1>1. ASSUME NEW s \in Sources, ThreadBegin(s)
      PROVE  TypeOK'
  BY <1>1 DEF ThreadBegin, viewVars, Step
<1>2. ASSUME NEW s \in Sources, ThreadLoop(s)
      PROVE  TypeOK'
  BY <1>2 DEF ThreadLoop, viewVars, Step
<1>3. ASSUME NEW s \in Sources, ThreadWake(s)
      PROVE  TypeOK'
  BY <1>3 DEF ThreadWake, viewVars, Step
<1>4. ASSUME NEW s \in Sources, ThreadClear(s)
      PROVE  TypeOK'
  <2>1. Tiles(s) \subseteq Tile /\ FullTile(s) \subseteq Tile
    BY TilesTyped
  <2>2. canvas' \in [Sources -> SUBSET (Tile \cup {Remains})]
    BY <1>4, <2>1 DEF ThreadClear
  <2>3. QED
    BY <1>4, <2>2 DEF ThreadClear, Step, viewVars
<1>5. ASSUME NEW s \in Sources, ThreadPaint(s)
      PROVE  TypeOK'
  <2>1. Tiles(s) \subseteq Tile /\ FullTile(s) \subseteq Tile
    BY TilesTyped
  <2>2. canvas' \in [Sources -> SUBSET (Tile \cup {Remains})]
    BY <1>5, <2>1 DEF ThreadPaint
  <2>3. QED
    BY <1>5, <2>2 DEF ThreadPaint, Step, viewVars
<1>6. ASSUME NEW s \in Sources, ThreadRdunlock(s)
      PROVE  TypeOK'
  BY <1>6 DEF ThreadRdunlock, viewVars, Step
<1>7. ASSUME NEW s \in Sources, ThreadDeliver(s)
      PROVE  TypeOK'
  BY <1>7 DEF ThreadDeliver, viewVars, Step
<1>8. ASSUME NEW s \in Sources, ThreadShow(s)
      PROVE  TypeOK'
  BY <1>8 DEF ThreadShow, viewVars, Step
<1>9. ASSUME NEW s \in Sources, ThreadRdlock(s)
      PROVE  TypeOK'
  BY <1>9 DEF ThreadRdlock, viewVars, Step
<1>10. ASSUME NEW s \in Sources, SourceAlloc(s)
      PROVE  TypeOK'
  BY <1>10 DEF SourceAlloc, viewVars
<1>11. ASSUME NEW s \in Sources, SourceEnable(s)
      PROVE  TypeOK'
  BY <1>11 DEF SourceEnable, viewVars, Live, Calls, Goto
<1>12. ASSUME NEW s \in Sources, SourceStart(s)
      PROVE  TypeOK'
  BY <1>12 DEF SourceStart, viewVars, Live, Calls
<1>13. ASSUME NEW s \in Sources, SourceStop(s)
      PROVE  TypeOK'
  BY <1>13 DEF SourceStop, viewVars, Live, Calls, Goto
<1>14. ASSUME NEW s \in Sources, SetSize(s)
      PROVE  TypeOK'
  BY <1>14 DEF SetSize, viewVars, Live, Calls
<1>15. ASSUME NEW s \in Sources, SetContentHide(s)
      PROVE  TypeOK'
  BY <1>15 DEF SetContentHide, Live, Calls
<1>16. ASSUME NEW s \in Sources, ToggleSelfview(s)
      PROVE  TypeOK'
  BY <1>16 DEF ToggleSelfview, Live, Calls
<1>17. ASSUME NEW s \in Sources, SetFocus(s)
      PROVE  TypeOK'
  BY <1>17 DEF SetFocus, Live, Calls
<1>18. ASSUME NEW s \in Sources, FocusFind(s)
      PROVE  TypeOK'
  <2>1. Visible(s) \subseteq Sources
    BY DEF Visible
  <2>2. pick' \in [Sources -> Sources \cup {None}]
    BY <1>18, <2>1 DEF FocusFind
  <2>3. QED
    BY <1>18, <2>2 DEF FocusFind, viewVars, Live, Calls, Goto
<1>19. ASSUME NEW s \in Sources, SourceDeref(s)
      PROVE  TypeOK'
  BY <1>19 DEF SourceDeref, viewVars, Live, Calls, Goto
<1>20. ASSUME NEW s \in Sources, EnableLocked(s)
      PROVE  TypeOK'
  BY <1>20 DEF EnableLocked, viewVars, Goto, ClearAll
<1>21. ASSUME NEW s \in Sources, DisableLocked(s)
      PROVE  TypeOK'
  BY <1>21 DEF DisableLocked, viewVars, Goto, ClearAll
<1>22. ASSUME NEW s \in Sources, StopJoin(s)
      PROVE  TypeOK'
  BY <1>22 DEF StopJoin, viewVars, Step, Goto
<1>23. ASSUME NEW s \in Sources, FocusSet(s)
      PROVE  TypeOK'
  BY <1>23 DEF FocusSet, Goto
<1>24. ASSUME NEW s \in Sources, DestroyJoin(s)
      PROVE  TypeOK'
  BY <1>24 DEF DestroyJoin, viewVars, Step, Goto
<1>25. ASSUME NEW s \in Sources, DestroyUnlink(s)
      PROVE  TypeOK'
  BY <1>25 DEF DestroyUnlink, viewVars, Goto, ClearAll
<1>26. ASSUME NEW s \in Sources, DestroyFree(s)
      PROVE  TypeOK'
  BY <1>26, FrameSizesTyped DEF DestroyFree, viewVars, Goto
<1>27. ASSUME NEW s \in Sources, SourcePut(s)
      PROVE  TypeOK'
  BY <1>27, FrameSizesTyped DEF SourcePut, viewVars, Live
<1>28. ASSUME NEW s \in Sources, PutLocked(s)
      PROVE  TypeOK'
  BY <1>28, FrameSizesTyped DEF PutLocked, viewVars, ClearAll
<1>29. CASE UNCHANGED <<life, srcl, rx, tx, run, clear, canvas, focus, full,
   selfview, hide, vpc, ctl, pick, feed>>
  BY <1>29
<1>30. QED
  BY <1>1, <1>2, <1>3, <1>4, <1>5, <1>6, <1>7, <1>8, <1>9, <1>10, <1>11,
     <1>12, <1>13, <1>14, <1>15, <1>16, <1>17, <1>18, <1>19, <1>20, <1>21,
     <1>22, <1>23, <1>24, <1>25, <1>26, <1>27, <1>28, <1>29 DEF Next,
     ThreadRuns, CtlCalls, CtlRuns, Terminated, vars

(* A call keeps its source alive, and a source is freed when it is out of  *)
(* the list and its thread has ended.                                      *)
LEMMA CallsAliveStep ==
  ASSUME IInv, Next
  PROVE  CallsAlive'
<1> USE VidMixAssumption DEF IInv, TypeOK, Drawing, Locked, VidPcs, Writing,
   CtlPcs, CallsAlive, Live
<1>1. ASSUME NEW s \in Sources, ThreadBegin(s)
      PROVE  CallsAlive'
  BY <1>1 DEF ThreadBegin, viewVars, Step
<1>2. ASSUME NEW s \in Sources, ThreadLoop(s)
      PROVE  CallsAlive'
  BY <1>2 DEF ThreadLoop, viewVars, Step
<1>3. ASSUME NEW s \in Sources, ThreadWake(s)
      PROVE  CallsAlive'
  BY <1>3 DEF ThreadWake, viewVars, Step
<1>4. ASSUME NEW s \in Sources, ThreadClear(s)
      PROVE  CallsAlive'
  BY <1>4 DEF ThreadClear, viewVars, Step
<1>5. ASSUME NEW s \in Sources, ThreadPaint(s)
      PROVE  CallsAlive'
  BY <1>5 DEF ThreadPaint, viewVars, Step
<1>6. ASSUME NEW s \in Sources, ThreadRdunlock(s)
      PROVE  CallsAlive'
  BY <1>6 DEF ThreadRdunlock, viewVars, Step
<1>7. ASSUME NEW s \in Sources, ThreadDeliver(s)
      PROVE  CallsAlive'
  BY <1>7 DEF ThreadDeliver, viewVars, Step
<1>8. ASSUME NEW s \in Sources, ThreadShow(s)
      PROVE  CallsAlive'
  BY <1>8 DEF ThreadShow, viewVars, Step
<1>9. ASSUME NEW s \in Sources, ThreadRdlock(s)
      PROVE  CallsAlive'
  BY <1>9 DEF ThreadRdlock, viewVars, Step
<1>10. ASSUME NEW s \in Sources, SourceAlloc(s)
      PROVE  CallsAlive'
  BY <1>10 DEF SourceAlloc, viewVars
<1>11. ASSUME NEW s \in Sources, SourceEnable(s)
      PROVE  CallsAlive'
  BY <1>11 DEF SourceEnable, viewVars, Calls, Goto
<1>12. ASSUME NEW s \in Sources, SourceStart(s)
      PROVE  CallsAlive'
  BY <1>12 DEF SourceStart, viewVars, Calls
<1>13. ASSUME NEW s \in Sources, SourceStop(s)
      PROVE  CallsAlive'
  BY <1>13 DEF SourceStop, viewVars, Calls, Goto
<1>14. ASSUME NEW s \in Sources, FocusFind(s)
      PROVE  CallsAlive'
  BY <1>14 DEF FocusFind, viewVars, Calls, Goto
<1>15. ASSUME NEW s \in Sources, SourceDeref(s)
      PROVE  CallsAlive'
  BY <1>15 DEF SourceDeref, viewVars, Calls, Goto
<1>16. ASSUME NEW s \in Sources, EnableLocked(s)
      PROVE  CallsAlive'
  BY <1>16 DEF EnableLocked, viewVars, Goto, ClearAll
<1>17. ASSUME NEW s \in Sources, DisableLocked(s)
      PROVE  CallsAlive'
  BY <1>17 DEF DisableLocked, viewVars, Goto, ClearAll
<1>18. ASSUME NEW s \in Sources, StopJoin(s)
      PROVE  CallsAlive'
  BY <1>18 DEF StopJoin, viewVars, Step, Goto
<1>19. ASSUME NEW s \in Sources, FocusSet(s)
      PROVE  CallsAlive'
  BY <1>19 DEF FocusSet, Goto
<1>20. ASSUME NEW s \in Sources, DestroyJoin(s)
      PROVE  CallsAlive'
  BY <1>20 DEF DestroyJoin, viewVars, Step, Goto
<1>21. ASSUME NEW s \in Sources, DestroyUnlink(s)
      PROVE  CallsAlive'
  BY <1>21 DEF DestroyUnlink, viewVars, Goto, ClearAll
<1>22. ASSUME NEW s \in Sources, DestroyFree(s)
      PROVE  CallsAlive'
  BY <1>22 DEF DestroyFree, viewVars, Goto
<1>23. ASSUME NEW s \in Sources, SourcePut(s)
      PROVE  CallsAlive'
  BY <1>23 DEF SourcePut, viewVars
<1>24. ASSUME NEW s \in Sources, PutLocked(s)
      PROVE  CallsAlive'
  BY <1>24 DEF PutLocked, viewVars, ClearAll
<1>25. CASE UNCHANGED <<life, srcl, run, vpc, ctl, feed>>
  BY <1>25
<1>26. QED
  BY <1>1, <1>2, <1>3, <1>4, <1>5, <1>6, <1>7, <1>8, <1>9, <1>10, <1>11,
     <1>12, <1>13, <1>14, <1>15, <1>16, <1>17, <1>18, <1>19, <1>20, <1>21,
     <1>22, <1>23, <1>24, <1>25 DEF Next, ThreadRuns, CtlCalls, CtlRuns,
     Terminated, vars, SetSize, viewVars, MutexFree, Calls, SetContentHide,
     ToggleSelfview, SetFocus

-----------------------------------------------------------------------------
(* The two parts about pictures, for one viewer.                           *)
FreshAt(v) ==
  /\ ~clear[v] => canvas[v] \subseteq Tiles(v)
  /\ vpc[v] \in {"paint", "drawn"} => ~clear[v]

PaintedAt(v) ==
  /\ vpc[v] = "paint" => FullTile(v) \subseteq canvas[v]
  /\ vpc[v] = "drawn" => Tiles(v) \subseteq canvas[v]

(* A step that leaves alone all that decides what v shows.                 *)
SameFor(v) ==
  /\ srcl' = srcl
  /\ \A x \in srcl : rx'[x] = rx[x]
  /\ focus'[v] = focus[v] /\ full'[v] = full[v]
  /\ selfview'[v] = selfview[v] /\ hide'[v] = hide[v]

(* Such a step does not change the tiles of v.                             *)
LEMMA SameTiles ==
  ASSUME NEW v \in Sources, SameFor(v)
  PROVE  Tiles(v)' = Tiles(v) /\ FullTile(v)' = FullTile(v)
<1> USE DEF SameFor
<1>1. Visible(v)' = Visible(v) /\ Visible(v) \subseteq srcl
  BY DEF Visible
<1>2. \A s \in Visible(v) : TileOf(v, s)' = TileOf(v, s) /\ rx'[s] = rx[s]
  BY <1>1 DEF TileOf
<1>3. QED
  BY <1>1, <1>2 DEF Tiles, FullTile

(* It keeps a picture fresh, unless it moves v on to the next pass.        *)
LEMMA CalmFresh ==
  ASSUME NEW v \in Sources, FreshAt(v), SameFor(v), clear'[v] = clear[v],
         canvas'[v] = canvas[v] \/ canvas'[v] = {},
         vpc'[v] = vpc[v] \/ vpc'[v] \notin {"paint", "drawn"}
  PROVE  FreshAt(v)'
<1>1. Tiles(v)' = Tiles(v)
  BY SameTiles
<1>2. QED
  BY <1>1 DEF FreshAt

(* It keeps what was painted, unless it moves v on to the next pass.       *)
LEMMA CalmPainted ==
  ASSUME NEW v \in Sources, PaintedAt(v), SameFor(v),
         canvas'[v] = canvas[v],
         vpc'[v] = vpc[v] \/ vpc'[v] \notin {"paint", "drawn"}
  PROVE  PaintedAt(v)'
<1>1. Tiles(v)' = Tiles(v) /\ FullTile(v)' = FullTile(v)
  BY SameTiles
<1>2. QED
  BY <1>1 DEF PaintedAt

(* The steps that change no picture and nothing about it.                  *)
Quiet(s) ==
  \/ ThreadBegin(s)
  \/ ThreadLoop(s)
  \/ ThreadWake(s)
  \/ ThreadRdlock(s)
  \/ ThreadRdunlock(s)
  \/ ThreadDeliver(s)
  \/ ThreadShow(s)
  \/ SourceAlloc(s)
  \/ SourceEnable(s)
  \/ SourceStart(s)
  \/ SourceStop(s)
  \/ StopJoin(s)
  \/ FocusFind(s)
  \/ SourceDeref(s)
  \/ DestroyJoin(s)
  \/ SourcePut(s)

(* They are calm for every viewer, and do not start a pass.                *)
LEMMA QuietSteps ==
  ASSUME TypeOK, NEW s \in Sources, Quiet(s), NEW v \in Sources
  PROVE  /\ SameFor(v)
         /\ clear'[v] = clear[v] /\ canvas'[v] = canvas[v]
         /\ vpc'[v] = vpc[v] \/ vpc'[v] \notin {"paint", "drawn"}
<1> USE DEF TypeOK, SameFor, Step, viewVars
<1>1. CASE ThreadBegin(s)
  BY <1>1 DEF ThreadBegin
<1>2. CASE ThreadLoop(s)
  BY <1>2 DEF ThreadLoop
<1>3. CASE ThreadWake(s)
  BY <1>3 DEF ThreadWake
<1>4. CASE ThreadRdlock(s)
  BY <1>4 DEF ThreadRdlock
<1>5. CASE ThreadRdunlock(s)
  BY <1>5 DEF ThreadRdunlock
<1>6. CASE ThreadDeliver(s)
  BY <1>6 DEF ThreadDeliver
<1>7. CASE ThreadShow(s)
  BY <1>7 DEF ThreadShow
<1>8. CASE SourceAlloc(s)
  BY <1>8 DEF SourceAlloc
<1>9. CASE SourceEnable(s)
  BY <1>9 DEF SourceEnable
<1>10. CASE SourceStart(s)
  BY <1>10 DEF SourceStart
<1>11. CASE SourceStop(s)
  BY <1>11 DEF SourceStop
<1>12. CASE StopJoin(s)
  BY <1>12 DEF StopJoin
<1>13. CASE FocusFind(s)
  BY <1>13 DEF FocusFind
<1>14. CASE SourceDeref(s)
  BY <1>14 DEF SourceDeref
<1>15. CASE DestroyJoin(s)
  BY <1>15 DEF DestroyJoin
<1>16. CASE SourcePut(s)
  BY <1>16 DEF SourcePut
<1>17. QED
  BY <1>1, <1>2, <1>3, <1>4, <1>5, <1>6, <1>7, <1>8, <1>9, <1>10, <1>11,
     <1>12, <1>13, <1>14, <1>15, <1>16 DEF Quiet

(* Whoever changes what a viewer shows makes it clear its frame, and does  *)
(* not come between the two passes.                                        *)
LEMMA NothingStaleStep ==
  ASSUME IInv, Next
  PROVE  NothingStale'
<1> SUFFICES ASSUME NEW v \in Sources, v \in srcl' PROVE FreshAt(v)'
  <2>1. TypeOK'
    BY TypeOKStep
  <2>2. QED
    BY <2>1 DEF NothingStale, FreshAt, TypeOK
<1>a. v \in srcl => FreshAt(v)
  BY DEF IInv, NothingStale, FreshAt
<1> USE <1>a DEF IInv, TypeOK

<1>1. ASSUME NEW s \in Sources, Quiet(s)
      PROVE  FreshAt(v)'
  <2>1. SameFor(v)
    BY <1>1, QuietSteps
  <2>2. QED
    BY <1>1, <2>1, QuietSteps, CalmFresh DEF SameFor
<1>2. ASSUME NEW s \in Sources, ThreadClear(s)
      PROVE  FreshAt(v)'
  <2>1. SameFor(v)
    BY <1>2 DEF SameFor, ThreadClear, Step, viewVars
  <2>2. Tiles(v)' = Tiles(v) /\ FullTile(v)' = FullTile(v) /\ FullTile(v) \subseteq Tiles(v)
    BY <2>1, SameTiles, TilesTyped
  <2>3. CASE v = s
    BY <1>2, <2>2, <2>3 DEF FreshAt, ThreadClear, Step, viewVars
  <2>4. CASE v # s
    BY <1>2, <2>1, <2>4, CalmFresh DEF ThreadClear, Step, viewVars
  <2>5. QED
    BY <2>3, <2>4
<1>3. ASSUME NEW s \in Sources, ThreadPaint(s)
      PROVE  FreshAt(v)'
  <2>1. SameFor(v)
    BY <1>3 DEF SameFor, ThreadPaint, Step, viewVars
  <2>2. Tiles(v)' = Tiles(v) /\ FullTile(v)' = FullTile(v) /\ FullTile(v) \subseteq Tiles(v)
    BY <2>1, SameTiles, TilesTyped
  <2>3. CASE v = s
    BY <1>3, <2>2, <2>3 DEF FreshAt, ThreadPaint, Step, viewVars
  <2>4. CASE v # s
    BY <1>3, <2>1, <2>4, CalmFresh DEF ThreadPaint, Step, viewVars
  <2>5. QED
    BY <2>3, <2>4
<1>4. ASSUME NEW s \in Sources, EnableLocked(s)
      PROVE  FreshAt(v)'
  BY <1>4 DEF FreshAt, NobodyReads, Drawing, EnableLocked, viewVars,
     ClearAll
<1>5. ASSUME NEW s \in Sources, DisableLocked(s)
      PROVE  FreshAt(v)'
  BY <1>5 DEF FreshAt, NobodyReads, Drawing, DisableLocked, viewVars,
     ClearAll
<1>6. ASSUME NEW s \in Sources, SetSize(s)
      PROVE  FreshAt(v)'
  <2>1. SameFor(v)
    BY <1>6 DEF SameFor, SetSize, viewVars
  <2>2. QED
    BY <1>6, <2>1, CalmFresh DEF SetSize, viewVars
<1>7. ASSUME NEW s \in Sources, SetContentHide(s)
      PROVE  FreshAt(v)'
  <2>1. CASE v = s
    BY <1>7, <2>1 DEF FreshAt, MutexFree, Locked, Drawing, SetContentHide
  <2>2. CASE v # s
    <3>1. SameFor(v)
      BY <1>7, <2>2 DEF SameFor, SetContentHide
    <3>2. QED
      BY <1>7, <2>2, <3>1, CalmFresh DEF SetContentHide
  <2>3. QED
    BY <2>1, <2>2
<1>8. ASSUME NEW s \in Sources, ToggleSelfview(s)
      PROVE  FreshAt(v)'
  <2>1. CASE v = s
    BY <1>8, <2>1 DEF FreshAt, MutexFree, Locked, Drawing, ToggleSelfview
  <2>2. CASE v # s
    <3>1. SameFor(v)
      BY <1>8, <2>2 DEF SameFor, ToggleSelfview
    <3>2. QED
      BY <1>8, <2>2, <3>1, CalmFresh DEF ToggleSelfview
  <2>3. QED
    BY <2>1, <2>2
<1>9. ASSUME NEW s \in Sources, SetFocus(s)
      PROVE  FreshAt(v)'
  <2>1. CASE v = s
    BY <1>9, <2>1 DEF FreshAt, MutexFree, Locked, Drawing, SetFocus
  <2>2. CASE v # s
    <3>1. SameFor(v)
      BY <1>9, <2>2 DEF SameFor, SetFocus
    <3>2. QED
      BY <1>9, <2>2, <3>1, CalmFresh DEF SetFocus
  <2>3. QED
    BY <2>1, <2>2
<1>10. ASSUME NEW s \in Sources, FocusSet(s)
      PROVE  FreshAt(v)'
  <2>1. CASE v = s
    BY <1>10, <2>1 DEF FreshAt, MutexFree, Locked, Drawing, FocusSet
  <2>2. CASE v # s
    <3>1. SameFor(v)
      BY <1>10, <2>2 DEF SameFor, FocusSet
    <3>2. QED
      BY <1>10, <2>2, <3>1, CalmFresh DEF FocusSet
  <2>3. QED
    BY <2>1, <2>2
<1>11. ASSUME NEW s \in Sources, DestroyUnlink(s)
      PROVE  FreshAt(v)'
  BY <1>11 DEF FreshAt, NobodyReads, Drawing, DestroyUnlink, viewVars,
     ClearAll
<1>12. ASSUME NEW s \in Sources, DestroyFree(s)
      PROVE  FreshAt(v)'
  <2>1. SameFor(v)
    BY <1>12 DEF SameFor, CallsAlive, DestroyFree, viewVars
  <2>2. QED
    BY <1>12, <2>1, CalmFresh DEF DestroyFree, viewVars
<1>13. ASSUME NEW s \in Sources, PutLocked(s)
      PROVE  FreshAt(v)'
  BY <1>13 DEF FreshAt, NobodyReads, Drawing, PutLocked, viewVars, ClearAll
<1>14. CASE UNCHANGED vars
  <2>1. SameFor(v)
    BY <1>14 DEF SameFor, vars
  <2>2. QED
    BY <1>14, <2>1, CalmFresh DEF vars
<1>15. QED
  BY <1>1, <1>2, <1>3, <1>4, <1>5, <1>6, <1>7, <1>8, <1>9, <1>10, <1>11,
     <1>12, <1>13, <1>14 DEF Next, ThreadRuns, CtlCalls, CtlRuns,
     Terminated, Quiet

(* The first pass draws the background, the second the rest.               *)
LEMMA PaintedStep ==
  ASSUME IInv, Next
  PROVE  Painted'
<1> SUFFICES ASSUME NEW v \in Sources PROVE PaintedAt(v)'
  BY DEF Painted, PaintedAt
<1>a. PaintedAt(v)
  BY DEF IInv, Painted, PaintedAt
<1> USE <1>a DEF IInv, TypeOK

<1>1. ASSUME NEW s \in Sources, Quiet(s)
      PROVE  PaintedAt(v)'
  <2>1. SameFor(v)
    BY <1>1, QuietSteps
  <2>2. QED
    BY <1>1, <2>1, QuietSteps, CalmPainted DEF SameFor
<1>2. ASSUME NEW s \in Sources, ThreadClear(s)
      PROVE  PaintedAt(v)'
  <2>1. SameFor(v)
    BY <1>2 DEF SameFor, ThreadClear, Step, viewVars
  <2>2. Tiles(v)' = Tiles(v) /\ FullTile(v)' = FullTile(v) /\ FullTile(v) \subseteq Tiles(v)
    BY <2>1, SameTiles, TilesTyped
  <2>3. CASE v = s
    BY <1>2, <2>2, <2>3 DEF PaintedAt, ThreadClear, Step, viewVars
  <2>4. CASE v # s
    BY <1>2, <2>1, <2>4, CalmPainted DEF ThreadClear, Step, viewVars
  <2>5. QED
    BY <2>3, <2>4
<1>3. ASSUME NEW s \in Sources, ThreadPaint(s)
      PROVE  PaintedAt(v)'
  <2>1. SameFor(v)
    BY <1>3 DEF SameFor, ThreadPaint, Step, viewVars
  <2>2. Tiles(v)' = Tiles(v) /\ FullTile(v)' = FullTile(v) /\ FullTile(v) \subseteq Tiles(v)
    BY <2>1, SameTiles, TilesTyped
  <2>3. CASE v = s
    BY <1>3, <2>2, <2>3 DEF PaintedAt, ThreadPaint, Step, viewVars
  <2>4. CASE v # s
    BY <1>3, <2>1, <2>4, CalmPainted DEF ThreadPaint, Step, viewVars
  <2>5. QED
    BY <2>3, <2>4
<1>4. ASSUME NEW s \in Sources, EnableLocked(s)
      PROVE  PaintedAt(v)'
  BY <1>4 DEF PaintedAt, NobodyReads, Drawing, EnableLocked, viewVars,
     ClearAll
<1>5. ASSUME NEW s \in Sources, DisableLocked(s)
      PROVE  PaintedAt(v)'
  BY <1>5 DEF PaintedAt, NobodyReads, Drawing, DisableLocked, viewVars,
     ClearAll
<1>6. ASSUME NEW s \in Sources, SetSize(s)
      PROVE  PaintedAt(v)'
  <2>1. CASE v = s
    BY <1>6, <2>1 DEF PaintedAt, MutexFree, Locked, Drawing, SetSize,
       viewVars
  <2>2. CASE v # s
    <3>1. SameFor(v)
      BY <1>6, <2>2 DEF SameFor, SetSize, viewVars
    <3>2. QED
      BY <1>6, <2>2, <3>1, CalmPainted DEF SetSize, viewVars
  <2>3. QED
    BY <2>1, <2>2
<1>7. ASSUME NEW s \in Sources, SetContentHide(s)
      PROVE  PaintedAt(v)'
  <2>1. CASE v = s
    BY <1>7, <2>1 DEF PaintedAt, MutexFree, Locked, Drawing, SetContentHide
  <2>2. CASE v # s
    <3>1. SameFor(v)
      BY <1>7, <2>2 DEF SameFor, SetContentHide
    <3>2. QED
      BY <1>7, <2>2, <3>1, CalmPainted DEF SetContentHide
  <2>3. QED
    BY <2>1, <2>2
<1>8. ASSUME NEW s \in Sources, ToggleSelfview(s)
      PROVE  PaintedAt(v)'
  <2>1. CASE v = s
    BY <1>8, <2>1 DEF PaintedAt, MutexFree, Locked, Drawing, ToggleSelfview
  <2>2. CASE v # s
    <3>1. SameFor(v)
      BY <1>8, <2>2 DEF SameFor, ToggleSelfview
    <3>2. QED
      BY <1>8, <2>2, <3>1, CalmPainted DEF ToggleSelfview
  <2>3. QED
    BY <2>1, <2>2
<1>9. ASSUME NEW s \in Sources, SetFocus(s)
      PROVE  PaintedAt(v)'
  <2>1. CASE v = s
    BY <1>9, <2>1 DEF PaintedAt, MutexFree, Locked, Drawing, SetFocus
  <2>2. CASE v # s
    <3>1. SameFor(v)
      BY <1>9, <2>2 DEF SameFor, SetFocus
    <3>2. QED
      BY <1>9, <2>2, <3>1, CalmPainted DEF SetFocus
  <2>3. QED
    BY <2>1, <2>2
<1>10. ASSUME NEW s \in Sources, FocusSet(s)
      PROVE  PaintedAt(v)'
  <2>1. CASE v = s
    BY <1>10, <2>1 DEF PaintedAt, MutexFree, Locked, Drawing, FocusSet
  <2>2. CASE v # s
    <3>1. SameFor(v)
      BY <1>10, <2>2 DEF SameFor, FocusSet
    <3>2. QED
      BY <1>10, <2>2, <3>1, CalmPainted DEF FocusSet
  <2>3. QED
    BY <2>1, <2>2
<1>11. ASSUME NEW s \in Sources, DestroyUnlink(s)
      PROVE  PaintedAt(v)'
  BY <1>11 DEF PaintedAt, NobodyReads, Drawing, DestroyUnlink, viewVars,
     ClearAll
<1>12. ASSUME NEW s \in Sources, DestroyFree(s)
      PROVE  PaintedAt(v)'
  <2>1. CASE v = s
    BY <1>12, <2>1 DEF PaintedAt, CallsAlive, DestroyFree, viewVars
  <2>2. CASE v # s
    <3>1. SameFor(v)
      BY <1>12, <2>2 DEF SameFor, DestroyFree, viewVars, CallsAlive
    <3>2. QED
      BY <1>12, <2>2, <3>1, CalmPainted DEF DestroyFree, viewVars
  <2>3. QED
    BY <2>1, <2>2
<1>13. ASSUME NEW s \in Sources, PutLocked(s)
      PROVE  PaintedAt(v)'
  BY <1>13 DEF PaintedAt, NobodyReads, Drawing, PutLocked, viewVars,
     ClearAll
<1>14. CASE UNCHANGED vars
  <2>1. SameFor(v)
    BY <1>14 DEF SameFor, vars
  <2>2. QED
    BY <1>14, <2>1, CalmPainted DEF vars
<1>15. QED
  BY <1>1, <1>2, <1>3, <1>4, <1>5, <1>6, <1>7, <1>8, <1>9, <1>10, <1>11,
     <1>12, <1>13, <1>14 DEF Next, ThreadRuns, CtlCalls, CtlRuns,
     Terminated, Quiet

-----------------------------------------------------------------------------
(* Every behaviour of the mixer keeps the inductive invariant.             *)
THEOREM Invariant == Spec => []IInv
<1>1. IInv /\ [Next]_vars => IInv'
  <2> SUFFICES ASSUME IInv, [Next]_vars PROVE IInv'
    OBVIOUS
  <2>1. CASE Next
    BY <2>1, TypeOKStep, NothingStaleStep, PaintedStep, CallsAliveStep DEF IInv
  <2>2. CASE UNCHANGED vars
    <3>1. \A v \in Sources : SameFor(v)
      BY <2>2 DEF vars, SameFor
    <3>2. \A v \in Sources : Tiles(v)' = Tiles(v) /\ FullTile(v)' = FullTile(v)
      BY <3>1, SameTiles
    <3>3. TypeOK' /\ CallsAlive'
      BY <2>2 DEF vars, IInv, TypeOK, CallsAlive, Live
    <3>4. NothingStale' /\ Painted'
      BY <2>2, <3>2 DEF vars, IInv, TypeOK, NothingStale, Painted
    <3>5. QED
      BY <3>3, <3>4 DEF IInv
  <2>3. QED
    BY <2>1, <2>2
<1>2. QED
  BY InvInit, <1>1, PTL DEF Spec

(* Every variable keeps its type.                                          *)
THEOREM TypeCorrect == Spec => []TypeOK
<1>1. IInv => TypeOK
  BY DEF IInv
<1>2. QED
  BY <1>1, Invariant, PTL

(* However sources come, go, change and are chosen, a picture of an        *)
(* enabled source is drawn with just the frames it should show.            *)
THEOREM NoGhosts == Spec => []NoGhost
<1>1. IInv => NoGhost
  <2> SUFFICES ASSUME IInv, NEW v \in srcl, vpc[v] = "drawn"
               PROVE  canvas[v] = Tiles(v)
    BY DEF NoGhost
  <2>1. ~clear[v] /\ canvas[v] \subseteq Tiles(v)
    BY DEF IInv, NothingStale
  <2>2. Tiles(v) \subseteq canvas[v]
    BY DEF IInv, Painted, TypeOK
  <2>3. QED
    BY <2>1, <2>2
<1>2. QED
  BY <1>1, Invariant, PTL

(* Nothing freed is drawn, and no thread outlives its source.              *)
THEOREM NothingFreedIsDrawn == Spec => []DrawnAlive
<1>1. IInv => DrawnAlive
  BY DEF IInv, TypeOK, CallsAlive, DrawnAlive
<1>2. QED
  BY <1>1, Invariant, PTL

(* While a viewer is between the passes, no step changes what it shows.    *)
LEMMA PassesAgree ==
  ASSUME IInv, [Next]_vars, NEW v \in Sources,
         vpc[v] \in {"clear", "paint"}, vpc'[v] \in {"paint", "drawn"}
  PROVE  Tiles(v)' = Tiles(v)
<1> USE DEF IInv, TypeOK, Drawing, Locked
<1>1. SUFFICES SameFor(v)
  BY SameTiles

<1>2. ASSUME NEW s \in Sources, Quiet(s)
      PROVE  SameFor(v)
  BY <1>2, QuietSteps
<1>3. ASSUME NEW s \in Sources, ThreadClear(s)
      PROVE  SameFor(v)
  BY <1>3 DEF SameFor, ThreadClear, Step, viewVars
<1>4. ASSUME NEW s \in Sources, ThreadPaint(s)
      PROVE  SameFor(v)
  BY <1>4 DEF SameFor, ThreadPaint, Step, viewVars
<1>5. ASSUME NEW s \in Sources, EnableLocked(s)
      PROVE  SameFor(v)
  BY <1>5 DEF SameFor, NobodyReads, EnableLocked, viewVars, ClearAll
<1>6. ASSUME NEW s \in Sources, DisableLocked(s)
      PROVE  SameFor(v)
  BY <1>6 DEF SameFor, NobodyReads, DisableLocked, viewVars, ClearAll
<1>7. ASSUME NEW s \in Sources, SetSize(s)
      PROVE  SameFor(v)
  BY <1>7 DEF SameFor, MutexFree, SetSize, viewVars
<1>8. ASSUME NEW s \in Sources, SetContentHide(s)
      PROVE  SameFor(v)
  BY <1>8 DEF SameFor, MutexFree, SetContentHide
<1>9. ASSUME NEW s \in Sources, ToggleSelfview(s)
      PROVE  SameFor(v)
  BY <1>9 DEF SameFor, MutexFree, ToggleSelfview
<1>10. ASSUME NEW s \in Sources, SetFocus(s)
      PROVE  SameFor(v)
  BY <1>10 DEF SameFor, MutexFree, SetFocus
<1>11. ASSUME NEW s \in Sources, FocusSet(s)
      PROVE  SameFor(v)
  BY <1>11 DEF SameFor, MutexFree, FocusSet
<1>12. ASSUME NEW s \in Sources, DestroyUnlink(s)
      PROVE  SameFor(v)
  BY <1>12 DEF SameFor, NobodyReads, DestroyUnlink, viewVars, ClearAll
<1>13. ASSUME NEW s \in Sources, DestroyFree(s)
      PROVE  SameFor(v)
  BY <1>13 DEF SameFor, CallsAlive, DestroyFree, viewVars
<1>14. ASSUME NEW s \in Sources, PutLocked(s)
      PROVE  SameFor(v)
  BY <1>14 DEF SameFor, NobodyReads, PutLocked, viewVars, ClearAll
<1>15. CASE UNCHANGED vars
  BY <1>15 DEF SameFor, vars
<1>16. QED
  BY <1>2, <1>3, <1>4, <1>5, <1>6, <1>7, <1>8, <1>9, <1>10, <1>11, <1>12,
     <1>13, <1>14, <1>15 DEF Next, ThreadRuns, CtlCalls, CtlRuns,
     Terminated, Quiet

(* The two passes over the list see the same sources, sizes and focus.     *)
THEOREM PictureStandsStill == Spec => StandsStill
<1>1. IInv /\ [Next]_vars =>
        [\A v \in Sources : vpc[v] \in {"clear", "paint"} /\ vpc'[v] \in {"paint", "drawn"}
            => Tiles(v)' = Tiles(v)]_vars
  BY PassesAgree
<1>2. QED
  BY <1>1, Invariant, PTL DEF Spec, StandsStill

-----------------------------------------------------------------------------
(* The arithmetic of VidLayout.                                            *)

(* What division leaves.                                                   *)
LEMMA Divided ==
  ASSUME NEW a \in Nat, NEW b \in Nat \ {0}
  PROVE  /\ a \div b \in Nat /\ b * (a \div b) <= a
         /\ a % b \in Nat /\ a % b < b /\ a = b * (a \div b) + (a % b)
  OBVIOUS

LEMMA Steps ==
  ASSUME NEW k \in Nat, NEW a \in Nat, NEW b \in Nat, a < b
  PROVE  k * a \in Nat /\ k * b \in Nat /\ k * a + k <= k * b
<1>1. PICK d \in Nat : b = a + 1 + d
  <2>1. b - a - 1 \in Nat /\ b = a + 1 + (b - a - 1)
    OBVIOUS
  <2> QED
    BY <2>1
<1>2. k * b = k * a + k + k * d
  BY <1>1
<1>3. k * d \in Nat /\ k * a \in Nat /\ k * b \in Nat
  OBVIOUS
<1> QED
  BY <1>2, <1>3

LEMMA Cancelled ==
  ASSUME NEW m \in Nat \ {0}, NEW a \in Int, NEW b \in Int, m * a <= m * b
  PROVE  a <= b
  OBVIOUS

(* Every set of numbers has a least one.                                   *)
LEMMA LeastExists ==
  ASSUME NEW S \in SUBSET Nat, S # {}
  PROVE  \E m \in S : \A k \in S : m <= k
<1> DEFINE R == {ss \in Nat \X Nat : ss[1] < ss[2]}
<1>1. IsWellFoundedOn(R, Nat)
  BY NatLessThanWellFounded DEF OpToRel
<1>2. \A x \in Nat, y \in Nat : x < y => <<x, y>> \in R
  OBVIOUS
<1> HIDE DEF R
<1>3. PICK x \in S : \A y \in S : ~ (<<y, x>> \in R)
  BY <1>1, WFMin
<1>4. ASSUME NEW y \in S PROVE x <= y
  <2>1. x \in Nat /\ y \in Nat
    OBVIOUS
  <2>2. ~(y < x)
    BY <1>2, <1>3, <2>1, Zenon
  <2> QED
    BY <2>1, <2>2
<1> QED
  BY <1>4

(* The grid holds its tiles.                                               *)
LEMMA Rows ==
  ASSUME NEW n \in Nat
  PROVE  CalcRows(n) \in Nat \ {0} /\ n <= CalcRows(n) * CalcRows(n)
<1>1. n + 1 \in Holds(n)
  <2>1. n <= (n + 1) * (n + 1)
    <3>1. (n + 1) * (n + 1) = n * n + 2 * n + 1 /\ n * n \in Nat
      OBVIOUS
    <3> QED
      BY <3>1
  <2> QED
    BY <2>1 DEF Holds
<1>2. Holds(n) \in SUBSET Nat /\ Holds(n) # {}
  <2>1. Holds(n) \subseteq 1..n + 1 /\ 1..n + 1 \subseteq Nat
    BY DEF Holds
  <2> QED
    BY <1>1, <2>1
<1>3. \E r \in Holds(n) : \A q \in Holds(n) : r <= q
  BY <1>2, LeastExists
<1>4. CalcRows(n) \in Holds(n)
  BY <1>3 DEF CalcRows
<1> QED
  BY <1>4 DEF Holds

LEMMA SharesIs ==
  ASSUME NEW l \in Layout
  PROVE  Shares(l) \in Nat /\ Shares(l) >= 3 /\ l.n <= 2 * Shares(l)
<1> DEFINE g == Greatest(l.n + 1, IF l.full THEN 12 ELSE 6)
<1>1. g \in Nat /\ g >= 6 /\ g >= l.n + 1
  BY DEF Greatest, Layout
<1> HIDE DEF g
<1>2. g \div 2 \in Nat /\ g \div 2 >= 3 /\ l.n <= 2 * (g \div 2)
  BY <1>1 DEF Layout
<1> QED
  BY <1>2 DEF Shares, g

(* The sides of a small tile, and of the large one.                        *)
LEMMA Side ==
  ASSUME NEW a \in Nat, NEW m \in Nat, m >= 3
  PROVE  /\ a \div m \in Nat /\ m * (a \div m) <= a /\ a \div m <= a
         /\ (a * (m - 1)) \div m \in Nat
         /\ (a * (m - 1)) \div m <= a - (a \div m)
<1>1. a \div m \in Nat /\ m * (a \div m) <= a
  BY Divided
<1>2. a \div m <= a
  BY <1>1
<1> DEFINE q == a \div m
           c == a * (m - 1)
           b == c \div m
<1>3. c \in Nat /\ c = m * a - a
  OBVIOUS
<1>4. q \in Nat /\ m * q <= a
  BY <1>1
<1> HIDE DEF q, c
<1>5. b \in Nat /\ m * b <= c
  BY <1>3, Divided
<1> HIDE DEF b
<1>6. m * (a - q) = m * a - m * q
  BY <1>4
<1>7. m * b <= m * (a - q)
  <2>1. m * a \in Nat /\ m * q \in Nat /\ m * b \in Nat /\ m * (a - q) \in Int
    BY <1>4, <1>5
  <2> QED
    BY <1>3, <1>4, <1>5, <1>6, <2>1
<1>8. b <= a - q
  BY <1>4, <1>5, <1>7, Cancelled
<1> QED
  BY <1>1, <1>2, <1>5, <1>8 DEF q, c, b

Rects == [x : Nat, y : Nat, w : Nat, h : Nat]

LEMMA RectIs ==
  ASSUME NEW x \in Nat, NEW y \in Nat, NEW w \in Nat, NEW h \in Nat
  PROVE  /\ Rect(x, y, w, h) \in Rects
         /\ Rect(x, y, w, h).x = x /\ Rect(x, y, w, h).y = y
         /\ Rect(x, y, w, h).w = w /\ Rect(x, y, w, h).h = h
  BY DEF Rect, Rects

(* Even pixels: what is apart stays apart.                                 *)
LEMMA EvenIs ==
  ASSUME NEW a \in Nat
  PROVE  Even(a) \in Nat /\ Even(a) <= a /\ Even(a) = 2 * (a \div 2) /\ a <= Even(a) + 1
  BY DEF Even

LEMMA EvenSum ==
  ASSUME NEW a \in Nat, NEW b \in Nat, NEW c \in Nat, a + b <= c
  PROVE  Even(a) + Even(b) <= Even(c)
<1> DEFINE i == a \div 2
           j == b \div 2
           k == c \div 2
<1>1. i \in Nat /\ j \in Nat /\ k \in Nat
  OBVIOUS
<1>2. /\ Even(a) = 2 * i /\ Even(b) = 2 * j /\ Even(c) = 2 * k
      /\ Even(a) <= a /\ Even(b) <= b /\ c <= Even(c) + 1
  BY EvenIs
<1> HIDE DEF i, j, k
<1> QED
  BY <1>1, <1>2

LEMMA AspectIs ==
  ASSUME NEW r \in Rects, NEW f \in Frames
  PROVE  /\ Aspect(r, f) \in Rects
         /\ r.x <= Aspect(r, f).x /\ Aspect(r, f).x + Aspect(r, f).w <= r.x + r.w
         /\ r.y <= Aspect(r, f).y /\ Aspect(r, f).y + Aspect(r, f).h <= r.y + r.h
<1>1. /\ r.x \in Nat /\ r.y \in Nat /\ r.w \in Nat /\ r.h \in Nat
      /\ f.w \in Nat \ {0} /\ f.h \in Nat \ {0}
  BY VidLayoutAssumption DEF Rects
<1> DEFINE w == Least(r.w, (r.h * f.w) \div f.h)
           h == Least(r.h, (r.w * f.h) \div f.w)
           x == r.x + (r.w - w) \div 2
           y == r.y + (r.h - h) \div 2
<1>2. (r.h * f.w) \div f.h \in Nat /\ (r.w * f.h) \div f.w \in Nat
  <2>1. r.h * f.w \in Nat /\ r.w * f.h \in Nat
    BY <1>1
  <2> QED
    BY <1>1, <2>1, Divided
<1>3. w \in Nat /\ w <= r.w /\ h \in Nat /\ h <= r.h
  BY <1>1, <1>2 DEF Least
<1> HIDE DEF w, h
<1>4. /\ x \in Nat /\ r.x <= x /\ x + w <= r.x + r.w
      /\ y \in Nat /\ r.y <= y /\ y + h <= r.y + r.h
  BY <1>1, <1>3
<1>5. Aspect(r, f) = Rect(x, y, w, h)
  BY DEF Aspect, w, h
<1> HIDE DEF x, y
<1> QED
  BY <1>3, <1>4, <1>5, RectIs

LEMMA EvenedIs ==
  ASSUME NEW r \in Rects
  PROVE  /\ Evened(r) \in Rects
         /\ Evened(r).x = Even(r.x) /\ Evened(r).y = Even(r.y)
         /\ Evened(r).w = Even(r.w) /\ Evened(r).h = Even(r.h)
<1>1. r.x \in Nat /\ r.y \in Nat /\ r.w \in Nat /\ r.h \in Nat
  BY DEF Rects
<1>2. Even(r.x) \in Nat /\ Even(r.y) \in Nat /\ Even(r.w) \in Nat /\ Even(r.h) \in Nat
  BY <1>1, EvenIs
<1>3. Evened(r) = Rect(Even(r.x), Even(r.y), Even(r.w), Even(r.h))
  BY DEF Evened
<1> QED
  BY <1>2, <1>3 DEF Rect, Rects

(* Tiles lie where their places do.                                        *)
LEMMA DrawnWithin ==
  ASSUME NEW r \in Rects, NEW f \in Frames, NEW l \in Layout, Within(r, l)
  PROVE  Within(Evened(Aspect(r, f)), l)
<1> DEFINE a == Aspect(r, f)
<1>1. /\ a \in Rects /\ a.x + a.w <= r.x + r.w /\ a.y + a.h <= r.y + r.h
  BY AspectIs
<1> HIDE DEF a
<1>2. /\ a.x \in Nat /\ a.y \in Nat /\ a.w \in Nat /\ a.h \in Nat
      /\ r.x \in Nat /\ r.y \in Nat /\ r.w \in Nat /\ r.h \in Nat
      /\ l.w \in Nat /\ l.h \in Nat
  BY <1>1 DEF Rects, Layout
<1>3. /\ Even(a.x) \in Nat /\ Even(a.x) <= a.x /\ Even(a.w) \in Nat /\ Even(a.w) <= a.w
      /\ Even(a.y) \in Nat /\ Even(a.y) <= a.y /\ Even(a.h) \in Nat /\ Even(a.h) <= a.h
  BY <1>2, EvenIs
<1>4. Within(Evened(a), l)
  BY <1>1, <1>2, <1>3, EvenedIs DEF Within
<1> QED
  BY <1>4 DEF a

LEMMA DrawnApart ==
  ASSUME NEW r \in Rects, NEW q \in Rects, NEW f \in Frames, NEW g \in Frames, Apart(r, q)
  PROVE  Apart(Evened(Aspect(r, f)), Evened(Aspect(q, g)))
<1> DEFINE a == Aspect(r, f)
           b == Aspect(q, g)
<1>1. /\ a \in Rects /\ a.x + a.w <= r.x + r.w /\ a.y + a.h <= r.y + r.h
      /\ r.x <= a.x /\ r.y <= a.y
      /\ b \in Rects /\ b.x + b.w <= q.x + q.w /\ b.y + b.h <= q.y + q.h
      /\ q.x <= b.x /\ q.y <= b.y
  BY AspectIs
<1> HIDE DEF a, b
<1>2. /\ a.x \in Nat /\ a.y \in Nat /\ a.w \in Nat /\ a.h \in Nat
      /\ b.x \in Nat /\ b.y \in Nat /\ b.w \in Nat /\ b.h \in Nat
      /\ r.x \in Nat /\ r.y \in Nat /\ r.w \in Nat /\ r.h \in Nat
      /\ q.x \in Nat /\ q.y \in Nat /\ q.w \in Nat /\ q.h \in Nat
  BY <1>1 DEF Rects
<1>3. Apart(a, b)
  BY <1>1, <1>2 DEF Apart
<1>4. Apart(Evened(a), Evened(b))
  BY <1>1, <1>2, <1>3, EvenSum, EvenedIs DEF Apart
<1> QED
  BY <1>4 DEF a, b

(* Two places of the grid are apart, and all of them are inside.           *)
LEMMA GridIs ==
  ASSUME NEW l \in Layout, NEW i \in Nat, i < l.n
  PROVE  GridPlace(l, i) \in Rects /\ Within(GridPlace(l, i), l)
<1> DEFINE m == CalcRows(l.n)
           w == l.w \div m
           h == l.h \div m
           c == i % m
           d == i \div m
<1>1. l.w \in Nat /\ l.h \in Nat /\ l.n \in Nat
  BY DEF Layout
<1>2. m \in Nat \ {0} /\ l.n <= m * m
  BY <1>1, Rows
<1>3. GridPlace(l, i) = Rect(w * c, h * d, w, h)
  BY DEF GridPlace
<1> HIDE DEF m
<1>4. /\ w \in Nat /\ m * w <= l.w /\ h \in Nat /\ m * h <= l.h
      /\ c \in Nat /\ c < m /\ d \in Nat /\ m * d <= i
  BY <1>1, <1>2, Divided
<1> HIDE DEF w, h, c, d
<1>5. d < m
  <2>1. ASSUME ~(d < m) PROVE FALSE
    <3>1. m = d \/ m < d
      BY <1>2, <1>4, <2>1
    <3>2. m * m \in Nat /\ m * d \in Nat /\ m * m <= m * d
      BY <1>2, <1>4, <3>1, Steps
    <3> QED
      BY <1>1, <1>2, <1>4, <3>2
  <2> QED
    BY <2>1
<1>6. /\ w * c \in Nat /\ w * m \in Nat /\ w * c + w <= w * m
      /\ h * d \in Nat /\ h * m \in Nat /\ h * d + h <= h * m
  BY <1>2, <1>4, <1>5, Steps
<1>7. w * m = m * w /\ h * m = m * h
  BY <1>2, <1>4
<1> DEFINE x == w * c
           y == h * d
<1>8. x \in Nat /\ x + w <= l.w /\ y \in Nat /\ y + h <= l.h
  BY <1>1, <1>4, <1>6, <1>7
<1>9. GridPlace(l, i) = Rect(x, y, w, h)
  BY <1>3
<1> HIDE DEF x, y
<1> QED
  BY <1>4, <1>8, <1>9 DEF Rect, Rects, Within

LEMMA GridApart ==
  ASSUME NEW l \in Layout, NEW i \in Nat, NEW j \in Nat, i # j
  PROVE  Apart(GridPlace(l, i), GridPlace(l, j))
<1> DEFINE m == CalcRows(l.n)
           w == l.w \div m
           h == l.h \div m
           c == i % m
           d == i \div m
           a == j % m
           b == j \div m
<1>1. l.w \in Nat /\ l.h \in Nat /\ l.n \in Nat
  BY DEF Layout
<1>2. m \in Nat \ {0}
  BY <1>1, Rows
<1>3. /\ GridPlace(l, i) = Rect(w * c, h * d, w, h)
      /\ GridPlace(l, j) = Rect(w * a, h * b, w, h)
  BY DEF GridPlace
<1> HIDE DEF m
<1>4. /\ w \in Nat /\ h \in Nat
      /\ c \in Nat /\ d \in Nat /\ i = m * d + c
      /\ a \in Nat /\ b \in Nat /\ j = m * b + a
  BY <1>1, <1>2, Divided
<1> HIDE DEF w, h, c, d, a, b
<1>5. d # b \/ c # a
  BY <1>4
<1>6. c < a \/ a < c \/ d < b \/ b < d
  BY <1>4, <1>5
<1>7. /\ w * c \in Nat /\ h * d \in Nat /\ w * a \in Nat /\ h * b \in Nat
  BY <1>4
<1>8. w * c + w <= w * a \/ w * a + w <= w * c \/ h * d + h <= h * b \/ h * b + h <= h * d
  BY <1>4, <1>6, Steps
<1> DEFINE x == w * c
           y == h * d
           u == w * a
           v == h * b
<1>9. /\ x \in Nat /\ y \in Nat /\ u \in Nat /\ v \in Nat
      /\ x + w <= u \/ u + w <= x \/ y + h <= v \/ v + h <= y
  BY <1>7, <1>8
<1>10. GridPlace(l, i) = Rect(x, y, w, h) /\ GridPlace(l, j) = Rect(u, v, w, h)
  BY <1>3
<1> HIDE DEF x, y, u, v
<1> QED
  BY <1>4, <1>9, <1>10 DEF Rect, Apart

(* A tile beside the one with the focus is in the column or in the row.    *)
LEMMA BesideIs ==
  ASSUME NEW l \in Layout, NEW i \in Nat, NEW r \in BesidePlaces(l, i)
  PROVE  /\ r \in Rects /\ Within(r, l)
         /\ Apart(r, FocusPlace(l)) /\ Apart(FocusPlace(l), r)
<1> DEFINE m == Shares(l)
           w == l.w \div m
           h == l.h \div m
           fw == (l.w * (m - 1)) \div m
           fh == (l.h * (m - 1)) \div m
<1>1. l.w \in Nat /\ l.h \in Nat
  BY DEF Layout
<1>2. m \in Nat /\ m >= 3
  BY SharesIs
<1>3. /\ i < m \/ i < 2 * m - 1
      /\ r = IF i < m THEN Rect(l.w - w, h * i, w, h)
             ELSE Rect(w * (2 * m - 2 - i), l.h - h, w, h)
      /\ FocusPlace(l) = Rect(0, 0, fw, fh)
  BY DEF BesidePlaces, FocusPlace
<1> HIDE DEF m
<1>4. /\ w \in Nat /\ m * w <= l.w /\ w <= l.w /\ fw \in Nat /\ fw <= l.w - w
      /\ h \in Nat /\ m * h <= l.h /\ h <= l.h /\ fh \in Nat /\ fh <= l.h - h
  BY <1>1, <1>2, Side
<1> HIDE DEF w, h, fw, fh
<1>5. w * m = m * w /\ h * m = m * h
  BY <1>2, <1>4
<1>6. /\ FocusPlace(l).x = 0 /\ FocusPlace(l).y = 0
      /\ FocusPlace(l).w = fw /\ FocusPlace(l).h = fh
  BY <1>3 DEF Rect
<1>7. CASE i < m
  <2> DEFINE x == l.w - w
             y == h * i
  <2>1. h * i \in Nat /\ h * m \in Nat /\ h * i + h <= h * m
    BY <1>2, <1>4, <1>7, Steps
  <2>2. x \in Nat /\ x + w <= l.w /\ fw <= x /\ y \in Nat /\ y + h <= l.h
    BY <1>1, <1>4, <1>5, <2>1
  <2>3. r = Rect(x, y, w, h)
    BY <1>3, <1>7
  <2> HIDE DEF x, y
  <2> QED
    BY <1>4, <1>6, <2>2, <2>3 DEF Rect, Rects, Within, Apart
<1>8. CASE ~(i < m)
  <2> DEFINE k == 2 * m - 2 - i
             x == w * k
             y == l.h - h
  <2>1. k \in Nat /\ k < m
    BY <1>2, <1>3, <1>8
  <2>2. r = Rect(x, y, w, h)
    BY <1>3, <1>8
  <2> HIDE DEF k
  <2>3. w * k \in Nat /\ w * m \in Nat /\ w * k + w <= w * m
    BY <1>2, <1>4, <2>1, Steps
  <2>4. x \in Nat /\ x + w <= l.w /\ y \in Nat /\ y + h <= l.h /\ fh <= y
    BY <1>1, <1>4, <1>5, <2>3
  <2> HIDE DEF x, y
  <2> QED
    BY <1>4, <1>6, <2>2, <2>4 DEF Rect, Rects, Within, Apart
<1> QED
  BY <1>7, <1>8

LEMMA BesideApart ==
  ASSUME NEW l \in Layout, NEW i \in Nat, NEW j \in Nat, i < j,
         NEW r \in BesidePlaces(l, i), NEW q \in BesidePlaces(l, j)
  PROVE  Apart(r, q) /\ Apart(q, r)
<1> DEFINE m == Shares(l)
           w == l.w \div m
           h == l.h \div m
           k == 2 * m - 2 - i
           n == 2 * m - 2 - j
<1>1. l.w \in Nat /\ l.h \in Nat
  BY DEF Layout
<1>2. m \in Nat /\ m >= 3
  BY SharesIs
<1>3. /\ j < m \/ j < 2 * m - 1
      /\ r = IF i < m THEN Rect(l.w - w, h * i, w, h)
             ELSE Rect(w * k, l.h - h, w, h)
      /\ q = IF j < m THEN Rect(l.w - w, h * j, w, h)
             ELSE Rect(w * n, l.h - h, w, h)
  BY DEF BesidePlaces
<1> HIDE DEF m
<1>4. /\ w \in Nat /\ m * w <= l.w /\ w <= l.w
      /\ h \in Nat /\ m * h <= l.h /\ h <= l.h
  BY <1>1, <1>2, Side
<1> HIDE DEF w, h
<1>5. h * i \in Nat /\ h * j \in Nat /\ h * i + h <= h * j
  BY <1>4, Steps
<1>6. l.w - w \in Nat /\ l.h - h \in Nat
  BY <1>1, <1>4
<1>7. CASE j < m
  <2> DEFINE x == l.w - w
             y == h * i
             v == h * j
  <2>1. r = Rect(x, y, w, h) /\ q = Rect(x, v, w, h)
    BY <1>1, <1>2, <1>3, <1>7
  <2>2. x \in Nat /\ y \in Nat /\ v \in Nat /\ y + h <= v
    BY <1>5, <1>6
  <2> HIDE DEF x, y, v
  <2> QED
    BY <1>4, <2>1, <2>2 DEF Rect, Apart
<1>8. CASE i < m /\ ~(j < m)
  <2> DEFINE x == l.w - w
             y == h * i
             u == w * n
             v == l.h - h
  <2>1. r = Rect(x, y, w, h) /\ q = Rect(u, v, w, h)
    BY <1>3, <1>8
  <2>2. n \in Nat /\ n < m - 1
    BY <1>2, <1>3, <1>8
  <2> HIDE DEF n
  <2>3. w * n \in Nat /\ w * (m - 1) \in Nat /\ w * n + w <= w * (m - 1)
    <3>1. m - 1 \in Nat
      BY <1>2
    <3> QED
      BY <1>4, <2>2, <3>1, Steps
  <2>4. w * (m - 1) = m * w - w /\ m * w \in Nat
    BY <1>2, <1>4
  <2>5. x \in Nat /\ y \in Nat /\ u \in Nat /\ v \in Nat /\ u + w <= x
    <3>1. u + w <= m * w - w
      BY <2>3, <2>4
    <3>2. m * w - w <= l.w - w
      BY <1>1, <1>4, <2>4
    <3>3. u \in Nat /\ x \in Nat /\ v \in Nat
      BY <1>6, <2>3
    <3>4. y \in Nat
      BY <1>5
    <3> QED
      BY <1>4, <2>4, <3>1, <3>2, <3>3, <3>4
  <2> HIDE DEF x, y, u, v
  <2> QED
    BY <1>4, <2>1, <2>5 DEF Rect, Apart
<1>9. CASE ~(i < m)
  <2> DEFINE x == w * k
             u == w * n
             v == l.h - h
  <2>1. r = Rect(x, v, w, h) /\ q = Rect(u, v, w, h)
    BY <1>2, <1>3, <1>9
  <2>2. n \in Nat /\ k \in Nat /\ n < k
    BY <1>2, <1>3, <1>9
  <2> HIDE DEF k, n
  <2>3. w * n \in Nat /\ w * k \in Nat /\ w * n + w <= w * k
    BY <1>4, <2>2, Steps
  <2>4. x \in Nat /\ u \in Nat /\ v \in Nat /\ u + w <= x
    BY <1>6, <2>3
  <2> HIDE DEF x, u, v
  <2> QED
    BY <1>4, <2>1, <2>4 DEF Rect, Apart
<1> QED
  BY <1>2, <1>7, <1>8, <1>9

(* Everyone's place is inside, and apart from the places before it.        *)
LEMMA PlaceIs ==
  ASSUME NEW l \in Layout, NEW i \in 1..l.n, NEW r \in Places(l, i)
  PROVE  r \in Rects /\ Within(r, l)
<1>1. /\ l.n \in Nat /\ l.w \in Nat /\ l.h \in Nat
      /\ l.focus \in Nat \cup {-1} /\ l.full \in BOOLEAN
  BY DEF Layout, Unset
<1>2. CASE l.focus = Unset
  <2>1. Index(l, i) = i - 1 /\ i - 1 \in Nat /\ i - 1 < l.n
    BY <1>1, <1>2 DEF Index, Unset
  <2>2. r = GridPlace(l, i - 1)
    BY <1>2, <2>1 DEF Places
  <2> QED
    BY <2>1, <2>2, GridIs
<1>3. CASE l.focus # Unset /\ i # l.focus
  <2>1. Index(l, i) \in Nat
    BY <1>1, <1>3 DEF Index, Unset
  <2>2. r \in BesidePlaces(l, Index(l, i))
    BY <1>3 DEF Places
  <2> QED
    BY <2>1, <2>2, BesideIs
<1>4. CASE l.focus # Unset /\ i = l.focus
  <2> DEFINE m == Shares(l)
             fw == (l.w * (m - 1)) \div m
             fh == (l.h * (m - 1)) \div m
  <2>1. r = Rect(0, 0, fw, fh)
    BY <1>4 DEF Places, FocusPlace
  <2>2. m \in Nat /\ m >= 3
    BY SharesIs
  <2> HIDE DEF m
  <2>3. /\ l.w \div m \in Nat /\ fw \in Nat /\ fw <= l.w - (l.w \div m)
        /\ l.h \div m \in Nat /\ fh \in Nat /\ fh <= l.h - (l.h \div m)
    BY <1>1, <2>2, Side
  <2> HIDE DEF fw, fh
  <2>4. fw <= l.w /\ fh <= l.h
    BY <1>1, <2>3
  <2> QED
    BY <2>1, <2>3, <2>4 DEF Rect, Rects, Within
<1> QED
  BY <1>2, <1>3, <1>4

LEMMA PlacesApart ==
  ASSUME NEW l \in Layout, NEW i \in 1..l.n, NEW j \in 1..i - 1,
         NEW r \in Places(l, i), NEW q \in Places(l, j)
  PROVE  Apart(r, q)
<1>1. /\ l.n \in Nat /\ l.focus \in Nat \cup {-1} /\ i \in Nat /\ j \in Nat
      /\ 1 <= j /\ j < i
  BY DEF Layout, Unset
<1>2. CASE l.focus = Unset
  <2>1. /\ Index(l, i) = i - 1 /\ i - 1 \in Nat
        /\ Index(l, j) = j - 1 /\ j - 1 \in Nat /\ i - 1 # j - 1
    BY <1>1, <1>2 DEF Index, Unset
  <2>2. r = GridPlace(l, i - 1) /\ q = GridPlace(l, j - 1)
    BY <1>2, <2>1 DEF Places
  <2> QED
    BY <2>1, <2>2, GridApart
<1>3. CASE l.focus # Unset /\ i = l.focus
  <2>1. r = FocusPlace(l) /\ q \in BesidePlaces(l, Index(l, j))
    BY <1>1, <1>3 DEF Places
  <2>2. Index(l, j) \in Nat
    BY <1>1, <1>3 DEF Index
  <2> QED
    BY <2>1, <2>2, BesideIs
<1>4. CASE l.focus # Unset /\ j = l.focus
  <2>1. q = FocusPlace(l) /\ r \in BesidePlaces(l, Index(l, i))
    BY <1>1, <1>4 DEF Places
  <2>2. Index(l, i) \in Nat
    BY <1>1, <1>4 DEF Index
  <2> QED
    BY <2>1, <2>2, BesideIs
<1>5. CASE l.focus # Unset /\ i # l.focus /\ j # l.focus
  <2>1. r \in BesidePlaces(l, Index(l, i)) /\ q \in BesidePlaces(l, Index(l, j))
    BY <1>5 DEF Places
  <2>2. Index(l, i) \in Nat /\ Index(l, j) \in Nat /\ Index(l, j) < Index(l, i)
    BY <1>1, <1>5 DEF Index
  <2> QED
    BY <2>1, <2>2, BesideApart
<1> QED
  BY <1>2, <1>3, <1>4, <1>5

(* The rounding of source_mix, vidconv_aspect and vidconv moves no tile    *)
(* over another.                                                           *)
LEMMA NoneOverdrawn == Overdrawn = {}
<1> SUFFICES ASSUME NEW l \in Layouts, NEW i \in 1..l.n PROVE Fits(l, i)
  BY DEF Overdrawn
<1>1. l \in Layout
  BY VidLayoutAssumption
<1>2. SUFFICES ASSUME NEW f \in Frames, NEW g \in Frames, NEW t \in Drawn(l, i, f)
               PROVE  /\ Within(t, l)
                      /\ \A j \in 1..i - 1 : \A s \in Drawn(l, j, g) : Apart(t, s)
  BY DEF Fits
<1>3. PICK r \in Places(l, i) : t = Evened(Aspect(r, f))
  BY DEF Drawn
<1>4. r \in Rects /\ Within(r, l)
  BY <1>1, PlaceIs
<1>5. Within(t, l)
  BY <1>1, <1>3, <1>4, DrawnWithin
<1>6. ASSUME NEW j \in 1..i - 1, NEW s \in Drawn(l, j, g) PROVE Apart(t, s)
  <2>1. PICK q \in Places(l, j) : s = Evened(Aspect(q, g))
    BY DEF Drawn
  <2>2. j \in 1..l.n
    BY <1>1 DEF Layout
  <2>3. q \in Rects
    BY <1>1, <2>2, PlaceIs
  <2>4. Apart(r, q)
    BY <1>1, PlacesApart
  <2> QED
    BY <1>3, <1>4, <2>1, <2>3, <2>4, DrawnApart
<1> QED
  BY <1>5, <1>6

(* TilesApart for pictures of every size, with any number of tiles in      *)
(* them, with every focus, and frames of every aspect.                     *)
THEOREM TilesStayApart == Spec => []TilesApart
<1>1. TilesApart
  BY NoneOverdrawn DEF TilesApart
<1>2. QED
  BY <1>1, PTL

(* The column and the row beside the one with the focus have a place for   *)
(* all the others.                                                         *)
LEMMA NonePassedOver ==
  ASSUME NEW l \in Layouts, NEW i \in 1..l.n, HasNoPlace(l, i)
  PROVE  l.focus = 0
<1> SUFFICES ASSUME Places(l, i) = {}, ~(l.full /\ i = l.focus), l.focus # 0
             PROVE  FALSE
  BY DEF HasNoPlace
<1>1. l \in Layout
  BY VidLayoutAssumption
<1>2. /\ l.n \in Nat /\ l.focus \in Nat \cup {-1} /\ l.full \in BOOLEAN
      /\ i \in Nat /\ 1 <= i /\ i <= l.n
  BY <1>1 DEF Layout, Unset
<1>3. l.focus # Unset /\ i # l.focus /\ BesidePlaces(l, Index(l, i)) = {}
  BY <1>2 DEF Places
<1>4. Shares(l) \in Nat /\ l.n <= 2 * Shares(l) /\ l.focus <= l.n
  BY <1>1, SharesIs, VidLayoutAssumption
<1>5. /\ Index(l, i) \in Nat /\ Index(l, i) >= 2 * Shares(l) - 1
      /\ ~(Index(l, i) < Shares(l))
  <2>1. Index(l, i) \in Nat
    BY <1>2, <1>3 DEF Index, Unset
  <2> QED
    BY <1>3, <1>4, <2>1 DEF BesidePlaces
<1> QED
  BY <1>2, <1>3, <1>4, <1>5 DEF Index, Unset

(* EveryonePlaced for every number of tiles and every focus.               *)
THEOREM EveryoneHasAPlace == Spec => []EveryonePlaced
<1>1. EveryonePlaced
  <2> SUFFICES ASSUME NEW v \in Sources, focus[v] \in Visible(v) \cup {None},
                      NEW shape \in Unplaced, LaidOut(v, shape)
               PROVE  FALSE
    BY DEF EveryonePlaced
  <2>1. PICK l \in Layouts : shape = Shape(l) /\ \E i \in 1..l.n : HasNoPlace(l, i)
    BY DEF Unplaced
  <2>2. l.focus = 0
    BY <2>1, NonePassedOver
  <2>3. shape.focus = 0
    BY <2>1, <2>2 DEF Shape
  <2> QED
    BY <2>3, VidMixAssumption DEF LaidOut, Unset, Visible
<1>2. QED
  BY <1>1, PTL

-----------------------------------------------------------------------------
(* The pictures in hand, as the conference sees them.                      *)
InHand(s) == vpc[s] \in {"drawn", "deliver"}

Hand == [s \in Sources |-> IF InHand(s) THEN {canvas[s]} ELSE {}]

(* What a viewer draws is the picture the conference composes.             *)
LEMMA SamePicture ==
  ASSUME NEW v \in Sources
  PROVE  Tiles(v) = Conf!Picture(v)
<1>1. Visible(v) = Conf!Seen(v)
  BY DEF Visible, Conf!Seen
<1>2. Tiles(v) = {TileOf(v, s) : s \in {x \in Conf!Seen(v) : rx[x] # 0}}
  BY <1>1 DEF Tiles
<1>3. \A s : TileOf(v, s) = [src |-> s, size |-> rx[s], among |-> Conf!Seen(v),
                            focus |-> focus[v], full |-> full[v]]
  BY <1>1 DEF TileOf
<1> QED
  BY <1>2, <1>3 DEF Conf!Picture

(* Steps that neither begin nor end with a picture in hand, nor change     *)
(* one, leave the conference as it is.                                     *)
LEMMA HandKept ==
  ASSUME UNCHANGED <<srcl, rx, viewVars>>,
         \A s \in Sources : InHand(s)' = InHand(s) /\ (InHand(s) => canvas'[s] = canvas[s])
  PROVE  UNCHANGED Conf!confVars
<1>1. Hand' = Hand
  BY DEF Hand
<1> QED
  BY <1>1 DEF Hand, InHand, viewVars, Conf!confVars

(* A step while the mutex of s is free, that leaves the threads and the    *)
(* other frames alone, changes no picture in hand.                         *)
LEMMA HandFree ==
  ASSUME NEW s \in Sources, MutexFree(s), vpc' = vpc,
         \A u \in Sources \ {s} : canvas'[u] = canvas[u]
  PROVE  Hand' = Hand /\ Hand[s] = {}
<1>1. ~InHand(s) /\ \A u \in Sources : InHand(u)' = InHand(u)
  BY DEF InHand, MutexFree, Locked, Drawing
<1> QED
  BY <1>1 DEF Hand

(* hand is what the conference's hand is mapped to, before a step ...      *)
LEMMA HandMapped ==
  Hand = [s \in Sources |-> IF vpc[s] \in {"drawn", "deliver"} THEN {canvas[s]} ELSE {}]
BY DEF Hand, InHand

(* ... and after it.                                                       *)
LEMMA HandMappedNext ==
  Hand' = [s \in Sources |-> IF vpc'[s] \in {"drawn", "deliver"} THEN {canvas'[s]} ELSE {}]
BY DEF Hand, InHand

(* The threads: a step composes a picture, hands it over, or nobody        *)
(* notices.                                                                *)
LEMMA ConfThreads ==
  ASSUME IInv, NEW v \in Sources, ThreadRuns(v) \/ ThreadRdlock(v)
  PROVE  Conf!Compose(v) \/ Conf!HandOver(v) \/ UNCHANGED Conf!confVars
<1>t. TypeOK
  BY DEF IInv
<1>1. CASE \/ ThreadBegin(v) \/ ThreadLoop(v) \/ ThreadWake(v) \/ ThreadRdlock(v)
           \/ ThreadRdunlock(v) \/ ThreadShow(v)
  <2>1. UNCHANGED <<srcl, rx, viewVars, canvas>>
    BY <1>1 DEF ThreadBegin, ThreadLoop, ThreadWake, ThreadRdlock, ThreadRdunlock, ThreadShow
  <2>2. \E from, to : /\ Step(v, from, to)
                      /\ from \in {"drawn", "deliver"} <=> to \in {"drawn", "deliver"}
    BY <1>1 DEF ThreadBegin, ThreadLoop, ThreadWake, ThreadRdlock, ThreadRdunlock, ThreadShow
  <2>3. \A s \in Sources : InHand(s)' = InHand(s)
    BY <1>t, <2>2 DEF Step, InHand, TypeOK
  <2> QED
    BY <2>1, <2>3, HandKept
<1>2. CASE ThreadClear(v)
  <2>1. UNCHANGED <<srcl, rx, viewVars>> /\ Step(v, "clear", "paint")
    BY <1>2 DEF ThreadClear
  <2>2. \A s \in Sources : InHand(s)' = InHand(s) /\ (InHand(s) => canvas'[s] = canvas[s])
    BY <1>t, <1>2 DEF ThreadClear, Step, InHand, TypeOK
  <2> QED
    BY <2>1, <2>2, HandKept
<1>3. CASE ThreadPaint(v)
  <2> DEFINE rest == IF canvas[v] \subseteq Tiles(v) THEN {} ELSE {Remains}
  <2>1. /\ vpc[v] = "paint" /\ vpc' = [vpc EXCEPT ![v] = "drawn"]
        /\ canvas' = [canvas EXCEPT ![v] = Tiles(v) \cup rest]
        /\ UNCHANGED <<srcl, rx, viewVars>>
    BY <1>3 DEF ThreadPaint, Step
  <2>2. v \in srcl => canvas[v] \subseteq Tiles(v)
    BY <2>1 DEF IInv, NothingStale
  <2>3. rest \in {{}} \cup (IF v \in srcl THEN {} ELSE {{Remains}})
    BY <2>2
  <2> HIDE DEF rest
  <2>4. Hand[v] = {}
    BY <2>1 DEF Hand, InHand
  <2>5. ASSUME NEW u \in Sources
        PROVE  Hand'[u] = IF u = v THEN {Conf!Picture(v) \cup rest} ELSE Hand[u]
    BY <1>t, <2>1, SamePicture DEF Hand, InHand, TypeOK
  <2>6. Hand' = [Hand EXCEPT ![v] = {Conf!Picture(v) \cup rest}]
    BY <2>5 DEF Hand
  <2>7. Conf!Compose(v)
    BY <2>1, <2>3, <2>4, <2>6, HandMapped, HandMappedNext DEF Conf!Compose, Conf!view, viewVars
  <2> QED
    BY <2>7
<1>4. CASE ThreadDeliver(v)
  <2>1. /\ vpc[v] = "deliver" /\ vpc' = [vpc EXCEPT ![v] = "loop"]
        /\ UNCHANGED <<srcl, rx, viewVars, canvas>>
    BY <1>4 DEF ThreadDeliver, Step
  <2>2. Hand[v] # {}
    BY <2>1 DEF Hand, InHand
  <2>3. ASSUME NEW u \in Sources
        PROVE  Hand'[u] = IF u = v THEN {} ELSE Hand[u]
    BY <1>t, <2>1 DEF Hand, InHand, TypeOK
  <2>4. Hand' = [Hand EXCEPT ![v] = {}]
    BY <2>3 DEF Hand
  <2>5. Conf!HandOver(v)
    BY <2>1, <2>2, <2>4, HandMapped, HandMappedNext DEF Conf!HandOver, Conf!view, viewVars
  <2> QED
    BY <2>5
<1> QED
  BY <1>1, <1>2, <1>3, <1>4 DEF ThreadRuns

(* The functions that change the list, a frame or a view do the same to    *)
(* the conference.                                                         *)
LEMMA ConfChanges ==
  ASSUME IInv, NEW s \in Sources,
         \/ EnableLocked(s) \/ DisableLocked(s) \/ DestroyUnlink(s) \/ PutLocked(s)
         \/ DestroyFree(s) \/ SetContentHide(s) \/ ToggleSelfview(s) \/ SetFocus(s)
         \/ FocusSet(s)
  PROVE  Conf!ConfNext
<1> USE HandMapped, HandMappedNext DEF Conf!view, viewVars
<1>t. TypeOK
  BY DEF IInv
<1>k. vpc' = vpc /\ canvas' = canvas => Hand' = Hand
  BY DEF Hand, InHand
<1>1. CASE EnableLocked(s)
  <2>1. Conf!Enter(s)
    BY <1>1, <1>k DEF EnableLocked, Conf!Enter
  <2> QED
    BY <2>1 DEF Conf!ConfNext
<1>2. CASE DisableLocked(s) \/ DestroyUnlink(s)
  <2>1. Conf!Leave(s)
    BY <1>2, <1>k DEF DisableLocked, DestroyUnlink, Conf!Leave
  <2> QED
    BY <2>1 DEF Conf!ConfNext
<1>3. CASE PutLocked(s)
  <2>1. feed[s] \in FrameSizes
    BY <1>t DEF TypeOK
  <2>2. Conf!NewFrame(s, feed[s])
    BY <1>3, <1>k DEF PutLocked, Conf!NewFrame
  <2> QED
    BY <2>1, <2>2 DEF Conf!ConfNext
<1>4. CASE DestroyFree(s)
  <2>1. s \notin srcl /\ MutexFree(s)
    BY <1>4 DEF DestroyFree, IInv, CallsAlive, MutexFree, Locked, Drawing
  <2>2. Hand' = Hand
    <3>1. vpc' = vpc /\ \A u \in Sources \ {s} : canvas'[u] = canvas[u]
      BY <1>4, <1>t DEF DestroyFree, TypeOK
    <3> QED
      BY <2>1, <3>1, HandFree
  <2>3. Conf!DropFrame(s)
    BY <1>4, <2>1, <2>2 DEF DestroyFree, Conf!DropFrame
  <2> QED
    BY <2>3 DEF Conf!ConfNext
<1>5. CASE SetContentHide(s)
  <2>1. Hand' = Hand /\ Hand[s] = {}
    BY <1>5, HandFree DEF SetContentHide
  <2>2. Conf!ToggleContent(s)
    BY <1>5, <2>1 DEF SetContentHide, Conf!ToggleContent
  <2> QED
    BY <2>2 DEF Conf!ConfNext
<1>6. CASE ToggleSelfview(s)
  <2>1. Hand' = Hand /\ Hand[s] = {}
    BY <1>6, HandFree DEF ToggleSelfview
  <2>2. Conf!ToggleSelf(s)
    BY <1>6, <2>1 DEF ToggleSelfview, Conf!ToggleSelf
  <2> QED
    BY <2>2 DEF Conf!ConfNext
<1>7. CASE SetFocus(s)
  <2>1. Hand' = Hand /\ Hand[s] = {}
    BY <1>7, HandFree DEF SetFocus
  <2>2. PICK f \in Sources \cup {None} : focus' = [focus EXCEPT ![s] = f]
    BY <1>7 DEF SetFocus
  <2>3. PICK back \in BOOLEAN : full' = [full EXCEPT ![s] = back]
    BY <1>7 DEF SetFocus
  <2>4. Conf!Focus(s, f, back)
    BY <1>7, <2>1, <2>2, <2>3 DEF SetFocus, Conf!Focus
  <2> QED
    BY <2>4 DEF Conf!ConfNext
<1>8. CASE FocusSet(s)
  <2>1. Hand' = Hand /\ Hand[s] = {}
    BY <1>8, HandFree DEF FocusSet
  <2> DEFINE back == pick[s] # None /\ pick[s] = focus[s] /\ ~full[s]
  <2>2. Conf!Focus(s, pick[s], back)
    BY <1>8, <2>1 DEF FocusSet, Conf!Focus
  <2>3. pick[s] \in Sources \cup {None} /\ back \in BOOLEAN
    BY <1>t DEF TypeOK
  <2> QED
    BY <2>2, <2>3 DEF Conf!ConfNext
<1> QED
  BY <1>1, <1>2, <1>3, <1>4, <1>5, <1>6, <1>7, <1>8

(* The conference does not notice the rest.                                *)
LEMMA ConfStutters ==
  ASSUME IInv, NEW s \in Sources,
         \/ SourceAlloc(s) \/ SourceEnable(s) \/ SourceStart(s) \/ SourceStop(s)
         \/ SetSize(s) \/ FocusFind(s) \/ SourceDeref(s) \/ StopJoin(s) \/ DestroyJoin(s)
         \/ SourcePut(s)
  PROVE  UNCHANGED Conf!confVars
<1>t. TypeOK
  BY DEF IInv
<1>1. UNCHANGED <<srcl, rx, viewVars>>
  BY DEF SourceAlloc, SourceEnable, SourceStart, SourceStop, SetSize, FocusFind, SourceDeref,
         StopJoin, DestroyJoin, SourcePut
<1>2. CASE SetSize(s)
  <2>1. ~InHand(s) /\ vpc' = vpc
    BY <1>2 DEF SetSize, MutexFree, Locked, Drawing, InHand
  <2>2. \A u \in Sources : InHand(u)' = InHand(u) /\ (InHand(u) => canvas'[u] = canvas[u])
    BY <1>2, <2>1 DEF SetSize, InHand
  <2> QED
    BY <1>1, <2>2, HandKept
<1>3. CASE SourceStart(s)
  <2>1. vpc[s] = "off"
    BY <1>3 DEF SourceStart, Calls, IInv, CallsAlive
  <2>2. \A u \in Sources : InHand(u)' = InHand(u) /\ canvas'[u] = canvas[u]
    BY <1>t, <1>3, <2>1 DEF SourceStart, InHand, TypeOK
  <2> QED
    BY <1>1, <2>2, HandKept
<1>4. CASE StopJoin(s) \/ DestroyJoin(s)
  <2>1. \A u \in Sources : InHand(u)' = InHand(u) /\ canvas'[u] = canvas[u]
    BY <1>t, <1>4 DEF StopJoin, DestroyJoin, Step, InHand, TypeOK
  <2> QED
    BY <1>1, <2>1, HandKept
<1>5. CASE \/ SourceAlloc(s) \/ SourceEnable(s) \/ SourceStop(s) \/ FocusFind(s)
           \/ SourceDeref(s) \/ SourcePut(s)
  <2>1. vpc' = vpc /\ canvas' = canvas
    BY <1>5 DEF SourceAlloc, SourceEnable, SourceStop, FocusFind, SourceDeref, SourcePut
  <2>2. \A u \in Sources : InHand(u)' = InHand(u) /\ canvas'[u] = canvas[u]
    BY <2>1 DEF InHand
  <2> QED
    BY <1>1, <2>2, HandKept
<1> QED
  BY <1>2, <1>3, <1>4, <1>5

(* The initial states of VidMix are initial states of the conference.      *)
LEMMA ConfInitial == Init => Conf!ConfInit
<1> SUFFICES ASSUME Init PROVE Conf!ConfInit
  OBVIOUS
<1>1. [s \in Sources |-> IF vpc[s] \in {"drawn", "deliver"} THEN {canvas[s]} ELSE {}]
        = [s \in Sources |-> {}]
  BY DEF Init
<1> QED
  BY <1>1 DEF Init, Conf!ConfInit

(* Every step of VidMix is a step of the conference or stutters there.     *)
LEMMA ConfStep == IInv /\ [Next]_vars => [Conf!ConfNext]_(Conf!confVars)
<1> SUFFICES ASSUME IInv, [Next]_vars PROVE [Conf!ConfNext]_(Conf!confVars)
  OBVIOUS
<1>1. ASSUME NEW s \in Sources, ThreadRuns(s) \/ ThreadRdlock(s)
      PROVE  [Conf!ConfNext]_(Conf!confVars)
  BY <1>1, ConfThreads DEF Conf!ConfNext
<1>2. ASSUME NEW s \in Sources, CtlCalls(s) \/ CtlRuns(s) \/ SourcePut(s) \/ PutLocked(s)
      PROVE  [Conf!ConfNext]_(Conf!confVars)
  BY <1>2, ConfChanges, ConfStutters DEF CtlCalls, CtlRuns
<1>3. CASE UNCHANGED vars
  BY <1>3 DEF vars, Conf!confVars
<1> QED
  BY <1>1, <1>2, <1>3 DEF Next, Terminated

(* VidMix implements Conference.                                           *)
THEOREM PicturesAreOfOneMoment == Spec => ImplementsConference
<1>1. QED
  BY ConfInitial, ConfStep, Invariant, PTL DEF Spec, ImplementsConference, Conf!ConfSpec
=============================================================================
