------------------------------- MODULE VidMix --------------------------------
(***************************************************************************)
(* The video mixer of librem, src/vidmix/vidmix.c.  Every source is fed    *)
(* frames by its decoder and may run a thread that draws, again and again, *)
(* the frames of the enabled sources into the source's own output frame.   *)
(*                                                                         *)
(* The threads of one source s are its drawing thread (vpc), the thread    *)
(* that calls the control functions on it (ctl) and the one that puts      *)
(* frames into it (feed).  The list of sources and the frames they were    *)
(* fed are under one read-write lock, which prefers writers; what belongs  *)
(* to the output of one source is under that source's mutex.  A critical   *)
(* section of a writer or of a control function is one step, taken when    *)
(* the lock is free.  A drawing thread keeps its mutex and the read lock   *)
(* over several steps.                                                     *)
(*                                                                         *)
(* Pictures are abstracted to tiles: a tile is the frame of one source,    *)
(* with everything that decides where it is drawn.  canvas is the set of   *)
(* tiles that show in an output frame: a tile stays visible until the      *)
(* frame is cleared or replaced.  Tiles that are there and would not be    *)
(* drawn again are remains, whatever they are of.  The order of the list   *)
(* is not kept: it decides the place of a tile, and it changes only where  *)
(* the set of enabled sources does.                                        *)
(*                                                                         *)
(* Left out: the frame rate (a frame is due at any time), the pixels, of   *)
(* which a copy into frame_rx may be drawn half done, and allocations that *)
(* fail, which leave everything as it was.                                 *)
(***************************************************************************)
EXTENDS Integers

CONSTANTS
  Sources,      \* vidmix_source objects, each allocated at most once
  Content,      \* the sources of type content
  None,         \* no source: focus is not set
  Remains,      \* what is left of earlier pictures
  Puts,         \* <<s, size>>: frames of this size are put into s
  Outs,         \* <<s, size>>: output frames of s may have this size, 0 for none
  Ops           \* <<s, op>>: the application calls control function op on s

(* The frame of one source, with all that its place in a picture depends   *)
(* on: its size (aspect), the other sources shown and the focus.           *)
Tile == [src : Sources, size : Nat, among : SUBSET Sources,
         focus : Sources \cup {None}, full : BOOLEAN]

(* Sizes of frames that are put, and 0 for no frame.                       *)
FrameSizes == {0} \cup {put[2] : put \in Puts}

ASSUME VidMixAssumption ==
  /\ Content \subseteq Sources
  /\ None \notin Sources
  /\ Remains \notin Tile
  /\ Puts \subseteq Sources \X (Nat \ {0})
  /\ Outs \subseteq Sources \X Nat

VARIABLES
  life,         \* each source: "none", "live", "dying" or "freed"
  srcl,         \* mix->srcl, the enabled sources
  rx,           \* size of frame_rx, 0 for none
  tx,           \* size of frame_tx, 0 for none
  run,          \* src->run
  clear,        \* src->clear
  canvas,       \* the tiles to be seen in frame_tx
  focus,        \* src->focus
  full,         \* src->focus_full
  selfview,     \* src->selfview
  hide,         \* src->content_hide
  vpc,          \* where the drawing thread of a source is
  ctl,          \* where the control thread of a source is
  pick,         \* the source it has found for vidmix_source_set_focus_idx
  feed          \* size of the frame being put that needs a new frame_rx, or 0

viewVars == <<focus, full, selfview, hide>>
vars == <<life, srcl, rx, tx, run, clear, canvas, focus, full, selfview, hide,
          vpc, ctl, pick, feed>>

(* Where a drawing thread holds its mutex, and where also the read lock.   *)
Drawing == {"clear", "paint", "drawn", "show"}

Locked == Drawing \cup {"loop", "read", "deliver"}

VidPcs == Locked \cup {"off", "begin", "sleep", "ended"}

(* Where a control thread waits for the write lock.                        *)
Writing == {"enable", "disable", "unlist"}

CtlPcs == Writing \cup {"idle", "join", "focus", "endjoin", "free"}

MutexFree(s) == vpc[s] \notin Locked

NobodyReads == \A s \in Sources : vpc[s] \notin Drawing

(* A fault: the lock is made without the attribute that prefers writers.  *)
WriterIgnored == FALSE

WriterWaits == \E s \in Sources : ctl[s] \in Writing \/ feed[s] # 0

Live(s) == life[s] = "live"

(* The control thread of a source is free to make a call it may make.      *)
Calls(op, s) == <<s, op>> \in Ops /\ Live(s) /\ ctl[s] = "idle"

(* The sources that viewer v shows: not itself unless selfview is on, and  *)
(* no content if content is hidden.                                        *)
Visible(v) ==
  {s \in srcl : (s = v => selfview[v]) /\ (s \in Content => ~hide[v])}

TileOf(v, s) ==
  [src |-> s, size |-> rx[s], among |-> Visible(v), focus |-> focus[v], full |-> full[v]]

Tiles(v) == {TileOf(v, s) : s \in {x \in Visible(v) : rx[x] # 0}}

(* The frame that fills the background, drawn first.                       *)
FullTile(v) ==
  {TileOf(v, s) : s \in {x \in Visible(v) : rx[x] # 0 /\ x = focus[v] /\ full[v]}}

Init ==
  /\ life = [s \in Sources |-> "none"]
  /\ srcl = {}
  /\ rx = [s \in Sources |-> 0]
  /\ tx = [s \in Sources |-> 0]
  /\ run = [s \in Sources |-> FALSE]
  /\ clear = [s \in Sources |-> FALSE]
  /\ canvas = [s \in Sources |-> {}]
  /\ focus = [s \in Sources |-> None]
  /\ full = [s \in Sources |-> FALSE]
  /\ selfview = [s \in Sources |-> FALSE]
  /\ hide = [s \in Sources |-> FALSE]
  /\ vpc = [s \in Sources |-> "off"]
  /\ ctl = [s \in Sources |-> "idle"]
  /\ pick = [s \in Sources |-> None]
  /\ feed = [s \in Sources |-> 0]

-----------------------------------------------------------------------------
(* The drawing threads, vidmix_thread and content_thread.                  *)

Step(v, from, to) ==
  /\ vpc[v] = from
  /\ vpc' = [vpc EXCEPT ![v] = to]

ThreadBegin(v) ==
  /\ Step(v, "begin", "loop")
  /\ UNCHANGED <<life, srcl, rx, tx, run, clear, canvas, viewVars, ctl, pick, feed>>

(* A fault: the loop does not look at run.                                 *)
ThreadLoopDeaf(v) ==
  /\ Step(v, "loop", "sleep")
  /\ UNCHANGED <<life, srcl, rx, tx, run, clear, canvas, viewVars, ctl, pick, feed>>

(* The head of the loop, which leaves the mutex to sleep or to end.        *)
ThreadLoop(v) ==
  /\ Step(v, "loop", IF run[v] THEN "sleep" ELSE "ended")
  /\ UNCHANGED <<life, srcl, rx, tx, run, clear, canvas, viewVars, ctl, pick, feed>>

(* Awake and with the mutex, the thread draws if a frame is due and it has *)
(* a frame to draw into; a content thread needs none.                      *)
ThreadWake(v) ==
  /\ \/ Step(v, "sleep", "loop")
     \/ (v \in Content \/ tx[v] # 0) /\ Step(v, "sleep", "read")
  /\ UNCHANGED <<life, srcl, rx, tx, run, clear, canvas, viewVars, ctl, pick, feed>>

ThreadRdlock(v) ==
  /\ ~WriterWaits
  /\ Step(v, "read", IF v \in Content THEN "show" ELSE "clear")
  /\ UNCHANGED <<life, srcl, rx, tx, run, clear, canvas, viewVars, ctl, pick, feed>>

(* The first pass over the list clears the frame if it has to be, and      *)
(* draws the full-focus source over all of it.                             *)
ThreadClear(v) ==
  /\ Step(v, "clear", "paint")
  /\ clear' = [clear EXCEPT ![v] = FALSE]
  /\ canvas' = [canvas EXCEPT ![v] = (IF clear[v] THEN {} ELSE @) \cup FullTile(v)]
  /\ UNCHANGED <<life, srcl, rx, tx, run, viewVars, ctl, pick, feed>>

(* The second pass draws the others.                                       *)
ThreadPaint(v) ==
  /\ Step(v, "paint", "drawn")
  /\ canvas' = [canvas EXCEPT ![v] =
                  Tiles(v) \cup (IF @ \subseteq Tiles(v) THEN {} ELSE {Remains})]
  /\ UNCHANGED <<life, srcl, rx, tx, run, clear, viewVars, ctl, pick, feed>>

ThreadRdunlock(v) ==
  /\ Step(v, "drawn", "deliver")
  /\ UNCHANGED <<life, srcl, rx, tx, run, clear, canvas, viewVars, ctl, pick, feed>>

(* The frame handler is called with the mutex held.                        *)
ThreadDeliver(v) ==
  /\ Step(v, "deliver", "loop")
  /\ UNCHANGED <<life, srcl, rx, tx, run, clear, canvas, viewVars, ctl, pick, feed>>

(* A content thread passes on the frame of the first content source it     *)
(* finds; it calls the handler with the read lock held.                    *)
ThreadShow(v) ==
  /\ Step(v, "show", "loop")
  /\ UNCHANGED <<life, srcl, rx, tx, run, clear, canvas, viewVars, ctl, pick, feed>>

-----------------------------------------------------------------------------
(* The control functions.                                                  *)

Goto(s, label) == ctl' = [ctl EXCEPT ![s] = label]

(* clear_all: every source in the list is to clear its frame.              *)
ClearAll(list) == clear' = [s \in Sources |-> clear[s] \/ s \in list]

SourceAlloc(s) ==
  /\ life[s] = "none"
  /\ life' = [life EXCEPT ![s] = "live"]
  /\ \E out \in Outs : out[1] = s /\ tx' = [tx EXCEPT ![s] = out[2]]
  /\ UNCHANGED <<srcl, rx, run, clear, canvas, viewVars, vpc, ctl, pick, feed>>

(* vidmix_source_enable looks at the list before it takes the lock.        *)
SourceEnable(s) ==
  /\ Calls("enable", s)
  /\ Goto(s, IF s \in srcl THEN "disable" ELSE "enable")
  /\ UNCHANGED <<life, srcl, rx, tx, run, clear, canvas, viewVars, vpc, pick, feed>>

EnableLocked(s) ==
  /\ ctl[s] = "enable"
  /\ NobodyReads
  /\ srcl' = srcl \cup {s}
  /\ ClearAll(srcl')
  /\ Goto(s, "idle")
  /\ UNCHANGED <<life, rx, tx, run, canvas, viewVars, vpc, pick, feed>>

DisableLocked(s) ==
  /\ ctl[s] = "disable"
  /\ NobodyReads
  /\ srcl' = srcl \ {s}
  /\ ClearAll(srcl')
  /\ Goto(s, "idle")
  /\ UNCHANGED <<life, rx, tx, run, canvas, viewVars, vpc, pick, feed>>

(* A fault: run is set after the thread was created, which may have ended. *)
SourceStartLate(s) ==
  /\ Calls("start", s)
  /\ ~run[s]
  /\ run' = [run EXCEPT ![s] = TRUE]
  /\ \E pc \in {"begin", "ended"} : vpc' = [vpc EXCEPT ![s] = pc]
  /\ UNCHANGED <<life, srcl, rx, tx, clear, canvas, viewVars, ctl, pick, feed>>

SourceStart(s) ==
  /\ Calls("start", s)
  /\ ~run[s]
  /\ run' = [run EXCEPT ![s] = TRUE]
  /\ vpc' = [vpc EXCEPT ![s] = "begin"]
  /\ UNCHANGED <<life, srcl, rx, tx, clear, canvas, viewVars, ctl, pick, feed>>

(* run is cleared without the mutex.                                       *)
SourceStop(s) ==
  /\ Calls("stop", s)
  /\ run[s]
  /\ run' = [run EXCEPT ![s] = FALSE]
  /\ Goto(s, "join")
  /\ UNCHANGED <<life, srcl, rx, tx, clear, canvas, viewVars, vpc, pick, feed>>

StopJoin(s) ==
  /\ ctl[s] = "join"
  /\ Step(s, "ended", "off")
  /\ Goto(s, "idle")
  /\ UNCHANGED <<life, srcl, rx, tx, run, clear, canvas, viewVars, pick, feed>>

(* A frame_tx of another size is a new, empty one.                         *)
SetSize(s) ==
  /\ Calls("set_size", s)
  /\ MutexFree(s)
  /\ \E out \in Outs :
       /\ out[1] = s /\ out[2] \notin {0, tx[s]}
       /\ tx' = [tx EXCEPT ![s] = out[2]]
  /\ canvas' = [canvas EXCEPT ![s] = {}]
  /\ UNCHANGED <<life, srcl, rx, run, clear, viewVars, vpc, ctl, pick, feed>>

SetContentHide(s) ==
  /\ Calls("content_hide", s)
  /\ MutexFree(s)
  /\ hide' = [hide EXCEPT ![s] = ~@]
  /\ clear' = [clear EXCEPT ![s] = TRUE]
  /\ UNCHANGED <<life, srcl, rx, tx, run, canvas, focus, full, selfview, vpc, ctl, pick, feed>>

ToggleSelfview(s) ==
  /\ Calls("selfview", s)
  /\ MutexFree(s)
  /\ selfview' = [selfview EXCEPT ![s] = ~@]
  /\ clear' = [clear EXCEPT ![s] = TRUE]
  /\ UNCHANGED <<life, srcl, rx, tx, run, canvas, focus, full, hide, vpc, ctl, pick, feed>>

(* The focus source, if any, is one the caller may use.                    *)
SetFocus(s) ==
  /\ Calls("set_focus", s)
  /\ MutexFree(s)
  /\ \E f \in {x \in Sources : Live(x)} \cup {None} : focus' = [focus EXCEPT ![s] = f]
  /\ \E b \in BOOLEAN : full' = [full EXCEPT ![s] = b]
  /\ clear' = [clear EXCEPT ![s] = TRUE]
  /\ UNCHANGED <<life, srcl, rx, tx, run, canvas, selfview, hide, vpc, ctl, pick, feed>>

(* vidmix_source_set_focus_idx finds the participant under the read lock,  *)
(* none for index 0 and for an index past the end, ...                     *)
FocusFind(s) ==
  /\ Calls("focus_idx", s)
  /\ ~WriterWaits
  /\ \E f \in Visible(s) \cup {None} : pick' = [pick EXCEPT ![s] = f]
  /\ Goto(s, "focus")
  /\ UNCHANGED <<life, srcl, rx, tx, run, clear, canvas, viewVars, vpc, feed>>

(* ... and sets the focus under the mutex.  Full focus is toggled when the *)
(* same participant is chosen again.                                       *)
FocusSet(s) ==
  /\ ctl[s] = "focus"
  /\ MutexFree(s)
  /\ full' = [full EXCEPT ![s] = pick[s] # None /\ pick[s] = focus[s] /\ ~full[s]]
  /\ focus' = [focus EXCEPT ![s] = pick[s]]
  /\ clear' = [clear EXCEPT ![s] = TRUE]
  /\ pick' = [pick EXCEPT ![s] = None]
  /\ Goto(s, "idle")
  /\ UNCHANGED <<life, srcl, rx, tx, run, canvas, selfview, hide, vpc, feed>>

(* A fault: a source that ran is freed with the list still linking it.     *)
SourceDerefLinked(s) ==
  /\ Calls("destroy", s)
  /\ feed[s] = 0
  /\ life' = [life EXCEPT ![s] = "dying"]
  /\ run' = [run EXCEPT ![s] = FALSE]
  /\ Goto(s, IF run[s] THEN "endjoin" ELSE "free")
  /\ UNCHANGED <<srcl, rx, tx, clear, canvas, viewVars, vpc, pick, feed>>

(* The last reference is dropped, when no call on the source is left.  The *)
(* destructor ends the thread, ...                                         *)
SourceDeref(s) ==
  /\ Calls("destroy", s)
  /\ feed[s] = 0
  /\ life' = [life EXCEPT ![s] = "dying"]
  /\ run' = [run EXCEPT ![s] = FALSE]
  /\ Goto(s, IF run[s] THEN "endjoin" ELSE IF s \in srcl THEN "unlist" ELSE "free")
  /\ UNCHANGED <<srcl, rx, tx, clear, canvas, viewVars, vpc, pick, feed>>

DestroyJoin(s) ==
  /\ ctl[s] = "endjoin"
  /\ Step(s, "ended", "off")
  /\ Goto(s, IF s \in srcl THEN "unlist" ELSE "free")
  /\ UNCHANGED <<life, srcl, rx, tx, run, clear, canvas, viewVars, pick, feed>>

(* ... leaves the list and frees the frames.                               *)
DestroyUnlink(s) ==
  /\ ctl[s] = "unlist"
  /\ NobodyReads
  /\ srcl' = srcl \ {s}
  /\ ClearAll(srcl')
  /\ Goto(s, "free")
  /\ UNCHANGED <<life, rx, tx, run, canvas, viewVars, vpc, pick, feed>>

DestroyFree(s) ==
  /\ ctl[s] = "free"
  /\ life' = [life EXCEPT ![s] = "freed"]
  /\ rx' = [rx EXCEPT ![s] = 0]
  /\ tx' = [tx EXCEPT ![s] = 0]
  /\ canvas' = [canvas EXCEPT ![s] = {}]
  /\ Goto(s, "idle")
  /\ UNCHANGED <<srcl, run, clear, viewVars, vpc, pick, feed>>

-----------------------------------------------------------------------------
(* vidmix_source_put: a frame of the size of frame_rx is copied, with no   *)
(* lock and no effect here; another one needs a new frame_rx.              *)
SourcePut(s) ==
  /\ Live(s)
  /\ feed[s] = 0
  /\ \E put \in Puts :
       /\ put[1] = s /\ put[2] # rx[s]
       /\ feed' = [feed EXCEPT ![s] = put[2]]
  /\ UNCHANGED <<life, srcl, rx, tx, run, clear, canvas, viewVars, vpc, ctl, pick>>

(* A fault: frame_rx is replaced without the write lock.                   *)
PutUnlocked(s) ==
  /\ feed[s] # 0
  /\ rx' = [rx EXCEPT ![s] = feed[s]]
  /\ ClearAll(srcl)
  /\ feed' = [feed EXCEPT ![s] = 0]
  /\ UNCHANGED <<life, srcl, tx, run, canvas, viewVars, vpc, ctl, pick>>

(* A fault: a frame of a new size is drawn over the old pictures.          *)
PutOver(s) ==
  /\ feed[s] # 0
  /\ NobodyReads
  /\ rx' = [rx EXCEPT ![s] = feed[s]]
  /\ feed' = [feed EXCEPT ![s] = 0]
  /\ UNCHANGED <<life, srcl, tx, run, clear, canvas, viewVars, vpc, ctl, pick>>

PutLocked(s) ==
  /\ feed[s] # 0
  /\ NobodyReads
  /\ rx' = [rx EXCEPT ![s] = feed[s]]
  /\ ClearAll(srcl)
  /\ feed' = [feed EXCEPT ![s] = 0]
  /\ UNCHANGED <<life, srcl, tx, run, canvas, viewVars, vpc, ctl, pick>>

-----------------------------------------------------------------------------

ThreadRuns(s) ==
  \/ ThreadBegin(s)
  \/ ThreadLoop(s)
  \/ ThreadWake(s)
  \/ ThreadClear(s)
  \/ ThreadPaint(s)
  \/ ThreadRdunlock(s)
  \/ ThreadDeliver(s)
  \/ ThreadShow(s)

CtlCalls(s) ==
  \/ SourceAlloc(s)
  \/ SourceEnable(s)
  \/ SourceStart(s)
  \/ SourceStop(s)
  \/ SetSize(s)
  \/ SetContentHide(s)
  \/ ToggleSelfview(s)
  \/ SetFocus(s)
  \/ FocusFind(s)
  \/ SourceDeref(s)

CtlRuns(s) ==
  \/ EnableLocked(s)
  \/ DisableLocked(s)
  \/ StopJoin(s)
  \/ FocusSet(s)
  \/ DestroyJoin(s)
  \/ DestroyUnlink(s)
  \/ DestroyFree(s)

(* Every source has been freed.                                            *)
Terminated ==
  /\ \A s \in Sources : life[s] = "freed"
  /\ UNCHANGED vars

Next ==
  \/ \E s \in Sources :
       \/ ThreadRuns(s) \/ ThreadRdlock(s)
       \/ CtlCalls(s) \/ CtlRuns(s)
       \/ SourcePut(s) \/ PutLocked(s)
  \/ Terminated

Spec == Init /\ [][Next]_vars

(* Threads keep running; a frame is due again and again; a thread gets a   *)
(* lock that is free for it again and again.                               *)
Fairness ==
  \A s \in Sources :
    /\ WF_vars(ThreadRuns(s))
    /\ SF_vars(vpc[s] = "sleep" /\ ThreadWake(s) /\ vpc'[s] = "read")
    /\ SF_vars(ThreadRdlock(s))
    /\ SF_vars(CtlRuns(s))
    /\ SF_vars(PutLocked(s))

FairSpec == Spec /\ Fairness

-----------------------------------------------------------------------------
(* Properties.                                                             *)

(* Every variable has its type.                                            *)
TypeOK ==
  /\ life \in [Sources -> {"none", "live", "dying", "freed"}]
  /\ srcl \subseteq Sources
  /\ rx \in [Sources -> FrameSizes]
  /\ tx \in [Sources -> Nat]
  /\ run \in [Sources -> BOOLEAN]
  /\ clear \in [Sources -> BOOLEAN]
  /\ canvas \in [Sources -> SUBSET (Tile \cup {Remains})]
  /\ focus \in [Sources -> Sources \cup {None}]
  /\ full \in [Sources -> BOOLEAN]
  /\ selfview \in [Sources -> BOOLEAN]
  /\ hide \in [Sources -> BOOLEAN]
  /\ vpc \in [Sources -> VidPcs]
  /\ ctl \in [Sources -> CtlPcs]
  /\ pick \in [Sources -> Sources \cup {None}]
  /\ feed \in [Sources -> FrameSizes]

(* Nothing is left over in the picture of an enabled source: when a frame  *)
(* is drawn it shows the sources it should show, each in its place, and    *)
(* no remains of a source that left, was resized or had another place.     *)
NoGhost ==
  \A v \in srcl : vpc[v] = "drawn" => canvas[v] = Tiles(v)

(* A drawing thread reads the frames of sources that exist, and its own    *)
(* source outlives it.                                                     *)
DrawnAlive ==
  /\ \A s \in srcl : life[s] \in {"live", "dying"}
  /\ \A s \in Sources : vpc[s] # "off" => life[s] \in {"live", "dying"}

(* The picture, and all that decides what is in it, stands still while it  *)
(* is being drawn: between the two passes over the list.                   *)
StandsStill ==
  [][\A v \in Sources : vpc[v] \in {"clear", "paint"} /\ vpc'[v] \in {"paint", "drawn"}
       => Tiles(v)' = Tiles(v)]_vars

(* The focus is a source or NULL ("pointer of focused source or NULL if    *)
(* focus is not set").                                                     *)
FocusAlive == \A s \in Sources : Live(s) /\ focus[s] # None => life[focus[s]] # "freed"

(* The lock prefers writers: readers wait while the waits of writers       *)
(* overlap, which they may do for ever.                                    *)
WritersPause == []<>~WriterWaits

(* Control functions return: no writer, reader and join wait for one       *)
(* another.                                                                *)
CallsReturn ==
  WritersPause => \A s \in Sources : ctl[s] # "idle" ~> ctl[s] = "idle"

(* A put returns, whatever else is going on: readers do not keep a writer  *)
(* out.                                                                    *)
PutsReturn == \A s \in Sources : feed[s] # 0 ~> feed[s] = 0

(* A running source with an output frame delivers again and again.         *)
RunningDelivers ==
  WritersPause =>
    \A s \in Sources \ Content :
      <>[](run[s] /\ tx[s] # 0) => []<>(vpc[s] = "deliver")

(* The inductive invariant.  Unless a clear is pending, what is in an      *)
(* output frame is what will be drawn; ...                                 *)
NothingStale ==
  \A v \in srcl :
    /\ ~clear[v] => canvas[v] \subseteq Tiles(v)
    /\ vpc[v] \in {"paint", "drawn"} => ~clear[v]

(* ... the first pass has drawn the background, the second the rest; ...   *)
Painted ==
  \A v \in Sources :
    /\ vpc[v] = "paint" => FullTile(v) \subseteq canvas[v]
    /\ vpc[v] = "drawn" => Tiles(v) \subseteq canvas[v]

(* ... and who is calling on a source that lives or dies.                  *)
CallsAlive ==
  \A s \in Sources :
    /\ ctl[s] \in {"enable", "disable", "join", "focus"} => Live(s)
    /\ ctl[s] \in {"endjoin", "unlist", "free"} => life[s] = "dying"
    /\ ctl[s] \in {"unlist", "free"} => vpc[s] = "off"
    /\ ctl[s] = "free" => s \notin srcl
    /\ feed[s] # 0 => Live(s)
    /\ life[s] \in {"none", "freed"} => s \notin srcl /\ vpc[s] = "off" /\ ~run[s]
    /\ run[s] => vpc[s] # "off" /\ ctl[s] \notin {"join", "endjoin"}
    /\ vpc[s] # "off" /\ ~run[s] => ctl[s] \in {"join", "endjoin"}

IInv ==
  /\ TypeOK
  /\ NothingStale
  /\ Painted
  /\ CallsAlive

(* The threads and their locks implement the conference: a picture is in   *)
(* hand from the end of the second pass to the return of the handler.      *)
Conf == INSTANCE Conference WITH
  Sizes <- FrameSizes,
  members <- srcl,
  frame <- rx,
  hand <- [s \in Sources |-> IF vpc[s] \in {"drawn", "deliver"} THEN {canvas[s]} ELSE {}]

ImplementsConference == Conf!ConfSpec
=============================================================================
