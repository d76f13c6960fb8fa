-------------------------------- MODULE AuMix --------------------------------
(***************************************************************************)
(* The audio mixer of librem, src/aumix/aumix.c: a conference bridge that  *)
(* gives every enabled source, each packet time, the sum of the frames of  *)
(* all the others.                                                         *)
(*                                                                         *)
(* One mixer thread and any number of application threads share the mixer  *)
(* through a mutex and a condition variable.  A step here is the code      *)
(* between two points where another thread can get in: taking the mutex,   *)
(* leaving it, waiting, or one turn of a loop of the mixer thread.         *)
(*                                                                         *)
(* Samples are abstracted away.  The list of sources is a set, and the     *)
(* thread visits it in any order.  The aubuf of a source (AuBuf) is        *)
(* counted in whole frames.  The time to the next round is kept as lag,    *)
(* the value of now - ts.                                                  *)
(***************************************************************************)
EXTENDS Integers

CONSTANTS
  Threads,      \* application threads
  Sources,      \* aumix_source objects, each allocated at most once
  Fed,          \* the sources the application puts samples into
  NoSource,     \* no source: the argument of a call that has none
  Free,         \* the mutex has no owner
  Mixer,        \* the mixer thread, as an owner of the mutex
  WishFrames,   \* min_sz of a source's aubuf in frames: 6 in the code
  MaxFrames,    \* max_sz of a source's aubuf in frames: 12 in the code
  Ptime,        \* packet time, in clock ticks
  MaxLag,       \* bound: how far behind the clock the thread may fall
  FileFrames,   \* bound: full frames in an announcement
  MayFail       \* whether the thread's own allocations may fail

ASSUME AuMixAssumption ==
  /\ Fed \subseteq Sources
  /\ NoSource \notin Sources
  /\ Free \notin Threads /\ Mixer \notin Threads /\ Free # Mixer
  /\ WishFrames \in Nat \ {0} /\ MaxFrames \in Nat \ {0}
  /\ Ptime \in Nat \ {0} /\ MaxLag \in Nat /\ FileFrames \in Nat
  /\ MayFail \in BOOLEAN

VARIABLES
  mutex,        \* owner of mix->mutex
  run,          \* mix->run
  srcl,         \* mix->srcl, the enabled sources
  af,           \* full frames left in the announcement, -1 for no file
  mixer,        \* the mixer object: "live" or "freed"
  mpc,          \* where the mixer thread is
  timed,        \* its ts is not 0
  lag,          \* now - ts, when timed
  got,          \* the sources it has read a frame from in this round
  served,       \* the sources it has called the handler of in this round
  pc,           \* where each application thread is
  arg,          \* the source its call is about
  life,         \* each source: "none", "live", "dying" or "freed"
  held,         \* the application holds its reference to the mixer
  buf,          \* frames in each source's aubuf
  filling       \* whether that aubuf is filling up

mixerVars == <<mpc, timed, lag, got, served>>
bufVars == <<buf, filling>>
refVars == <<life, held, mixer>>
vars == <<mutex, run, srcl, af, mixer, mpc, timed, lag, got, served,
          pc, arg, life, held, buf, filling>>

NoFile == -1

(* Where the mixer thread holds the mutex.                                 *)
MixerLocked == {"top", "check", "base", "read", "mix"}

(* Where an application thread holds it.                                   *)
AppLocked == {"append", "signal", "unlink", "unlist", "setfile", "stop", "stopsignal",
              "unlock", "stopunlock", "unlistunlock"}

(* Where an application thread waits for it.                               *)
AppLocking == {"enable", "disable", "destroy", "playfile", "close"}

(* Where it runs the destructor of a source, and of the mixer.             *)
Destroying == {"destroy", "unlist", "unlistunlock", "free"}

Closing == {"close", "stop", "stopsignal", "stopunlock", "join"}

AppPcs == AppLocked \cup AppLocking \cup {"idle", "free", "join"}

MixerPcs == MixerLocked \cup {"start", "lock", "wait", "woken", "sleep", "done"}

(* The application has the right to use source s.                          *)
Live(s) == life[s] = "live"

(* References to the mixer: the application's own, one per source.         *)
Referenced(h, l) == h \/ \E s \in Sources : l[s] \in {"live", "dying"}

Init ==
  /\ mutex = Free
  /\ run = TRUE
  /\ srcl = {}
  /\ af = NoFile
  /\ mixer = "live"
  /\ mpc = "start"
  /\ timed = FALSE
  /\ lag = 0
  /\ got = {}
  /\ served = {}
  /\ pc = [t \in Threads |-> "idle"]
  /\ arg = [t \in Threads |-> NoSource]
  /\ life = [s \in Sources |-> "none"]
  /\ held = TRUE
  /\ buf = [s \in Sources |-> 0]
  /\ filling = [s \in Sources |-> TRUE]

-----------------------------------------------------------------------------
(* The mixer thread.                                                       *)

(* The frames it mixes with are allocated before it first takes the mutex. *)
ThreadStart ==
  /\ mpc = "start"
  /\ \/ mpc' = "lock"
     \/ MayFail /\ mpc' = "done"
  /\ UNCHANGED <<mutex, run, srcl, af, timed, lag, got, served, pc, arg, bufVars, refVars>>

ThreadLock ==
  /\ mpc = "lock"
  /\ mutex = Free
  /\ mutex' = Mixer
  /\ mpc' = "top"
  /\ UNCHANGED <<run, srcl, af, timed, lag, got, served, pc, arg, bufVars, refVars>>

(* Faults: the thread waits although sources are enabled; it does not look *)
(* at run before it waits.                                                 *)
ThreadTopWaits ==
  /\ mpc = "top"
  /\ mutex' = Free
  /\ \/ ~run /\ mpc' = "done" /\ UNCHANGED af
     \/ run /\ mpc' = "wait" /\ af' = NoFile
  /\ UNCHANGED <<run, srcl, timed, lag, got, served, pc, arg, bufVars, refVars>>

ThreadTopDeaf ==
  /\ mpc = "top"
  /\ mutex' = Free
  /\ \/ srcl = {} /\ mpc' = "wait" /\ af' = NoFile
     \/ srcl # {} /\ mpc' = "sleep" /\ UNCHANGED af
  /\ UNCHANGED <<run, srcl, timed, lag, got, served, pc, arg, bufVars, refVars>>

(* The head of the loop leaves the mutex in every case.                    *)
ThreadTop ==
  /\ mpc = "top"
  /\ mutex' = Free
  /\ \/ ~run /\ mpc' = "done" /\ UNCHANGED af
     \/ run /\ srcl = {} /\ mpc' = "wait" /\ af' = NoFile
     \/ run /\ srcl # {} /\ mpc' = "sleep" /\ UNCHANGED af
  /\ UNCHANGED <<run, srcl, timed, lag, got, served, pc, arg, bufVars, refVars>>

(* A condition wait may return without a signal.                           *)
SpuriousWakeup ==
  /\ mpc = "wait"
  /\ mpc' = "woken"
  /\ UNCHANGED <<mutex, run, srcl, af, timed, lag, got, served, pc, arg, bufVars, refVars>>

ThreadWake ==
  /\ mpc = "woken"
  /\ mutex = Free
  /\ mutex' = Mixer
  /\ timed' = FALSE
  /\ lag' = 0
  /\ mpc' = "check"
  /\ UNCHANGED <<run, srcl, af, got, served, pc, arg, bufVars, refVars>>

ThreadSlept ==
  /\ mpc = "sleep"
  /\ mutex = Free
  /\ mutex' = Mixer
  /\ mpc' = "check"
  /\ UNCHANGED <<run, srcl, af, timed, lag, got, served, pc, arg, bufVars, refVars>>

(* ts > now: the next round is not due yet.                                *)
ThreadCheck ==
  /\ mpc = "check"
  /\ timed' = TRUE
  /\ mpc' = IF lag < 0 THEN "top" ELSE "base"
  /\ UNCHANGED <<mutex, run, srcl, af, lag, got, served, pc, arg, bufVars, refVars>>

(* The base frame is silence or the next frame of the announcement, which  *)
(* is closed when it fails, ends, or comes to its last, partial frame.     *)
ThreadBase ==
  /\ mpc = "base"
  /\ \/ af > 0 /\ af' = af - 1
     \/ af' = NoFile
  /\ got' = {}
  /\ served' = {}
  /\ mpc' = "read"
  /\ UNCHANGED <<mutex, run, srcl, timed, lag, pc, arg, bufVars, refVars>>

(* Fault: an underrun waits for a full buffer, and the test is inclusive.  *)
TakeFrameLate(s) ==
  LET short == buf[s] <= (IF filling[s] THEN MaxFrames ELSE 0)
  IN  /\ filling' = [filling EXCEPT ![s] = short]
      /\ buf' = [buf EXCEPT ![s] = IF short THEN @ ELSE @ - 1]

(* aubuf_read of one frame, PCM or silence (AuBuf, ReadLocked).            *)
TakeFrame(s) ==
  LET short == buf[s] < (IF filling[s] THEN WishFrames ELSE 1)
  IN  /\ filling' = [filling EXCEPT ![s] = short]
      /\ buf' = [buf EXCEPT ![s] = IF short THEN @ ELSE @ - 1]

ThreadRead(s) ==
  /\ mpc = "read"
  /\ s \in srcl \ got
  /\ TakeFrame(s)
  /\ got' = got \cup {s}
  /\ UNCHANGED <<mutex, run, srcl, af, mpc, timed, lag, served, pc, arg, refVars>>

ThreadReadEnd ==
  /\ mpc = "read"
  /\ srcl \subseteq got
  /\ mpc' = "mix"
  /\ UNCHANGED <<mutex, run, srcl, af, timed, lag, got, served, pc, arg, bufVars, refVars>>

(* Source s is given the sum of the frames of the other sources, by a call *)
(* of its handler with the mutex held.                                     *)
ThreadMix(s) ==
  /\ mpc = "mix"
  /\ s \in srcl \ served
  /\ served' = served \cup {s}
  /\ UNCHANGED <<mutex, run, srcl, af, mpc, timed, lag, got, pc, arg, bufVars, refVars>>

ThreadRoundEnd ==
  /\ mpc = "mix"
  /\ srcl \subseteq served
  /\ lag' = lag - Ptime
  /\ mpc' = "top"
  /\ UNCHANGED <<mutex, run, srcl, af, timed, got, served, pc, arg, bufVars, refVars>>

(* The clock, as far as the mixer thread can tell.                         *)
Tick ==
  /\ timed
  /\ mpc # "done"
  /\ lag < MaxLag
  /\ lag' = lag + 1
  /\ UNCHANGED <<mutex, run, srcl, af, mpc, timed, got, served, pc, arg, bufVars, refVars>>

-----------------------------------------------------------------------------
(* The application.                                                        *)

Goto(t, label) == pc' = [pc EXCEPT ![t] = label]

SourceAlloc(s) ==
  /\ held
  /\ life[s] = "none"
  /\ life' = [life EXCEPT ![s] = "live"]
  /\ UNCHANGED <<mutex, run, srcl, af, mixer, mixerVars, pc, arg, held, bufVars>>

(* aubuf_write of one frame: past max_sz the oldest frame is dropped.      *)
SourcePut(s) ==
  /\ Live(s)
  /\ s \in Fed
  /\ buf' = [buf EXCEPT ![s] = IF @ < MaxFrames THEN @ + 1 ELSE @]
  /\ UNCHANGED <<mutex, run, srcl, af, mixerVars, pc, arg, refVars, filling>>

SourceFlush(s) ==
  /\ Live(s)
  /\ s \in Fed
  /\ buf' = [buf EXCEPT ![s] = 0]
  /\ filling' = [filling EXCEPT ![s] = TRUE]
  /\ UNCHANGED <<mutex, run, srcl, af, mixerVars, pc, arg, refVars>>

(* A call of aumix_source_enable looks at src->le.list before it takes the *)
(* mutex, and returns at once if there is nothing to do.                   *)
SourceEnable(t, s) ==
  /\ pc[t] = "idle"
  /\ Live(s)
  /\ Goto(t, IF s \in srcl THEN "disable" ELSE "enable")
  /\ arg' = [arg EXCEPT ![t] = s]
  /\ UNCHANGED <<mutex, run, srcl, af, mixerVars, bufVars, refVars>>

(* A fault: the source is freed without leaving the list.                  *)
SourceDerefListed(t, s) ==
  /\ pc[t] = "idle"
  /\ Live(s)
  /\ \A u \in Threads : arg[u] # s
  /\ life' = [life EXCEPT ![s] = "dying"]
  /\ Goto(t, "free")
  /\ arg' = [arg EXCEPT ![t] = s]
  /\ UNCHANGED <<mutex, run, srcl, af, mixer, mixerVars, held, bufVars>>

(* The last reference to a source is dropped: nobody else is using it.     *)
SourceDeref(t, s) ==
  /\ pc[t] = "idle"
  /\ Live(s)
  /\ \A u \in Threads : arg[u] # s
  /\ life' = [life EXCEPT ![s] = "dying"]
  /\ Goto(t, IF s \in srcl THEN "destroy" ELSE "free")
  /\ arg' = [arg EXCEPT ![t] = s]
  /\ UNCHANGED <<mutex, run, srcl, af, mixer, mixerVars, held, bufVars>>

(* aumix_playfile, once the file is open and has the mixer's format.       *)
Playfile(t) ==
  /\ pc[t] = "idle"
  /\ held
  /\ Goto(t, "playfile")
  /\ UNCHANGED <<mutex, run, srcl, af, mixerVars, arg, bufVars, refVars>>

(* The application drops its reference to the mixer, in no call on it.     *)
MixDeref(t) ==
  /\ pc[t] = "idle"
  /\ held
  /\ \A u \in Threads : pc[u] # "idle" => arg[u] # NoSource
  /\ held' = FALSE
  /\ Goto(t, IF Referenced(FALSE, life) THEN "idle" ELSE "close")
  /\ UNCHANGED <<mutex, run, srcl, af, mixer, mixerVars, arg, life, bufVars>>

(* Whatever the call, it takes the mutex and goes on to its own step.      *)
AfterLock(label) ==
  CASE label = "enable"   -> "append"
    [] label = "disable"  -> "unlink"
    [] label = "destroy"  -> "unlist"
    [] label = "playfile" -> "setfile"
    [] label = "close"    -> "stop"

AppLock(t) ==
  /\ pc[t] \in AppLocking
  /\ mutex = Free
  /\ mutex' = t
  /\ Goto(t, AfterLock(pc[t]))
  /\ UNCHANGED <<run, srcl, af, mixerVars, arg, bufVars, refVars>>

(* Faults: the thread is not signalled; the mutex is not taken.            *)
EnableAppendSilent(t) ==
  /\ pc[t] = "append"
  /\ srcl' = srcl \cup {arg[t]}
  /\ Goto(t, "unlock")
  /\ UNCHANGED <<mutex, run, af, mixerVars, arg, bufVars, refVars>>

EnableAppendUnlocked(t) ==
  /\ pc[t] \in {"enable", "append"}
  /\ srcl' = srcl \cup {arg[t]}
  /\ \/ pc[t] = "append" /\ Goto(t, "signal") /\ UNCHANGED arg
     \/ pc[t] = "enable" /\ Goto(t, "idle") /\ arg' = [arg EXCEPT ![t] = NoSource]
  /\ UNCHANGED <<mutex, run, af, mixerVars, bufVars, refVars>>

(* list_append, which ignores an element that is already in a list.        *)
EnableAppend(t) ==
  /\ pc[t] = "append"
  /\ srcl' = srcl \cup {arg[t]}
  /\ Goto(t, "signal")
  /\ UNCHANGED <<mutex, run, af, mixerVars, arg, bufVars, refVars>>

(* pthread_cond_signal.                                                    *)
Signal(t, from, to) ==
  /\ pc[t] = from
  /\ mpc' = IF mpc = "wait" THEN "woken" ELSE mpc
  /\ Goto(t, to)
  /\ UNCHANGED <<mutex, run, srcl, af, timed, lag, got, served, arg, bufVars, refVars>>

EnableSignal(t) == Signal(t, "signal", "unlock")

(* list_unlink, by a disable or by the destructor of a source.             *)
Unlink(t, from, to) ==
  /\ pc[t] = from
  /\ srcl' = srcl \ {arg[t]}
  /\ Goto(t, to)
  /\ UNCHANGED <<mutex, run, af, mixerVars, arg, bufVars, refVars>>

DisableUnlink(t) == Unlink(t, "unlink", "unlock")

DestroyUnlink(t) == Unlink(t, "unlist", "unlistunlock")

PlayfileSet(t) ==
  /\ pc[t] = "setfile"
  /\ af' \in 0 .. FileFrames
  /\ Goto(t, "unlock")
  /\ UNCHANGED <<mutex, run, srcl, mixerVars, arg, bufVars, refVars>>

(* Fault: the thread is not signalled.                                     *)
CloseStopSilent(t) ==
  /\ pc[t] = "stop"
  /\ run' = FALSE
  /\ Goto(t, "stopunlock")
  /\ UNCHANGED <<mutex, srcl, af, mixerVars, arg, bufVars, refVars>>

CloseStop(t) ==
  /\ pc[t] = "stop"
  /\ run' = FALSE
  /\ Goto(t, "stopsignal")
  /\ UNCHANGED <<mutex, srcl, af, mixerVars, arg, bufVars, refVars>>

CloseSignal(t) == Signal(t, "stopsignal", "stopunlock")

AfterUnlock(label) ==
  CASE label = "unlock"       -> "idle"
    [] label = "unlistunlock" -> "free"
    [] label = "stopunlock"   -> "join"

AppUnlock(t) ==
  /\ pc[t] \in {"unlock", "unlistunlock", "stopunlock"}
  /\ mutex' = Free
  /\ Goto(t, AfterUnlock(pc[t]))
  /\ arg' = [arg EXCEPT ![t] = IF pc[t] = "unlistunlock" THEN @ ELSE NoSource]
  /\ UNCHANGED <<run, srcl, af, mixerVars, bufVars, refVars>>

(* The source is freed, and with it its reference to the mixer: the last   *)
(* one runs the destructor of the mixer.                                   *)
DestroyFree(t) ==
  /\ pc[t] = "free"
  /\ life' = [life EXCEPT ![arg[t]] = "freed"]
  /\ Goto(t, IF Referenced(held, life') THEN "idle" ELSE "close")
  /\ arg' = [arg EXCEPT ![t] = NoSource]
  /\ UNCHANGED <<mutex, run, srcl, af, mixer, mixerVars, held, bufVars>>

(* Fault: the mixer is freed while its thread may still run.               *)
CloseDetached(t) ==
  /\ pc[t] = "join"
  /\ mixer' = "freed"
  /\ af' = NoFile
  /\ Goto(t, "idle")
  /\ UNCHANGED <<mutex, run, srcl, mixerVars, arg, life, held, bufVars>>

(* pthread_join, after which the mixer is freed.                           *)
CloseJoin(t) ==
  /\ pc[t] = "join"
  /\ mpc = "done"
  /\ mixer' = "freed"
  /\ af' = NoFile
  /\ Goto(t, "idle")
  /\ UNCHANGED <<mutex, run, srcl, mixerVars, arg, life, held, bufVars>>

(* Nothing is left to do.                                                  *)
Terminated ==
  /\ mixer = "freed"
  /\ \A t \in Threads : pc[t] = "idle"
  /\ UNCHANGED vars

-----------------------------------------------------------------------------

ThreadLocks == ThreadLock \/ ThreadWake \/ ThreadSlept

ThreadRuns ==
  \/ ThreadStart
  \/ ThreadTop
  \/ ThreadCheck
  \/ ThreadBase
  \/ \E s \in Sources : ThreadRead(s)
  \/ ThreadReadEnd
  \/ \E s \in Sources : ThreadMix(s)
  \/ ThreadRoundEnd

AppRuns(t) ==
  \/ EnableAppend(t)
  \/ EnableSignal(t)
  \/ DisableUnlink(t)
  \/ DestroyUnlink(t)
  \/ PlayfileSet(t)
  \/ CloseStop(t)
  \/ CloseSignal(t)
  \/ AppUnlock(t)
  \/ DestroyFree(t)
  \/ CloseJoin(t)

AppCalls(t) ==
  \/ \E s \in Sources : SourceEnable(t, s) \/ SourceDeref(t, s)
  \/ Playfile(t)
  \/ MixDeref(t)

Next ==
  \/ ThreadLocks
  \/ ThreadRuns
  \/ SpuriousWakeup
  \/ Tick
  \/ \E s \in Sources : SourceAlloc(s) \/ SourcePut(s) \/ SourceFlush(s)
  \/ \E t \in Threads : AppCalls(t) \/ AppLock(t) \/ AppRuns(t)
  \/ Terminated

Spec == Init /\ [][Next]_vars

(* Every thread keeps running, the clock advances, and a thread that waits *)
(* for the mutex gets it if it is free again and again.                    *)
Fairness ==
  /\ WF_vars(ThreadRuns)
  /\ SF_vars(ThreadLocks)
  /\ WF_vars(Tick)
  /\ \A t \in Threads : WF_vars(AppRuns(t)) /\ SF_vars(AppLock(t))

FairSpec == Spec /\ Fairness

(* The application also keeps putting samples into the sources it feeds.   *)
FedSpec == FairSpec /\ \A s \in Fed : WF_vars(SourcePut(s))

-----------------------------------------------------------------------------
(* Properties.                                                             *)

(* Every variable has its type.                                            *)
TypeOK ==
  /\ mutex \in Threads \cup {Free, Mixer}
  /\ run \in BOOLEAN
  /\ srcl \subseteq Sources
  /\ af \in -1 .. FileFrames
  /\ mixer \in {"live", "freed"}
  /\ mpc \in MixerPcs
  /\ timed \in BOOLEAN
  /\ lag \in -Ptime .. MaxLag
  /\ got \subseteq Sources
  /\ served \subseteq Sources
  /\ pc \in [Threads -> AppPcs]
  /\ arg \in [Threads -> Sources \cup {NoSource}]
  /\ life \in [Sources -> {"none", "live", "dying", "freed"}]
  /\ held \in BOOLEAN
  /\ buf \in [Sources -> 0 .. MaxFrames]
  /\ filling \in [Sources -> BOOLEAN]

(* The owner of the mutex is the one thread between a lock and an unlock.  *)
Locking ==
  /\ mutex = Mixer <=> mpc \in MixerLocked
  /\ \A t \in Threads : mutex = t <=> pc[t] \in AppLocked

(* No wakeup is lost: while the mixer thread waits there is no source to   *)
(* serve and no request to stop, or the thread that made the change still  *)
(* holds the mutex and is about to signal.                                 *)
NoLostWakeup ==
  mpc = "wait" =>
    /\ srcl = {} \/ \E t \in Threads : pc[t] = "signal"
    /\ run \/ \E t \in Threads : pc[t] = "stopsignal"

(* The mixer thread reads the buffer and calls the handler of sources that *)
(* exist: a freed source has left the list, and nobody can put it back.    *)
ListedAlive == \A s \in srcl : life[s] \in {"live", "dying"}

(* The mixer, its mutex and its condition outlive every thread that uses   *)
(* them.                                                                   *)
MixerAlive ==
  mixer = "freed" =>
    /\ mpc = "done"
    /\ \A t \in Threads : pc[t] = "idle"
    /\ srcl = {}

(* One round is about one set of sources: those whose frames were taken    *)
(* from their buffers are those that are mixed and served.  No source is   *)
(* mixed from a frame of an earlier round (or never written at all), and   *)
(* no frame is taken from a buffer and then thrown away.                   *)
RoundWhole ==
  /\ mpc = "read" => got \subseteq srcl
  /\ mpc = "mix" => got = srcl /\ served \subseteq got

(* The mixer thread could not allocate its frames, and ended at once.      *)
Stillborn == mpc = "done" /\ run

(* A source that stays enabled is served again and again, ...              *)
EnabledServed ==
  \A s \in Sources :
    <>[](s \in srcl /\ ~Stillborn) => []<>(mpc = "mix" /\ s \in served)

(* ... and its buffer does not fill up for ever: as long as samples are    *)
(* put, it plays again, or the application flushes it.                     *)
SoundReturns ==
  \A s \in Fed :
    <>[](s \in srcl /\ ~Stillborn) => []<>(~filling[s] \/ buf[s] = 0)

(* Every call on the mixer returns: enable, disable, the destructors.      *)
CallsReturn == \A t \in Threads : pc[t] # "idle" ~> pc[t] = "idle"

(* When the last reference to the mixer is gone, its thread ends and the   *)
(* mixer is freed.                                                         *)
MixerEnds == ~Referenced(held, life) ~> mixer = "freed"

(* The inductive invariant.  Beyond the properties above it says who may   *)
(* be where: a call is about a source that is alive; ...                   *)
CallsAlive ==
  \A t \in Threads :
    /\ pc[t] \in {"idle", "playfile", "setfile"} \cup Closing => arg[t] = NoSource
    /\ pc[t] \in {"enable", "append", "signal", "disable", "unlink"} => arg[t] \in Sources
    /\ pc[t] \in Destroying => arg[t] \in Sources /\ life[arg[t]] = "dying"
    /\ pc[t] \notin Destroying /\ arg[t] \in Sources => life[arg[t]] = "live"

(* ... a source dies in one call, no other call is about it, and once it   *)
(* has left the list it stays out; ...                                     *)
DyingAlone ==
  \A t \in Threads : pc[t] \in Destroying =>
    /\ \A u \in Threads \ {t} : arg[u] # arg[t]
    /\ pc[t] \in {"unlistunlock", "free"} => arg[t] \notin srcl

(* ... the mixer ends after its last reference and all other calls; ...    *)
ClosingLast ==
  /\ \A t \in Threads : pc[t] \in Closing =>
       ~Referenced(held, life) /\ \A u \in Threads \ {t} : pc[u] = "idle"
  /\ \A t \in Threads : pc[t] # "idle" /\ pc[t] \notin Closing /\ arg[t] = NoSource => held
  /\ mixer = "freed" => ~Referenced(held, life)

(* ... and a round begins with nobody served, when it is due.              *)
RoundOpen ==
  /\ mpc = "read" => served = {}
  /\ mpc \in {"base", "read", "mix"} => lag >= 0

IInv ==
  /\ TypeOK
  /\ Locking
  /\ NoLostWakeup
  /\ ListedAlive
  /\ MixerAlive
  /\ RoundWhole
  /\ CallsAlive
  /\ DyingAlone
  /\ ClosingLast
  /\ RoundOpen

(* The mixer thread, the mutex and the condition implement the bridge: a   *)
(* round there is what the thread does between its two passes.             *)
Rounds == INSTANCE Bridge WITH
  members <- srcl,
  queue <- buf,
  given <- IF mpc \in {"read", "mix"} THEN got ELSE {},
  heard <- IF mpc = "mix" THEN served ELSE {},
  over <- mixer = "freed"

ImplementsBridge == Rounds!BridgeSpec
=============================================================================
