------------------------------- MODULE VpeDrv --------------------------------
(***************************************************************************)
(* The driver of the video processing engine (drivers/char/vpe in the      *)
(* Linux tree of the W55FA92): one engine that scales and converts one     *)
(* picture at a time for whoever has the device open, and interrupts when  *)
(* it is done.                                                             *)
(*                                                                         *)
(* The threads are of the process that has the file open, or would like    *)
(* to open it.  There is one CPU.  open and close can be preempted; an     *)
(* ioctl holds the big kernel lock (vfs_ioctl), which disables preemption  *)
(* except where the call sleeps, so an ioctl is one step but for its       *)
(* sleeps and for the places where it spins on the engine.  The interrupt  *)
(* handler is one step, which may come between any two others.             *)
(*                                                                         *)
(* Left out: the registers that describe a picture, the page faults of the *)
(* engine, after which its handler just lets it go on, and priv->state,    *)
(* which nobody reads.                                                     *)
(***************************************************************************)
EXTENDS Integers, FiniteSets

CONSTANTS
  Threads,      \* threads that use the device
  Nobody,       \* no thread
  Ops,          \* <<t, op>>: thread t makes calls of this kind
  IrqMayFail    \* whether request_irq may fail

ASSUME VpeAssumption ==
  /\ Nobody \notin Threads
  /\ IsFiniteSet(Threads)
  /\ Ops \subseteq Threads \X {"open", "close", "trigger", "wait", "stop"}
  /\ IrqMayFail \in BOOLEAN

VARIABLES
  avail,        \* vpe_avail
  sem,          \* vpe_lock, 1 when it is free
  open,         \* the device file is open
  lost,         \* an open has failed half-way
  clk,          \* how often the clocks of the engine are enabled
  irq,          \* irq_requested: the handler is installed, with priv
  go,           \* the GO bit: the engine runs
  ints,         \* its completion interrupt is pending
  complete,     \* bIsVPEComplete
  stop,         \* vpe_stop
  bkl,          \* the thread that runs with preemption disabled
  pc,           \* where each thread is
  asleep,       \* the threads that sleep in vpe_wq
  hurried,      \* a picture has been started in the middle of another one
  aborted       \* the engine has aborted a DMA

engineVars == <<go, ints, complete>>
fileVars == <<avail, sem, open, lost, clk, irq>>
pastVars == <<hurried, aborted>>
vars == <<avail, sem, open, lost, clk, irq, go, ints, complete, stop, bkl, pc, asleep,
          hurried, aborted>>

(* Where open, close and the ioctls stop and go on.                        *)
Opening == {"openlock", "openhw", "openirq"}
Closing == {"spingo", "spindone", "freeirq", "closehw", "up", "inc"}
Calling == {"fault", "fire", "wait", "spinstop", "stopped"}
Pcs == Opening \cup Closing \cup Calling \cup {"idle", "busy"}

Init ==
  /\ avail = 1
  /\ sem = 1
  /\ open = FALSE
  /\ lost = FALSE
  /\ clk = 0
  /\ irq = FALSE
  /\ go = FALSE
  /\ ints = FALSE
  /\ complete = TRUE
  /\ stop = FALSE
  /\ bkl = Nobody
  /\ pc = [t \in Threads |-> "idle"]
  /\ asleep = {}
  /\ hurried = FALSE
  /\ aborted = FALSE

(* A thread can run: no other one has disabled preemption.                 *)
Runs(t) == bkl \in {Nobody, t}

Calls(op, t) == <<t, op>> \in Ops /\ pc[t] = "idle" /\ Runs(t)

Goes(t, from, to) ==
  /\ pc[t] = from
  /\ Runs(t)
  /\ pc' = [pc EXCEPT ![t] = to]

-----------------------------------------------------------------------------
(* w55fa92_vpe_open.                                                       *)

(* A fault: the count is read, and taken by those who go away only.        *)
OpenTryTested(t) ==
  /\ Calls("open", t)
  /\ pc' = [pc EXCEPT ![t] = IF avail = 1 THEN "openlock" ELSE "busy"]
  /\ avail' = IF avail = 1 THEN avail ELSE avail - 1
  /\ UNCHANGED <<sem, open, lost, clk, irq, engineVars, stop, bkl, asleep, pastVars>>

(* atomic_dec_and_test(&vpe_avail).                                        *)
OpenTry(t) ==
  /\ Calls("open", t)
  /\ avail' = avail - 1
  /\ pc' = [pc EXCEPT ![t] = IF avail' = 0 THEN "openlock" ELSE "busy"]
  /\ UNCHANGED <<sem, open, lost, clk, irq, engineVars, stop, bkl, asleep, pastVars>>

(* Busy: the count is given back.                                          *)
OpenBusy(t) ==
  /\ Goes(t, "busy", "idle")
  /\ avail' = avail + 1
  /\ UNCHANGED <<sem, open, lost, clk, irq, engineVars, stop, bkl, asleep, pastVars>>

(* down_trylock(&vpe_lock); where it fails, the count is not given back.   *)
OpenLock(t) ==
  /\ Goes(t, "openlock", IF sem = 1 THEN "openhw" ELSE "idle")
  /\ sem' = 0
  /\ lost' = (lost \/ sem = 0)
  /\ UNCHANGED <<avail, open, clk, irq, engineVars, stop, bkl, asleep, pastVars>>

(* vpeOpen enables the clocks and resets the engine.                       *)
OpenHw(t) ==
  /\ Goes(t, "openhw", "openirq")
  /\ clk' = clk + 1
  /\ go' = FALSE
  /\ ints' = FALSE
  /\ UNCHANGED <<avail, sem, open, lost, irq, complete, stop, bkl, asleep, pastVars>>

(* Without its interrupt the open fails, and gives nothing back.           *)
OpenIrq(t) ==
  /\ Goes(t, "openirq", "idle")
  /\ \/ irq' = TRUE /\ open' = TRUE /\ UNCHANGED lost
     \/ IrqMayFail /\ lost' = TRUE /\ UNCHANGED <<irq, open>>
  /\ stop' = FALSE
  /\ UNCHANGED <<avail, sem, clk, engineVars, bkl, asleep, pastVars>>

-----------------------------------------------------------------------------
(* w55fa92_vpe_close, when the last reference to the file goes: no call is *)
(* in progress.                                                            *)

Close(t) ==
  /\ Calls("close", t)
  /\ open
  /\ \A u \in Threads : pc[u] \notin Calling
  /\ open' = FALSE
  /\ pc' = [pc EXCEPT ![t] = "spingo"]
  /\ UNCHANGED <<avail, sem, lost, clk, irq, engineVars, stop, bkl, asleep, pastVars>>

(* A fault: the engine is not waited for.                                  *)
CloseIdleHasty(t) ==
  /\ Goes(t, "spingo", "freeirq")
  /\ UNCHANGED <<fileVars, engineVars, stop, bkl, asleep, pastVars>>

(* It spins while the engine runs, ...                                     *)
CloseIdle(t) ==
  /\ ~go
  /\ Goes(t, "spingo", "spindone")
  /\ UNCHANGED <<fileVars, engineVars, stop, bkl, asleep, pastVars>>

(* ... and until the interrupt has come.                                   *)
CloseDone(t) ==
  /\ complete
  /\ Goes(t, "spindone", "freeirq")
  /\ UNCHANGED <<fileVars, engineVars, stop, bkl, asleep, pastVars>>

CloseFreeIrq(t) ==
  /\ Goes(t, "freeirq", "closehw")
  /\ irq' = FALSE
  /\ UNCHANGED <<avail, sem, open, lost, clk, engineVars, stop, bkl, asleep, pastVars>>

(* vpeClose disables the clocks.                                           *)
CloseHw(t) ==
  /\ Goes(t, "closehw", "up")
  /\ clk' = clk - 1
  /\ UNCHANGED <<avail, sem, open, lost, irq, engineVars, stop, bkl, asleep, pastVars>>

CloseUp(t) ==
  /\ Goes(t, "up", "inc")
  /\ sem' = 1
  /\ UNCHANGED <<avail, open, lost, clk, irq, engineVars, stop, bkl, asleep, pastVars>>

CloseInc(t) ==
  /\ Goes(t, "inc", "idle")
  /\ avail' = avail + 1
  /\ UNCHANGED <<sem, open, lost, clk, irq, engineVars, stop, bkl, asleep, pastVars>>

-----------------------------------------------------------------------------
(* w55fa92_vpe_ioctl.                                                      *)

(* VPE_TRIGGER of a stopped device does nothing.  The pages of the new     *)
(* picture are faulted in, which may sleep.  The applications only start a *)
(* picture when the last one is done and nobody is still to hear of it;    *)
(* hurried remembers callers that did not.                                 *)
Trigger(t) ==
  /\ Calls("trigger", t)
  /\ open /\ ~stop
  /\ pc' = [pc EXCEPT ![t] = "fault"]
  /\ hurried' = (hurried \/ ~complete \/ \E u \in Threads : pc[u] \in {"fault", "fire", "wait"})
  /\ UNCHANGED <<fileVars, engineVars, stop, bkl, asleep, aborted>>

(* A fault: bIsVPEComplete is left as the last picture left it.            *)
TriggerClearNot(t) ==
  /\ Goes(t, "fault", "fire")
  /\ bkl' = t
  /\ UNCHANGED <<fileVars, engineVars, stop, asleep, pastVars>>

TriggerClear(t) ==
  /\ Goes(t, "fault", "fire")
  /\ complete' = FALSE
  /\ bkl' = t
  /\ UNCHANGED <<fileVars, go, ints, stop, asleep, pastVars>>

(* vpeTrigger spins while the engine runs, and starts it.                  *)
TriggerGo(t) ==
  /\ Goes(t, "fire", "idle")
  /\ ~go
  /\ go' = TRUE
  /\ bkl' = Nobody
  /\ UNCHANGED <<fileVars, ints, complete, stop, asleep, pastVars>>

(* VPE_WAIT_INTERRUPT goes to sleep, unless the engine is done.            *)
Wait(t) ==
  /\ Calls("wait", t)
  /\ open /\ ~complete
  /\ pc' = [pc EXCEPT ![t] = "wait"]
  /\ asleep' = asleep \cup {t}
  /\ UNCHANGED <<fileVars, engineVars, stop, bkl, pastVars>>

(* Woken up, it returns if the engine is done, and sleeps again if not.    *)
WaitWakes(t) ==
  /\ t \notin asleep
  /\ Goes(t, "wait", IF complete THEN "idle" ELSE "wait")
  /\ asleep' = IF complete THEN asleep ELSE asleep \cup {t}
  /\ UNCHANGED <<fileVars, engineVars, stop, bkl, pastVars>>

(* A signal ends the wait.                                                 *)
WaitSignal(t) ==
  /\ Goes(t, "wait", "idle")
  /\ asleep' = asleep \ {t}
  /\ UNCHANGED <<fileVars, engineVars, stop, bkl, pastVars>>

(* VPE_STOP spins while the engine runs, ...                               *)
Stop(t) ==
  /\ Calls("stop", t)
  /\ open
  /\ pc' = [pc EXCEPT ![t] = "spinstop"]
  /\ bkl' = t
  /\ UNCHANGED <<fileVars, engineVars, stop, asleep, pastVars>>

StopWake(t) ==
  /\ ~go
  /\ Goes(t, "spinstop", "stopped")
  /\ asleep' = {}
  /\ UNCHANGED <<fileVars, engineVars, stop, bkl, pastVars>>

(* ... wakes the waiters and then tells them it is done.                   *)
StopDone(t) ==
  /\ Goes(t, "stopped", "idle")
  /\ complete' = TRUE
  /\ stop' = TRUE
  /\ bkl' = Nobody
  /\ UNCHANGED <<fileVars, go, ints, asleep, pastVars>>

-----------------------------------------------------------------------------
(* The engine and its interrupt.                                           *)

(* The GO bit is cleared before the interrupt comes.                       *)
EngineDone ==
  /\ go
  /\ go' = FALSE
  /\ ints' = TRUE
  /\ UNCHANGED <<fileVars, complete, stop, bkl, pc, asleep, pastVars>>

(* A DMA abort has no interrupt: vpeEnableInt refuses VPE_INT_DMA_ERR.     *)
EngineAborts ==
  /\ go
  /\ go' = FALSE
  /\ aborted' = TRUE
  /\ UNCHANGED <<fileVars, ints, complete, stop, bkl, pc, asleep, hurried>>

(* A fault: nobody is woken up.                                            *)
IrqHandlerSilent ==
  /\ irq
  /\ ints
  /\ ints' = FALSE
  /\ complete' = TRUE
  /\ UNCHANGED <<fileVars, go, stop, bkl, pc, asleep, pastVars>>

(* vpe_irq_handler wakes the waiters before it sets bIsVPEComplete: they   *)
(* cannot run before it is through.                                        *)
IrqHandler ==
  /\ irq
  /\ ints
  /\ ints' = FALSE
  /\ asleep' = {}
  /\ complete' = TRUE
  /\ UNCHANGED <<fileVars, go, stop, bkl, pc, pastVars>>

-----------------------------------------------------------------------------

ThreadSteps(t) ==
  \/ OpenBusy(t) \/ OpenLock(t) \/ OpenHw(t) \/ OpenIrq(t)
  \/ CloseIdle(t) \/ CloseDone(t) \/ CloseFreeIrq(t) \/ CloseHw(t)
  \/ CloseUp(t) \/ CloseInc(t)
  \/ TriggerClear(t) \/ TriggerGo(t)
  \/ WaitWakes(t)
  \/ StopWake(t) \/ StopDone(t)

ThreadCalls(t) ==
  \/ OpenTry(t) \/ Close(t) \/ Trigger(t) \/ Wait(t) \/ WaitSignal(t) \/ Stop(t)

Next ==
  \/ \E t \in Threads : ThreadSteps(t) \/ ThreadCalls(t)
  \/ EngineDone
  \/ EngineAborts
  \/ IrqHandler

Spec == Init /\ [][Next]_vars

(* A thread that can run does; the engine gets done; its interrupt comes.  *)
Fairness ==
  /\ \A t \in Threads : SF_vars(ThreadSteps(t))
  /\ WF_vars(EngineDone)
  /\ WF_vars(IrqHandler)

FairSpec == Spec /\ Fairness

-----------------------------------------------------------------------------
(* Properties.                                                             *)

(* Every variable has its type.                                            *)
TypeOK ==
  /\ avail \in Int /\ clk \in Int /\ sem \in {0, 1}
  /\ open \in BOOLEAN /\ lost \in BOOLEAN /\ irq \in BOOLEAN
  /\ go \in BOOLEAN /\ ints \in BOOLEAN /\ complete \in BOOLEAN /\ stop \in BOOLEAN
  /\ hurried \in BOOLEAN /\ aborted \in BOOLEAN
  /\ bkl \in Threads \cup {Nobody}
  /\ pc \in [Threads -> Pcs]
  /\ asleep \subseteq Threads

Users == {t \in Threads : pc[t] \in Opening \cup Closing}

(* The device is held by an open file, by a thread that opens or closes it,*)
(* or by an open that failed.                                              *)
Held == Cardinality(Users) + (IF open THEN 1 ELSE 0) + (IF lost THEN 1 ELSE 0)

(* The device has one user ("Single-open policy"); the count never drifts, *)
(* however many opens are refused at once; and the semaphore never refuses *)
(* an open that the count has let through.                                 *)
OneUser ==
  /\ Held <= 1
  /\ avail = 1 - Held - Cardinality({t \in Threads : pc[t] = "busy"})
  /\ \A t \in Threads : pc[t] = "openlock" => sem = 1

(* The engine only runs, and its handler is only installed, for an open    *)
(* file: it never writes into the memory of a process that has closed the  *)
(* device, and the handler never finds priv freed.  Nothing is kept for a  *)
(* device that nobody uses.                                                *)
EngineOwned ==
  /\ go => clk = 1 /\ irq /\ (open \/ \E t \in Threads : pc[t] = "spingo")
  /\ irq => open \/ \E t \in Threads : pc[t] \in {"spingo", "spindone", "freeirq"}
  /\ Users = {} /\ ~open /\ ~lost => sem = 1 /\ clk = 0

(* What VPE_WAIT_INTERRUPT reports is so, where the callers wait for each  *)
(* picture before the next: the picture is finished, and the engine does   *)
(* not write to it any more.                                               *)
DoneMeansIdle == complete /\ ~hurried => ~go

(* Every open, close and ioctl of such callers returns, unless the engine  *)
(* aborts: the busy loops end, and so does a wait, without a signal.       *)
CallsReturn ==
  [](~hurried /\ ~aborted) => \A t \in Threads : pc[t] # "idle" ~> pc[t] = "idle"

(* What a step needs to know to keep the above.  The opens and closes that *)
(* have taken the count, the refused ones with them, the file and the open *)
(* that failed make it up; and who uses the device is alone.               *)
Counted == {t \in Threads : pc[t] \in Opening \cup Closing \cup {"busy"}}

Alone ==
  /\ avail = (IF open \/ lost THEN 0 ELSE 1) - Cardinality(Counted)
  /\ ~(open /\ lost)
  /\ \A t \in Users : ~open /\ ~lost /\ \A u \in Users : u = t
  /\ \A t \in Threads : pc[t] \in Calling => open

At(places) == \E t \in Threads : pc[t] \in places

(* The lock, the clocks, the handler and the engine are held at the right  *)
(* places.                                                                 *)
Owned ==
  /\ sem = 0 <=> open \/ lost \/ At({"openhw", "openirq", "spingo", "spindone", "freeirq",
                                     "closehw", "up"})
  /\ clk = (IF open \/ lost \/ At({"openirq", "spingo", "spindone", "freeirq", "closehw"})
            THEN 1 ELSE 0)
  /\ irq <=> open \/ At({"spingo", "spindone", "freeirq"})
  /\ go => open \/ At({"spingo"})
  /\ At({"openirq"}) => ~ints

(* Callers that wait for each picture have one at most, and its completion *)
(* is not taken for that of another.                                       *)
OnePicture ==
  /\ \A t \in Threads : pc[t] \in {"fire", "spinstop", "stopped"} => bkl = t
  /\ At({"stopped"}) => ~go
  /\ ~hurried =>
       /\ At({"fault", "fire"}) => ~go /\ ~ints
       /\ At({"fire"}) => ~complete
       /\ \A t, u \in Threads :
            pc[t] \in {"fault", "fire"} /\ pc[u] \in {"fault", "fire"} => t = u
       /\ go => ~ints
       /\ complete /\ ~stop => ~ints

(* Whoever gives the device back has heard of the last picture, and so has *)
(* whoever starts the next.                                                *)
Told ==
  /\ ~open => complete \/ At({"spingo", "spindone"})
  /\ At({"fault"}) => complete \/ hurried

IInv == TypeOK /\ Alone /\ Owned /\ OnePicture /\ DoneMeansIdle /\ Told

(* The driver implements the engine.  A device that says it is done while  *)
(* the engine runs is no state of the latter, unless callers have hurried. *)
Picture ==
  IF hurried THEN "muddle"
  ELSE IF complete THEN IF go THEN "wrong" ELSE "none"
  ELSE IF go THEN "drawing"
  ELSE IF ints THEN "drawn"
  ELSE IF At({"fire"}) THEN "asked" ELSE "aborted"

Holder ==
  IF open \/ Users # {} THEN "somebody" ELSE IF lost THEN "lost" ELSE "nobody"

Eng == INSTANCE Engine WITH MayAbandon <- FALSE, holder <- Holder, picture <- Picture

ImplementsEngine == Eng!EngSpec
=============================================================================
