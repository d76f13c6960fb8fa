------------------------------- MODULE BltDrv --------------------------------
(***************************************************************************)
(* The driver of the blitter (drivers/char/blt in the Linux tree of the    *)
(* W55FA92): an engine that copies or fills one rectangle at a time for    *)
(* whoever has the device open, and interrupts when it is done.            *)
(*                                                                         *)
(* As in VpeDrv there is one CPU, open and close can be preempted, and an  *)
(* ioctl holds the big kernel lock, which disables preemption except where *)
(* the call sleeps: where it touches the memory of its caller.  The        *)
(* interrupt handler is one step, which may come between any two others.   *)
(*                                                                         *)
(* Left out: what the registers describe, the ioctls that only read them,  *)
(* calls that are refused, which change nothing, and the page faults of    *)
(* the engine, which its handler serves without changing anything here.    *)
(***************************************************************************)
EXTENDS Integers, FiniteSets

CONSTANTS
  Threads,      \* threads that use the device
  Nobody,       \* no thread
  Ops,          \* <<t, op>>: thread t makes calls of this kind
  MaxFailures   \* how many opens may fail, for want of memory or of the interrupt

ASSUME BltAssumption ==
  /\ Nobody \notin Threads
  /\ IsFiniteSet(Threads)
  /\ Ops \subseteq Threads \X {"open", "close", "set", "mmu", "trigger", "flush"}
  /\ MaxFailures \in Nat

VARIABLES
  avail,        \* blt_avail
  file,         \* the device file is open
  priv,         \* its blt_priv_t is allocated
  by, mmu,      \* BLT_STAT_BY and BLT_STAT_MMU
  irq,          \* irq_requested: the handler is installed
  inte,         \* the completion interrupt is enabled
  cb,           \* what the callback is given: not installed, priv or null
  known,        \* clk_blt is no null pointer
  clk,          \* how often the clock of the engine is enabled
  go, ints,     \* the engine runs, its completion interrupt is pending
  bkl,          \* the thread that runs with preemption disabled
  pc,           \* where each thread is
  raced,        \* a call found the engine busy after it had slept
  spoiled       \* the registers of a picture have changed while it was made

gateVars == <<avail, file, priv>>
statVars == <<by, mmu>>
irqVars == <<irq, inte, cb>>
clkVars == <<known, clk>>
engineVars == <<go, ints>>
pastVars == <<raced, spoiled>>
hwVars == <<irqVars, clkVars, engineVars>>
vars == <<gateVars, statVars, hwVars, bkl, pc, pastVars>>

(* Where open, close and the other calls stop and go on.  A failing open   *)
(* closes.                                                                 *)
Opening == {"alloc", "request", "clock", "reset", "install"}
Closing == {"disable", "null", "unclock", "free", "kfree", "inc"}
Setting == {"copy", "copymore"}
Triggering == {"fault", "armed"}
Waiting == {"test", "sleep"}
Calling == Setting \cup Triggering \cup Waiting
Pcs == Opening \cup Closing \cup Calling \cup {"idle", "busy", "oops"}

Init ==
  /\ avail = 1
  /\ file = FALSE /\ priv = FALSE /\ by = FALSE /\ mmu = FALSE
  /\ irq = FALSE /\ inte = FALSE /\ cb = "none"
  /\ known = FALSE /\ clk = 0
  /\ go = FALSE /\ ints = FALSE
  /\ bkl = Nobody
  /\ pc = [t \in Threads |-> "idle"]
  /\ raced = FALSE /\ spoiled = FALSE

Goes(t, from, to) ==
  /\ pc[t] = from
  /\ bkl \in {Nobody, t}
  /\ pc' = [pc EXCEPT ![t] = to]

Calls(op, t, to) == <<t, op>> \in Ops /\ Goes(t, "idle", to)

-----------------------------------------------------------------------------
(* w55fa92_blt_open.                                                       *)

(* Each open that fails costs an enabling of the clock.                    *)
MayFail == clk > -MaxFailures

OpenTry(t) ==
  /\ Calls("open", t, IF avail = 1 THEN "alloc" ELSE "busy")
  /\ avail' = avail - 1
  /\ UNCHANGED <<file, priv, statVars, hwVars, bkl, pastVars>>

(* A fault: a refused open keeps the count.                                *)
OpenBusyKeeps(t) ==
  /\ Goes(t, "busy", "idle")
  /\ UNCHANGED <<gateVars, statVars, hwVars, bkl, pastVars>>

OpenBusy(t) ==
  /\ Goes(t, "busy", "idle")
  /\ avail' = avail + 1
  /\ UNCHANGED <<file, priv, statVars, hwVars, bkl, pastVars>>

OpenAlloc(t) ==
  /\ \/ Goes(t, "alloc", "request") /\ priv' = TRUE /\ by' = FALSE /\ mmu' = FALSE
     \/ MayFail /\ Goes(t, "alloc", "disable") /\ UNCHANGED <<priv, statVars>>
  /\ UNCHANGED <<avail, file, hwVars, bkl, pastVars>>

OpenRequest(t) ==
  /\ \/ Goes(t, "request", "clock") /\ irq' = TRUE
     \/ MayFail /\ Goes(t, "request", "disable") /\ UNCHANGED irq
  /\ UNCHANGED <<gateVars, statVars, inte, cb, clkVars, engineVars, bkl, pastVars>>

(* bltOpen enables the clock, with which a picture of an earlier user goes *)
(* on, ...                                                                 *)
OpenClock(t) ==
  /\ Goes(t, "clock", "reset")
  /\ known' = TRUE
  /\ clk' = clk + 1
  /\ UNCHANGED <<gateVars, statVars, irqVars, engineVars, bkl, pastVars>>

(* A fault: the engine is not reset.                                       *)
OpenResetNot(t) ==
  /\ Goes(t, "reset", "install")
  /\ UNCHANGED <<gateVars, statVars, hwVars, bkl, pastVars>>

(* ... and resets the engine.                                              *)
OpenReset(t) ==
  /\ Goes(t, "reset", "install")
  /\ go' = FALSE
  /\ ints' = FALSE
  /\ spoiled' = FALSE
  /\ UNCHANGED <<gateVars, statVars, irqVars, clkVars, bkl, raced>>

OpenInstall(t) ==
  /\ Goes(t, "install", "idle")
  /\ cb' = "priv"
  /\ inte' = TRUE
  /\ file' = TRUE
  /\ UNCHANGED <<avail, priv, statVars, irq, clkVars, engineVars, bkl, pastVars>>

-----------------------------------------------------------------------------
(* w55fa92_blt_close, when the last reference to the file goes: no call is *)
(* in progress.  It does not wait for the engine.                          *)

Close(t) ==
  /\ file
  /\ \A u \in Threads : pc[u] \notin Calling
  /\ Calls("close", t, "disable")
  /\ file' = FALSE
  /\ UNCHANGED <<avail, priv, statVars, hwVars, bkl, pastVars>>

(* A fault: the completion interrupt stays enabled.                        *)
CloseDisableNot(t) ==
  /\ Goes(t, "disable", "null")
  /\ UNCHANGED <<gateVars, statVars, hwVars, bkl, pastVars>>

CloseDisable(t) ==
  /\ Goes(t, "disable", "null")
  /\ inte' = FALSE
  /\ UNCHANGED <<gateVars, statVars, irq, cb, clkVars, engineVars, bkl, pastVars>>

CloseNull(t) ==
  /\ Goes(t, "null", "unclock")
  /\ cb' = "null"
  /\ UNCHANGED <<gateVars, statVars, irq, inte, clkVars, engineVars, bkl, pastVars>>

(* bltClose disables a clock that an open which failed has not enabled; if *)
(* no open ever has, clk_disable is given a null pointer.                  *)
CloseUnclock(t) ==
  /\ Goes(t, "unclock", IF known THEN "free" ELSE "oops")
  /\ clk' = IF known THEN clk - 1 ELSE clk
  /\ UNCHANGED <<gateVars, statVars, irqVars, known, engineVars, bkl, pastVars>>

CloseFree(t) ==
  /\ Goes(t, "free", "kfree")
  /\ irq' = FALSE
  /\ UNCHANGED <<gateVars, statVars, inte, cb, clkVars, engineVars, bkl, pastVars>>

CloseKfree(t) ==
  /\ Goes(t, "kfree", "inc")
  /\ priv' = FALSE
  /\ UNCHANGED <<avail, file, statVars, hwVars, bkl, pastVars>>

CloseInc(t) ==
  /\ Goes(t, "inc", "idle")
  /\ avail' = avail + 1
  /\ UNCHANGED <<file, priv, statVars, hwVars, bkl, pastVars>>

-----------------------------------------------------------------------------
(* w55fa92_blt_ioctl and w55fa92_blt_read.                                 *)

(* BLT_IOCSBLIT and BLT_IOCSFILL test the busy bit, copy the operation     *)
(* from user space, which may sleep, and set the registers; a palette and  *)
(* a transformation are copied after the first of them.                    *)
Set(t) ==
  /\ file /\ ~by
  /\ Calls("set", t, "copy")
  /\ UNCHANGED <<gateVars, statVars, hwVars, bkl, pastVars>>

(* After a copy, which may have failed, registers are set.                 *)
SetRegisters(t) ==
  /\ \/ Goes(t, "copy", "copymore")
     \/ \E at \in Setting : Goes(t, at, "idle")
  /\ raced' = (raced \/ by)
  /\ spoiled' = (spoiled \/ go)
  /\ UNCHANGED <<gateVars, statVars, hwVars, bkl>>

SetFails(t) ==
  /\ \E at \in Setting : Goes(t, at, "idle")
  /\ UNCHANGED <<gateVars, statVars, hwVars, bkl, pastVars>>

(* BLT_IOCTMMU.                                                            *)
SetMmu(t) ==
  /\ file /\ ~by
  /\ Calls("mmu", t, "idle")
  /\ mmu' = ~mmu
  /\ UNCHANGED <<gateVars, by, hwVars, bkl, pastVars>>

(* A fault: the busy bit is set after the engine has been started.         *)
TriggerLate(t) ==
  /\ file /\ ~by
  /\ Calls("trigger", t, IF mmu THEN "fault" ELSE "armed")
  /\ UNCHANGED <<gateVars, statVars, hwVars, bkl, pastVars>>

(* BLT_IOCTRIGGER tests the busy bit, and with the MMU faults pages in,    *)
(* which may sleep, ...                                                    *)
Trigger(t) ==
  /\ file /\ ~by
  /\ IF mmu THEN Calls("trigger", t, "fault") /\ UNCHANGED <<by, bkl>>
            ELSE Calls("trigger", t, "armed") /\ by' = TRUE /\ bkl' = t
  /\ UNCHANGED <<gateVars, mmu, hwVars, pastVars>>

(* ... before it sets the bit.                                             *)
TriggerArm(t) ==
  /\ Goes(t, "fault", "armed")
  /\ by' = TRUE
  /\ bkl' = t
  /\ raced' = (raced \/ by)
  /\ UNCHANGED <<gateVars, mmu, hwVars, spoiled>>

TriggerGo(t) ==
  /\ Goes(t, "armed", "idle")
  /\ go' = TRUE
  /\ spoiled' = (spoiled /\ go)
  /\ bkl' = Nobody
  /\ UNCHANGED <<gateVars, statVars, irqVars, clkVars, ints, raced>>

(* BLT_IOCFLUSH and read join the wait queue and test the bit.             *)
Flush(t) ==
  /\ file
  /\ Calls("flush", t, "test")
  /\ UNCHANGED <<gateVars, statVars, hwVars, bkl, pastVars>>

FlushTest(t) ==
  /\ Goes(t, "test", IF by THEN "sleep" ELSE "idle")
  /\ UNCHANGED <<gateVars, statVars, hwVars, bkl, pastVars>>

(* A signal ends the wait.                                                 *)
FlushSignal(t) ==
  /\ Goes(t, "sleep", "idle")
  /\ UNCHANGED <<gateVars, statVars, hwVars, bkl, pastVars>>

-----------------------------------------------------------------------------
(* The engine and its interrupt.                                           *)

EngineDone ==
  /\ go
  /\ clk >= 1
  /\ go' = FALSE
  /\ ints' = TRUE
  /\ spoiled' = FALSE
  /\ UNCHANGED <<gateVars, statVars, irqVars, clkVars, bkl, pc, raced>>

Interrupted == irq /\ inte /\ ints

(* A fault: nobody is woken up.                                            *)
IrqHandlerSilent ==
  /\ Interrupted
  /\ ints' = FALSE
  /\ by' = FALSE
  /\ UNCHANGED <<gateVars, mmu, irqVars, clkVars, go, bkl, pc, pastVars>>

(* _blt_intr_hdlr acknowledges the interrupt; _cmplt_hdlr clears the busy  *)
(* bit and wakes the waiters, who test it again.                           *)
IrqHandler ==
  /\ Interrupted
  /\ ints' = FALSE
  /\ by' = (by /\ cb = "none")
  /\ pc' = [t \in Threads |-> IF pc[t] = "sleep" /\ cb # "none" THEN "test" ELSE pc[t]]
  /\ UNCHANGED <<gateVars, mmu, irqVars, clkVars, go, bkl, pastVars>>

-----------------------------------------------------------------------------

ThreadSteps(t) ==
  \/ OpenBusy(t) \/ OpenAlloc(t) \/ OpenRequest(t) \/ OpenClock(t) \/ OpenReset(t)
  \/ OpenInstall(t)
  \/ CloseDisable(t) \/ CloseNull(t) \/ CloseUnclock(t) \/ CloseFree(t)
  \/ CloseKfree(t) \/ CloseInc(t)
  \/ SetRegisters(t) \/ SetFails(t) \/ TriggerArm(t) \/ TriggerGo(t) \/ FlushTest(t)

ThreadCalls(t) ==
  \/ OpenTry(t) \/ Close(t) \/ Set(t) \/ SetMmu(t) \/ Trigger(t) \/ Flush(t)
  \/ FlushSignal(t)

Next ==
  \/ \E t \in Threads : ThreadSteps(t) \/ ThreadCalls(t)
  \/ EngineDone
  \/ IrqHandler

Spec == Init /\ [][Next]_vars

(* A thread that can run does; a clocked engine gets done; its interrupt   *)
(* comes.                                                                  *)
Fairness ==
  /\ \A t \in Threads : SF_vars(ThreadSteps(t))
  /\ WF_vars(EngineDone)
  /\ WF_vars(IrqHandler)

FairSpec == Spec /\ Fairness

-----------------------------------------------------------------------------
(* Properties.                                                             *)

(* Every variable has its type.                                            *)
TypeOK ==
  /\ avail \in Int /\ clk \in Int
  /\ file \in BOOLEAN /\ priv \in BOOLEAN /\ by \in BOOLEAN /\ mmu \in BOOLEAN
  /\ irq \in BOOLEAN /\ inte \in BOOLEAN /\ known \in BOOLEAN
  /\ go \in BOOLEAN /\ ints \in BOOLEAN /\ raced \in BOOLEAN /\ spoiled \in BOOLEAN
  /\ cb \in {"none", "priv", "null"}
  /\ bkl \in Threads \cup {Nobody}
  /\ pc \in [Threads -> Pcs]

Users == {t \in Threads : pc[t] \in Opening \cup Closing \cup {"oops"}}

Held == Cardinality(Users) + (IF file THEN 1 ELSE 0)

(* The device has one user ("Single-open policy"), and the count does not  *)
(* drift, however many opens are refused or fail.                          *)
OneUser ==
  /\ Held <= 1
  /\ avail = 1 - Held - Cardinality({t \in Threads : pc[t] = "busy"})

(* An interrupt never finds the callback without its priv, in the midst of *)
(* an open or a close, or of an open that fails.                           *)
CallbackAlive == Interrupted => priv /\ cb = "priv"

(* While the device is open its busy bit says whether the engine has       *)
(* something to do, and no picture has its registers changed while it is   *)
(* made, unless two calls have raced.                                      *)
BusyHonest ==
  file /\ ~raced =>
    /\ by <=> go \/ ints \/ \E t \in Threads : pc[t] = "armed"
    /\ ~spoiled

(* A running engine belongs to an open file, to a close that has not yet   *)
(* stopped its clock, or to the open that is about to reset it.            *)
EngineOwned ==
  go /\ clk >= 1 =>
    file \/ \E t \in Threads : pc[t] \in {"reset", "disable", "null", "unclock"}

TriggersPause == <>[](\A t \in Threads : pc[t] \notin Triggering)

(* Every call returns, unless it has crashed; and a flush does, without a  *)
(* signal, once nobody starts another picture, if the clock runs.          *)
CallsReturn ==
  \A t \in Threads :
    /\ pc[t] \notin Waiting \cup {"idle"} ~> pc[t] \in {"idle", "oops"}
    /\ TriggersPause => (pc[t] \in Waiting /\ clk >= 1 ~> pc[t] = "idle")

(* What a step needs to know to keep the above.  The opens and closes that *)
(* have taken the count, the refused ones with them, and the file make it  *)
(* up; and who uses the device is alone.                                   *)
Counted == {t \in Threads : pc[t] \in Opening \cup Closing \cup {"oops", "busy"}}

Alone ==
  /\ avail = (IF file THEN 0 ELSE 1) - Cardinality(Counted)
  /\ \A t \in Users : ~file /\ \A u \in Users : u = t
  /\ \A t \in Threads : pc[t] \in Calling => file

At(places) == \E t \in Threads : pc[t] \in places

(* The interrupt is enabled, priv is there, and the clock runs, ...        *)
Owned ==
  /\ file => priv /\ inte /\ cb = "priv"
  /\ inte => priv /\ cb = "priv" /\ (file \/ At({"disable"}))
  /\ At(Opening \ {"alloc"}) => priv /\ ~by
  /\ clk >= 1 => /\ clk = 1 /\ known
                 /\ file \/ At({"reset", "install", "disable", "null", "unclock"})
  /\ At({"install"}) => ~go /\ ~ints /\ ~spoiled

(* ... and a picture is armed, or made, or done, but no two of these.      *)
OnePicture ==
  file /\ ~raced =>
    /\ ints => ~go
    /\ At({"armed"}) => ~go /\ ~ints
    /\ \A t, u \in Threads : pc[t] = "armed" /\ pc[u] = "armed" => t = u

IInv == TypeOK /\ Alone /\ Owned /\ OnePicture /\ BusyHonest

(* The driver implements the engine, which is of no interest while the     *)
(* device is not open.  A busy bit that says something else than the       *)
(* engine does, or a picture whose registers have changed, is no state of  *)
(* the latter, unless calls have raced.                                    *)
Picture ==
  IF raced THEN "muddle"
  ELSE IF ~file THEN "none"
  ELSE IF spoiled \/ by # (go \/ ints \/ At({"armed"})) THEN "wrong"
  ELSE IF go THEN "drawing"
  ELSE IF ints THEN "drawn"
  ELSE IF At({"armed"}) THEN "asked" ELSE "none"

Holder ==
  IF At({"oops"}) THEN "lost" ELSE IF file \/ Users # {} THEN "somebody" ELSE "nobody"

Eng == INSTANCE Engine WITH MayAbandon <- TRUE, holder <- Holder, picture <- Picture

ImplementsEngine == Eng!EngSpec
=============================================================================
