----------------------------- MODULE AuMixProofs -----------------------------
(***************************************************************************)
(* Theorems about AuMix, for any number of threads and sources.            *)
(*                                                                         *)
(* The inductive invariant IInv has ten parts.  One lemma per part says    *)
(* that every step keeps it: the steps that cannot disturb it together,    *)
(* the others one by one.  The refinement of Bridge follows from it, step  *)
(* by step: those of the mixer thread, of the puts, and of the calls.      *)
(***************************************************************************)
EXTENDS AuMix, TLAPS

(* The initial states satisfy the invariant.                               *)
LEMMA InvInit == Init => IInv
<1> SUFFICES ASSUME Init PROVE IInv
  OBVIOUS
<1> USE AuMixAssumption
        DEF Init, AppPcs, AppLocked, AppLocking, MixerPcs, MixerLocked, Closing, Destroying
<1>1. /\ lag \in -Ptime .. MaxLag /\ lag >= 0
      /\ af \in -1 .. FileFrames
      /\ 0 \in 0 .. MaxFrames
  BY DEF NoFile
<1>2. TypeOK
  BY <1>1 DEF TypeOK
<1>3. Locking /\ NoLostWakeup /\ ListedAlive /\ MixerAlive /\ RoundWhole
  BY DEF Locking, NoLostWakeup, ListedAlive, MixerAlive, RoundWhole
<1>4. CallsAlive /\ DyingAlone /\ ClosingLast /\ RoundOpen
  BY <1>1 DEF CallsAlive, DyingAlone, ClosingLast, RoundOpen, Referenced
<1>5. QED
  BY <1>2, <1>3, <1>4 DEF IInv

-----------------------------------------------------------------------------
(* Types.  The counters stay in range: a round only ends, and lag only     *)
(* drops, when it was due; a frame is only taken from a buffer that has    *)
(* one.                                                                    *)
LEMMA TypeOKStep ==
  ASSUME IInv, Next
  PROVE  TypeOK'
<1> USE AuMixAssumption DEF IInv, TypeOK, AppLocked, AppLocking, AppPcs,
   MixerLocked, MixerPcs, RoundOpen
<1>1. CASE ThreadStart
  BY <1>1 DEF ThreadStart, bufVars, refVars
<1>2. CASE ThreadLock
  BY <1>2 DEF ThreadLock, bufVars, refVars
<1>3. CASE ThreadTop
  BY <1>3 DEF ThreadTop, bufVars, refVars, NoFile
<1>4. CASE SpuriousWakeup
  BY <1>4 DEF SpuriousWakeup, bufVars, refVars
<1>5. CASE ThreadWake
  <2>1. lag' \in -Ptime .. MaxLag
    BY <1>5 DEF ThreadWake
  <2>2. QED
    BY <1>5, <2>1 DEF ThreadWake, bufVars, refVars
<1>6. CASE ThreadSlept
  BY <1>6 DEF ThreadSlept, bufVars, refVars
<1>7. CASE ThreadCheck
  BY <1>7 DEF ThreadCheck, bufVars, refVars
<1>8. CASE ThreadBase
  BY <1>8 DEF ThreadBase, bufVars, refVars, NoFile
<1>9. ASSUME NEW s \in Sources, ThreadRead(s)
      PROVE  TypeOK'
  BY <1>9 DEF ThreadRead, refVars, TakeFrame
<1>10. CASE ThreadReadEnd
  BY <1>10 DEF ThreadReadEnd, bufVars, refVars
<1>11. ASSUME NEW s \in Sources, ThreadMix(s)
      PROVE  TypeOK'
  BY <1>11 DEF ThreadMix, bufVars, refVars
<1>12. CASE ThreadRoundEnd
  BY <1>12 DEF ThreadRoundEnd, bufVars, refVars
<1>13. CASE Tick
  BY <1>13 DEF Tick, bufVars, refVars
<1>14. ASSUME NEW s \in Sources, SourceAlloc(s)
      PROVE  TypeOK'
  BY <1>14 DEF SourceAlloc, mixerVars, bufVars
<1>15. ASSUME NEW s \in Sources, SourcePut(s)
      PROVE  TypeOK'
  BY <1>15 DEF SourcePut, mixerVars, refVars, Live
<1>16. ASSUME NEW s \in Sources, SourceFlush(s)
      PROVE  TypeOK'
  BY <1>16 DEF SourceFlush, mixerVars, refVars, Live
<1>17. ASSUME NEW t \in Threads, NEW s \in Sources, SourceEnable(t, s)
      PROVE  TypeOK'
  BY <1>17 DEF SourceEnable, mixerVars, bufVars, refVars, Live, Goto
<1>18. ASSUME NEW t \in Threads, NEW s \in Sources, SourceDeref(t, s)
      PROVE  TypeOK'
  BY <1>18 DEF SourceDeref, mixerVars, bufVars, Live, Goto
<1>19. ASSUME NEW t \in Threads, Playfile(t)
      PROVE  TypeOK'
  BY <1>19 DEF Playfile, mixerVars, bufVars, refVars, Goto
<1>20. ASSUME NEW t \in Threads, MixDeref(t)
      PROVE  TypeOK'
  BY <1>20 DEF MixDeref, mixerVars, bufVars, Referenced, Goto
<1>21. ASSUME NEW t \in Threads, AppLock(t)
      PROVE  TypeOK'
  BY <1>21 DEF AppLock, mixerVars, bufVars, refVars, Goto, AfterLock
<1>22. ASSUME NEW t \in Threads, EnableAppend(t)
      PROVE  TypeOK'
  <2>1. arg[t] \in Sources
    BY <1>22 DEF EnableAppend, CallsAlive
  <2>2. QED
    BY <1>22, <2>1 DEF EnableAppend, mixerVars, bufVars, refVars, Goto
<1>23. ASSUME NEW t \in Threads, EnableSignal(t)
      PROVE  TypeOK'
  BY <1>23 DEF EnableSignal, bufVars, refVars, Goto, Signal
<1>24. ASSUME NEW t \in Threads, DisableUnlink(t)
      PROVE  TypeOK'
  BY <1>24 DEF DisableUnlink, mixerVars, bufVars, refVars, Goto, Unlink
<1>25. ASSUME NEW t \in Threads, DestroyUnlink(t)
      PROVE  TypeOK'
  BY <1>25 DEF DestroyUnlink, mixerVars, bufVars, refVars, Goto, Unlink
<1>26. ASSUME NEW t \in Threads, PlayfileSet(t)
      PROVE  TypeOK'
  BY <1>26 DEF PlayfileSet, mixerVars, bufVars, refVars, Goto
<1>27. ASSUME NEW t \in Threads, CloseStop(t)
      PROVE  TypeOK'
  BY <1>27 DEF CloseStop, mixerVars, bufVars, refVars, Goto
<1>28. ASSUME NEW t \in Threads, CloseSignal(t)
      PROVE  TypeOK'
  BY <1>28 DEF CloseSignal, bufVars, refVars, Goto, Signal
<1>29. ASSUME NEW t \in Threads, AppUnlock(t)
      PROVE  TypeOK'
  BY <1>29 DEF AppUnlock, mixerVars, bufVars, refVars, Goto, AfterUnlock
<1>30. ASSUME NEW t \in Threads, DestroyFree(t)
      PROVE  TypeOK'
  BY <1>30 DEF DestroyFree, mixerVars, bufVars, Referenced, Goto
<1>31. ASSUME NEW t \in Threads, CloseJoin(t)
      PROVE  TypeOK'
  BY <1>31 DEF CloseJoin, mixerVars, bufVars, NoFile, Goto
<1>32. CASE UNCHANGED <<mutex, run, srcl, af, mixer, mpc, timed, lag, got,
   served, pc, arg, life, held, buf, filling>>
  BY <1>32
<1>33. QED
  BY <1>1, <1>2, <1>3, <1>4, <1>5, <1>6, <1>7, <1>8, <1>9, <1>10, <1>11,
     <1>12, <1>13, <1>14, <1>15, <1>16, <1>17, <1>18, <1>19, <1>20, <1>21,
     <1>22, <1>23, <1>24, <1>25, <1>26, <1>27, <1>28, <1>29, <1>30, <1>31,
     <1>32 DEF Next, ThreadLocks, ThreadRuns, AppCalls, AppRuns, Terminated,
     vars

(* The mutex has one owner.                                                *)
LEMMA LockingStep ==
  ASSUME IInv, Next
  PROVE  Locking'
<1> USE AuMixAssumption DEF IInv, TypeOK, AppLocked, AppLocking, AppPcs,
   MixerLocked, MixerPcs, Locking
<1>1. CASE ThreadStart
  BY <1>1 DEF ThreadStart, bufVars, refVars
<1>2. CASE ThreadLock
  BY <1>2 DEF ThreadLock, bufVars, refVars
<1>3. CASE ThreadTop
  BY <1>3 DEF ThreadTop, bufVars, refVars, NoFile
<1>4. CASE SpuriousWakeup
  BY <1>4 DEF SpuriousWakeup, bufVars, refVars
<1>5. CASE ThreadWake
  BY <1>5 DEF ThreadWake, bufVars, refVars
<1>6. CASE ThreadSlept
  BY <1>6 DEF ThreadSlept, bufVars, refVars
<1>7. CASE ThreadCheck
  BY <1>7 DEF ThreadCheck, bufVars, refVars
<1>8. CASE ThreadBase
  BY <1>8 DEF ThreadBase, bufVars, refVars, NoFile
<1>9. CASE ThreadReadEnd
  BY <1>9 DEF ThreadReadEnd, bufVars, refVars
<1>10. CASE ThreadRoundEnd
  BY <1>10 DEF ThreadRoundEnd, bufVars, refVars
<1>11. ASSUME NEW t \in Threads, NEW s \in Sources, SourceEnable(t, s)
      PROVE  Locking'
  BY <1>11 DEF SourceEnable, mixerVars, bufVars, refVars, Live, Goto
<1>12. ASSUME NEW t \in Threads, NEW s \in Sources, SourceDeref(t, s)
      PROVE  Locking'
  BY <1>12 DEF SourceDeref, mixerVars, bufVars, Live, Goto
<1>13. ASSUME NEW t \in Threads, Playfile(t)
      PROVE  Locking'
  BY <1>13 DEF Playfile, mixerVars, bufVars, refVars, Goto
<1>14. ASSUME NEW t \in Threads, MixDeref(t)
      PROVE  Locking'
  BY <1>14 DEF MixDeref, mixerVars, bufVars, Referenced, Goto
<1>15. ASSUME NEW t \in Threads, AppLock(t)
      PROVE  Locking'
  BY <1>15 DEF AppLock, mixerVars, bufVars, refVars, Goto, AfterLock
<1>16. ASSUME NEW t \in Threads, EnableAppend(t)
      PROVE  Locking'
  BY <1>16 DEF EnableAppend, mixerVars, bufVars, refVars, Goto
<1>17. ASSUME NEW t \in Threads, EnableSignal(t)
      PROVE  Locking'
  BY <1>17 DEF EnableSignal, bufVars, refVars, Goto, Signal
<1>18. ASSUME NEW t \in Threads, DisableUnlink(t)
      PROVE  Locking'
  BY <1>18 DEF DisableUnlink, mixerVars, bufVars, refVars, Goto, Unlink
<1>19. ASSUME NEW t \in Threads, DestroyUnlink(t)
      PROVE  Locking'
  BY <1>19 DEF DestroyUnlink, mixerVars, bufVars, refVars, Goto, Unlink
<1>20. ASSUME NEW t \in Threads, PlayfileSet(t)
      PROVE  Locking'
  BY <1>20 DEF PlayfileSet, mixerVars, bufVars, refVars, Goto
<1>21. ASSUME NEW t \in Threads, CloseStop(t)
      PROVE  Locking'
  BY <1>21 DEF CloseStop, mixerVars, bufVars, refVars, Goto
<1>22. ASSUME NEW t \in Threads, CloseSignal(t)
      PROVE  Locking'
  BY <1>22 DEF CloseSignal, bufVars, refVars, Goto, Signal
<1>23. ASSUME NEW t \in Threads, AppUnlock(t)
      PROVE  Locking'
  BY <1>23 DEF AppUnlock, mixerVars, bufVars, refVars, Goto, AfterUnlock
<1>24. ASSUME NEW t \in Threads, DestroyFree(t)
      PROVE  Locking'
  BY <1>24 DEF DestroyFree, mixerVars, bufVars, Referenced, Goto
<1>25. ASSUME NEW t \in Threads, CloseJoin(t)
      PROVE  Locking'
  BY <1>25 DEF CloseJoin, mixerVars, bufVars, NoFile, Goto
<1>26. CASE UNCHANGED <<mutex, mpc, pc>>
  BY <1>26
<1>27. QED
  BY <1>1, <1>2, <1>3, <1>4, <1>5, <1>6, <1>7, <1>8, <1>9, <1>10, <1>11,
     <1>12, <1>13, <1>14, <1>15, <1>16, <1>17, <1>18, <1>19, <1>20, <1>21,
     <1>22, <1>23, <1>24, <1>25, <1>26 DEF Next, ThreadLocks, ThreadRuns,
     AppCalls, AppRuns, Terminated, vars, ThreadRead, refVars, TakeFrame,
     ThreadMix, bufVars, Tick, SourceAlloc, mixerVars, SourcePut, Live,
     SourceFlush

(* Whoever fills the list or clears run has the mutex until it has         *)
(* signalled, so the mixer thread cannot begin to wait in between.         *)
LEMMA NoLostWakeupStep ==
  ASSUME IInv, Next
  PROVE  NoLostWakeup'
<1> USE AuMixAssumption DEF IInv, TypeOK, AppLocked, AppLocking, AppPcs,
   MixerLocked, MixerPcs, Locking, NoLostWakeup
<1>1. CASE ThreadStart
  BY <1>1 DEF ThreadStart, bufVars, refVars
<1>2. CASE ThreadLock
  BY <1>2 DEF ThreadLock, bufVars, refVars
<1>3. CASE ThreadTop
  BY <1>3 DEF ThreadTop, bufVars, refVars, NoFile
<1>4. CASE SpuriousWakeup
  BY <1>4 DEF SpuriousWakeup, bufVars, refVars
<1>5. CASE ThreadWake
  BY <1>5 DEF ThreadWake, bufVars, refVars
<1>6. CASE ThreadSlept
  BY <1>6 DEF ThreadSlept, bufVars, refVars
<1>7. CASE ThreadCheck
  BY <1>7 DEF ThreadCheck, bufVars, refVars
<1>8. CASE ThreadBase
  BY <1>8 DEF ThreadBase, bufVars, refVars, NoFile
<1>9. CASE ThreadReadEnd
  BY <1>9 DEF ThreadReadEnd, bufVars, refVars
<1>10. CASE ThreadRoundEnd
  BY <1>10 DEF ThreadRoundEnd, bufVars, refVars
<1>11. ASSUME NEW t \in Threads, NEW s \in Sources, SourceEnable(t, s)
      PROVE  NoLostWakeup'
  BY <1>11 DEF SourceEnable, mixerVars, bufVars, refVars, Live, Goto
<1>12. ASSUME NEW t \in Threads, NEW s \in Sources, SourceDeref(t, s)
      PROVE  NoLostWakeup'
  BY <1>12 DEF SourceDeref, mixerVars, bufVars, Live, Goto
<1>13. ASSUME NEW t \in Threads, Playfile(t)
      PROVE  NoLostWakeup'
  BY <1>13 DEF Playfile, mixerVars, bufVars, refVars, Goto
<1>14. ASSUME NEW t \in Threads, MixDeref(t)
      PROVE  NoLostWakeup'
  BY <1>14 DEF MixDeref, mixerVars, bufVars, Referenced, Goto
<1>15. ASSUME NEW t \in Threads, AppLock(t)
      PROVE  NoLostWakeup'
  BY <1>15 DEF AppLock, mixerVars, bufVars, refVars, Goto, AfterLock
<1>16. ASSUME NEW t \in Threads, EnableAppend(t)
      PROVE  NoLostWakeup'
  BY <1>16 DEF EnableAppend, mixerVars, bufVars, refVars, Goto
<1>17. ASSUME NEW t \in Threads, EnableSignal(t)
      PROVE  NoLostWakeup'
  BY <1>17 DEF EnableSignal, bufVars, refVars, Goto, Signal
<1>18. ASSUME NEW t \in Threads, DisableUnlink(t)
      PROVE  NoLostWakeup'
  BY <1>18 DEF DisableUnlink, mixerVars, bufVars, refVars, Goto, Unlink
<1>19. ASSUME NEW t \in Threads, DestroyUnlink(t)
      PROVE  NoLostWakeup'
  BY <1>19 DEF DestroyUnlink, mixerVars, bufVars, refVars, Goto, Unlink
<1>20. ASSUME NEW t \in Threads, PlayfileSet(t)
      PROVE  NoLostWakeup'
  BY <1>20 DEF PlayfileSet, mixerVars, bufVars, refVars, Goto
<1>21. ASSUME NEW t \in Threads, CloseStop(t)
      PROVE  NoLostWakeup'
  BY <1>21 DEF CloseStop, mixerVars, bufVars, refVars, Goto
<1>22. ASSUME NEW t \in Threads, CloseSignal(t)
      PROVE  NoLostWakeup'
  BY <1>22 DEF CloseSignal, bufVars, refVars, Goto, Signal
<1>23. ASSUME NEW t \in Threads, AppUnlock(t)
      PROVE  NoLostWakeup'
  BY <1>23 DEF AppUnlock, mixerVars, bufVars, refVars, Goto, AfterUnlock
<1>24. ASSUME NEW t \in Threads, DestroyFree(t)
      PROVE  NoLostWakeup'
  BY <1>24 DEF DestroyFree, mixerVars, bufVars, Referenced, Goto
<1>25. ASSUME NEW t \in Threads, CloseJoin(t)
      PROVE  NoLostWakeup'
  BY <1>25 DEF CloseJoin, mixerVars, bufVars, NoFile, Goto
<1>26. CASE UNCHANGED <<run, srcl, mpc, pc>>
  BY <1>26
<1>27. QED
  BY <1>1, <1>2, <1>3, <1>4, <1>5, <1>6, <1>7, <1>8, <1>9, <1>10, <1>11,
     <1>12, <1>13, <1>14, <1>15, <1>16, <1>17, <1>18, <1>19, <1>20, <1>21,
     <1>22, <1>23, <1>24, <1>25, <1>26 DEF Next, ThreadLocks, ThreadRuns,
     AppCalls, AppRuns, Terminated, vars, ThreadRead, refVars, TakeFrame,
     ThreadMix, bufVars, Tick, SourceAlloc, mixerVars, SourcePut, Live,
     SourceFlush

(* A source is listed by a call about a live one, and freed when it is out. *)
LEMMA ListedAliveStep ==
  ASSUME IInv, Next
  PROVE  ListedAlive'
<1> USE AuMixAssumption DEF IInv, TypeOK, AppLocked, AppLocking, AppPcs,
   MixerLocked, MixerPcs, ListedAlive, CallsAlive, Destroying, Closing,
   DyingAlone
<1>1. ASSUME NEW s \in Sources, SourceAlloc(s)
      PROVE  ListedAlive'
  BY <1>1 DEF SourceAlloc, mixerVars, bufVars
<1>2. ASSUME NEW t \in Threads, NEW s \in Sources, SourceDeref(t, s)
      PROVE  ListedAlive'
  BY <1>2 DEF SourceDeref, mixerVars, bufVars, Live, Goto
<1>3. ASSUME NEW t \in Threads, EnableAppend(t)
      PROVE  ListedAlive'
  BY <1>3 DEF EnableAppend, mixerVars, bufVars, refVars, Goto
<1>4. ASSUME NEW t \in Threads, DisableUnlink(t)
      PROVE  ListedAlive'
  BY <1>4 DEF DisableUnlink, mixerVars, bufVars, refVars, Goto, Unlink
<1>5. ASSUME NEW t \in Threads, DestroyUnlink(t)
      PROVE  ListedAlive'
  BY <1>5 DEF DestroyUnlink, mixerVars, bufVars, refVars, Goto, Unlink
<1>6. ASSUME NEW t \in Threads, DestroyFree(t)
      PROVE  ListedAlive'
  BY <1>6 DEF DestroyFree, mixerVars, bufVars, Referenced, Goto
<1>7. CASE UNCHANGED <<srcl, life>>
  BY <1>7
<1>8. QED
  BY <1>1, <1>2, <1>3, <1>4, <1>5, <1>6, <1>7 DEF Next, ThreadLocks,
     ThreadRuns, AppCalls, AppRuns, Terminated, vars, ThreadStart, bufVars,
     refVars, ThreadLock, ThreadTop, NoFile, SpuriousWakeup, ThreadWake,
     ThreadSlept, ThreadCheck, ThreadBase, ThreadRead, TakeFrame,
     ThreadReadEnd, ThreadMix, ThreadRoundEnd, Tick, SourcePut, mixerVars,
     Live, SourceFlush, SourceEnable, Goto, Playfile, MixDeref, Referenced,
     AppLock, AppLocking, AfterLock, EnableSignal, Signal, PlayfileSet,
     CloseStop, CloseSignal, AppUnlock, AfterUnlock, CloseJoin

(* The mixer is freed after the join, when nobody is left.                 *)
LEMMA MixerAliveStep ==
  ASSUME IInv, Next
  PROVE  MixerAlive'
<1> USE AuMixAssumption DEF IInv, TypeOK, AppLocked, AppLocking, AppPcs,
   MixerLocked, MixerPcs, MixerAlive, ListedAlive, CallsAlive, Destroying,
   Closing, ClosingLast, Referenced
<1>1. CASE ThreadStart
  BY <1>1 DEF ThreadStart, bufVars, refVars
<1>2. CASE ThreadLock
  BY <1>2 DEF ThreadLock, bufVars, refVars
<1>3. CASE ThreadTop
  BY <1>3 DEF ThreadTop, bufVars, refVars, NoFile
<1>4. CASE SpuriousWakeup
  BY <1>4 DEF SpuriousWakeup, bufVars, refVars
<1>5. CASE ThreadWake
  BY <1>5 DEF ThreadWake, bufVars, refVars
<1>6. CASE ThreadSlept
  BY <1>6 DEF ThreadSlept, bufVars, refVars
<1>7. CASE ThreadCheck
  BY <1>7 DEF ThreadCheck, bufVars, refVars
<1>8. CASE ThreadBase
  BY <1>8 DEF ThreadBase, bufVars, refVars, NoFile
<1>9. CASE ThreadReadEnd
  BY <1>9 DEF ThreadReadEnd, bufVars, refVars
<1>10. CASE ThreadRoundEnd
  BY <1>10 DEF ThreadRoundEnd, bufVars, refVars
<1>11. ASSUME NEW t \in Threads, NEW s \in Sources, SourceEnable(t, s)
      PROVE  MixerAlive'
  BY <1>11 DEF SourceEnable, mixerVars, bufVars, refVars, Live, Goto
<1>12. ASSUME NEW t \in Threads, NEW s \in Sources, SourceDeref(t, s)
      PROVE  MixerAlive'
  BY <1>12 DEF SourceDeref, mixerVars, bufVars, Live, Goto
<1>13. ASSUME NEW t \in Threads, Playfile(t)
      PROVE  MixerAlive'
  BY <1>13 DEF Playfile, mixerVars, bufVars, refVars, Goto
<1>14. ASSUME NEW t \in Threads, MixDeref(t)
      PROVE  MixerAlive'
  BY <1>14 DEF MixDeref, mixerVars, bufVars, Goto
<1>15. ASSUME NEW t \in Threads, AppLock(t)
      PROVE  MixerAlive'
  BY <1>15 DEF AppLock, mixerVars, bufVars, refVars, Goto, AfterLock
<1>16. ASSUME NEW t \in Threads, EnableAppend(t)
      PROVE  MixerAlive'
  BY <1>16 DEF EnableAppend, mixerVars, bufVars, refVars, Goto
<1>17. ASSUME NEW t \in Threads, EnableSignal(t)
      PROVE  MixerAlive'
  BY <1>17 DEF EnableSignal, bufVars, refVars, Goto, Signal
<1>18. ASSUME NEW t \in Threads, DisableUnlink(t)
      PROVE  MixerAlive'
  BY <1>18 DEF DisableUnlink, mixerVars, bufVars, refVars, Goto, Unlink
<1>19. ASSUME NEW t \in Threads, DestroyUnlink(t)
      PROVE  MixerAlive'
  BY <1>19 DEF DestroyUnlink, mixerVars, bufVars, refVars, Goto, Unlink
<1>20. ASSUME NEW t \in Threads, PlayfileSet(t)
      PROVE  MixerAlive'
  BY <1>20 DEF PlayfileSet, mixerVars, bufVars, refVars, Goto
<1>21. ASSUME NEW t \in Threads, CloseStop(t)
      PROVE  MixerAlive'
  BY <1>21 DEF CloseStop, mixerVars, bufVars, refVars, Goto
<1>22. ASSUME NEW t \in Threads, CloseSignal(t)
      PROVE  MixerAlive'
  BY <1>22 DEF CloseSignal, bufVars, refVars, Goto, Signal
<1>23. ASSUME NEW t \in Threads, AppUnlock(t)
      PROVE  MixerAlive'
  BY <1>23 DEF AppUnlock, mixerVars, bufVars, refVars, Goto, AfterUnlock
<1>24. ASSUME NEW t \in Threads, DestroyFree(t)
      PROVE  MixerAlive'
  BY <1>24 DEF DestroyFree, mixerVars, bufVars, Goto
<1>25. ASSUME NEW t \in Threads, CloseJoin(t)
      PROVE  MixerAlive'
  BY <1>25 DEF CloseJoin, mixerVars, bufVars, NoFile, Goto
<1>26. CASE UNCHANGED <<srcl, mixer, mpc, pc>>
  BY <1>26
<1>27. QED
  BY <1>1, <1>2, <1>3, <1>4, <1>5, <1>6, <1>7, <1>8, <1>9, <1>10, <1>11,
     <1>12, <1>13, <1>14, <1>15, <1>16, <1>17, <1>18, <1>19, <1>20, <1>21,
     <1>22, <1>23, <1>24, <1>25, <1>26 DEF Next, ThreadLocks, ThreadRuns,
     AppCalls, AppRuns, Terminated, vars, ThreadRead, refVars, TakeFrame,
     ThreadMix, bufVars, Tick, SourceAlloc, mixerVars, SourcePut, Live,
     SourceFlush

(* The list only changes under the mutex, which the mixer thread keeps for *)
(* the whole round.                                                        *)
LEMMA RoundWholeStep ==
  ASSUME IInv, Next
  PROVE  RoundWhole'
<1> USE AuMixAssumption DEF IInv, TypeOK, AppLocked, AppLocking, AppPcs,
   MixerLocked, MixerPcs, Locking, RoundWhole, RoundOpen
<1>1. CASE ThreadStart
  BY <1>1 DEF ThreadStart, bufVars, refVars
<1>2. CASE ThreadLock
  BY <1>2 DEF ThreadLock, bufVars, refVars
<1>3. CASE ThreadTop
  BY <1>3 DEF ThreadTop, bufVars, refVars, NoFile
<1>4. CASE SpuriousWakeup
  BY <1>4 DEF SpuriousWakeup, bufVars, refVars
<1>5. CASE ThreadWake
  BY <1>5 DEF ThreadWake, bufVars, refVars
<1>6. CASE ThreadSlept
  BY <1>6 DEF ThreadSlept, bufVars, refVars
<1>7. CASE ThreadCheck
  BY <1>7 DEF ThreadCheck, bufVars, refVars
<1>8. CASE ThreadBase
  BY <1>8 DEF ThreadBase, bufVars, refVars, NoFile
<1>9. ASSUME NEW s \in Sources, ThreadRead(s)
      PROVE  RoundWhole'
  BY <1>9 DEF ThreadRead, refVars, TakeFrame
<1>10. CASE ThreadReadEnd
  BY <1>10 DEF ThreadReadEnd, bufVars, refVars
<1>11. ASSUME NEW s \in Sources, ThreadMix(s)
      PROVE  RoundWhole'
  BY <1>11 DEF ThreadMix, bufVars, refVars
<1>12. CASE ThreadRoundEnd
  BY <1>12 DEF ThreadRoundEnd, bufVars, refVars
<1>13. ASSUME NEW t \in Threads, EnableAppend(t)
      PROVE  RoundWhole'
  BY <1>13 DEF EnableAppend, mixerVars, bufVars, refVars, Goto
<1>14. ASSUME NEW t \in Threads, EnableSignal(t)
      PROVE  RoundWhole'
  BY <1>14 DEF EnableSignal, bufVars, refVars, Goto, Signal
<1>15. ASSUME NEW t \in Threads, DisableUnlink(t)
      PROVE  RoundWhole'
  BY <1>15 DEF DisableUnlink, mixerVars, bufVars, refVars, Goto, Unlink
<1>16. ASSUME NEW t \in Threads, DestroyUnlink(t)
      PROVE  RoundWhole'
  BY <1>16 DEF DestroyUnlink, mixerVars, bufVars, refVars, Goto, Unlink
<1>17. ASSUME NEW t \in Threads, CloseSignal(t)
      PROVE  RoundWhole'
  BY <1>17 DEF CloseSignal, bufVars, refVars, Goto, Signal
<1>18. CASE UNCHANGED <<srcl, mpc, got, served>>
  BY <1>18
<1>19. QED
  BY <1>1, <1>2, <1>3, <1>4, <1>5, <1>6, <1>7, <1>8, <1>9, <1>10, <1>11,
     <1>12, <1>13, <1>14, <1>15, <1>16, <1>17, <1>18 DEF Next, ThreadLocks,
     ThreadRuns, AppCalls, AppRuns, Terminated, vars, Tick, bufVars,
     refVars, SourceAlloc, mixerVars, SourcePut, Live, SourceFlush,
     SourceEnable, Goto, SourceDeref, Playfile, MixDeref, Referenced,
     AppLock, AppLocking, AfterLock, PlayfileSet, CloseStop, AppUnlock,
     AfterUnlock, DestroyFree, CloseJoin, NoFile

(* A call keeps its source alive.                                          *)
LEMMA CallsAliveStep ==
  ASSUME IInv, Next
  PROVE  CallsAlive'
<1> USE AuMixAssumption DEF IInv, TypeOK, AppLocked, AppLocking, AppPcs,
   MixerLocked, MixerPcs, CallsAlive, Destroying, Closing, DyingAlone
<1>1. ASSUME NEW s \in Sources, SourceAlloc(s)
      PROVE  CallsAlive'
  BY <1>1 DEF SourceAlloc, mixerVars, bufVars
<1>2. ASSUME NEW t \in Threads, NEW s \in Sources, SourceEnable(t, s)
      PROVE  CallsAlive'
  BY <1>2 DEF SourceEnable, mixerVars, bufVars, refVars, Live, Goto
<1>3. ASSUME NEW t \in Threads, NEW s \in Sources, SourceDeref(t, s)
      PROVE  CallsAlive'
  BY <1>3 DEF SourceDeref, mixerVars, bufVars, Live, Goto
<1>4. ASSUME NEW t \in Threads, Playfile(t)
      PROVE  CallsAlive'
  BY <1>4 DEF Playfile, mixerVars, bufVars, refVars, Goto
<1>5. ASSUME NEW t \in Threads, MixDeref(t)
      PROVE  CallsAlive'
  BY <1>5 DEF MixDeref, mixerVars, bufVars, Referenced, Goto
<1>6. ASSUME NEW t \in Threads, AppLock(t)
      PROVE  CallsAlive'
  BY <1>6 DEF AppLock, mixerVars, bufVars, refVars, Goto, AfterLock
<1>7. ASSUME NEW t \in Threads, EnableAppend(t)
      PROVE  CallsAlive'
  BY <1>7 DEF EnableAppend, mixerVars, bufVars, refVars, Goto
<1>8. ASSUME NEW t \in Threads, EnableSignal(t)
      PROVE  CallsAlive'
  BY <1>8 DEF EnableSignal, bufVars, refVars, Goto, Signal
<1>9. ASSUME NEW t \in Threads, DisableUnlink(t)
      PROVE  CallsAlive'
  BY <1>9 DEF DisableUnlink, mixerVars, bufVars, refVars, Goto, Unlink
<1>10. ASSUME NEW t \in Threads, DestroyUnlink(t)
      PROVE  CallsAlive'
  BY <1>10 DEF DestroyUnlink, mixerVars, bufVars, refVars, Goto, Unlink
<1>11. ASSUME NEW t \in Threads, PlayfileSet(t)
      PROVE  CallsAlive'
  BY <1>11 DEF PlayfileSet, mixerVars, bufVars, refVars, Goto
<1>12. ASSUME NEW t \in Threads, CloseStop(t)
      PROVE  CallsAlive'
  BY <1>12 DEF CloseStop, mixerVars, bufVars, refVars, Goto
<1>13. ASSUME NEW t \in Threads, CloseSignal(t)
      PROVE  CallsAlive'
  BY <1>13 DEF CloseSignal, bufVars, refVars, Goto, Signal
<1>14. ASSUME NEW t \in Threads, AppUnlock(t)
      PROVE  CallsAlive'
  BY <1>14 DEF AppUnlock, mixerVars, bufVars, refVars, Goto, AfterUnlock
<1>15. ASSUME NEW t \in Threads, DestroyFree(t)
      PROVE  CallsAlive'
  BY <1>15 DEF DestroyFree, mixerVars, bufVars, Referenced, Goto
<1>16. ASSUME NEW t \in Threads, CloseJoin(t)
      PROVE  CallsAlive'
  BY <1>16 DEF CloseJoin, mixerVars, bufVars, NoFile, Goto
<1>17. CASE UNCHANGED <<pc, arg, life>>
  BY <1>17
<1>18. QED
  BY <1>1, <1>2, <1>3, <1>4, <1>5, <1>6, <1>7, <1>8, <1>9, <1>10, <1>11,
     <1>12, <1>13, <1>14, <1>15, <1>16, <1>17 DEF Next, ThreadLocks,
     ThreadRuns, AppCalls, AppRuns, Terminated, vars, ThreadStart, bufVars,
     refVars, ThreadLock, ThreadTop, NoFile, SpuriousWakeup, ThreadWake,
     ThreadSlept, ThreadCheck, ThreadBase, ThreadRead, TakeFrame,
     ThreadReadEnd, ThreadMix, ThreadRoundEnd, Tick, SourcePut, mixerVars,
     Live, SourceFlush

(* Nobody starts a call about a dying source.                              *)
LEMMA DyingAloneStep ==
  ASSUME IInv, Next
  PROVE  DyingAlone'
<1> USE AuMixAssumption DEF IInv, TypeOK, AppLocked, AppLocking, AppPcs,
   MixerLocked, MixerPcs, CallsAlive, Destroying, Closing, DyingAlone
<1>1. ASSUME NEW t \in Threads, NEW s \in Sources, SourceEnable(t, s)
      PROVE  DyingAlone'
  BY <1>1 DEF SourceEnable, mixerVars, bufVars, refVars, Live, Goto
<1>2. ASSUME NEW t \in Threads, NEW s \in Sources, SourceDeref(t, s)
      PROVE  DyingAlone'
  BY <1>2 DEF SourceDeref, mixerVars, bufVars, Live, Goto
<1>3. ASSUME NEW t \in Threads, Playfile(t)
      PROVE  DyingAlone'
  BY <1>3 DEF Playfile, mixerVars, bufVars, refVars, Goto
<1>4. ASSUME NEW t \in Threads, MixDeref(t)
      PROVE  DyingAlone'
  BY <1>4 DEF MixDeref, mixerVars, bufVars, Referenced, Goto
<1>5. ASSUME NEW t \in Threads, AppLock(t)
      PROVE  DyingAlone'
  BY <1>5 DEF AppLock, mixerVars, bufVars, refVars, Goto, AfterLock
<1>6. ASSUME NEW t \in Threads, EnableAppend(t)
      PROVE  DyingAlone'
  BY <1>6 DEF EnableAppend, mixerVars, bufVars, refVars, Goto
<1>7. ASSUME NEW t \in Threads, EnableSignal(t)
      PROVE  DyingAlone'
  BY <1>7 DEF EnableSignal, bufVars, refVars, Goto, Signal
<1>8. ASSUME NEW t \in Threads, DisableUnlink(t)
      PROVE  DyingAlone'
  BY <1>8 DEF DisableUnlink, mixerVars, bufVars, refVars, Goto, Unlink
<1>9. ASSUME NEW t \in Threads, DestroyUnlink(t)
      PROVE  DyingAlone'
  BY <1>9 DEF DestroyUnlink, mixerVars, bufVars, refVars, Goto, Unlink
<1>10. ASSUME NEW t \in Threads, PlayfileSet(t)
      PROVE  DyingAlone'
  BY <1>10 DEF PlayfileSet, mixerVars, bufVars, refVars, Goto
<1>11. ASSUME NEW t \in Threads, CloseStop(t)
      PROVE  DyingAlone'
  BY <1>11 DEF CloseStop, mixerVars, bufVars, refVars, Goto
<1>12. ASSUME NEW t \in Threads, CloseSignal(t)
      PROVE  DyingAlone'
  BY <1>12 DEF CloseSignal, bufVars, refVars, Goto, Signal
<1>13. ASSUME NEW t \in Threads, AppUnlock(t)
      PROVE  DyingAlone'
  BY <1>13 DEF AppUnlock, mixerVars, bufVars, refVars, Goto, AfterUnlock
<1>14. ASSUME NEW t \in Threads, DestroyFree(t)
      PROVE  DyingAlone'
  BY <1>14 DEF DestroyFree, mixerVars, bufVars, Referenced, Goto
<1>15. ASSUME NEW t \in Threads, CloseJoin(t)
      PROVE  DyingAlone'
  BY <1>15 DEF CloseJoin, mixerVars, bufVars, NoFile, Goto
<1>16. CASE UNCHANGED <<srcl, pc, arg>>
  BY <1>16
<1>17. QED
  BY <1>1, <1>2, <1>3, <1>4, <1>5, <1>6, <1>7, <1>8, <1>9, <1>10, <1>11,
     <1>12, <1>13, <1>14, <1>15, <1>16 DEF Next, ThreadLocks, ThreadRuns,
     AppCalls, AppRuns, Terminated, vars, ThreadStart, bufVars, refVars,
     ThreadLock, ThreadTop, NoFile, SpuriousWakeup, ThreadWake, ThreadSlept,
     ThreadCheck, ThreadBase, ThreadRead, TakeFrame, ThreadReadEnd,
     ThreadMix, ThreadRoundEnd, Tick, SourceAlloc, mixerVars, SourcePut,
     Live, SourceFlush

(* The reference that starts the end of the mixer is the last.             *)
LEMMA ClosingLastStep ==
  ASSUME IInv, Next
  PROVE  ClosingLast'
<1> USE AuMixAssumption DEF IInv, TypeOK, AppLocked, AppLocking, AppPcs,
   MixerLocked, MixerPcs, CallsAlive, Destroying, Closing, DyingAlone,
   ClosingLast, Referenced, MixerAlive
<1>1. ASSUME NEW s \in Sources, SourceAlloc(s)
      PROVE  ClosingLast'
  BY <1>1 DEF SourceAlloc, mixerVars, bufVars
<1>2. ASSUME NEW t \in Threads, NEW s \in Sources, SourceEnable(t, s)
      PROVE  ClosingLast'
  BY <1>2 DEF SourceEnable, mixerVars, bufVars, refVars, Live, Goto
<1>3. ASSUME NEW t \in Threads, NEW s \in Sources, SourceDeref(t, s)
      PROVE  ClosingLast'
  BY <1>3 DEF SourceDeref, mixerVars, bufVars, Live, Goto
<1>4. ASSUME NEW t \in Threads, Playfile(t)
      PROVE  ClosingLast'
  BY <1>4 DEF Playfile, mixerVars, bufVars, refVars, Goto
<1>5. ASSUME NEW t \in Threads, MixDeref(t)
      PROVE  ClosingLast'
  BY <1>5 DEF MixDeref, mixerVars, bufVars, Goto
<1>6. ASSUME NEW t \in Threads, AppLock(t)
      PROVE  ClosingLast'
  BY <1>6 DEF AppLock, mixerVars, bufVars, refVars, Goto, AfterLock
<1>7. ASSUME NEW t \in Threads, EnableAppend(t)
      PROVE  ClosingLast'
  BY <1>7 DEF EnableAppend, mixerVars, bufVars, refVars, Goto
<1>8. ASSUME NEW t \in Threads, EnableSignal(t)
      PROVE  ClosingLast'
  BY <1>8 DEF EnableSignal, bufVars, refVars, Goto, Signal
<1>9. ASSUME NEW t \in Threads, DisableUnlink(t)
      PROVE  ClosingLast'
  BY <1>9 DEF DisableUnlink, mixerVars, bufVars, refVars, Goto, Unlink
<1>10. ASSUME NEW t \in Threads, DestroyUnlink(t)
      PROVE  ClosingLast'
  BY <1>10 DEF DestroyUnlink, mixerVars, bufVars, refVars, Goto, Unlink
<1>11. ASSUME NEW t \in Threads, PlayfileSet(t)
      PROVE  ClosingLast'
  BY <1>11 DEF PlayfileSet, mixerVars, bufVars, refVars, Goto
<1>12. ASSUME NEW t \in Threads, CloseStop(t)
      PROVE  ClosingLast'
  BY <1>12 DEF CloseStop, mixerVars, bufVars, refVars, Goto
<1>13. ASSUME NEW t \in Threads, CloseSignal(t)
      PROVE  ClosingLast'
  BY <1>13 DEF CloseSignal, bufVars, refVars, Goto, Signal
<1>14. ASSUME NEW t \in Threads, AppUnlock(t)
      PROVE  ClosingLast'
  BY <1>14 DEF AppUnlock, mixerVars, bufVars, refVars, Goto, AfterUnlock
<1>15. ASSUME NEW t \in Threads, DestroyFree(t)
      PROVE  ClosingLast'
  <2> DEFINE s == arg[t]
  <2>1. s \in Sources /\ life[s] = "dying" /\ \A u \in Threads \ {t} : arg[u] # s
    BY <1>15 DEF DestroyFree
  <2>2. Referenced(held, life) /\ mixer = "live"
    BY <2>1
  <2>3. /\ life' = [life EXCEPT ![s] = "freed"]
        /\ arg' = [arg EXCEPT ![t] = NoSource]
        /\ held' = held /\ mixer' = mixer
        /\ pc' = [pc EXCEPT ![t] = IF Referenced(held, life') THEN "idle" ELSE "close"]
    BY <1>15 DEF DestroyFree, Goto
  <2>4. \A u \in Threads \ {t} : pc[u] \notin Closing
    BY <2>2
  <2>5. ASSUME NEW u \in Threads \ {t}, pc[u] # "idle"
        PROVE  Referenced(held, life')
    <3>1. CASE arg[u] = NoSource
      BY <2>4, <2>5, <3>1
    <3>2. CASE arg[u] \in Sources
      <4>1. life[arg[u]] \in {"live", "dying"} /\ arg[u] # s
        BY <2>1, <3>2
      <4>2. life'[arg[u]] = life[arg[u]]
        BY <2>3, <3>2, <4>1
      <4>3. QED
        BY <3>2, <4>1, <4>2
    <3>3. QED
      BY <3>1, <3>2
  <2>6. \A u \in Threads \ {t} : pc'[u] = pc[u] /\ arg'[u] = arg[u]
    BY <2>3
  <2>7. pc'[t] = IF Referenced(held, life') THEN "idle" ELSE "close"
    BY <2>3
  <2>8. \A u \in Threads : pc'[u] \in Closing =>
          ~Referenced(held, life') /\ \A w \in Threads \ {u} : pc'[w] = "idle"
    BY <2>4, <2>5, <2>6, <2>7
  <2>9. \A u \in Threads : pc'[u] # "idle" /\ pc'[u] \notin Closing /\ arg'[u] = NoSource => held'
    BY <2>3, <2>4, <2>6, <2>7
  <2>10. QED
    BY <2>2, <2>3, <2>8, <2>9
<1>16. ASSUME NEW t \in Threads, CloseJoin(t)
      PROVE  ClosingLast'
  BY <1>16 DEF CloseJoin, mixerVars, bufVars, NoFile, Goto
<1>17. CASE UNCHANGED <<mixer, pc, arg, life, held>>
  BY <1>17
<1>18. QED
  BY <1>1, <1>2, <1>3, <1>4, <1>5, <1>6, <1>7, <1>8, <1>9, <1>10, <1>11,
     <1>12, <1>13, <1>14, <1>15, <1>16, <1>17 DEF Next, ThreadLocks,
     ThreadRuns, AppCalls, AppRuns, Terminated, vars, ThreadStart, bufVars,
     refVars, ThreadLock, ThreadTop, NoFile, SpuriousWakeup, ThreadWake,
     ThreadSlept, ThreadCheck, ThreadBase, ThreadRead, TakeFrame,
     ThreadReadEnd, ThreadMix, ThreadRoundEnd, Tick, SourcePut, mixerVars,
     Live, SourceFlush

(* A round starts when lag is not negative.                                *)
LEMMA RoundOpenStep ==
  ASSUME IInv, Next
  PROVE  RoundOpen'
<1> USE AuMixAssumption DEF IInv, TypeOK, AppLocked, AppLocking, AppPcs,
   MixerLocked, MixerPcs, RoundOpen
<1>1. CASE ThreadStart
  BY <1>1 DEF ThreadStart, bufVars, refVars
<1>2. CASE ThreadLock
  BY <1>2 DEF ThreadLock, bufVars, refVars
<1>3. CASE ThreadTop
  BY <1>3 DEF ThreadTop, bufVars, refVars, NoFile
<1>4. CASE SpuriousWakeup
  BY <1>4 DEF SpuriousWakeup, bufVars, refVars
<1>5. CASE ThreadWake
  BY <1>5 DEF ThreadWake, bufVars, refVars
<1>6. CASE ThreadSlept
  BY <1>6 DEF ThreadSlept, bufVars, refVars
<1>7. CASE ThreadCheck
  BY <1>7 DEF ThreadCheck, bufVars, refVars
<1>8. CASE ThreadBase
  BY <1>8 DEF ThreadBase, bufVars, refVars, NoFile
<1>9. CASE ThreadReadEnd
  BY <1>9 DEF ThreadReadEnd, bufVars, refVars
<1>10. ASSUME NEW s \in Sources, ThreadMix(s)
      PROVE  RoundOpen'
  BY <1>10 DEF ThreadMix, bufVars, refVars
<1>11. CASE ThreadRoundEnd
  BY <1>11 DEF ThreadRoundEnd, bufVars, refVars
<1>12. CASE Tick
  BY <1>12 DEF Tick, bufVars, refVars
<1>13. ASSUME NEW t \in Threads, EnableSignal(t)
      PROVE  RoundOpen'
  BY <1>13 DEF EnableSignal, bufVars, refVars, Goto, Signal
<1>14. ASSUME NEW t \in Threads, CloseSignal(t)
      PROVE  RoundOpen'
  BY <1>14 DEF CloseSignal, bufVars, refVars, Goto, Signal
<1>15. CASE UNCHANGED <<mpc, lag, served>>
  BY <1>15
<1>16. QED
  BY <1>1, <1>2, <1>3, <1>4, <1>5, <1>6, <1>7, <1>8, <1>9, <1>10, <1>11,
     <1>12, <1>13, <1>14, <1>15 DEF Next, ThreadLocks, ThreadRuns, AppCalls,
     AppRuns, Terminated, vars, ThreadRead, refVars, TakeFrame, SourceAlloc,
     mixerVars, bufVars, SourcePut, Live, SourceFlush, SourceEnable, Goto,
     SourceDeref, Playfile, MixDeref, Referenced, AppLock, AppLocking,
     AfterLock, EnableAppend, DisableUnlink, Unlink, DestroyUnlink,
     PlayfileSet, CloseStop, AppUnlock, AfterUnlock, DestroyFree, CloseJoin,
     NoFile

-----------------------------------------------------------------------------
(* Every behaviour of the mixer keeps the inductive invariant.             *)
THEOREM Invariant == Spec => []IInv
<1>1. IInv /\ [Next]_vars => IInv'
  <2> SUFFICES ASSUME IInv, [Next]_vars PROVE IInv'
    OBVIOUS
  <2>1. CASE Next
    BY <2>1, TypeOKStep, LockingStep, NoLostWakeupStep, ListedAliveStep, MixerAliveStep,
       RoundWholeStep, CallsAliveStep, DyingAloneStep, ClosingLastStep, RoundOpenStep
       DEF IInv
  <2>2. CASE UNCHANGED vars
    BY <2>2 DEF vars, IInv, TypeOK, Locking, NoLostWakeup, ListedAlive, MixerAlive,
                RoundWhole, CallsAlive, DyingAlone, ClosingLast, RoundOpen, Referenced
  <2>3. QED
    BY <2>1, <2>2
<1>2. QED
  BY InvInit, <1>1, PTL DEF Spec

(* Every variable keeps its type; in particular the buffers never exceed   *)
(* their limit and the mixer never runs ahead by more than a packet time.  *)
THEOREM TypeCorrect == Spec => []TypeOK
<1>1. IInv => TypeOK
  BY DEF IInv
<1>2. QED
  BY <1>1, Invariant, PTL

(* At most one thread is inside the critical sections of the mixer.        *)
THEOREM MutualExclusion == Spec => []Locking
<1>1. IInv => Locking
  BY DEF IInv
<1>2. QED
  BY <1>1, Invariant, PTL

(* An enable and the destructor of the mixer cannot miss the mixer thread, *)
(* however they interleave with its going to wait.                         *)
THEOREM WakeupsArrive == Spec => []NoLostWakeup
<1>1. IInv => NoLostWakeup
  BY DEF IInv
<1>2. QED
  BY <1>1, Invariant, PTL

(* The mixer thread never touches a freed source, and ...                  *)
THEOREM NoDanglingSource == Spec => []ListedAlive
<1>1. IInv => ListedAlive
  BY DEF IInv
<1>2. QED
  BY <1>1, Invariant, PTL

(* ... no thread touches the mixer after it is freed.                      *)
THEOREM NoDanglingMixer == Spec => []MixerAlive
<1>1. IInv => MixerAlive
  BY DEF IInv
<1>2. QED
  BY <1>1, Invariant, PTL

(* A round reads, mixes and serves one and the same set of sources.        *)
THEOREM RoundsAreWhole == Spec => []RoundWhole
<1>1. IInv => RoundWhole
  BY DEF IInv
<1>2. QED
  BY <1>1, Invariant, PTL

-----------------------------------------------------------------------------
(* The mixer's part of a round, as the bridge sees it.                     *)
Given == IF mpc \in {"read", "mix"} THEN got ELSE {}

Heard == IF mpc = "mix" THEN served ELSE {}

(* As long as anything happens to the bridge it is not over.               *)
LEMMA NotOver ==
  ASSUME IInv,
         \/ mpc # "done"
         \/ \E t \in Threads : pc[t] # "idle"
         \/ \E s \in Sources : Live(s)
  PROVE  mixer # "freed"
BY DEF IInv, MixerAlive, ClosingLast, Referenced, Live

(* A thread with the mutex finds the mixer thread outside its rounds.      *)
LEMMA BetweenTheRounds ==
  ASSUME IInv, NEW t \in Threads, pc[t] \in AppLocked
  PROVE  mpc \notin MixerLocked /\ Given = {} /\ Heard = {}
<1>1. mutex = t /\ t # Mixer
  BY AuMixAssumption DEF IInv, Locking
<1>2. mpc \notin MixerLocked
  BY <1>1 DEF IInv, Locking
<1> QED
  BY <1>2 DEF Given, Heard, MixerLocked

(* Steps that leave the list, the buffers and the round alone, and do not  *)
(* free the mixer.                                                         *)
LEMMA BridgeKept ==
  ASSUME srcl' = srcl, buf' = buf, mixer' = mixer, Given' = Given, Heard' = Heard
  PROVE  UNCHANGED Rounds!bridgeVars
BY DEF Given, Heard, Rounds!bridgeVars

(* The mixer thread: a step of its two passes is one of a round, the rest  *)
(* is not noticed.                                                         *)
LEMMA BridgeThread ==
  ASSUME IInv, ThreadLocks \/ ThreadRuns \/ SpuriousWakeup \/ Tick
  PROVE  [Rounds!BridgeNext]_(Rounds!bridgeVars)
<1> USE DEF bufVars, refVars
<1>1. CASE ThreadLocks \/ ThreadStart \/ ThreadTop \/ ThreadCheck \/ SpuriousWakeup
  <2>1. mpc \notin {"read", "mix"} /\ mpc' \notin {"read", "mix"}
    BY <1>1 DEF ThreadLocks, ThreadLock, ThreadWake, ThreadSlept, ThreadStart, ThreadTop,
                ThreadCheck, SpuriousWakeup
  <2>2. srcl' = srcl /\ buf' = buf /\ mixer' = mixer
    BY <1>1 DEF ThreadLocks, ThreadLock, ThreadWake, ThreadSlept, ThreadStart, ThreadTop,
                ThreadCheck, SpuriousWakeup
  <2> QED
    BY <2>1, <2>2, BridgeKept DEF Given, Heard
<1>2. CASE Tick
  BY <1>2, BridgeKept DEF Tick, Given, Heard
<1>3. CASE ThreadBase
  BY <1>3, BridgeKept DEF ThreadBase, Given, Heard
<1>4. CASE ThreadReadEnd
  <2>1. served = {}
    BY <1>4 DEF ThreadReadEnd, IInv, RoundOpen
  <2> QED
    BY <1>4, <2>1, BridgeKept DEF ThreadReadEnd, Given, Heard
<1>5. ASSUME NEW s \in Sources, ThreadRead(s)
      PROVE  [Rounds!BridgeNext]_(Rounds!bridgeVars)
  <2>1. mpc = "read" /\ mpc' = "read" /\ mixer # "freed" /\ mixer' = mixer /\ srcl' = srcl
    BY <1>5, NotOver DEF ThreadRead
  <2>2. s \in srcl \ got /\ got' = got \cup {s}
    BY <1>5 DEF ThreadRead
  <2>3. \/ buf[s] > 0 /\ buf' = [buf EXCEPT ![s] = @ - 1]
        \/ UNCHANGED buf
    <3> DEFINE short == buf[s] < (IF filling[s] THEN WishFrames ELSE 1)
    <3>1. buf' = [buf EXCEPT ![s] = IF short THEN @ ELSE @ - 1]
      BY <1>5 DEF ThreadRead, TakeFrame
    <3>2. CASE short
      BY <3>1, <3>2 DEF IInv, TypeOK
    <3>3. CASE ~short
      <4>1. buf[s] > 0
        BY <3>3, AuMixAssumption DEF IInv, TypeOK
      <4> HIDE DEF short
      <4> QED
        BY <3>1, <3>3, <4>1
    <3> QED
      BY <3>2, <3>3
  <2>4. Rounds!Give(s)
    BY <2>1, <2>2, <2>3 DEF Rounds!Give
  <2> QED
    BY <2>1, <2>4 DEF Rounds!BridgeNext
<1>6. ASSUME NEW s \in Sources, ThreadMix(s)
      PROVE  [Rounds!BridgeNext]_(Rounds!bridgeVars)
  <2>1. mpc = "mix" /\ mpc' = "mix" /\ mixer # "freed" /\ mixer' = mixer /\ got = srcl
    BY <1>6, NotOver DEF ThreadMix, IInv, RoundWhole
  <2>2. Rounds!Hear(s)
    BY <1>6, <2>1 DEF ThreadMix, Rounds!Hear
  <2> QED
    BY <2>1, <2>2 DEF Rounds!BridgeNext
<1>7. CASE ThreadRoundEnd
  <2>1. /\ mpc = "mix" /\ mpc' = "top" /\ mixer # "freed" /\ mixer' = mixer
        /\ got = srcl /\ served = srcl
    BY <1>7, NotOver DEF ThreadRoundEnd, IInv, RoundWhole
  <2>2. Rounds!RoundEnds
    BY <1>7, <2>1 DEF ThreadRoundEnd, Rounds!RoundEnds
  <2> QED
    BY <2>1, <2>2 DEF Rounds!BridgeNext
<1> QED
  BY <1>1, <1>2, <1>3, <1>4, <1>5, <1>6, <1>7 DEF ThreadRuns

(* The application puts samples, whenever it likes, ...                    *)
LEMMA BridgePuts ==
  ASSUME IInv, NEW s \in Sources, SourceAlloc(s) \/ SourcePut(s) \/ SourceFlush(s)
  PROVE  [Rounds!BridgeNext]_(Rounds!bridgeVars)
<1> USE DEF bufVars, refVars, mixerVars
<1>1. CASE SourceAlloc(s)
  BY <1>1, BridgeKept DEF SourceAlloc, Given, Heard
<1>2. CASE SourcePut(s)
  <2>1. mixer # "freed"
    BY <1>2, NotOver DEF SourcePut
  <2>2. Rounds!Queue(s)
    BY <1>2 DEF SourcePut, Rounds!Queue
  <2> QED
    BY <2>1, <2>2 DEF Rounds!BridgeNext
<1>3. CASE SourceFlush(s)
  <2>1. mixer # "freed"
    BY <1>3, NotOver DEF SourceFlush
  <2>2. Rounds!Drop(s)
    BY <1>3 DEF SourceFlush, Rounds!Drop
  <2> QED
    BY <2>1, <2>2 DEF Rounds!BridgeNext
<1> QED
  BY <1>1, <1>2, <1>3

(* ... and its calls change the list between rounds, and end the bridge.   *)
LEMMA BridgeApp ==
  ASSUME IInv, NEW t \in Threads, AppCalls(t) \/ AppLock(t) \/ AppRuns(t)
  PROVE  [Rounds!BridgeNext]_(Rounds!bridgeVars)
<1> USE DEF bufVars, refVars, mixerVars, Goto
<1>1. CASE \/ AppCalls(t) \/ AppLock(t) \/ PlayfileSet(t) \/ CloseStop(t) \/ AppUnlock(t)
           \/ DestroyFree(t)
  <2>1. /\ srcl' = srcl /\ buf' = buf /\ mixer' = mixer
        /\ mpc' = mpc /\ got' = got /\ served' = served
    BY <1>1 DEF AppCalls, SourceEnable, SourceDeref, Playfile, MixDeref, AppLock, PlayfileSet,
                CloseStop, AppUnlock, DestroyFree
  <2> QED
    BY <2>1, BridgeKept DEF Given, Heard
<1>2. CASE EnableSignal(t) \/ CloseSignal(t)
  <2>1. /\ srcl' = srcl /\ buf' = buf /\ mixer' = mixer
        /\ mpc' = IF mpc = "wait" THEN "woken" ELSE mpc
        /\ got' = got /\ served' = served
    BY <1>2 DEF EnableSignal, CloseSignal, Signal
  <2> QED
    BY <2>1, BridgeKept DEF Given, Heard
<1>3. CASE EnableAppend(t)
  <2>1. mpc \notin MixerLocked /\ mixer # "freed" /\ arg[t] \in Sources
    BY <1>3, BetweenTheRounds, NotOver DEF EnableAppend, AppLocked, IInv, CallsAlive
  <2>2. Rounds!Join(arg[t])
    BY <1>3, <2>1 DEF EnableAppend, Rounds!Join, Rounds!BetweenRounds, MixerLocked
  <2> QED
    BY <2>1, <2>2 DEF Rounds!BridgeNext
<1>4. CASE DisableUnlink(t) \/ DestroyUnlink(t)
  <2>1. mpc \notin MixerLocked /\ mixer # "freed" /\ arg[t] \in Sources
    BY <1>4, BetweenTheRounds, NotOver
       DEF DisableUnlink, DestroyUnlink, Unlink, AppLocked, IInv, CallsAlive, Destroying
  <2>2. Rounds!Part(arg[t])
    BY <1>4, <2>1 DEF DisableUnlink, DestroyUnlink, Unlink, Rounds!Part, Rounds!BetweenRounds,
                      MixerLocked
  <2> QED
    BY <2>1, <2>2 DEF Rounds!BridgeNext
<1>5. CASE CloseJoin(t)
  <2>1. mpc = "done" /\ mpc' = "done" /\ mixer # "freed"
    BY <1>5, NotOver DEF CloseJoin
  <2>2. srcl = {}
    BY <1>5 DEF CloseJoin, IInv, ClosingLast, Closing, ListedAlive, Referenced, TypeOK
  <2>3. Rounds!Close
    BY <1>5, <2>1, <2>2 DEF CloseJoin, Rounds!Close, Rounds!BetweenRounds
  <2> QED
    BY <2>1, <2>3 DEF Rounds!BridgeNext
<1> QED
  BY <1>1, <1>2, <1>3, <1>4, <1>5 DEF AppRuns

(* The mixer implements the bridge: a frame that was taken from a buffer   *)
(* is handed, in one round, to all who are enabled.                        *)
THEOREM ImplementsRounds == Spec => ImplementsBridge
<1>1. Init => Rounds!BridgeInit
  BY DEF Init, Rounds!BridgeInit
<1>2. IInv /\ [Next]_vars => [Rounds!BridgeNext]_(Rounds!bridgeVars)
  <2> SUFFICES ASSUME IInv, [Next]_vars
               PROVE  [Rounds!BridgeNext]_(Rounds!bridgeVars)
    OBVIOUS
  <2>1. CASE UNCHANGED vars
    BY <2>1 DEF vars, Rounds!bridgeVars
  <2> QED
    BY <2>1, BridgeThread, BridgePuts, BridgeApp DEF Next, Terminated
<1>3. QED
  BY <1>1, <1>2, Invariant, PTL DEF Spec, ImplementsBridge, Rounds!BridgeSpec
=============================================================================
