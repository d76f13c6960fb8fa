---------------------------- MODULE BltDrvProofs -----------------------------
(***************************************************************************)
(* Theorems about BltDrv, for every set of threads and calls.              *)
(***************************************************************************)
EXTENDS BltDrv, TLAPS, FiniteSetTheorems

-----------------------------------------------------------------------------

(* The places, so that Pcs need not be expanded.                           *)
LEMMA Places ==
  /\ {"alloc", "request", "clock", "reset", "install"} \subseteq Pcs
  /\ {"disable", "null", "unclock", "free", "kfree", "inc"} \subseteq Pcs
  /\ {"copy", "copymore", "fault", "armed", "test", "sleep"} \subseteq Pcs
  /\ {"idle", "busy", "oops"} \subseteq Pcs
  BY DEF Pcs, Opening, Closing, Calling, Setting, Triggering, Waiting

(* Types.                                                                  *)
LEMMA TypeNext == TypeOK /\ [Next]_vars => TypeOK'
<1> SUFFICES ASSUME TypeOK, [Next]_vars PROVE TypeOK'
  OBVIOUS
<1> USE Places DEF TypeOK, Goes, Calls, gateVars, statVars, irqVars, clkVars, engineVars,
                   hwVars, pastVars
<1>1. ASSUME NEW t \in Threads, ThreadSteps(t) PROVE TypeOK'
  <2>1. CASE OpenBusy(t)
    BY <2>1 DEF OpenBusy
  <2>2. CASE OpenAlloc(t)
    <3>1. priv' \in BOOLEAN /\ by' \in BOOLEAN /\ mmu' \in BOOLEAN
      BY <2>2, Zenon DEF OpenAlloc
    <3> QED
      BY <2>2, <3>1 DEF OpenAlloc
  <2>3. CASE OpenRequest(t)
    <3>1. irq' \in BOOLEAN
      BY <2>3, Zenon DEF OpenRequest
    <3> QED
      BY <2>3, <3>1 DEF OpenRequest
  <2>4. CASE OpenClock(t)
    BY <2>4 DEF OpenClock
  <2>5. CASE OpenReset(t)
    BY <2>5 DEF OpenReset
  <2>6. CASE OpenInstall(t)
    BY <2>6 DEF OpenInstall
  <2>7. CASE CloseDisable(t)
    <3>1. inte' \in BOOLEAN
      BY <2>7, Zenon DEF CloseDisable
    <3> QED
      BY <2>7, <3>1 DEF CloseDisable
  <2>8. CASE CloseNull(t)
    BY <2>8 DEF CloseNull
  <2>9. CASE CloseUnclock(t)
    BY <2>9 DEF CloseUnclock
  <2>10. CASE CloseFree(t)
    <3>1. irq' \in BOOLEAN
      BY <2>10, Zenon DEF CloseFree
    <3> QED
      BY <2>10, <3>1 DEF CloseFree
  <2>11. CASE CloseKfree(t)
    <3>1. priv' \in BOOLEAN
      BY <2>11, Zenon DEF CloseKfree
    <3> QED
      BY <2>11, <3>1 DEF CloseKfree
  <2>12. CASE CloseInc(t)
    BY <2>12 DEF CloseInc
  <2>13. CASE SetRegisters(t)
    BY <2>13 DEF SetRegisters, Setting
  <2>14. CASE SetFails(t)
    BY <2>14 DEF SetFails, Setting
  <2>15. CASE TriggerArm(t)
    BY <2>15 DEF TriggerArm
  <2>16. CASE TriggerGo(t)
    BY <2>16 DEF TriggerGo
  <2>17. CASE FlushTest(t)
    BY <2>17 DEF FlushTest
  <2> QED
    BY <1>1, <2>1, <2>2, <2>3, <2>4, <2>5, <2>6, <2>7, <2>8, <2>9, <2>10, <2>11, <2>12, <2>13, <2>14, <2>15, <2>16, <2>17 DEF ThreadSteps
<1>2. ASSUME NEW t \in Threads, ThreadCalls(t) PROVE TypeOK'
  <2>1. CASE OpenTry(t)
    BY <2>1 DEF OpenTry
  <2>2. CASE Close(t)
    <3>1. file' \in BOOLEAN
      BY <2>2, Zenon DEF Close
    <3> QED
      BY <2>2, <3>1 DEF Close
  <2>3. CASE Set(t)
    BY <2>3 DEF Set
  <2>4. CASE SetMmu(t)
    BY <2>4 DEF SetMmu
  <2>5. CASE Trigger(t)
    BY <2>5 DEF Trigger
  <2>6. CASE Flush(t)
    BY <2>6 DEF Flush
  <2>7. CASE FlushSignal(t)
    BY <2>7 DEF FlushSignal
  <2> QED
    BY <1>2, <2>1, <2>2, <2>3, <2>4, <2>5, <2>6, <2>7 DEF ThreadCalls
<1>3. CASE EngineDone
  BY <1>3 DEF EngineDone
<1>4. CASE IrqHandler
  BY <1>4 DEF IrqHandler
<1>5. CASE UNCHANGED vars
  BY <1>5 DEF vars
<1> QED
  BY <1>1, <1>2, <1>3, <1>4, <1>5 DEF Next

-----------------------------------------------------------------------------
(* Who uses the device is alone, and the count agrees.                     *)

Using == Opening \cup Closing \cup {"oops"}
Counting == Using \cup {"busy"}

LEMMA Kinds ==
  /\ Using = {"alloc", "request", "clock", "reset", "install",
              "disable", "null", "unclock", "free", "kfree", "inc", "oops"}
  /\ Counting = {"alloc", "request", "clock", "reset", "install",
                 "disable", "null", "unclock", "free", "kfree", "inc", "oops", "busy"}
  /\ Calling = {"copy", "copymore", "fault", "armed", "test", "sleep"}
  BY DEF Using, Counting, Opening, Closing, Calling, Setting, Triggering, Waiting

(* Counted, when one thread goes from one place to another.                *)
LEMMA CountedMoves ==
  ASSUME TypeOK, NEW t \in Threads, NEW from, NEW to \in Pcs, Goes(t, from, to)
  PROVE  /\ IsFiniteSet(Counted) /\ Cardinality(Counted) \in Nat
         /\ from \in Counting /\ to \notin Counting =>
              Cardinality(Counted') = Cardinality(Counted) - 1
         /\ from \notin Counting /\ to \in Counting =>
              Cardinality(Counted') = Cardinality(Counted) + 1
         /\ (from \in Counting <=> to \in Counting) => Counted' = Counted
<1>1. pc \in [Threads -> Pcs] /\ pc' = [pc EXCEPT ![t] = to] /\ pc[t] = from
  BY DEF TypeOK, Goes
<1>2. IsFiniteSet(Counted) /\ Cardinality(Counted) \in Nat
  <2>1. Counted \subseteq Threads
    BY DEF Counted
  <2> QED
    BY <2>1, BltAssumption, FS_Subset, FS_CardinalityType
<1>3. ASSUME from \in Counting, to \notin Counting
      PROVE  Cardinality(Counted') = Cardinality(Counted) - 1
  <2>1. Counted' = Counted \ {t} /\ t \in Counted
    BY <1>1, <1>3 DEF Counted, Counting, Using
  <2> QED
    BY <1>2, <2>1, FS_RemoveElement
<1>4. ASSUME from \notin Counting, to \in Counting
      PROVE  Cardinality(Counted') = Cardinality(Counted) + 1
  <2>1. Counted' = Counted \cup {t} /\ t \notin Counted
    BY <1>1, <1>4 DEF Counted, Counting, Using
  <2> QED
    BY <1>2, <2>1, FS_AddElement
<1>5. ASSUME from \in Counting <=> to \in Counting
      PROVE  Counted' = Counted
  BY <1>1, <1>5 DEF Counted, Counting, Using
<1> QED
  BY <1>2, <1>3, <1>4, <1>5

(* Users, likewise: nobody but t can become one.                           *)
LEMMA UsersMove ==
  ASSUME TypeOK, NEW t \in Threads, NEW from, NEW to \in Pcs, Goes(t, from, to)
  PROVE  /\ from \in Using <=> t \in Users
         /\ to \in Using <=> t \in Users'
         /\ \A u \in Threads : u # t => (u \in Users' <=> u \in Users)
  BY DEF TypeOK, Goes, Users, Using

(* A step of the user that leaves it the user.                             *)
LEMMA InsideAlone ==
  ASSUME TypeOK, Alone, NEW t \in Threads, NEW from \in Using, NEW to \in Using,
         Goes(t, from, to), avail' = avail, file' = file
  PROVE  Alone'
<1>1. to \in Pcs /\ from \in Counting /\ to \in Counting /\ to \notin Calling
  BY Kinds, Places
<1>2. Counted' = Counted
  BY <1>1, CountedMoves
<1>3. pc' = [pc EXCEPT ![t] = to] /\ pc \in [Threads -> Pcs]
  BY DEF Goes, TypeOK
<1>4. \A u \in Users' : u \in Users
  BY <1>1, UsersMove DEF Users
<1> QED
  BY <1>1, <1>2, <1>3, <1>4 DEF Alone

(* A step of somebody who does not count, before or after.                 *)
LEMMA OutsideAlone ==
  ASSUME TypeOK, Alone, NEW t \in Threads, NEW from, NEW to \in Pcs,
         from \notin Counting, to \notin Counting, to \in Calling => file,
         Goes(t, from, to), avail' = avail, file' = file
  PROVE  Alone'
<1>1. to \notin Using
  BY Kinds
<1>2. Counted' = Counted
  BY CountedMoves
<1>3. pc' = [pc EXCEPT ![t] = to] /\ pc \in [Threads -> Pcs]
  BY DEF Goes, TypeOK
<1>4. \A u \in Users' : u \in Users
  BY <1>1, UsersMove DEF Users
<1> QED
  BY <1>2, <1>3, <1>4 DEF Alone

LEMMA AloneNext == TypeOK /\ Alone /\ [Next]_vars => Alone'
<1> SUFFICES ASSUME TypeOK, Alone, [Next]_vars PROVE Alone'
  OBVIOUS
<1> USE Places, Kinds DEF Calls, gateVars
<1>1. ASSUME NEW t \in Threads, ThreadSteps(t) PROVE Alone'
  <2>1. CASE OpenAlloc(t)
    BY <2>1, InsideAlone DEF OpenAlloc
  <2>2. CASE OpenRequest(t)
    BY <2>2, InsideAlone DEF OpenRequest
  <2>3. CASE OpenClock(t)
    BY <2>3, InsideAlone DEF OpenClock
  <2>4. CASE OpenReset(t)
    BY <2>4, InsideAlone DEF OpenReset
  <2>5. CASE CloseDisable(t)
    BY <2>5, InsideAlone DEF CloseDisable
  <2>6. CASE CloseNull(t)
    BY <2>6, InsideAlone DEF CloseNull
  <2>7. CASE CloseUnclock(t)
    BY <2>7, InsideAlone DEF CloseUnclock
  <2>8. CASE CloseFree(t)
    BY <2>8, InsideAlone DEF CloseFree
  <2>9. CASE CloseKfree(t)
    BY <2>9, InsideAlone DEF CloseKfree
  <2>10. CASE SetRegisters(t)
    BY <2>10, OutsideAlone DEF SetRegisters, Setting, Alone, Goes
  <2>11. CASE SetFails(t)
    BY <2>11, OutsideAlone DEF SetFails, Setting
  <2>12. CASE TriggerArm(t)
    BY <2>12, OutsideAlone DEF TriggerArm, Alone, Goes
  <2>13. CASE TriggerGo(t)
    BY <2>13, OutsideAlone DEF TriggerGo
  <2>14. CASE FlushTest(t)
    <3>1. pc[t] \in Calling /\ file
      BY <2>14 DEF FlushTest, Alone, Goes
    <3> QED
      BY <2>14, <3>1, OutsideAlone DEF FlushTest
  <2>15. CASE OpenBusy(t)
    <3>1. Cardinality(Counted') = Cardinality(Counted) - 1 /\ Cardinality(Counted) \in Nat
      BY <2>15, CountedMoves DEF OpenBusy
    <3>2. pc \in [Threads -> Pcs] /\ pc' = [pc EXCEPT ![t] = "idle"]
      BY <2>15 DEF OpenBusy, Goes, TypeOK
    <3>3. \A u \in Users' : u \in Users
      BY <2>15, UsersMove DEF OpenBusy, Users
    <3> QED
      BY <2>15, <3>1, <3>2, <3>3 DEF OpenBusy, Alone, TypeOK
  <2>16. CASE OpenInstall(t)
    <3>1. Cardinality(Counted') = Cardinality(Counted) - 1 /\ Cardinality(Counted) \in Nat
      BY <2>16, CountedMoves DEF OpenInstall
    <3>2. t \in Users /\ t \notin Users' /\ \A u \in Users' : u \in Users
      BY <2>16, UsersMove DEF OpenInstall, Users
    <3>3. ~file /\ Users' = {}
      BY <3>2 DEF Alone
    <3>4. pc \in [Threads -> Pcs] /\ pc' = [pc EXCEPT ![t] = "idle"] /\ avail' = avail /\ file'
      BY <2>16 DEF OpenInstall, Goes, TypeOK
    <3> QED
      BY <3>1, <3>3, <3>4 DEF Alone, TypeOK
  <2>17. CASE CloseInc(t)
    <3>1. Cardinality(Counted') = Cardinality(Counted) - 1 /\ Cardinality(Counted) \in Nat
      BY <2>17, CountedMoves DEF CloseInc
    <3>2. pc \in [Threads -> Pcs] /\ pc' = [pc EXCEPT ![t] = "idle"]
      BY <2>17 DEF CloseInc, Goes, TypeOK
    <3>3. \A u \in Users' : u \in Users
      BY <2>17, UsersMove DEF CloseInc, Users
    <3> QED
      BY <2>17, <3>1, <3>2, <3>3 DEF CloseInc, Alone, TypeOK
  <2> QED
    BY <1>1, <2>1, <2>2, <2>3, <2>4, <2>5, <2>6, <2>7, <2>8, <2>9, <2>10, <2>11, <2>12, <2>13, <2>14, <2>15, <2>16, <2>17 DEF ThreadSteps
<1>2. ASSUME NEW t \in Threads, ThreadCalls(t) PROVE Alone'
  <2>1. CASE Set(t)
    BY <2>1, OutsideAlone DEF Set
  <2>2. CASE SetMmu(t)
    BY <2>2, OutsideAlone DEF SetMmu
  <2>3. CASE Trigger(t)
    BY <2>3, OutsideAlone DEF Trigger
  <2>4. CASE Flush(t)
    BY <2>4, OutsideAlone DEF Flush
  <2>5. CASE FlushSignal(t)
    BY <2>5, OutsideAlone DEF FlushSignal
  <2>6. CASE OpenTry(t)
    <3>1. CASE avail = 1
      <4>1. /\ Cardinality(Counted') = Cardinality(Counted) + 1 /\ Cardinality(Counted) \in Nat
            /\ IsFiniteSet(Counted)
        BY <2>6, <3>1, CountedMoves DEF OpenTry
      <4>2. ~file /\ Cardinality(Counted) = 0 /\ Counted = {}
        BY <3>1, <4>1, FS_EmptySet DEF Alone
      <4>3. Users = {}
        BY <4>2 DEF Users, Counted
      <4>4. \A u \in Users' : u = t
        BY <2>6, <3>1, <4>3, UsersMove DEF OpenTry, Users
      <4>5. /\ pc \in [Threads -> Pcs] /\ pc' = [pc EXCEPT ![t] = "alloc"]
            /\ avail' = avail - 1 /\ file' = file
        BY <2>6, <3>1 DEF OpenTry, Goes, TypeOK
      <4>6. avail' = (IF file' THEN 0 ELSE 1) - Cardinality(Counted')
        BY <3>1, <4>1, <4>2, <4>5
      <4>7. \A u \in Threads : pc'[u] \notin Calling
        BY <4>2, <4>5 DEF Alone
      <4> QED
        BY <4>2, <4>4, <4>5, <4>6, <4>7 DEF Alone
    <3>2. CASE avail # 1
      <4>1. Cardinality(Counted') = Cardinality(Counted) + 1 /\ Cardinality(Counted) \in Nat
        BY <2>6, <3>2, CountedMoves DEF OpenTry
      <4>2. \A u \in Users' : u \in Users
        BY <2>6, <3>2, UsersMove DEF OpenTry, Users
      <4>3. /\ pc \in [Threads -> Pcs] /\ pc' = [pc EXCEPT ![t] = "busy"]
            /\ avail' = avail - 1 /\ file' = file
        BY <2>6, <3>2 DEF OpenTry, Goes, TypeOK
      <4> QED
        BY <4>1, <4>2, <4>3 DEF Alone, TypeOK
    <3> QED
      BY <3>1, <3>2
  <2>7. CASE Close(t)
    <3>1. Cardinality(Counted') = Cardinality(Counted) + 1 /\ Cardinality(Counted) \in Nat
      BY <2>7, CountedMoves DEF Close
    <3>2. Users = {}
      BY <2>7 DEF Close, Alone
    <3>3. \A u \in Users' : u = t
      BY <2>7, <3>2, UsersMove DEF Close, Users
    <3>4. /\ pc \in [Threads -> Pcs] /\ pc' = [pc EXCEPT ![t] = "disable"]
          /\ avail' = avail /\ file /\ ~file'
      BY <2>7 DEF Close, Goes, TypeOK
    <3>5. \A u \in Threads : pc'[u] \notin Calling
      BY <2>7, <3>4 DEF Close
    <3> QED
      BY <3>1, <3>3, <3>4, <3>5 DEF Alone, TypeOK
  <2> QED
    BY <1>2, <2>1, <2>2, <2>3, <2>4, <2>5, <2>6, <2>7 DEF ThreadCalls
<1>3. CASE EngineDone \/ UNCHANGED vars
  <2>1. UNCHANGED <<avail, file, pc>>
    BY <1>3 DEF EngineDone, vars
  <2> QED
    BY <2>1 DEF Alone, Counted, Users
<1>4. CASE IrqHandler
  <2>1. \A u \in Threads : pc'[u] = pc[u] \/ (pc[u] = "sleep" /\ pc'[u] = "test")
    BY <1>4 DEF IrqHandler, TypeOK
  <2>2. Counted' = Counted /\ Users' = Users
    BY <2>1 DEF Counted, Users, Opening, Closing
  <2> QED
    BY <1>4, <2>1, <2>2 DEF IrqHandler, Alone
<1> QED
  BY <1>1, <1>2, <1>3, <1>4 DEF Next

-----------------------------------------------------------------------------
(* The interrupt, the clock and the callback.                              *)

(* Nobody but the user is in the midst of an open or a close, and while    *)
(* the file is open nobody is.                                             *)
LEMMA UserMoves ==
  ASSUME TypeOK, Alone, NEW t \in Threads, NEW from, NEW to, Goes(t, from, to)
  PROVE  /\ pc[t] = from /\ pc'[t] = to
         /\ \A u \in Threads : u # t => pc'[u] = pc[u]
         /\ from \in Using => ~file /\ \A u \in Threads : u # t => pc[u] \notin Using
         /\ from \in Calling => file
         /\ file => \A u \in Threads : pc[u] \notin Using
  BY DEF Goes, TypeOK, Alone, Users, Using

LEMMA OwnedNext == TypeOK /\ Alone /\ Owned /\ [Next]_vars => Owned'
<1> SUFFICES ASSUME TypeOK, Alone, Owned, [Next]_vars PROVE Owned'
  OBVIOUS
<1> USE Kinds DEF Calls, gateVars, statVars, irqVars, clkVars, engineVars, hwVars, pastVars,
                  Owned, At, Opening
<1>1. ASSUME NEW t \in Threads, ThreadSteps(t) PROVE Owned'
  <2>1. CASE OpenAlloc(t)
    BY <2>1, UserMoves DEF OpenAlloc
  <2>2. CASE OpenRequest(t)
    BY <2>2, UserMoves DEF OpenRequest
  <2>3. CASE OpenClock(t)
    BY <2>3, UserMoves DEF OpenClock, TypeOK
  <2>4. CASE OpenReset(t)
    BY <2>4, UserMoves DEF OpenReset
  <2>5. CASE OpenInstall(t)
    BY <2>5, UserMoves DEF OpenInstall
  <2>6. CASE CloseDisable(t)
    BY <2>6, UserMoves DEF CloseDisable
  <2>7. CASE CloseNull(t)
    BY <2>7, UserMoves DEF CloseNull
  <2>8. CASE CloseUnclock(t)
    <3>1. clk \in Int /\ clk' = IF known THEN clk - 1 ELSE clk
      BY <2>8 DEF CloseUnclock, TypeOK
    <3>2. (clk' >= 1) => FALSE
      BY <3>1
    <3> QED
      BY <2>8, <3>2, UserMoves DEF CloseUnclock
  <2>9. CASE CloseFree(t)
    BY <2>9, UserMoves DEF CloseFree
  <2>10. CASE CloseKfree(t)
    BY <2>10, UserMoves DEF CloseKfree
  <2>11. CASE CloseInc(t)
    BY <2>11, UserMoves DEF CloseInc
  <2>12. CASE OpenBusy(t)
    BY <2>12, UserMoves DEF OpenBusy
  <2>13. CASE SetRegisters(t)
    BY <2>13, UserMoves DEF SetRegisters, Setting
  <2>14. CASE SetFails(t)
    BY <2>14, UserMoves DEF SetFails, Setting
  <2>15. CASE TriggerArm(t)
    BY <2>15, UserMoves DEF TriggerArm
  <2>16. CASE TriggerGo(t)
    BY <2>16, UserMoves DEF TriggerGo
  <2>17. CASE FlushTest(t)
    BY <2>17, UserMoves DEF FlushTest
  <2> QED
    BY <1>1, <2>1, <2>2, <2>3, <2>4, <2>5, <2>6, <2>7, <2>8, <2>9, <2>10, <2>11, <2>12, <2>13, <2>14, <2>15, <2>16, <2>17 DEF ThreadSteps
<1>2. ASSUME NEW t \in Threads, ThreadCalls(t) PROVE Owned'
  <2>1. CASE Set(t)
    BY <2>1, UserMoves DEF Set
  <2>2. CASE SetMmu(t)
    BY <2>2, UserMoves DEF SetMmu
  <2>3. CASE Trigger(t)
    BY <2>3, UserMoves DEF Trigger
  <2>4. CASE Flush(t)
    BY <2>4, UserMoves DEF Flush
  <2>5. CASE FlushSignal(t)
    BY <2>5, UserMoves DEF FlushSignal
  <2>6. CASE OpenTry(t)
    BY <2>6, UserMoves DEF OpenTry
  <2>7. CASE Close(t)
    BY <2>7, UserMoves DEF Close
  <2> QED
    BY <1>2, <2>1, <2>2, <2>3, <2>4, <2>5, <2>6, <2>7 DEF ThreadCalls
<1>3. CASE EngineDone
  BY <1>3 DEF EngineDone
<1>4. CASE IrqHandler
  BY <1>4 DEF IrqHandler, TypeOK
<1>5. CASE UNCHANGED vars
  BY <1>5 DEF vars
<1> QED
  BY <1>1, <1>2, <1>3, <1>4, <1>5 DEF Next

(* The busy bit and the picture.                                           *)
LEMMA PictureNext ==
  TypeOK /\ Alone /\ Owned /\ OnePicture /\ BusyHonest /\ [Next]_vars =>
    OnePicture' /\ BusyHonest'
<1> DEFINE Goal == OnePicture /\ BusyHonest
<1> SUFFICES ASSUME TypeOK, Alone, Owned, OnePicture, BusyHonest, [Next]_vars PROVE Goal'
  OBVIOUS
<1> USE Kinds DEF Calls, gateVars, statVars, irqVars, clkVars, engineVars, hwVars, pastVars,
                  OnePicture, BusyHonest, At
<1>1. ASSUME NEW t \in Threads, ThreadSteps(t) PROVE Goal'
  <2>1. CASE OpenAlloc(t)
    BY <2>1, UserMoves DEF OpenAlloc
  <2>2. CASE OpenRequest(t)
    BY <2>2, UserMoves DEF OpenRequest
  <2>3. CASE OpenClock(t)
    BY <2>3, UserMoves DEF OpenClock
  <2>4. CASE OpenReset(t)
    BY <2>4, UserMoves DEF OpenReset
  <2>5. CASE OpenInstall(t)
    BY <2>5, UserMoves DEF OpenInstall, Owned, Alone, Opening
  <2>6. CASE CloseDisable(t)
    BY <2>6, UserMoves DEF CloseDisable
  <2>7. CASE CloseNull(t)
    BY <2>7, UserMoves DEF CloseNull
  <2>8. CASE CloseUnclock(t)
    BY <2>8, UserMoves DEF CloseUnclock
  <2>9. CASE CloseFree(t)
    BY <2>9, UserMoves DEF CloseFree
  <2>10. CASE CloseKfree(t)
    BY <2>10, UserMoves DEF CloseKfree
  <2>11. CASE CloseInc(t)
    BY <2>11, UserMoves DEF CloseInc
  <2>12. CASE OpenBusy(t)
    BY <2>12, UserMoves DEF OpenBusy
  <2>13. CASE SetRegisters(t)
    <3>1. PICK to \in {"copymore", "idle"}, from \in Setting : Goes(t, from, to)
      BY <2>13 DEF SetRegisters, Setting
    <3>2. /\ UNCHANGED <<file, by, go, ints>>
          /\ \A u \in Threads : pc'[u] = "armed" <=> pc[u] = "armed"
      BY <2>13, <3>1, UserMoves DEF SetRegisters, Setting
    <3>3. file /\ ~raced' => ~raced /\ ~by /\ ~go /\ ~spoiled'
      BY <2>13 DEF SetRegisters
    <3> QED
      BY <3>2, <3>3
  <2>14. CASE SetFails(t)
    BY <2>14, UserMoves DEF SetFails, Setting
  <2>15. CASE TriggerArm(t)
    BY <2>15, UserMoves DEF TriggerArm
  <2>16. CASE TriggerGo(t)
    <3>1. /\ UNCHANGED <<file, by, ints, raced>> /\ go'
          /\ pc[t] = "armed" /\ pc'[t] = "idle"
          /\ \A u \in Threads : u # t => pc'[u] = pc[u]
      BY <2>16, UserMoves DEF TriggerGo
    <3>2. spoiled' => spoiled
      BY <2>16 DEF TriggerGo
    <3> QED
      BY <3>1, <3>2
  <2>17. CASE FlushTest(t)
    BY <2>17, UserMoves DEF FlushTest
  <2> QED
    BY <1>1, <2>1, <2>2, <2>3, <2>4, <2>5, <2>6, <2>7, <2>8, <2>9, <2>10, <2>11, <2>12, <2>13, <2>14, <2>15, <2>16, <2>17 DEF ThreadSteps
<1>2. ASSUME NEW t \in Threads, ThreadCalls(t) PROVE Goal'
  <2>1. CASE Set(t)
    BY <2>1, UserMoves DEF Set
  <2>2. CASE SetMmu(t)
    BY <2>2, UserMoves DEF SetMmu
  <2>3. CASE Trigger(t)
    BY <2>3, UserMoves DEF Trigger
  <2>4. CASE Flush(t)
    BY <2>4, UserMoves DEF Flush
  <2>5. CASE FlushSignal(t)
    BY <2>5, UserMoves DEF FlushSignal
  <2>6. CASE OpenTry(t)
    BY <2>6, UserMoves DEF OpenTry
  <2>7. CASE Close(t)
    BY <2>7, UserMoves DEF Close
  <2> QED
    BY <1>2, <2>1, <2>2, <2>3, <2>4, <2>5, <2>6, <2>7 DEF ThreadCalls
<1>3. CASE EngineDone
  BY <1>3 DEF EngineDone
<1>4. CASE IrqHandler
  BY <1>4 DEF IrqHandler, Interrupted, Owned, TypeOK
<1>5. CASE UNCHANGED vars
  BY <1>5 DEF vars
<1> QED
  BY <1>1, <1>2, <1>3, <1>4, <1>5 DEF Next

-----------------------------------------------------------------------------

LEMMA IInvInit == Init => IInv
<1> SUFFICES ASSUME Init PROVE IInv
  OBVIOUS
<1>1. TypeOK
  <2>1. pc \in [Threads -> Pcs] /\ avail \in Int /\ clk \in Int
    BY Places DEF Init
  <2>2. /\ file \in BOOLEAN /\ priv \in BOOLEAN /\ by \in BOOLEAN /\ mmu \in BOOLEAN
        /\ irq \in BOOLEAN /\ inte \in BOOLEAN /\ known \in BOOLEAN
        /\ go \in BOOLEAN /\ ints \in BOOLEAN /\ raced \in BOOLEAN /\ spoiled \in BOOLEAN
    BY Zenon DEF Init
  <2>3. cb \in {"none", "priv", "null"} /\ bkl \in Threads \cup {Nobody}
    BY Zenon DEF Init
  <2> QED
    BY <2>1, <2>2, <2>3 DEF TypeOK
<1>2. \A t \in Threads : pc[t] = "idle"
  BY DEF Init
<1>3. Counted = {} /\ Users = {} /\ \A t \in Threads : pc[t] \notin Calling
  BY <1>2, Kinds DEF Counted, Users, Opening, Closing
<1>4. Cardinality(Counted) = 0
  BY <1>3, FS_EmptySet
<1>5. Alone
  BY <1>3, <1>4 DEF Alone, Init
<1>6. Owned /\ OnePicture /\ BusyHonest
  BY <1>2 DEF Init, Owned, OnePicture, BusyHonest, At, Opening
<1> QED
  BY <1>1, <1>5, <1>6 DEF IInv

(* What every reachable state satisfies: types, the count against those    *)
(* that have taken it, what the user owns, and one picture at a time.      *)
THEOREM Inductive == Spec => []IInv
<1>1. IInv /\ [Next]_vars => IInv'
  BY TypeNext, AloneNext, OwnedNext, PictureNext DEF IInv
<1> QED
  BY <1>1, IInvInit, PTL DEF Spec

(* The device has one user, whatever opens are refused or fail, and the    *)
(* count does not drift.                                                   *)
THEOREM OneUserHolds == Spec => []OneUser
<1>1. IInv => OneUser
  <2> SUFFICES ASSUME IInv PROVE OneUser
    OBVIOUS
  <2> DEFINE Refused == {t \in Threads : pc[t] = "busy"}
  <2>1. IsFiniteSet(Users) /\ IsFiniteSet(Refused)
    <3>1. Users \subseteq Threads /\ Refused \subseteq Threads
      BY DEF Users
    <3> QED
      BY <3>1, BltAssumption, FS_Subset
  <2>2. Cardinality(Users) \in Nat /\ Cardinality(Refused) \in Nat
    BY <2>1, FS_CardinalityType
  <2>3. Cardinality(Counted) = Cardinality(Users) + Cardinality(Refused)
    <3>1. Counted = Users \cup Refused /\ Users \cap Refused = {}
      BY DEF Counted, Users, Opening, Closing
    <3>2. Cardinality(Users \cap Refused) = 0
      BY <3>1, FS_EmptySet
    <3>3. Cardinality(Users \cup Refused) =
            Cardinality(Users) + Cardinality(Refused) - Cardinality(Users \cap Refused)
      <4> HIDE DEF Refused
      <4> QED
        BY <2>1, FS_Union
    <3> QED
      BY <2>2, <3>1, <3>2, <3>3
  <2>4. Cardinality(Users) = 0 \/ (Cardinality(Users) = 1 /\ ~file)
    <3>1. CASE Users = {}
      BY <3>1, FS_EmptySet
    <3>2. ASSUME NEW t \in Users PROVE Cardinality(Users) = 1 /\ ~file
      <4>1. ~file /\ Users = {t}
        BY <3>2 DEF IInv, Alone
      <4> QED
        BY <4>1, FS_Singleton
    <3> QED
      BY <3>1, <3>2
  <2>5. avail = (IF file THEN 0 ELSE 1) - Cardinality(Counted)
    BY DEF IInv, Alone
  <2> QED
    BY <2>2, <2>3, <2>4, <2>5 DEF OneUser, Held
<1> QED
  BY <1>1, Inductive, PTL

(* An interrupt always finds the callback with its priv.                   *)
THEOREM CallbackAliveHolds == Spec => []CallbackAlive
<1>1. IInv => CallbackAlive
  BY DEF IInv, Owned, CallbackAlive, Interrupted
<1> QED
  BY <1>1, Inductive, PTL

(* The busy bit of the open device is honest until two calls race.         *)
THEOREM BusyHonestHolds == Spec => []BusyHonest
<1>1. IInv => BusyHonest
  BY DEF IInv
<1> QED
  BY <1>1, Inductive, PTL

(* A running engine has an owner.                                          *)
THEOREM EngineOwnedHolds == Spec => []EngineOwned
<1>1. IInv => EngineOwned
  BY DEF IInv, Owned, EngineOwned, At
<1> QED
  BY <1>1, Inductive, PTL

-----------------------------------------------------------------------------
(* One who uses the device, before and after a step, holds it, ...         *)
LEMMA HolderUses ==
  ASSUME file \/ \E t \in Threads : pc[t] \in Using, ~At({"oops"}),
         file' \/ \E t \in Threads : pc'[t] \in Using, ~At({"oops"})'
  PROVE  Holder = "somebody" /\ Holder' = "somebody"
BY DEF Holder, Users, Using

(* ... unless it has crashed, and others do not change that.               *)
LEMMA HolderOthers ==
  ASSUME TypeOK, Alone, NEW t \in Threads, NEW from, NEW to, Goes(t, from, to),
         from \notin Using, to \notin Using, file' = file
  PROVE  Holder' = Holder
<1>1. \A u \in Threads : pc'[u] = pc[u] \/ (pc[u] \notin Using /\ pc'[u] \notin Using)
  BY UserMoves
<1>2. Users' = Users /\ (At({"oops"})' <=> At({"oops"}))
  BY <1>1 DEF Users, At, Using
<1> QED
  BY <1>2 DEF Holder

(* Who holds an open device, or is about to open or close it, is alone.    *)
LEMMA NobodyCrashed ==
  ASSUME TypeOK, Alone, NEW t \in Threads, NEW from, NEW to, Goes(t, from, to),
         from # "oops", from \in Using \/ file
  PROVE  /\ ~At({"oops"})
         /\ to # "oops" => ~At({"oops"})'
         /\ \A u \in Threads : u # t => pc'[u] \notin Using
BY UserMoves DEF At, Using

(* A picture depends on the engine, its busy bit, and on who is about to   *)
(* start it.                                                               *)
LEMMA PictureKept ==
  ASSUME TypeOK, Alone, NEW t \in Threads, NEW from, NEW to, Goes(t, from, to),
         from # "armed", to # "armed", UNCHANGED <<file, by, go, ints, pastVars>>
  PROVE  Picture' = Picture
<1>1. At({"armed"})' <=> At({"armed"})
  BY UserMoves DEF At
<1> QED
  BY <1>1 DEF Picture, pastVars

(* What an engine does that nobody has open is of no interest.             *)
LEMMA PictureShut ==
  ASSUME ~file, ~file', raced' = raced
  PROVE  Picture' = Picture /\ Picture \in {"none", "muddle"}
BY DEF Picture

(* The picture of an open device.                                          *)
LEMMA PictureOpen ==
  ASSUME IInv, file, ~raced
  PROVE  /\ by <=> go \/ ints \/ At({"armed"})
         /\ Picture = IF go THEN "drawing" ELSE IF ints THEN "drawn"
                      ELSE IF At({"armed"}) THEN "asked" ELSE "none"
<1>1. (by <=> go \/ ints \/ At({"armed"})) /\ ~spoiled
  BY DEF IInv, BusyHonest, At
<1>2. by \in BOOLEAN /\ go \in BOOLEAN /\ ints \in BOOLEAN /\ At({"armed"}) \in BOOLEAN
  BY DEF IInv, TypeOK, At
<1>3. by = (go \/ ints \/ At({"armed"}))
  BY <1>1, <1>2
<1> QED
  BY <1>1, <1>3 DEF Picture

(* Opens and closes take the device and give it back; a close abandons the *)
(* picture.                                                                *)
LEMMA EngineGate ==
  ASSUME IInv, NEW t \in Threads,
         \/ OpenTry(t) \/ OpenBusy(t) \/ OpenAlloc(t) \/ OpenRequest(t) \/ OpenClock(t)
         \/ OpenReset(t) \/ OpenInstall(t) \/ Close(t) \/ CloseDisable(t) \/ CloseNull(t)
         \/ CloseUnclock(t) \/ CloseFree(t) \/ CloseKfree(t) \/ CloseInc(t)
  PROVE  [Eng!EngNext]_(Eng!engVars)
<1> USE DEF gateVars, statVars, irqVars, clkVars, engineVars, hwVars, Calls
<1>i. TypeOK /\ Alone /\ Owned
  BY DEF IInv
<1>k. /\ Using = {"alloc", "request", "clock", "reset", "install",
                "disable", "null", "unclock", "free", "kfree", "inc", "oops"}
  BY Kinds
<1>1. CASE OpenBusy(t)
  <2>1. Goes(t, "busy", "idle") /\ UNCHANGED <<file, by, go, ints, pastVars>>
    BY <1>1 DEF OpenBusy
  <2>2. Holder' = Holder /\ Picture' = Picture
    BY <1>i, <1>k, <2>1, HolderOthers, PictureKept
  <2> QED
    BY <2>2 DEF Eng!engVars
<1>2. CASE OpenTry(t)
  <2>0. UNCHANGED <<file, by, go, ints, pastVars>>
    BY <1>2 DEF OpenTry
  <2>1. CASE avail = 1
    <3>1. Goes(t, "idle", "alloc")
      BY <1>2, <2>1 DEF OpenTry
    <3>2. ~file /\ Users = {}
      <4>1. IsFiniteSet(Counted) /\ Cardinality(Counted) \in Nat
        BY <1>i, <3>1, Places, CountedMoves
      <4>2. ~file /\ Cardinality(Counted) = 0
        BY <1>i, <2>1, <4>1 DEF Alone
      <4>3. Counted = {}
        BY <4>1, <4>2, FS_EmptySet
      <4> QED
        BY <4>2, <4>3 DEF Counted, Users
    <3>3. Holder = "nobody" /\ ~At({"oops"})
      BY <3>2 DEF Holder, At, Users
    <3>4. ~At({"oops"})' /\ t \in Users'
      BY <1>i, <3>1, <3>3, UserMoves DEF At, Users, Opening
    <3>5. Holder' = "somebody"
      BY <3>4 DEF Holder
    <3>6. Picture' = Picture
      BY <1>i, <2>0, <3>1, PictureKept
    <3> QED
      BY <3>3, <3>5, <3>6 DEF Eng!EngNext, Eng!Take
  <2>2. CASE avail # 1
    <3>1. Goes(t, "idle", "busy")
      BY <1>2, <2>2 DEF OpenTry
    <3>2. Holder' = Holder /\ Picture' = Picture
      BY <1>i, <1>k, <2>0, <3>1, HolderOthers, PictureKept
    <3> QED
      BY <3>2 DEF Eng!engVars
  <2> QED
    BY <2>1, <2>2
<1>3. CASE \/ OpenAlloc(t) \/ OpenRequest(t) \/ OpenClock(t) \/ OpenReset(t)
           \/ CloseDisable(t) \/ CloseNull(t) \/ CloseFree(t) \/ CloseKfree(t)
  <2>1. PICK from \in Using, to \in Using :
          Goes(t, from, to) /\ from # "oops" /\ to # "oops"
    BY <1>3, <1>k DEF OpenAlloc, OpenRequest, OpenClock, OpenReset, CloseDisable, CloseNull,
                      CloseFree, CloseKfree
  <2>2. file' = file /\ raced' = raced
    BY <1>3 DEF OpenAlloc, OpenRequest, OpenClock, OpenReset, CloseDisable, CloseNull, CloseFree,
                CloseKfree, pastVars
  <2>3. ~file /\ pc[t] \in Using /\ pc'[t] \in Using
    BY <1>i, <2>1, UserMoves
  <2>4. Holder = "somebody" /\ Holder' = "somebody"
    BY <1>i, <2>1, <2>3, HolderUses, NobodyCrashed
  <2> QED
    BY <2>2, <2>3, <2>4, PictureShut DEF Eng!engVars
<1>4. CASE OpenInstall(t)
  <2>1. /\ Goes(t, "install", "idle") /\ file'
        /\ UNCHANGED <<by, go, ints, pastVars>>
    BY <1>4 DEF OpenInstall
  <2>2. ~file /\ pc[t] \in Using /\ \A u \in Threads : pc[u] \notin Calling /\ pc'[u] \notin Calling
    BY <1>i, <1>k, <2>1, UserMoves, Kinds DEF Alone
  <2>3. Holder = "somebody" /\ Holder' = "somebody"
    BY <1>i, <1>k, <2>1, <2>2, HolderUses, NobodyCrashed
  <2>4. ~by /\ ~go /\ ~ints /\ ~spoiled
    BY <1>i, <2>1 DEF Owned, At, Opening, Goes
  <2>5. ~At({"armed"})'
    BY <2>2, Kinds DEF At
  <2>6. Picture' = Picture
    BY <1>i, <2>1, <2>2, <2>4, <2>5 DEF Picture, pastVars, TypeOK
  <2> QED
    BY <2>3, <2>6 DEF Eng!engVars
<1>5. CASE Close(t)
  <2>1. /\ Goes(t, "idle", "disable") /\ file /\ ~file' /\ raced' = raced
        /\ \A u \in Threads : pc[u] \notin Calling
    BY <1>5 DEF Close, pastVars
  <2>2. Holder = "somebody" /\ Holder' = "somebody"
    BY <1>i, <1>k, <2>1, HolderUses, NobodyCrashed, UserMoves
  <2>3. CASE raced
    BY <2>1, <2>2, <2>3 DEF Picture, Eng!engVars
  <2>4. CASE ~raced
    <3>1. ~At({"armed"})
      BY <2>1, Kinds DEF At
    <3>2. Picture \in {"drawing", "drawn", "none"} /\ Picture' = "none"
      BY <2>1, <2>4, <3>1, PictureOpen DEF Picture
    <3> QED
      BY <2>2, <3>2 DEF Eng!EngNext, Eng!Abandon, Eng!Goes, Eng!engVars
  <2> QED
    BY <2>3, <2>4
<1>6. CASE CloseUnclock(t)
  <2>1. file' = file /\ raced' = raced
    BY <1>6 DEF CloseUnclock, pastVars
  <2>2. PICK to \in {"free", "oops"} : Goes(t, "unclock", to)
    BY <1>6 DEF CloseUnclock
  <2>3. ~file /\ pc[t] \in Using /\ pc'[t] \in Using /\ pc'[t] = to
    BY <1>i, <1>k, <2>2, UserMoves
  <2>4. Picture' = Picture /\ Picture \in {"none", "muddle"}
    BY <2>1, <2>3, PictureShut
  <2>5. CASE to = "free"
    <3>1. Holder = "somebody" /\ Holder' = "somebody"
      BY <1>i, <1>k, <2>2, <2>3, <2>5, HolderUses, NobodyCrashed
    <3> QED
      BY <2>4, <3>1 DEF Eng!engVars
  <2>6. CASE to = "oops"
    <3>1. Holder = "somebody"
      BY <1>i, <1>k, <2>2, <2>3, NobodyCrashed DEF Holder, Users, Using
    <3>2. Holder' = "lost"
      BY <2>3, <2>6 DEF Holder, At
    <3> QED
      BY <2>4, <3>1, <3>2 DEF Eng!EngNext, Eng!Lose
  <2> QED
    BY <2>2, <2>5, <2>6
<1>7. CASE CloseInc(t)
  <2>1. Goes(t, "inc", "idle") /\ file' = file /\ raced' = raced
    BY <1>7 DEF CloseInc, pastVars
  <2>2. ~file /\ pc[t] \in Using /\ pc'[t] = "idle"
    BY <1>i, <1>k, <2>1, UserMoves
  <2>3. Holder = "somebody"
    BY <1>i, <1>k, <2>1, <2>2, NobodyCrashed DEF Holder, Users, Using
  <2>4. Users' = {} /\ ~At({"oops"})'
    <3>1. \A u \in Threads : pc'[u] \notin Using
      BY <1>i, <1>k, <2>1, <2>2, NobodyCrashed
    <3> QED
      BY <3>1 DEF Users, At, Using
  <2>5. Holder' = "nobody"
    BY <2>1, <2>2, <2>4 DEF Holder
  <2> QED
    BY <2>1, <2>2, <2>3, <2>5, PictureShut DEF Eng!EngNext, Eng!Release
<1> QED
  BY <1>1, <1>2, <1>3, <1>4, <1>5, <1>6, <1>7

(* The calls of the holder ask for a picture and start it; a call that has *)
(* raced makes a muddle.                                                   *)
LEMMA EngineCalls ==
  ASSUME IInv, NEW t \in Threads,
         \/ Set(t) \/ SetRegisters(t) \/ SetFails(t) \/ SetMmu(t) \/ Trigger(t) \/ TriggerArm(t)
         \/ TriggerGo(t) \/ Flush(t) \/ FlushTest(t) \/ FlushSignal(t)
  PROVE  [Eng!EngNext]_(Eng!engVars)
<1> USE DEF gateVars, statVars, irqVars, clkVars, engineVars, hwVars, Calls
<1>i. TypeOK /\ Alone /\ Owned /\ OnePicture
  BY DEF IInv
<1>k. Calling = {"copy", "copymore", "fault", "armed", "test", "sleep"} /\ "idle" \notin Using
      /\ Calling \cap Using = {} /\ "oops" \in Using
  BY Kinds
<1>o. file /\ file' = file
  <2>1. PICK from \in Calling \cup {"idle"} : pc[t] = from /\ (from = "idle" => file)
    BY <1>k DEF Set, SetRegisters, SetFails, SetMmu, Trigger, TriggerArm, TriggerGo, Flush,
                FlushTest, FlushSignal, Goes, Setting
  <2>2. file
    BY <1>i, <2>1 DEF Alone
  <2> QED
    BY <2>2 DEF Set, SetRegisters, SetFails, SetMmu, Trigger, TriggerArm, TriggerGo, Flush,
                FlushTest, FlushSignal
<1>h. ASSUME NEW from, NEW to \in Calling \cup {"idle"}, Goes(t, from, to)
      PROVE  Holder = "somebody" /\ Holder' = "somebody"
  <2>1. from # "oops" /\ to # "oops"
    <3>1. pc[t] = from /\ pc[t] \notin Using
      BY <1>i, <1>o, <1>h, UserMoves
    <3> QED
      BY <1>k, <3>1
  <2> QED
    BY <1>i, <1>o, <1>h, <2>1, HolderUses, NobodyCrashed
<1>0. ASSUME NEW from, NEW to \in Calling \cup {"idle"}, Goes(t, from, to),
             from # "armed", to # "armed", UNCHANGED <<by, go, ints, pastVars>>
      PROVE  [Eng!EngNext]_(Eng!engVars)
  <2>1. Picture' = Picture
    BY <1>i, <1>o, <1>0, PictureKept
  <2> QED
    BY <1>0, <1>h, <2>1 DEF Eng!engVars
<1>m. ASSUME NEW from, NEW to \in Calling \cup {"idle"}, Goes(t, from, to), raced'
      PROVE  [Eng!EngNext]_(Eng!engVars)
  <2>1. Holder = "somebody" /\ Holder' = "somebody" /\ Picture' = "muddle"
    BY <1>h, <1>m DEF Picture
  <2>2. CASE raced
    BY <2>1, <2>2 DEF Picture, Eng!engVars
  <2>3. CASE ~raced
    <3>1. Picture \in {"none", "asked", "drawing", "drawn", "aborted"}
      BY <1>o, <2>3, PictureOpen
    <3> QED
      BY <2>1, <3>1 DEF Eng!EngNext, Eng!Muddle, Eng!Goes
  <2> QED
    BY <2>2, <2>3
<1>1. CASE Set(t) \/ SetFails(t) \/ SetMmu(t) \/ Flush(t) \/ FlushTest(t) \/ FlushSignal(t)
  <2>1. UNCHANGED <<by, go, ints, pastVars>>
    BY <1>1 DEF Set, SetFails, SetMmu, Flush, FlushTest, FlushSignal
  <2>2. \E from, to : /\ Goes(t, from, to) /\ from # "armed" /\ to # "armed"
                      /\ to \in Calling \cup {"idle"}
    BY <1>1, <1>k DEF Set, SetFails, SetMmu, Flush, FlushTest, FlushSignal, Setting
  <2> QED
    BY <1>0, <2>1, <2>2
<1>2. CASE SetRegisters(t)
  <2>1. PICK from \in Setting, to \in {"copymore", "idle"} : Goes(t, from, to)
    BY <1>2 DEF SetRegisters, Setting
  <2>2. CASE raced'
    BY <1>k, <1>m, <2>1, <2>2
  <2>3. CASE ~raced'
    <3>1. /\ ~raced /\ ~by /\ spoiled' = (spoiled \/ go)
          /\ UNCHANGED <<by, go, ints>>
      BY <1>2, <2>3 DEF SetRegisters
    <3>2. ~go
      BY <1>o, <3>1, PictureOpen
    <3>3. spoiled' = spoiled /\ raced' = raced
      BY <1>i, <2>3, <3>1, <3>2, <1>2 DEF TypeOK, SetRegisters
    <3> QED
      BY <1>0, <1>k, <2>1, <3>1, <3>3 DEF Setting, pastVars
  <2> QED
    BY <2>2, <2>3
<1>3. CASE Trigger(t) \/ TriggerArm(t)
  <2>1. PICK from \in {"idle", "fault"}, to \in {"fault", "armed"} : Goes(t, from, to)
    BY <1>3 DEF Trigger, TriggerArm
  <2>2. CASE raced'
    BY <1>k, <1>m, <2>1, <2>2
  <2>3. CASE ~raced' /\ to = "fault"
    <3>1. UNCHANGED <<by, go, ints, pastVars>>
      <4>1. pc'[t] = "fault"
        BY <1>i, <2>1, <2>3, UserMoves
      <4> QED
        BY <1>3, <1>i, <4>1, UserMoves DEF Trigger, TriggerArm
    <3> QED
      BY <1>0, <1>k, <2>1, <2>3, <3>1
  <2>4. CASE ~raced' /\ to = "armed"
    <3>1. pc'[t] = "armed"
      BY <1>i, <2>1, <2>4, UserMoves
    <3>2. /\ ~raced /\ ~by /\ by' = TRUE
          /\ UNCHANGED <<go, ints, spoiled>>
      <4>1. CASE Trigger(t)
        <5>1. ~mmu
          BY <1>i, <3>1, <4>1, UserMoves DEF Trigger
        <5> QED
          BY <2>4, <4>1, <5>1 DEF Trigger, pastVars
      <4>2. CASE TriggerArm(t)
        BY <2>4, <4>2 DEF TriggerArm
      <4> QED
        BY <1>3, <4>1, <4>2
    <3>3. ~go /\ ~ints /\ Picture = "none" /\ ~spoiled
      BY <1>o, <3>2, PictureOpen DEF IInv, BusyHonest
    <3>4. At({"armed"})'
      BY <3>1 DEF At
    <3>5. Picture' = "asked"
      BY <1>o, <2>4, <3>2, <3>3, <3>4 DEF Picture
    <3>6. Holder = "somebody" /\ Holder' = "somebody"
      BY <1>h, <1>k, <2>1
    <3> QED
      BY <3>3, <3>5, <3>6 DEF Eng!EngNext, Eng!Ask, Eng!Goes
  <2> QED
    BY <2>1, <2>2, <2>3, <2>4
<1>4. CASE TriggerGo(t)
  <2>1. /\ Goes(t, "armed", "idle") /\ go' = TRUE /\ spoiled' = (spoiled /\ go)
        /\ UNCHANGED <<by, ints, raced>>
    BY <1>4 DEF TriggerGo
  <2>2. CASE raced'
    BY <1>m, <2>1, <2>2
  <2>3. CASE ~raced'
    <3>1. At({"armed"})
      BY <2>1 DEF At, Goes
    <3>2. ~go /\ ~ints
      BY <1>i, <1>o, <2>1, <2>3, <3>1 DEF OnePicture
    <3>3. Picture = "asked" /\ by = TRUE
      BY <1>i, <1>o, <2>1, <2>3, <3>1, <3>2, PictureOpen DEF TypeOK
    <3>4. Picture' = "drawing"
      BY <1>o, <2>1, <2>3, <3>2, <3>3 DEF Picture
    <3>5. Holder = "somebody" /\ Holder' = "somebody"
      BY <1>h, <2>1
    <3> QED
      BY <3>3, <3>4, <3>5 DEF Eng!EngNext, Eng!Start, Eng!Goes
  <2> QED
    BY <2>2, <2>3
<1> QED
  BY <1>1, <1>2, <1>3, <1>4

(* The engine draws, and its interrupt tells.                              *)
LEMMA EngineRuns ==
  ASSUME IInv, EngineDone \/ IrqHandler
  PROVE  [Eng!EngNext]_(Eng!engVars)
<1>i. TypeOK /\ Alone /\ Owned /\ OnePicture
  BY DEF IInv
<1>u. file' = file /\ raced' = raced
  BY DEF EngineDone, IrqHandler, gateVars, pastVars
<1>p. \A u \in Threads : pc'[u] = pc[u] \/ (pc[u] = "sleep" /\ pc'[u] = "test")
  BY <1>i DEF EngineDone, IrqHandler, TypeOK
<1>a. /\ Users' = Users /\ (At({"oops"})' <=> At({"oops"}))
      /\ At({"armed"})' <=> At({"armed"})
  BY <1>p DEF Users, At, Opening, Closing
<1>h. Holder' = Holder
  BY <1>u, <1>a DEF Holder
<1>1. CASE ~file
  BY <1>1, <1>u, <1>h, PictureShut DEF Eng!engVars
<1>2. CASE raced
  BY <1>2, <1>u, <1>h DEF Picture, Eng!engVars
<1>3. CASE file /\ ~raced
  <2>1. Holder = "somebody"
    BY <1>3, <1>i DEF Holder, At, Alone, Users
  <2>2. CASE EngineDone
    <3>1. go /\ ~go' /\ ints' = TRUE /\ by' = by /\ ~spoiled'
      BY <2>2 DEF EngineDone, statVars
    <3>2. Picture = "drawing" /\ by = TRUE
      BY <1>3, <1>i, <3>1, PictureOpen DEF TypeOK
    <3>3. Picture' = "drawn"
      BY <1>3, <1>u, <3>1, <3>2 DEF Picture
    <3> QED
      BY <1>h, <2>1, <3>2, <3>3 DEF Eng!EngNext, Eng!Finish, Eng!Goes
  <2>3. CASE IrqHandler
    <3>1. ints /\ ints' = FALSE /\ go' = go /\ by' = (by /\ cb = "none") /\ spoiled' = spoiled
      BY <2>3 DEF IrqHandler, Interrupted, pastVars
    <3>2. ~go /\ ~At({"armed"}) /\ cb = "priv" /\ ~spoiled
      BY <1>3, <1>i, <3>1 DEF OnePicture, Owned, IInv, BusyHonest
    <3>3. Picture = "drawn" /\ by' = FALSE
      BY <1>3, <3>1, <3>2, PictureOpen
    <3>4. Picture' = "none"
      BY <1>3, <1>u, <1>a, <1>i, <3>1, <3>2, <3>3 DEF Picture, TypeOK
    <3> QED
      BY <1>h, <2>1, <3>3, <3>4 DEF Eng!EngNext, Eng!Tell, Eng!Goes
  <2> QED
    BY <2>2, <2>3
<1> QED
  BY <1>1, <1>2, <1>3

(* The driver implements the engine: one holder at a time, and pictures    *)
(* that are asked for, drawn and told of, in this order and once, until    *)
(* two calls race or the device is closed over the picture.                *)
THEOREM OneAfterTheOther == Spec => ImplementsEngine
<1>1. Init => Eng!EngInit
  <2> SUFFICES ASSUME Init PROVE Eng!EngInit
    OBVIOUS
  <2>1. Users = {} /\ ~At({"oops"})
    BY DEF Init, Users, Opening, Closing, At
  <2> QED
    BY <2>1 DEF Init, Holder, Picture, Eng!EngInit
<1>2. IInv /\ [Next]_vars => [Eng!EngNext]_(Eng!engVars)
  <2> SUFFICES ASSUME IInv, [Next]_vars PROVE [Eng!EngNext]_(Eng!engVars)
    OBVIOUS
  <2>1. ASSUME NEW t \in Threads, ThreadSteps(t) \/ ThreadCalls(t)
        PROVE  [Eng!EngNext]_(Eng!engVars)
    BY <2>1, EngineGate, EngineCalls DEF ThreadSteps, ThreadCalls
  <2>2. CASE UNCHANGED vars
    <3>1. UNCHANGED <<file, by, go, ints, pc, raced, spoiled>>
      BY <2>2 DEF vars, gateVars, statVars, hwVars, engineVars, pastVars
    <3>2. /\ Users' = Users /\ (At({"armed"})' <=> At({"armed"}))
          /\ At({"oops"})' <=> At({"oops"})
      BY <3>1 DEF Users, At
    <3> QED
      BY <3>1, <3>2 DEF Holder, Picture, Eng!engVars
  <2> QED
    BY <2>1, <2>2, EngineRuns DEF Next
<1>3. QED
  BY <1>1, <1>2, Inductive, PTL DEF Spec, ImplementsEngine, Eng!EngSpec
=============================================================================
