---------------------------- MODULE VpeDrvProofs -----------------------------
(***************************************************************************)
(* Theorems about VpeDrv, for every set of threads and calls.              *)
(***************************************************************************)
EXTENDS VpeDrv, TLAPS, FiniteSetTheorems

(* The places, so that Pcs need not be expanded, and their kinds.          *)
LEMMA Places ==
  /\ {"openlock", "openhw", "openirq"} \subseteq Pcs
  /\ {"spingo", "spindone", "freeirq", "closehw", "up", "inc"} \subseteq Pcs
  /\ {"fault", "fire", "wait", "spinstop", "stopped"} \subseteq Pcs
  /\ {"idle", "busy"} \subseteq Pcs
  BY DEF Pcs, Opening, Closing, Calling

Using == Opening \cup Closing
Counting == Using \cup {"busy"}

LEMMA Kinds ==
  /\ Using = {"openlock", "openhw", "openirq",
              "spingo", "spindone", "freeirq", "closehw", "up", "inc"}
  /\ Counting = {"openlock", "openhw", "openirq",
                 "spingo", "spindone", "freeirq", "closehw", "up", "inc", "busy"}
  /\ Calling = {"fault", "fire", "wait", "spinstop", "stopped"}
  BY DEF Using, Counting, Opening, Closing, Calling

-----------------------------------------------------------------------------

(* Types.                                                                  *)
LEMMA TypeNext == TypeOK /\ [Next]_vars => TypeOK'
<1> SUFFICES ASSUME TypeOK, [Next]_vars PROVE TypeOK'
  OBVIOUS
<1> USE Places DEF TypeOK, Goes, Runs, Calls, engineVars, fileVars, pastVars
<1>1. ASSUME NEW t \in Threads, ThreadSteps(t) PROVE TypeOK'
  <2>1. CASE OpenBusy(t)
    BY <2>1 DEF OpenBusy
  <2>2. CASE OpenLock(t)
    <3>1. lost' \in BOOLEAN
      BY <2>2, Zenon DEF OpenLock
    <3> QED
      BY <2>2, <3>1 DEF OpenLock
  <2>3. CASE OpenHw(t)
    <3>1. go' \in BOOLEAN /\ ints' \in BOOLEAN
      BY <2>3, Zenon DEF OpenHw
    <3> QED
      BY <2>3, <3>1 DEF OpenHw
  <2>4. CASE OpenIrq(t)
    <3>1. stop' \in BOOLEAN /\ irq' \in BOOLEAN /\ open' \in BOOLEAN /\ lost' \in BOOLEAN
      BY <2>4, Zenon DEF OpenIrq
    <3> QED
      BY <2>4, <3>1 DEF OpenIrq
  <2>5. CASE CloseIdle(t)
    BY <2>5 DEF CloseIdle
  <2>6. CASE CloseDone(t)
    BY <2>6 DEF CloseDone
  <2>7. CASE CloseFreeIrq(t)
    <3>1. irq' \in BOOLEAN
      BY <2>7, Zenon DEF CloseFreeIrq
    <3> QED
      BY <2>7, <3>1 DEF CloseFreeIrq
  <2>8. CASE CloseHw(t)
    BY <2>8 DEF CloseHw
  <2>9. CASE CloseUp(t)
    BY <2>9 DEF CloseUp
  <2>10. CASE CloseInc(t)
    BY <2>10 DEF CloseInc
  <2>11. CASE TriggerClear(t)
    <3>1. complete' \in BOOLEAN
      BY <2>11, Zenon DEF TriggerClear
    <3> QED
      BY <2>11, <3>1 DEF TriggerClear
  <2>12. CASE TriggerGo(t)
    <3>1. go' \in BOOLEAN
      BY <2>12, Zenon DEF TriggerGo
    <3> QED
      BY <2>12, <3>1 DEF TriggerGo
  <2>13. CASE WaitWakes(t)
    BY <2>13 DEF WaitWakes
  <2>14. CASE StopWake(t)
    BY <2>14 DEF StopWake
  <2>15. CASE StopDone(t)
    <3>1. complete' \in BOOLEAN /\ stop' \in BOOLEAN
      BY <2>15, Zenon DEF StopDone
    <3> QED
      BY <2>15, <3>1 DEF StopDone
  <2> QED
    BY <1>1, <2>1, <2>2, <2>3, <2>4, <2>5, <2>6, <2>7, <2>8, <2>9, <2>10, <2>11, <2>12, <2>13, <2>14, <2>15 DEF ThreadSteps
<1>2. ASSUME NEW t \in Threads, ThreadCalls(t) PROVE TypeOK'
  <2>1. CASE OpenTry(t)
    BY <2>1 DEF OpenTry
  <2>2. CASE Close(t)
    <3>1. open' \in BOOLEAN
      BY <2>2, Zenon DEF Close
    <3> QED
      BY <2>2, <3>1 DEF Close
  <2>3. CASE Trigger(t)
    <3>1. hurried' \in BOOLEAN
      BY <2>3, Zenon DEF Trigger
    <3> QED
      BY <2>3, <3>1 DEF Trigger
  <2>4. CASE Wait(t)
    BY <2>4 DEF Wait
  <2>5. CASE WaitSignal(t)
    BY <2>5 DEF WaitSignal
  <2>6. CASE Stop(t)
    BY <2>6 DEF Stop
  <2> QED
    BY <1>2, <2>1, <2>2, <2>3, <2>4, <2>5, <2>6 DEF ThreadCalls
<1>3. CASE EngineDone
  BY <1>3 DEF EngineDone
<1>4. CASE EngineAborts
  BY <1>4 DEF EngineAborts
<1>5. CASE IrqHandler
  BY <1>5 DEF IrqHandler
<1>6. CASE UNCHANGED vars
  BY <1>6 DEF vars
<1> QED
  BY <1>1, <1>2, <1>3, <1>4, <1>5, <1>6 DEF Next

-----------------------------------------------------------------------------
(* Who uses the device is alone, and the count agrees.                     *)

Moves(t, from, to) == pc[t] = from /\ pc' = [pc EXCEPT ![t] = to]

(* Counted, when one thread goes from one place to another.                *)
LEMMA CountedMoves ==
  ASSUME TypeOK, NEW t \in Threads, NEW from, NEW to \in Pcs, Moves(t, from, to)
  PROVE  /\ IsFiniteSet(Counted) /\ Cardinality(Counted) \in Nat
         /\ from \in Counting /\ to \notin Counting =>
              Cardinality(Counted') = Cardinality(Counted) - 1
         /\ from \notin Counting /\ to \in Counting =>
              Cardinality(Counted') = Cardinality(Counted) + 1
         /\ (from \in Counting <=> to \in Counting) => Counted' = Counted
<1>1. pc \in [Threads -> Pcs] /\ pc' = [pc EXCEPT ![t] = to] /\ pc[t] = from
  BY DEF TypeOK, Moves
<1>2. IsFiniteSet(Counted) /\ Cardinality(Counted) \in Nat
  <2>1. Counted \subseteq Threads
    BY DEF Counted
  <2> QED
    BY <2>1, VpeAssumption, FS_Subset, FS_CardinalityType
<1>3. ASSUME from \in Counting, to \notin Counting
      PROVE  Cardinality(Counted') = Cardinality(Counted) - 1
  <2>1. Counted' = Counted \ {t} /\ t \in Counted
    BY <1>1, <1>3 DEF Counted, Counting, Using
  <2> QED
    BY <1>2, <2>1, FS_RemoveElement
<1>4. ASSUME from \notin Counting, to \in Counting
      PROVE  Cardinality(Counted') = Cardinality(Counted) + 1
  <2>1. Counted' = Counted \cup {t} /\ t \notin Counted
    BY <1>1, <1>4 DEF Counted, Counting, Using
  <2> QED
    BY <1>2, <2>1, FS_AddElement
<1>5. ASSUME from \in Counting <=> to \in Counting
      PROVE  Counted' = Counted
  BY <1>1, <1>5 DEF Counted, Counting, Using
<1> QED
  BY <1>2, <1>3, <1>4, <1>5

(* Users, likewise: nobody but t becomes one; and while the file is open,  *)
(* or lost, nobody is.                                                     *)
LEMMA UserMoves ==
  ASSUME TypeOK, Alone, NEW t \in Threads, NEW from, NEW to, Moves(t, from, to)
  PROVE  /\ pc[t] = from /\ pc'[t] = to
         /\ \A u \in Threads : u # t => pc'[u] = pc[u]
         /\ from \in Using <=> t \in Users
         /\ to \in Using <=> t \in Users'
         /\ \A u \in Threads : u # t => (u \in Users' <=> u \in Users)
         /\ from \in Using =>
              ~open /\ ~lost /\ \A u \in Threads : u # t => pc[u] \notin Using
         /\ from \in Calling => open
         /\ open \/ lost => \A u \in Threads : pc[u] \notin Using
  BY DEF Moves, TypeOK, Alone, Users, Using

(* A step of the user that leaves it the user.                             *)
LEMMA InsideAlone ==
  ASSUME TypeOK, Alone, NEW t \in Threads, NEW from \in Using, NEW to \in Using,
         Moves(t, from, to), avail' = avail, open' = open, lost' = lost
  PROVE  Alone'
<1>1. to \in Pcs /\ from \in Counting /\ to \in Counting /\ to \notin Calling
  BY Kinds, Places
<1>2. Counted' = Counted
  BY <1>1, CountedMoves
<1>3. pc' = [pc EXCEPT ![t] = to] /\ pc \in [Threads -> Pcs]
  BY DEF Moves, TypeOK
<1>4. \A u \in Users' : u \in Users
  BY <1>1, UserMoves DEF Users
<1> QED
  BY <1>1, <1>2, <1>3, <1>4 DEF Alone

(* A step of somebody who does not count, before or after.                 *)
LEMMA OutsideAlone ==
  ASSUME TypeOK, Alone, NEW t \in Threads, NEW from, NEW to \in Pcs,
         from \notin Counting, to \notin Counting, to \in Calling => open,
         Moves(t, from, to), avail' = avail, open' = open, lost' = lost
  PROVE  Alone'
<1>1. to \notin Using
  BY Kinds
<1>2. Counted' = Counted
  BY CountedMoves
<1>3. pc' = [pc EXCEPT ![t] = to] /\ pc \in [Threads -> Pcs]
  BY DEF Moves, TypeOK
<1>4. \A u \in Users' : u \in Users
  BY <1>1, UserMoves DEF Users
<1> QED
  BY <1>2, <1>3, <1>4 DEF Alone

LEMMA AloneNext == TypeOK /\ Alone /\ Owned /\ [Next]_vars => Alone'
<1> SUFFICES ASSUME TypeOK, Alone, Owned, [Next]_vars PROVE Alone'
  OBVIOUS
<1> USE Places, Kinds DEF Calls, Goes, Runs, Moves, engineVars, fileVars
<1>1. ASSUME NEW t \in Threads, ThreadSteps(t) PROVE Alone'
  <2>1. CASE OpenBusy(t)
    <3>1. Cardinality(Counted') = Cardinality(Counted) - 1 /\ Cardinality(Counted) \in Nat
      <4>1. Moves(t, "busy", "idle")
        BY <2>1 DEF OpenBusy
      <4> HIDE DEF Moves
      <4> QED
        BY <4>1, CountedMoves
    <3>2. pc \in [Threads -> Pcs] /\ pc' = [pc EXCEPT ![t] = "idle"]
      BY <2>1 DEF OpenBusy, TypeOK
    <3>3. \A u \in Users' : u \in Users
      BY <2>1, UserMoves DEF OpenBusy, Users
    <3> QED
      BY <2>1, <3>1, <3>2, <3>3 DEF OpenBusy, Alone, TypeOK
  <2>2. CASE OpenLock(t)
    <3>1. sem = 1
      <4>1. t \in Users /\ ~open /\ ~lost /\ \A u \in Users : u = t
        BY <2>2 DEF OpenLock, Alone, Users, Opening
      <4> QED
        BY <2>2, <4>1 DEF OpenLock, Owned, At, Users, Opening, Closing, TypeOK
    <3>2. /\ Moves(t, "openlock", "openhw")
          /\ avail' = avail /\ open' = open
      BY <2>2, <3>1 DEF OpenLock
    <3>3. lost' = lost
      <4>1. lost' = (lost \/ FALSE)
        BY <2>2, <3>1 DEF OpenLock
      <4> QED
        BY <4>1 DEF TypeOK
    <3> QED
      BY <3>2, <3>3, InsideAlone
  <2>3. CASE OpenHw(t)
    BY <2>3, InsideAlone DEF OpenHw
  <2>4. CASE OpenIrq(t)
    <3>1. Cardinality(Counted') = Cardinality(Counted) - 1 /\ Cardinality(Counted) \in Nat
      <4>1. Moves(t, "openirq", "idle")
        BY <2>4 DEF OpenIrq
      <4> HIDE DEF Moves
      <4> QED
        BY <4>1, CountedMoves
    <3>2. t \in Users /\ t \notin Users' /\ \A u \in Users' : u \in Users
      BY <2>4, UserMoves DEF OpenIrq, Users
    <3>3. ~open /\ ~lost /\ Users' = {}
      BY <3>2 DEF Alone
    <3>4. /\ pc \in [Threads -> Pcs] /\ pc' = [pc EXCEPT ![t] = "idle"] /\ avail' = avail
          /\ (open' /\ ~lost') \/ (~open' /\ lost')
      BY <2>4, <3>3 DEF OpenIrq, TypeOK
    <3>5. \A u \in Threads : pc'[u] \notin Calling
      BY <3>3, <3>4 DEF Alone
    <3> QED
      BY <3>1, <3>3, <3>4, <3>5 DEF Alone, TypeOK
  <2>5. CASE CloseIdle(t)
    BY <2>5, InsideAlone DEF CloseIdle
  <2>6. CASE CloseDone(t)
    BY <2>6, InsideAlone DEF CloseDone
  <2>7. CASE CloseFreeIrq(t)
    BY <2>7, InsideAlone DEF CloseFreeIrq
  <2>8. CASE CloseHw(t)
    BY <2>8, InsideAlone DEF CloseHw
  <2>9. CASE CloseUp(t)
    BY <2>9, InsideAlone DEF CloseUp
  <2>10. CASE CloseInc(t)
    <3>1. Cardinality(Counted') = Cardinality(Counted) - 1 /\ Cardinality(Counted) \in Nat
      <4>1. Moves(t, "inc", "idle")
        BY <2>10 DEF CloseInc
      <4> HIDE DEF Moves
      <4> QED
        BY <4>1, CountedMoves
    <3>2. pc \in [Threads -> Pcs] /\ pc' = [pc EXCEPT ![t] = "idle"]
      BY <2>10 DEF CloseInc, TypeOK
    <3>3. \A u \in Users' : u \in Users
      BY <2>10, UserMoves DEF CloseInc, Users
    <3> QED
      BY <2>10, <3>1, <3>2, <3>3 DEF CloseInc, Alone, TypeOK
  <2>11. CASE TriggerClear(t)
    <3>1. pc[t] \in Calling /\ open
      BY <2>11 DEF TriggerClear, Alone
    <3> QED
      BY <2>11, <3>1, OutsideAlone DEF TriggerClear
  <2>12. CASE TriggerGo(t)
    BY <2>12, OutsideAlone DEF TriggerGo
  <2>13. CASE WaitWakes(t)
    <3>1. pc[t] \in Calling /\ open
      BY <2>13 DEF WaitWakes, Alone
    <3> QED
      BY <2>13, <3>1, OutsideAlone DEF WaitWakes
  <2>14. CASE StopWake(t)
    <3>1. pc[t] \in Calling /\ open
      BY <2>14 DEF StopWake, Alone
    <3> QED
      BY <2>14, <3>1, OutsideAlone DEF StopWake
  <2>15. CASE StopDone(t)
    BY <2>15, OutsideAlone DEF StopDone
  <2> QED
    BY <1>1, <2>1, <2>2, <2>3, <2>4, <2>5, <2>6, <2>7, <2>8, <2>9, <2>10, <2>11, <2>12, <2>13, <2>14, <2>15 DEF ThreadSteps
<1>2. ASSUME NEW t \in Threads, ThreadCalls(t) PROVE Alone'
  <2>1. CASE OpenTry(t)
    <3>1. CASE avail = 1
      <4>1. /\ Cardinality(Counted') = Cardinality(Counted) + 1 /\ Cardinality(Counted) \in Nat
            /\ IsFiniteSet(Counted)
        BY <2>1, <3>1, CountedMoves DEF OpenTry
      <4>2. ~open /\ ~lost /\ Cardinality(Counted) = 0 /\ Counted = {}
        BY <3>1, <4>1, FS_EmptySet DEF Alone
      <4>3. Users = {}
        BY <4>2 DEF Users, Counted
      <4>4. \A u \in Users' : u = t
        BY <2>1, <3>1, <4>3, UserMoves DEF OpenTry, Users
      <4>5. /\ pc \in [Threads -> Pcs] /\ pc' = [pc EXCEPT ![t] = "openlock"]
            /\ avail' = avail - 1 /\ open' = open /\ lost' = lost
        BY <2>1, <3>1 DEF OpenTry, TypeOK
      <4>6. avail' = (IF open' \/ lost' THEN 0 ELSE 1) - Cardinality(Counted')
        BY <3>1, <4>1, <4>2, <4>5
      <4>7. \A u \in Threads : pc'[u] \notin Calling
        BY <4>2, <4>5 DEF Alone
      <4> QED
        BY <4>2, <4>4, <4>5, <4>6, <4>7 DEF Alone
    <3>2. CASE avail # 1
      <4>1. avail - 1 # 0
        BY <3>2 DEF TypeOK
      <4>2. /\ pc \in [Threads -> Pcs] /\ pc' = [pc EXCEPT ![t] = "busy"] /\ pc[t] = "idle"
            /\ avail' = avail - 1 /\ open' = open /\ lost' = lost
        BY <2>1, <4>1 DEF OpenTry, TypeOK
      <4>3. Cardinality(Counted') = Cardinality(Counted) + 1 /\ Cardinality(Counted) \in Nat
        BY <4>2, CountedMoves
      <4>4. \A u \in Users' : u \in Users
        BY <4>2, UserMoves DEF Users
      <4> QED
        BY <4>2, <4>3, <4>4 DEF Alone, TypeOK
    <3> QED
      BY <3>1, <3>2
  <2>2. CASE Close(t)
    <3>1. Cardinality(Counted') = Cardinality(Counted) + 1 /\ Cardinality(Counted) \in Nat
      BY <2>2, CountedMoves DEF Close
    <3>2. Users = {} /\ ~lost
      BY <2>2 DEF Close, Alone
    <3>3. \A u \in Users' : u = t
      BY <2>2, <3>2, UserMoves DEF Close, Users
    <3>4. /\ pc \in [Threads -> Pcs] /\ pc' = [pc EXCEPT ![t] = "spingo"]
          /\ avail' = avail /\ open /\ ~open' /\ ~lost'
      BY <2>2, <3>2 DEF Close, TypeOK
    <3>5. \A u \in Threads : pc'[u] \notin Calling
      BY <2>2, <3>4 DEF Close
    <3> QED
      BY <3>1, <3>3, <3>4, <3>5 DEF Alone, TypeOK
  <2>3. CASE Trigger(t)
    BY <2>3, OutsideAlone DEF Trigger
  <2>4. CASE Wait(t)
    BY <2>4, OutsideAlone DEF Wait
  <2>5. CASE WaitSignal(t)
    BY <2>5, OutsideAlone DEF WaitSignal
  <2>6. CASE Stop(t)
    BY <2>6, OutsideAlone DEF Stop
  <2> QED
    BY <1>2, <2>1, <2>2, <2>3, <2>4, <2>5, <2>6 DEF ThreadCalls
<1>3. CASE EngineDone \/ EngineAborts \/ IrqHandler \/ UNCHANGED vars
  <2>1. UNCHANGED <<avail, open, lost, pc>>
    BY <1>3 DEF EngineDone, EngineAborts, IrqHandler, vars
  <2> QED
    BY <2>1 DEF Alone, Counted, Users
<1> QED
  BY <1>1, <1>2, <1>3 DEF Next

-----------------------------------------------------------------------------
(* The lock, the clocks, the handler and the engine.                       *)

(* What the one user holds, ...                                            *)
LEMMA UserHas ==
  ASSUME TypeOK, Alone, Owned, NEW t \in Threads, pc[t] \in Using
  PROVE  /\ ~open /\ ~lost
         /\ sem = 0 <=> pc[t] \in {"openhw", "openirq", "spingo", "spindone", "freeirq",
                                 "closehw", "up"}
         /\ pc[t] \in {"openirq", "spingo", "spindone", "freeirq", "closehw"} => clk = 1
         /\ pc[t] \notin {"openirq", "spingo", "spindone", "freeirq", "closehw"} => clk = 0
         /\ irq <=> pc[t] \in {"spingo", "spindone", "freeirq"}
         /\ go => pc[t] = "spingo"
         /\ pc[t] = "openirq" => ~ints
<1>1. ~open /\ ~lost /\ \A u \in Threads : pc[u] \in Using => u = t
  BY DEF Alone, Users, Using
<1>2. \A places \in SUBSET Using : At(places) <=> pc[t] \in places
  BY <1>1 DEF At
<1>3. {"openhw", "openirq", "spingo", "spindone", "freeirq", "closehw", "up"} \subseteq Using
  BY Kinds
<1> QED
  BY <1>1, <1>2, <1>3 DEF Owned

(* ... and what it must hold after a step of its own.                      *)
LEMMA UserKeeps ==
  ASSUME TypeOK, Alone, NEW t \in Threads, NEW from \in Using, NEW to \in Using,
         Moves(t, from, to), ~open', ~lost',
         sem' = 0 <=> to \in {"openhw", "openirq", "spingo", "spindone", "freeirq",
                              "closehw", "up"},
         clk' = (IF to \in {"openirq", "spingo", "spindone", "freeirq", "closehw"} THEN 1 ELSE 0),
         irq' <=> to \in {"spingo", "spindone", "freeirq"},
         go' => to = "spingo",
         to = "openirq" => ~ints'
  PROVE  Owned'
<1>1. pc'[t] = to /\ \A u \in Threads : u # t => pc'[u] \notin Using
  BY UserMoves
<1>2. /\ At({"openhw", "openirq", "spingo", "spindone", "freeirq", "closehw", "up"})' <=>
           to \in {"openhw", "openirq", "spingo", "spindone", "freeirq", "closehw", "up"}
      /\ At({"openirq", "spingo", "spindone", "freeirq", "closehw"})' <=>
           to \in {"openirq", "spingo", "spindone", "freeirq", "closehw"}
      /\ At({"spingo", "spindone", "freeirq"})' <=> to \in {"spingo", "spindone", "freeirq"}
      /\ At({"spingo"})' <=> to = "spingo"
      /\ At({"openirq"})' <=> to = "openirq"
  BY <1>1, Kinds DEF At
<1> QED
  BY <1>2 DEF Owned

LEMMA OwnedNext == TypeOK /\ Alone /\ Owned /\ [Next]_vars => Owned'
<1> SUFFICES ASSUME TypeOK, Alone, Owned, [Next]_vars PROVE Owned'
  OBVIOUS
<1> USE Kinds DEF Calls, Goes, Runs, Moves, engineVars, fileVars
<1>1. ASSUME NEW t \in Threads, ThreadSteps(t) PROVE Owned'
  <2>1. CASE OpenBusy(t)
    BY <2>1, UserMoves DEF OpenBusy, Owned, At
  <2>2. CASE OpenLock(t)
    <3>1. pc[t] = "openlock" /\ pc[t] \in Using
      BY <2>2 DEF OpenLock
    <3>2. /\ ~open /\ ~lost /\ sem = 1
          /\ clk = 0
          /\ ~irq /\ ~go
      BY <3>1, UserHas DEF TypeOK
    <3>3. /\ Moves(t, "openlock", "openhw") /\ ~open' /\ sem' = 0 /\ clk' = 0 /\ ~irq' /\ ~go'
      BY <2>2, <3>2 DEF OpenLock
    <3>4. ~lost'
      <4>1. sem # 0
        BY <3>2
      <4> QED
        BY <2>2, <3>2, <4>1, Zenon DEF OpenLock
    <3> HIDE DEF Moves
    <3> QED
      BY <3>3, <3>4, UserKeeps
  <2>3. CASE OpenHw(t)
    <3>1. pc[t] = "openhw" /\ pc[t] \in Using
      BY <2>3 DEF OpenHw
    <3>2. /\ ~open /\ ~lost /\ sem = 0
          /\ clk = 0
          /\ ~irq /\ ~go
      BY <3>1, UserHas DEF TypeOK
    <3>3. /\ Moves(t, "openhw", "openirq") /\ ~open' /\ ~lost'
          /\ sem' = 0 /\ clk' = 1
          /\ ~irq' /\ ~go' /\ ~ints'
      BY <2>3, <3>2 DEF OpenHw
    <3> HIDE DEF Moves
    <3> QED
      BY <3>3, UserKeeps
  <2>4. CASE OpenIrq(t)
    BY <2>4, UserMoves DEF OpenIrq, Owned, At
  <2>5. CASE CloseIdle(t)
    BY <2>5, UserMoves DEF CloseIdle, Owned, At
  <2>6. CASE CloseDone(t)
    BY <2>6, UserMoves DEF CloseDone, Owned, At
  <2>7. CASE CloseFreeIrq(t)
    <3>1. pc[t] = "freeirq" /\ pc[t] \in Using
      BY <2>7 DEF CloseFreeIrq
    <3>2. /\ ~open /\ ~lost /\ sem = 0
          /\ clk = 1
          /\ irq /\ ~go
      BY <3>1, UserHas DEF TypeOK
    <3>3. /\ Moves(t, "freeirq", "closehw") /\ ~open' /\ ~lost'
          /\ sem' = 0 /\ clk' = 1
          /\ ~irq' /\ ~go'
      BY <2>7, <3>2 DEF CloseFreeIrq
    <3> HIDE DEF Moves
    <3> QED
      BY <3>3, UserKeeps
  <2>8. CASE CloseHw(t)
    <3>1. pc[t] = "closehw" /\ pc[t] \in Using
      BY <2>8 DEF CloseHw
    <3>2. /\ ~open /\ ~lost /\ sem = 0
          /\ clk = 1
          /\ ~irq /\ ~go
      BY <3>1, UserHas DEF TypeOK
    <3>3. /\ Moves(t, "closehw", "up") /\ ~open' /\ ~lost'
          /\ sem' = 0 /\ clk' = 0
          /\ ~irq' /\ ~go'
      BY <2>8, <3>2 DEF CloseHw
    <3> HIDE DEF Moves
    <3> QED
      BY <3>3, UserKeeps
  <2>9. CASE CloseUp(t)
    <3>1. pc[t] = "up" /\ pc[t] \in Using
      BY <2>9 DEF CloseUp
    <3>2. /\ ~open /\ ~lost /\ sem = 0
          /\ clk = 0
          /\ ~irq /\ ~go
      BY <3>1, UserHas DEF TypeOK
    <3>3. /\ Moves(t, "up", "inc") /\ ~open' /\ ~lost'
          /\ sem' = 1 /\ clk' = 0
          /\ ~irq' /\ ~go'
      BY <2>9, <3>2 DEF CloseUp
    <3> HIDE DEF Moves
    <3> QED
      BY <3>3, UserKeeps
  <2>10. CASE CloseInc(t)
    BY <2>10, UserMoves DEF CloseInc, Owned, At
  <2>11. CASE TriggerClear(t)
    BY <2>11, UserMoves DEF TriggerClear, Owned, At
  <2>12. CASE TriggerGo(t)
    BY <2>12, UserMoves DEF TriggerGo, Owned, At
  <2>13. CASE WaitWakes(t)
    BY <2>13, UserMoves DEF WaitWakes, Owned, At
  <2>14. CASE StopWake(t)
    BY <2>14, UserMoves DEF StopWake, Owned, At
  <2>15. CASE StopDone(t)
    BY <2>15, UserMoves DEF StopDone, Owned, At
  <2> QED
    BY <1>1, <2>1, <2>2, <2>3, <2>4, <2>5, <2>6, <2>7, <2>8, <2>9, <2>10, <2>11, <2>12, <2>13, <2>14, <2>15 DEF ThreadSteps
<1>2. ASSUME NEW t \in Threads, ThreadCalls(t) PROVE Owned'
  <2>1. CASE OpenTry(t)
    BY <2>1, UserMoves DEF OpenTry, Owned, At
  <2>2. CASE Close(t)
    BY <2>2, UserMoves DEF Close, Owned, At
  <2>3. CASE Trigger(t)
    BY <2>3, UserMoves DEF Trigger, Owned, At
  <2>4. CASE Wait(t)
    BY <2>4, UserMoves DEF Wait, Owned, At
  <2>5. CASE WaitSignal(t)
    BY <2>5, UserMoves DEF WaitSignal, Owned, At
  <2>6. CASE Stop(t)
    BY <2>6, UserMoves DEF Stop, Owned, At
  <2> QED
    BY <1>2, <2>1, <2>2, <2>3, <2>4, <2>5, <2>6 DEF ThreadCalls
<1>3. CASE EngineDone
  <2>1. ASSUME At({"openirq"}) PROVE ~go
    BY <2>1, UserHas DEF At
  <2> QED
    BY <1>3, <2>1 DEF EngineDone, Owned, At
<1>4. CASE EngineAborts
  BY <1>4 DEF EngineAborts, Owned, At
<1>5. CASE IrqHandler
  BY <1>5 DEF IrqHandler, Owned, At
<1>6. CASE UNCHANGED vars
  BY <1>6 DEF vars, Owned, At
<1> QED
  BY <1>1, <1>2, <1>3, <1>4, <1>5, <1>6 DEF Next

-----------------------------------------------------------------------------
(* A picture at a time.                                                    *)

LEMMA PictureNext ==
  TypeOK /\ Alone /\ Owned /\ OnePicture /\ DoneMeansIdle /\ [Next]_vars =>
    OnePicture' /\ DoneMeansIdle'
<1> DEFINE Goal == OnePicture /\ DoneMeansIdle
<1> SUFFICES ASSUME TypeOK, Alone, Owned, OnePicture, DoneMeansIdle, [Next]_vars PROVE Goal'
  OBVIOUS
<1> USE Kinds, VpeAssumption
    DEF Calls, Goes, Runs, Moves, engineVars, fileVars, pastVars, OnePicture, DoneMeansIdle, At
<1>1. ASSUME NEW t \in Threads, ThreadSteps(t) PROVE Goal'
  <2>1. CASE OpenBusy(t)
    BY <2>1, UserMoves DEF OpenBusy
  <2>2. CASE OpenLock(t)
    BY <2>2, UserMoves DEF OpenLock
  <2>3. CASE OpenHw(t)
    BY <2>3, UserMoves DEF OpenHw
  <2>4. CASE OpenIrq(t)
    BY <2>4, UserMoves DEF OpenIrq, Owned
  <2>5. CASE CloseIdle(t)
    BY <2>5, UserMoves DEF CloseIdle
  <2>6. CASE CloseDone(t)
    BY <2>6, UserMoves DEF CloseDone
  <2>7. CASE CloseFreeIrq(t)
    BY <2>7, UserMoves DEF CloseFreeIrq
  <2>8. CASE CloseHw(t)
    BY <2>8, UserMoves DEF CloseHw
  <2>9. CASE CloseUp(t)
    BY <2>9, UserMoves DEF CloseUp
  <2>10. CASE CloseInc(t)
    BY <2>10, UserMoves DEF CloseInc
  <2>11. CASE TriggerClear(t)
    BY <2>11, UserMoves DEF TriggerClear
  <2>12. CASE TriggerGo(t)
    <3>1. /\ pc[t] = "fire" /\ pc'[t] = "idle" /\ bkl = t /\ bkl' = Nobody /\ go'
          /\ UNCHANGED <<ints, complete, stop, hurried>>
          /\ \A u \in Threads : u # t => pc'[u] = pc[u]
      BY <2>12, UserMoves DEF TriggerGo
    <3>2. \A u \in Threads : pc'[u] \notin {"fire", "spinstop", "stopped"}
      BY <3>1
    <3>3. ~hurried => /\ ~complete /\ ~ints
                      /\ \A u \in Threads : pc'[u] \notin {"fault", "fire"}
      BY <3>1
    <3> QED
      BY <3>1, <3>2, <3>3
  <2>13. CASE WaitWakes(t)
    BY <2>13, UserMoves DEF WaitWakes
  <2>14. CASE StopWake(t)
    BY <2>14, UserMoves DEF StopWake
  <2>15. CASE StopDone(t)
    <3>1. /\ pc[t] = "stopped" /\ pc'[t] = "idle" /\ bkl = t /\ ~go /\ ~go' /\ stop'
          /\ UNCHANGED <<ints, hurried>>
          /\ \A u \in Threads : u # t => pc'[u] = pc[u]
      BY <2>15, UserMoves DEF StopDone, TypeOK
    <3>2. \A u \in Threads : pc'[u] \notin {"fire", "spinstop", "stopped"}
      BY <3>1
    <3> QED
      BY <3>1, <3>2
  <2> QED
    BY <1>1, <2>1, <2>2, <2>3, <2>4, <2>5, <2>6, <2>7, <2>8, <2>9, <2>10, <2>11, <2>12, <2>13, <2>14, <2>15 DEF ThreadSteps
<1>2. ASSUME NEW t \in Threads, ThreadCalls(t) PROVE Goal'
  <2>1. CASE OpenTry(t)
    BY <2>1, UserMoves DEF OpenTry
  <2>2. CASE Close(t)
    BY <2>2, UserMoves DEF Close
  <2>3. CASE Trigger(t)
    <3>1. /\ pc[t] = "idle" /\ pc'[t] = "fault" /\ ~stop
          /\ UNCHANGED <<go, ints, complete, stop, bkl>>
          /\ \A u \in Threads : u # t => pc'[u] = pc[u]
      BY <2>3, UserMoves DEF Trigger
    <3>2. ~hurried' => /\ ~hurried /\ complete
                       /\ \A u \in Threads : pc[u] \notin {"fault", "fire"}
      BY <2>3 DEF Trigger
    <3> QED
      BY <3>1, <3>2
  <2>4. CASE Wait(t)
    BY <2>4, UserMoves DEF Wait
  <2>5. CASE WaitSignal(t)
    BY <2>5, UserMoves DEF WaitSignal
  <2>6. CASE Stop(t)
    BY <2>6, UserMoves DEF Stop
  <2> QED
    BY <1>2, <2>1, <2>2, <2>3, <2>4, <2>5, <2>6 DEF ThreadCalls
<1>3. CASE EngineDone
  BY <1>3 DEF EngineDone
<1>4. CASE EngineAborts
  BY <1>4 DEF EngineAborts
<1>5. CASE IrqHandler
  BY <1>5 DEF IrqHandler
<1>6. CASE UNCHANGED vars
  BY <1>6 DEF vars
<1> QED
  BY <1>1, <1>2, <1>3, <1>4, <1>5, <1>6 DEF Next

-----------------------------------------------------------------------------
(* Who gives the device back, or starts a picture, has heard of the last.  *)

LEMMA ToldNext == TypeOK /\ Alone /\ OnePicture /\ Told /\ [Next]_vars => Told'
<1> SUFFICES ASSUME TypeOK, Alone, OnePicture, Told, [Next]_vars PROVE Told'
  OBVIOUS
<1> USE Kinds DEF Calls, Goes, Runs, Moves, engineVars, fileVars, pastVars, Told, At
<1>1. ASSUME NEW t \in Threads,
             \/ OpenBusy(t) \/ OpenLock(t) \/ OpenHw(t) \/ OpenIrq(t) \/ CloseIdle(t)
             \/ CloseFreeIrq(t) \/ CloseHw(t) \/ CloseUp(t) \/ CloseInc(t)
             \/ TriggerGo(t) \/ WaitWakes(t) \/ StopWake(t)
             \/ OpenTry(t) \/ Wait(t) \/ WaitSignal(t) \/ Stop(t)
      PROVE  Told'
  BY <1>1, UserMoves DEF OpenBusy, OpenLock, OpenHw, OpenIrq, CloseIdle, CloseFreeIrq, CloseHw,
     CloseUp, CloseInc, TriggerGo, WaitWakes, StopWake, OpenTry, Wait, WaitSignal, Stop
<1>2. ASSUME NEW t \in Threads, CloseDone(t) \/ StopDone(t)
      PROVE  Told'
  BY <1>2 DEF CloseDone, StopDone
<1>3. ASSUME NEW t \in Threads, Close(t)
      PROVE  Told'
  BY <1>3, UserMoves DEF Close
<1>4. ASSUME NEW t \in Threads, Trigger(t)
      PROVE  Told'
  BY <1>4, UserMoves DEF Trigger
<1>5. ASSUME NEW t \in Threads, TriggerClear(t)
      PROVE  Told'
  <2>1. /\ pc[t] = "fault" /\ pc'[t] = "fire" /\ open /\ open' = open /\ hurried' = hurried
        /\ \A u \in Threads : u # t => pc'[u] = pc[u]
    BY <1>5, UserMoves DEF TriggerClear
  <2>2. ~hurried => \A u \in Threads : pc[u] = "fault" => u = t
    BY <2>1 DEF OnePicture
  <2>3. ~hurried => \A u \in Threads : pc'[u] # "fault"
    BY <2>1, <2>2
  <2> QED
    BY <2>1, <2>3
<1>6. CASE EngineDone \/ EngineAborts \/ IrqHandler
  BY <1>6 DEF EngineDone, EngineAborts, IrqHandler
<1>7. CASE UNCHANGED vars
  BY <1>7 DEF vars
<1> QED
  BY <1>1, <1>2, <1>3, <1>4, <1>5, <1>6, <1>7 DEF Next, ThreadSteps, ThreadCalls

-----------------------------------------------------------------------------

LEMMA IInvInit == Init => IInv
<1> SUFFICES ASSUME Init PROVE IInv
  OBVIOUS
<1>1. TypeOK
  <2>1. pc \in [Threads -> Pcs] /\ avail \in Int /\ clk \in Int /\ sem \in {0, 1}
    BY Places DEF Init
  <2>2. /\ open \in BOOLEAN /\ lost \in BOOLEAN /\ irq \in BOOLEAN
        /\ go \in BOOLEAN /\ ints \in BOOLEAN /\ complete \in BOOLEAN /\ stop \in BOOLEAN
        /\ hurried \in BOOLEAN /\ aborted \in BOOLEAN
    BY Zenon DEF Init
  <2>3. asleep \subseteq Threads /\ bkl \in Threads \cup {Nobody}
    BY Zenon DEF Init
  <2> QED
    BY <2>1, <2>2, <2>3 DEF TypeOK
<1>2. \A t \in Threads : pc[t] = "idle"
  BY DEF Init
<1>3. Counted = {} /\ Users = {} /\ \A t \in Threads : pc[t] \notin Calling
  BY <1>2, Kinds DEF Counted, Users, Opening, Closing
<1>4. Cardinality(Counted) = 0
  BY <1>3, FS_EmptySet
<1>5. Alone
  BY <1>3, <1>4 DEF Alone, Init
<1>6. Owned /\ OnePicture /\ DoneMeansIdle /\ Told
  BY <1>2 DEF Init, Owned, OnePicture, DoneMeansIdle, Told, At
<1> QED
  BY <1>1, <1>5, <1>6 DEF IInv

(* What every reachable state satisfies: types, the count against those    *)
(* that have taken it, what they own, and one picture at a time.           *)
THEOREM Inductive == Spec => []IInv
<1>1. IInv /\ [Next]_vars => IInv'
  BY TypeNext, AloneNext, OwnedNext, PictureNext, ToldNext DEF IInv
<1> QED
  BY <1>1, IInvInit, PTL DEF Spec

(* The device has one user, the count does not drift, and the semaphore    *)
(* never refuses an open that the count has let through.                   *)
THEOREM OneUserHolds == Spec => []OneUser
<1>1. IInv => OneUser
  <2> SUFFICES ASSUME IInv PROVE OneUser
    OBVIOUS
  <2> DEFINE Refused == {t \in Threads : pc[t] = "busy"}
  <2>1. IsFiniteSet(Users) /\ IsFiniteSet(Refused)
    <3>1. Users \subseteq Threads /\ Refused \subseteq Threads
      BY DEF Users
    <3> QED
      BY <3>1, VpeAssumption, FS_Subset
  <2>2. Cardinality(Users) \in Nat /\ Cardinality(Refused) \in Nat
    BY <2>1, FS_CardinalityType
  <2>3. Cardinality(Counted) = Cardinality(Users) + Cardinality(Refused)
    <3>1. Counted = Users \cup Refused /\ Users \cap Refused = {}
      BY DEF Counted, Users, Opening, Closing
    <3>2. Cardinality(Users \cap Refused) = 0
      BY <3>1, FS_EmptySet
    <3>3. Cardinality(Users \cup Refused) =
            Cardinality(Users) + Cardinality(Refused) - Cardinality(Users \cap Refused)
      <4> HIDE DEF Refused
      <4> QED
        BY <2>1, FS_Union
    <3> QED
      BY <2>2, <3>1, <3>2, <3>3
  <2>4. Cardinality(Users) = 0 \/ (Cardinality(Users) = 1 /\ ~open /\ ~lost)
    <3>1. CASE Users = {}
      BY <3>1, FS_EmptySet
    <3>2. ASSUME NEW t \in Users PROVE Cardinality(Users) = 1 /\ ~open /\ ~lost
      <4>1. ~open /\ ~lost /\ Users = {t}
        BY <3>2 DEF IInv, Alone
      <4> QED
        BY <4>1, FS_Singleton
    <3> QED
      BY <3>1, <3>2
  <2>5. avail = (IF open \/ lost THEN 0 ELSE 1) - Cardinality(Counted) /\ ~(open /\ lost)
    BY DEF IInv, Alone
  <2>6. ASSUME NEW t \in Threads, pc[t] = "openlock" PROVE sem = 1
    <3>1. t \in Users /\ ~open /\ ~lost /\ \A u \in Users : u = t
      BY <2>6 DEF Users, Opening, IInv, Alone
    <3> QED
      BY <2>6, <3>1 DEF IInv, Owned, At, TypeOK, Users, Opening, Closing
  <2>7. /\ Held <= 1
        /\ avail = 1 - Held - Cardinality(Refused)
    BY <2>2, <2>3, <2>4, <2>5 DEF Held
  <2> QED
    BY <2>6, <2>7 DEF OneUser
<1> QED
  BY <1>1, Inductive, PTL

(* The engine and its handler belong to an open file, and nothing is kept  *)
(* for a device that nobody uses.                                          *)
THEOREM EngineOwnedHolds == Spec => []EngineOwned
<1>1. IInv => EngineOwned
  BY DEF IInv, TypeOK, Owned, EngineOwned, At, Users, Opening, Closing
<1> QED
  BY <1>1, Inductive, PTL

(* What VPE_WAIT_INTERRUPT reports to callers that wait for each picture   *)
(* is so.                                                                  *)
THEOREM DoneMeansIdleHolds == Spec => []DoneMeansIdle
<1>1. IInv => DoneMeansIdle
  BY DEF IInv
<1> QED
  BY <1>1, Inductive, PTL

-----------------------------------------------------------------------------
(* One who uses the device, before and after a step, holds it; ...         *)
LEMMA HolderUses ==
  ASSUME open \/ \E t \in Threads : pc[t] \in Using,
         open' \/ \E t \in Threads : pc'[t] \in Using
  PROVE  Holder = "somebody" /\ Holder' = "somebody"
BY DEF Holder, Users, Using

(* ... and others do not change that.                                      *)
LEMMA HolderOthers ==
  ASSUME TypeOK, Alone, NEW t \in Threads, NEW from, NEW to, Moves(t, from, to),
         from \notin Using, to \notin Using, open' = open, lost' = lost
  PROVE  Holder' = Holder
<1>1. Users' = Users
  <2>1. \A u \in Threads : u \in Users' <=> u \in Users
    BY UserMoves
  <2> QED
    BY <2>1 DEF Users
<1> QED
  BY <1>1 DEF Holder

(* A picture depends on the engine, and on who is about to start it.       *)
LEMMA PictureKept ==
  ASSUME TypeOK, Alone, NEW t \in Threads, NEW from, NEW to, Moves(t, from, to),
         from # "fire", to # "fire", UNCHANGED <<hurried, complete, go, ints>>
  PROVE  Picture' = Picture
<1>1. At({"fire"})' <=> At({"fire"})
  BY UserMoves DEF At
<1> QED
  BY <1>1 DEF Picture

(* Where the last picture has been told of, there is none.                 *)
LEMMA NoPicture ==
  ASSUME IInv, complete
  PROVE  Picture \in {"none", "muddle"}
BY DEF IInv, DoneMeansIdle, Picture

(* Opens and closes take the device and give it back.                      *)
LEMMA EngineGate ==
  ASSUME IInv, NEW t \in Threads,
         \/ OpenTry(t) \/ OpenBusy(t) \/ OpenLock(t) \/ OpenHw(t) \/ OpenIrq(t) \/ Close(t)
         \/ CloseIdle(t) \/ CloseDone(t) \/ CloseFreeIrq(t) \/ CloseHw(t) \/ CloseUp(t)
         \/ CloseInc(t)
  PROVE  [Eng!EngNext]_(Eng!engVars)
<1> USE DEF engineVars, pastVars, Goes, Runs, Calls
<1>i. TypeOK /\ Alone /\ Owned /\ Told
  BY DEF IInv
<1>k. /\ Using = {"openlock", "openhw", "openirq",
                "spingo", "spindone", "freeirq", "closehw", "up", "inc"}
  BY Kinds
<1>1. CASE OpenBusy(t)
  <2>1. Moves(t, "busy", "idle")
    BY <1>1 DEF OpenBusy, Moves
  <2>2. Holder' = Holder
    BY <1>1, <1>i, <1>k, <2>1, HolderOthers DEF OpenBusy
  <2>3. Picture' = Picture
    BY <1>1, <1>i, <2>1, PictureKept DEF OpenBusy
  <2> QED
    BY <2>2, <2>3 DEF Eng!engVars
<1>2. CASE OpenTry(t)
  <2>1. CASE avail' = 0
    <3>1. Moves(t, "idle", "openlock") /\ avail = 1
      <4>1. Moves(t, "idle", "openlock")
        BY <1>2, <2>1 DEF OpenTry, Moves
      <4>2. avail - 1 = 0 /\ avail \in Int
        BY <1>2, <1>i, <2>1 DEF OpenTry, TypeOK
      <4> QED
        BY <4>1, <4>2
    <3>2. ~open /\ ~lost /\ Users = {}
      <4>1. IsFiniteSet(Counted) /\ Cardinality(Counted) \in Nat
        BY <1>i, <3>1, Places, CountedMoves
      <4>2. ~open /\ ~lost /\ Cardinality(Counted) = 0
        BY <1>i, <3>1, <4>1 DEF Alone
      <4>3. Counted = {}
        BY <4>1, <4>2, FS_EmptySet
      <4> QED
        BY <4>2, <4>3 DEF Counted, Users
    <3>3. Holder = "nobody"
      BY <3>2 DEF Holder
    <3>4. Holder' = "somebody"
      BY <1>i, <1>k, <3>1 DEF Holder, Moves, TypeOK, Users, Using
    <3>5. Picture' = Picture
      BY <1>2, <1>i, <3>1, PictureKept DEF OpenTry
    <3> QED
      BY <3>3, <3>4, <3>5 DEF Eng!EngNext, Eng!Take
  <2>2. CASE avail' # 0
    <3>1. Moves(t, "idle", "busy")
      BY <1>2, <2>2 DEF OpenTry, Moves
    <3>2. Holder' = Holder
      BY <1>2, <1>i, <1>k, <3>1, HolderOthers DEF OpenTry
    <3>3. Picture' = Picture
      BY <1>2, <1>i, <3>1, PictureKept DEF OpenTry
    <3> QED
      BY <3>2, <3>3 DEF Eng!engVars
  <2> QED
    BY <2>1, <2>2
<1>3. CASE \/ OpenLock(t) \/ Close(t) \/ CloseIdle(t) \/ CloseDone(t) \/ CloseFreeIrq(t)
           \/ CloseHw(t) \/ CloseUp(t)
  <2>1. pc[t] = "openlock" => sem = 1
    BY <1>i, <1>k, UserHas DEF TypeOK
  <2>2. \E from, to : /\ Moves(t, from, to) /\ from # "fire" /\ to # "fire"
                      /\ from \in Using \/ open
                      /\ to \in Using
    BY <1>3, <1>k, <2>1 DEF OpenLock, Close, CloseIdle, CloseDone, CloseFreeIrq, CloseHw, CloseUp,
                       Moves
  <2>3. UNCHANGED <<hurried, complete, go, ints>>
    BY <1>3 DEF OpenLock, Close, CloseIdle, CloseDone, CloseFreeIrq, CloseHw, CloseUp
  <2>4. Picture' = Picture
    BY <1>i, <2>2, <2>3, PictureKept
  <2>5. Holder = "somebody" /\ Holder' = "somebody"
    BY <1>i, <2>2, HolderUses, UserMoves
  <2> QED
    BY <2>4, <2>5 DEF Eng!engVars
<1>4. CASE OpenHw(t)
  <2>1. Moves(t, "openhw", "openirq")
    BY <1>4 DEF OpenHw, Moves
  <2>2. complete /\ complete' = complete /\ hurried' = hurried /\ ~go'
    <3>1. ~open /\ \A u \in Threads : u # t => pc[u] \notin Using
      BY <1>i, <1>k, <2>1, UserMoves
    <3>2. ~At({"spingo", "spindone"})
      BY <1>k, <2>1, <3>1 DEF At, Moves
    <3> QED
      BY <1>4, <1>i, <3>1, <3>2 DEF OpenHw, Told
  <2>3. Picture' = Picture
    BY <2>2, NoPicture DEF Picture
  <2>4. Holder = "somebody" /\ Holder' = "somebody"
    BY <1>i, <1>k, <2>1, HolderUses, UserMoves
  <2> QED
    BY <2>3, <2>4 DEF Eng!engVars
<1>5. CASE OpenIrq(t)
  <2>1. Moves(t, "openirq", "idle")
    BY <1>5 DEF OpenIrq, Moves
  <2>2. Picture' = Picture
    BY <1>5, <1>i, <2>1, PictureKept DEF OpenIrq
  <2>3. Holder = "somebody"
    BY <1>i, <1>k, <2>1 DEF Holder, Users, Using, Moves
  <2>4. CASE open'
    BY <2>2, <2>3, <2>4 DEF Holder, Eng!engVars
  <2>5. CASE ~open'
    <3>1. lost' /\ ~open /\ \A u \in Threads : u # t => pc[u] \notin Using
      BY <1>5, <1>i, <1>k, <2>1, <2>5, UserMoves DEF OpenIrq
    <3>2. Users' = {}
      BY <1>i, <1>k, <2>1, <3>1, UserMoves DEF Users, Using
    <3>3. Holder' = "lost"
      BY <2>5, <3>1, <3>2 DEF Holder
    <3>4. complete
      BY <1>i, <1>k, <2>1, <3>1 DEF Told, At, Moves
    <3> QED
      BY <2>2, <2>3, <3>3, <3>4, NoPicture DEF Eng!EngNext, Eng!Lose
  <2> QED
    BY <2>4, <2>5
<1>6. CASE CloseInc(t)
  <2>1. Moves(t, "inc", "idle")
    BY <1>6 DEF CloseInc, Moves
  <2>2. Picture' = Picture
    BY <1>6, <1>i, <2>1, PictureKept DEF CloseInc
  <2>3. Holder = "somebody"
    BY <1>i, <1>k, <2>1 DEF Holder, Users, Using, Moves
  <2>4. ~open /\ ~lost /\ \A u \in Threads : u # t => pc[u] \notin Using
    BY <1>i, <1>k, <2>1, UserMoves
  <2>5. Users' = {} /\ ~open' /\ ~lost'
    BY <1>6, <1>i, <1>k, <2>1, <2>4, UserMoves DEF Users, Using, CloseInc
  <2>6. Holder' = "nobody"
    BY <2>5 DEF Holder
  <2>7. complete
    BY <1>i, <1>k, <2>1, <2>4 DEF Told, At, Moves
  <2> QED
    BY <2>2, <2>3, <2>6, <2>7, NoPicture DEF Eng!EngNext, Eng!Release
<1> QED
  BY <1>1, <1>2, <1>3, <1>4, <1>5, <1>6

(* The calls of the holder ask for a picture, start it and call it off; a  *)
(* hurried caller makes a muddle.                                          *)
LEMMA EngineCalls ==
  ASSUME IInv, NEW t \in Threads,
         \/ Trigger(t) \/ TriggerClear(t) \/ TriggerGo(t) \/ Wait(t) \/ WaitWakes(t)
         \/ WaitSignal(t) \/ Stop(t) \/ StopWake(t) \/ StopDone(t)
  PROVE  [Eng!EngNext]_(Eng!engVars)
<1> USE DEF fileVars, engineVars, pastVars, Goes, Runs, Calls
<1>i. TypeOK /\ Alone /\ Owned /\ OnePicture /\ Told /\ DoneMeansIdle
  BY DEF IInv
<1>o. open /\ open' = open
  BY <1>i DEF Trigger, TriggerClear, TriggerGo, Wait, WaitWakes, WaitSignal, Stop, StopWake,
              StopDone, Alone, Calling
<1>h. Holder = "somebody" /\ Holder' = "somebody"
  BY <1>o DEF Holder
<1>1. CASE Wait(t) \/ WaitWakes(t) \/ WaitSignal(t) \/ Stop(t) \/ StopWake(t)
  <2>1. \E from, to : Moves(t, from, to) /\ from # "fire" /\ to # "fire"
    BY <1>1 DEF Wait, WaitWakes, WaitSignal, Stop, StopWake, Moves
  <2>2. UNCHANGED <<hurried, complete, go, ints>>
    BY <1>1 DEF Wait, WaitWakes, WaitSignal, Stop, StopWake
  <2>3. Picture' = Picture
    BY <1>i, <2>1, <2>2, PictureKept
  <2> QED
    BY <1>h, <2>3 DEF Eng!engVars
<1>2. CASE Trigger(t)
  <2>1. Moves(t, "idle", "fault") /\ UNCHANGED <<complete, go, ints>>
    BY <1>2 DEF Trigger, Moves
  <2>2. CASE hurried' = hurried
    BY <1>h, <1>i, <2>1, <2>2, PictureKept DEF Eng!engVars
  <2>3. CASE hurried' # hurried
    <3>1. ~hurried /\ hurried'
      BY <1>2, <1>i, <2>3 DEF Trigger, TypeOK
    <3>2. Picture \in {"none", "asked", "drawing", "drawn", "aborted"} /\ Picture' = "muddle"
      BY <1>i, <3>1 DEF Picture, DoneMeansIdle
    <3> QED
      BY <1>h, <3>2 DEF Eng!EngNext, Eng!Muddle, Eng!Goes
  <2> QED
    BY <2>2, <2>3
<1>3. CASE TriggerClear(t)
  <2>1. /\ Moves(t, "fault", "fire") /\ ~complete'
        /\ UNCHANGED <<hurried, go, ints>>
    BY <1>3 DEF TriggerClear, Moves
  <2>2. CASE hurried
    BY <1>h, <2>1, <2>2 DEF Picture, Eng!engVars
  <2>3. CASE ~hurried
    <3>1. complete /\ ~go /\ ~ints
      BY <1>i, <2>1, <2>3 DEF Told, OnePicture, At, Moves
    <3>2. At({"fire"})'
      BY <1>i, <2>1, UserMoves DEF At
    <3>3. Picture = "none" /\ Picture' = "asked"
      BY <2>1, <2>3, <3>1, <3>2 DEF Picture
    <3> QED
      BY <1>h, <3>3 DEF Eng!EngNext, Eng!Ask, Eng!Goes
  <2> QED
    BY <2>2, <2>3
<1>4. CASE TriggerGo(t)
  <2>1. /\ Moves(t, "fire", "idle") /\ go'
        /\ UNCHANGED <<hurried, complete, ints>>
    BY <1>4 DEF TriggerGo, Moves
  <2>2. CASE hurried
    BY <1>h, <2>1, <2>2 DEF Picture, Eng!engVars
  <2>3. CASE ~hurried
    <3>1. At({"fire"}) /\ ~complete /\ ~go /\ ~ints
      BY <1>i, <2>1, <2>3 DEF OnePicture, At, Moves
    <3>2. Picture = "asked" /\ Picture' = "drawing"
      BY <2>1, <2>3, <3>1 DEF Picture
    <3> QED
      BY <1>h, <3>2 DEF Eng!EngNext, Eng!Start, Eng!Goes
  <2> QED
    BY <2>2, <2>3
<1>5. CASE StopDone(t)
  <2>1. /\ Moves(t, "stopped", "idle") /\ complete'
        /\ UNCHANGED <<hurried, go, ints>>
    BY <1>5 DEF StopDone, Moves
  <2>2. CASE hurried
    BY <1>h, <2>1, <2>2 DEF Picture, Eng!engVars
  <2>3. CASE ~hurried
    <3>1. ~go /\ ~At({"fire"})
      <4>1. bkl = t /\ \A u \in Threads : pc[u] = "fire" => u = t
        BY <1>i, <2>1 DEF OnePicture, Moves
      <4> QED
        BY <1>i, <2>1, <4>1 DEF OnePicture, At, Moves
    <3>2. Picture \in {"none", "drawn", "aborted"} /\ Picture' = "none"
      BY <2>1, <2>3, <3>1 DEF Picture
    <3> QED
      BY <1>h, <3>2 DEF Eng!EngNext, Eng!Tell, Eng!CallOff, Eng!Goes, Eng!engVars
  <2> QED
    BY <2>2, <2>3
<1> QED
  BY <1>1, <1>2, <1>3, <1>4, <1>5

(* The engine draws, and its interrupt tells.                              *)
LEMMA EngineRuns ==
  ASSUME IInv, EngineDone \/ EngineAborts \/ IrqHandler
  PROVE  [Eng!EngNext]_(Eng!engVars)
<1> USE DEF fileVars
<1>i. TypeOK /\ Alone /\ Owned /\ OnePicture /\ DoneMeansIdle /\ Told
  BY DEF IInv
<1>u. open' = open /\ lost' = lost /\ pc' = pc /\ hurried' = hurried
  BY DEF EngineDone, EngineAborts, IrqHandler, pastVars
<1>h. Holder' = Holder
  <2>1. Users' = Users
    BY <1>u DEF Users
  <2> QED
    BY <1>u, <2>1 DEF Holder
<1>a. At({"fire"})' <=> At({"fire"})
  BY <1>u DEF At
<1>1. CASE hurried
  BY <1>1, <1>h, <1>u DEF Picture, Eng!engVars
<1>2. CASE ~hurried /\ (EngineDone \/ EngineAborts)
  <2>1. go /\ ~go' /\ complete' = complete /\ (ints' \/ (ints' = ints))
    BY <1>2 DEF EngineDone, EngineAborts
  <2>2. ~complete /\ ~ints /\ ~At({"fire"})
    <3>1. ~At({"fire"})
      BY <1>2, <1>i, <2>1 DEF OnePicture, At
    <3> QED
      BY <1>2, <1>i, <2>1, <3>1 DEF DoneMeansIdle, OnePicture
  <2>3. Picture = "drawing" /\ Picture' \in {"drawn", "aborted"}
    BY <1>2, <1>u, <1>a, <2>1, <2>2 DEF Picture
  <2>4. Holder = "somebody"
    BY <1>i, <2>1 DEF Owned, At, Holder, Users, Opening, Closing
  <2> QED
    BY <1>h, <2>3, <2>4 DEF Eng!EngNext, Eng!Finish, Eng!Abort, Eng!Goes
<1>3. CASE ~hurried /\ IrqHandler
  <2>1. ints /\ ~ints' /\ complete' /\ go' = go /\ irq
    BY <1>3 DEF IrqHandler
  <2>2. ~go
    BY <1>3, <1>i, <2>1 DEF OnePicture
  <2>3. Picture \in {"none", "drawn"} /\ Picture' = "none"
    BY <1>3, <1>u, <2>1, <2>2 DEF Picture
  <2>4. Holder = "somebody"
    BY <1>i, <2>1 DEF Owned, At, Holder, Users, Opening, Closing
  <2> QED
    BY <1>h, <2>3, <2>4 DEF Eng!EngNext, Eng!Tell, Eng!Goes, Eng!engVars
<1> QED
  BY <1>1, <1>2, <1>3

(* The driver implements the engine: one holder at a time, and pictures    *)
(* that are asked for, drawn and told of, in this order and once.          *)
THEOREM OneAfterTheOther == Spec => ImplementsEngine
<1>1. Init => Eng!EngInit
  <2> SUFFICES ASSUME Init PROVE Eng!EngInit
    OBVIOUS
  <2>1. Users = {}
    BY DEF Init, Users, Opening, Closing
  <2> QED
    BY <2>1 DEF Init, Holder, Picture, Eng!EngInit
<1>2. IInv /\ [Next]_vars => [Eng!EngNext]_(Eng!engVars)
  <2> SUFFICES ASSUME IInv, [Next]_vars PROVE [Eng!EngNext]_(Eng!engVars)
    OBVIOUS
  <2>1. ASSUME NEW t \in Threads, ThreadSteps(t) \/ ThreadCalls(t)
        PROVE  [Eng!EngNext]_(Eng!engVars)
    BY <2>1, EngineGate, EngineCalls DEF ThreadSteps, ThreadCalls
  <2>2. CASE UNCHANGED vars
    <3>1. Users' = Users /\ (At({"fire"})' <=> At({"fire"}))
      BY <2>2 DEF vars, Users, At
    <3> QED
      BY <2>2, <3>1 DEF vars, Holder, Picture, Eng!engVars
  <2> QED
    BY <2>1, <2>2, EngineRuns DEF Next
<1>3. QED
  BY <1>1, <1>2, Inductive, PTL DEF Spec, ImplementsEngine, Eng!EngSpec
=============================================================================
