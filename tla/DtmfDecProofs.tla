--------------------------- MODULE DtmfDecProofs ----------------------------
(***************************************************************************)
(* Proofs about the DTMF decoder, for any keys and any sizes of blocks.    *)
(***************************************************************************)
EXTENDS DtmfDec, TLAPS

(* digit1 is the last block heard; before the second one nothing is        *)
(* pressed; and every key but the pressed one is armed.  The last is what  *)
(* makes a report of a key the only one of its press.                      *)
IInv ==
  /\ TypeOK
  /\ NoneMissed
  /\ PressedIsHeard
  /\ digit1 = heard[1]
  /\ fresh = 0 => heard = <<None, None>>
  /\ fresh < 2 => digit = None
  /\ Keys \ {digit} \subseteq armed

(* A decoder just allocated satisfies the invariant.                       *)
LEMMA Starts == Init => IInv
  BY DtmfAssumption
     DEF Init, IInv, TypeOK, NoneMissed, PressedIsHeard, Heard

(* The two things a block can do, by what the one before it was.           *)
LEMMA Pressing ==
  ASSUME IInv, NEW digit0 \in Heard, Block(digit0)
  PROVE  /\ digit' \in Heard
         /\ digit0 = heard[1] /\ fresh > 0 => digit' = digit0
         /\ digit' \notin {None, digit} =>
              digit' = digit0 /\ digit0 = heard[1] /\ digit0 \in armed /\ fresh > 0
         /\ digit' # digit => digit \notin {digit0, heard[1]}
         /\ fresh = 0 => digit' = None
  <1> USE DEF IInv, TypeOK
  <1>1. digit' = NextDigit(digit0)
    BY DEF Block
  <1>2. fresh = 0 => digit1 = None /\ digit = None
    OBVIOUS
  <1>3. CASE digit0 # digit /\ digit1 # digit
    BY <1>1, <1>2, <1>3, DtmfAssumption DEF NextDigit, Heard
  <1>4. CASE ~(digit0 # digit /\ digit1 # digit)
    <2>1. digit' = digit
      BY <1>1, <1>4 DEF NextDigit
    <2>2. digit0 = heard[1] => digit = digit0
      BY <1>4
    <2> QED
      BY <2>1, <2>2, <1>2
  <1> QED
    BY <1>3, <1>4

(* Every step preserves the invariant.                                     *)
LEMMA Steps == IInv /\ [Next]_vars => IInv'
  <1> SUFFICES ASSUME IInv, [Next]_vars PROVE IInv'
    OBVIOUS
  <1>1. CASE Reset
    BY <1>1, DtmfAssumption
       DEF Reset, IInv, TypeOK, NoneMissed, PressedIsHeard, Heard
  <1>2. CASE Sample
    <2>1. (bidx \in Nat /\ (bidx = 0 \/ bidx < bsize))'
      BY <1>2, DtmfAssumption DEF Sample, IInv, TypeOK
    <2> QED
      BY <1>2, <2>1 DEF Sample, IInv, TypeOK, NoneMissed, PressedIsHeard
  <1>3. ASSUME NEW digit0 \in Heard, Block(digit0)
        PROVE  IInv'
    <2> USE <1>3 DEF IInv
    <2>1. /\ digit' \in Heard
          /\ digit0 = heard[1] /\ fresh > 0 => digit' = digit0
          /\ digit' \notin {None, digit} =>
               digit' = digit0 /\ digit0 = heard[1] /\ digit0 \in armed /\ fresh > 0
          /\ digit' # digit => digit \notin {digit0, heard[1]}
          /\ fresh = 0 => digit' = None
      BY Pressing
    <2>2. /\ heard' = <<digit0, heard[1]>>
          /\ digit1' = digit0
          /\ fresh' = IF fresh = 2 THEN 2 ELSE fresh + 1
          /\ fresh \in 0..2
      BY DEF Block, TypeOK
    <2>3. /\ heard'[1] = digit0
          /\ heard'[2] = heard[1]
      BY <2>2
    <2>4. armed' = (armed \cup (IF fresh = 0 THEN {} ELSE Keys \ {digit0, heard[1]}))
                     \ (IF digit' # digit /\ digit' # None THEN {digit'} ELSE {})
      BY DEF Block, Reports
    <2>5. TypeOK'
      <3>1. armed' \subseteq Keys
        BY <2>4 DEF TypeOK
      <3>2. heard' \in Heard \X Heard
        BY <2>2 DEF TypeOK
      <3>3. bidx' = 0 /\ bsize' = bsize
        BY DEF Block
      <3> QED
        BY <2>1, <2>2, <3>1, <3>2, <3>3 DEF TypeOK
    <2>6. NoneMissed'
      BY <2>1, <2>2, <2>3 DEF NoneMissed
    <2>7. (digit' # None => fresh' = 2) /\ (fresh' < 2 => digit' = None)
      BY <2>1, <2>2 DEF PressedIsHeard
    <2>8. digit' # None => digit' \notin armed'
      <3>1. CASE digit' # digit
        BY <2>4, <3>1
      <3>2. CASE digit' = digit
        <4> SUFFICES ASSUME digit # None PROVE digit \notin armed'
          BY <3>2
        <4>1. digit \notin armed /\ fresh = 2
          BY DEF PressedIsHeard
        <4>2. digit \in {digit0, heard[1]}
          <5>1. digit' = NextDigit(digit0) /\ digit1 = heard[1]
            BY DEF Block
          <5> QED
            BY <5>1, <3>2, <4>1 DEF NextDigit
        <4> QED
          BY <2>4, <4>1, <4>2
      <3> QED
        BY <3>1, <3>2
    <2>9. Keys \ {digit'} \subseteq armed'
      <3> SUFFICES ASSUME NEW k \in Keys, k # digit' PROVE k \in armed'
        OBVIOUS
      <3>1. CASE k # digit
        BY <3>1, <2>4
      <3>2. CASE k = digit
        <4>1. k \notin {digit0, heard[1]}
          BY <3>2, <2>1
        <4>2. fresh = 2
          BY <3>2, DtmfAssumption DEF TypeOK
        <4> QED
          BY <4>1, <4>2, <2>4
      <3> QED
        BY <3>1, <3>2
    <2> QED
      BY <2>2, <2>3, <2>5, <2>6, <2>7, <2>8, <2>9 DEF PressedIsHeard
  <1>4. CASE UNCHANGED vars
    BY <1>4 DEF vars, IInv, TypeOK, NoneMissed, PressedIsHeard
  <1> QED
    BY <1>1, <1>2, <1>3, <1>4 DEF Next

(* The invariant holds in every state of every run.                        *)
THEOREM Invariant == Spec => []IInv
  <1> QED
    BY Starts, Steps, PTL DEF Spec

(* Every variable of the decoder keeps its type.                           *)
THEOREM TypeCorrect == Spec => []TypeOK
  <1>1. IInv => TypeOK
    BY DEF IInv
  <1> QED
    BY <1>1, Invariant, PTL

(* The decoder misses no press: after two blocks that sound alike, what    *)
(* they sound like is pressed.                                             *)
THEOREM PressesAreSeen == Spec => []NoneMissed
  <1>1. IInv => NoneMissed
    BY DEF IInv
  <1> QED
    BY <1>1, Invariant, PTL

(* A key is reported once for each press, and only when it was heard in    *)
(* two blocks in a row.                                                    *)
THEOREM PressesAreReportedOnce == Spec => ReportedOnce
  <1> DEFINE Once == \A k \in Keys : digit # k /\ digit' = k =>
                        k \in armed /\ fresh' = 2 /\ heard' = <<k, k>>
  <1>1. ASSUME IInv, [Next]_vars PROVE [Once]_vars
    <2> SUFFICES ASSUME NEW k \in Keys, digit # k, digit' = k, Next
                 PROVE  k \in armed /\ fresh' = 2 /\ heard' = <<k, k>>
      BY <1>1 DEF vars
    <2>1. k # None
      BY DtmfAssumption
    <2>2. PICK digit0 \in Heard : Block(digit0)
      BY <2>1 DEF Next, Reset, Sample
    <2>3. digit' = digit0 /\ digit0 = heard[1] /\ digit0 \in armed /\ fresh > 0
      BY <2>1, <2>2, <1>1, Pressing
    <2>4. fresh \in 0..2
      BY <1>1 DEF IInv, TypeOK
    <2> QED
      BY <2>2, <2>3, <2>4 DEF Block
  <1> QED
    BY <1>1, Invariant, PTL DEF Spec, ReportedOnce
=============================================================================
