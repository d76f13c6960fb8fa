----------------------------- MODULE AuBufProofs -----------------------------
(***************************************************************************)
(* Theorems about AuBuf, for every set of readers, all sizes and limits.   *)
(***************************************************************************)
EXTENDS AuBuf, TLAPS, SequenceTheorems, WellFoundedInduction

(* How the operations on sequences change the list, frame by frame.        *)

(* Dropping the head of a list: an overrun.                                *)
LEMMA TailFacts ==
  ASSUME NEW list \in Seq(Frame), list # <<>>
  PROVE  /\ Tail(list) \in Seq(Frame)
         /\ Len(Tail(list)) = Len(list) - 1
         /\ \A i \in 1 .. Len(list) - 1 : Tail(list)[i] = list[i + 1]
         /\ Head(list) = list[1]
<1>1. Head(list) = list[1]
  BY DEF Head
<1>2. QED
  BY <1>1, HeadTailProperties

(* The list a read leaves, when it stops in frame i: the frames from the   *)
(* next one on if frame i is used up, ...                                  *)
LEMMA AfterReadUsedUp ==
  ASSUME NEW list \in Seq(Frame), NEW cut \in Nat, NEW i \in 1 .. Len(list),
         list[i].end = cut
  PROVE  /\ AfterRead(list, cut, i) \in Seq(Frame)
         /\ Len(AfterRead(list, cut, i)) = Len(list) - i
         /\ \A j \in 1 .. Len(list) - i : AfterRead(list, cut, i)[j] = list[j + i]
<1>1. Len(list) \in Nat /\ \A j \in (i + 1) .. Len(list) : list[j] \in Frame
  BY LenProperties, ElementOfSeq
<1>2. AfterRead(list, cut, i) = SubSeq(list, i + 1, Len(list))
  BY DEF AfterRead
<1> HIDE DEF AfterRead
<1>3. /\ SubSeq(list, i + 1, Len(list)) \in Seq(Frame)
      /\ Len(SubSeq(list, i + 1, Len(list)))
           = IF i + 1 <= Len(list) THEN Len(list) - (i + 1) + 1 ELSE 0
      /\ \A j \in 1 .. Len(list) - (i + 1) + 1 :
           SubSeq(list, i + 1, Len(list))[j] = list[i + 1 + j - 1]
  BY <1>1, SubSeqProperties
<1>4. QED
  BY <1>1, <1>2, <1>3

(* ... or the frames from i on, with the front of frame i cut off.         *)
LEMMA AfterReadCut ==
  ASSUME NEW list \in Seq(Frame), NEW cut \in Nat, NEW i \in 1 .. Len(list),
         list[i].end # cut
  PROVE  /\ AfterRead(list, cut, i) \in Seq(Frame)
         /\ Len(AfterRead(list, cut, i)) = Len(list) - i + 1
         /\ AfterRead(list, cut, i)[1] = [pos |-> cut, end |-> list[i].end]
         /\ \A j \in 2 .. Len(list) - i + 1 :
              AfterRead(list, cut, i)[j] = list[j + i - 1]
<1> DEFINE s == SubSeq(list, i, Len(list))
           f == [pos |-> cut, end |-> list[i].end]
<1>1. Len(list) \in Nat /\ \A j \in i .. Len(list) : list[j] \in Frame
  BY LenProperties, ElementOfSeq
<1>2. AfterRead(list, cut, i) = [s EXCEPT ![1].pos = cut]
  BY DEF AfterRead
<1>3. /\ s \in Seq(Frame)
      /\ Len(s) = Len(list) - i + 1
      /\ \A j \in 1 .. Len(list) - i + 1 : s[j] = list[i + j - 1]
  BY <1>1, SubSeqProperties
<1> HIDE DEF s
<1>4. 1 \in 1 .. Len(s) /\ s[1] = list[i] /\ list[i] \in Frame
  BY <1>1, <1>3
<1>5. [s[1] EXCEPT !.pos = cut] = f /\ f \in Frame
  BY <1>4 DEF Frame
<1>6. [s EXCEPT ![1].pos = cut] = [s EXCEPT ![1] = f]
  BY <1>5
<1> HIDE DEF f
<1>7. /\ [s EXCEPT ![1] = f] \in Seq(Frame)
      /\ Len([s EXCEPT ![1] = f]) = Len(s)
      /\ \A j \in 1 .. Len(s) : [s EXCEPT ![1] = f][j] = IF j = 1 THEN f ELSE s[j]
  BY <1>3, <1>4, <1>5, ExceptSeq
<1>8. AfterRead(list, cut, i) = [s EXCEPT ![1] = f]
  BY <1>2, <1>6
<1>9. /\ AfterRead(list, cut, i) \in Seq(Frame)
      /\ Len(AfterRead(list, cut, i)) = Len(s)
      /\ \A j \in 1 .. Len(s) : AfterRead(list, cut, i)[j] = IF j = 1 THEN f ELSE s[j]
  BY <1>7, <1>8
<1> HIDE DEF AfterRead
<1>10. \A j \in 2 .. Len(list) - i + 1 : AfterRead(list, cut, i)[j] = list[j + i - 1]
  BY <1>1, <1>3, <1>9
<1>11. AfterRead(list, cut, i)[1] = f
  BY <1>4, <1>9
<1>12. QED
  BY <1>3, <1>9, <1>10, <1>11 DEF f

-----------------------------------------------------------------------------
(* What the invariant says of the list alone: a chain of intervals that    *)
(* ends at offset end.                                                     *)
Chain(list, end) ==
  /\ list \in Seq(Frame)
  /\ \A i \in 1 .. Len(list) : list[i].pos <= list[i].end /\ list[i].end <= end
  /\ \A i \in 1 .. Len(list) - 1 : list[i].end = list[i + 1].pos
  /\ \A i, j \in 1 .. Len(list) : i < j => list[i].end <= list[j].pos
  /\ list # <<>> => list[Len(list)].end = end

OldestOf(list, end) == IF list = <<>> THEN end ELSE list[1].pos

LEMMA ChainIsInv ==
  ASSUME afl \in Seq(Frame)
  PROVE  /\ Oldest = OldestOf(afl, written)
         /\ Chain(afl, written) <=> FramesAdjacent /\ FramesOrdered
<1>1. QED
  BY DEF Oldest, OldestOf, Chain, FramesAdjacent, FramesOrdered

LEMMA ChainOldest ==
  ASSUME NEW list, NEW end \in Nat, Chain(list, end)
  PROVE  /\ OldestOf(list, end) \in Nat
         /\ OldestOf(list, end) <= end
         /\ list # <<>> => list[1] \in Frame /\ list[1].end \in Nat /\ list[1].end <= end
<1>1. CASE list = <<>>
  BY <1>1 DEF OldestOf
<1>2. CASE list # <<>>
  <2>1. Len(list) \in Nat \ {0} /\ list \in Seq(Frame)
    BY <1>2, EmptySeq DEF Chain
  <2>2. 1 \in 1 .. Len(list)
    BY <2>1
  <2>3. list[1] \in Frame
    BY <2>1, <2>2, ElementOfSeq
  <2>4. list[1].pos <= list[1].end /\ list[1].end <= end
    BY <2>2 DEF Chain
  <2>5. QED
    BY <1>2, <2>3, <2>4 DEF OldestOf, Frame
<1>3. QED
  BY <1>1, <1>2

(* Appending to a chain extends it and leaves its oldest byte.             *)
LEMMA ChainAppend ==
  ASSUME NEW list, NEW end \in Nat, NEW sz \in Nat, Chain(list, end)
  PROVE  LET l == Append(list, [pos |-> end, end |-> end + sz])
         IN  /\ Chain(l, end + sz)
             /\ l # <<>>
             /\ l[1].pos = OldestOf(list, end)
<1> DEFINE f == [pos |-> end, end |-> end + sz]
           l == Append(list, f)
<1>1. f \in Frame
  BY DEF Frame
<1>2. Len(list) \in Nat /\ list \in Seq(Frame) /\ \A i \in 1 .. Len(list) : list[i] \in Frame
  BY LenProperties, ElementOfSeq DEF Chain
<1>3. list = <<>> <=> Len(list) = 0
  BY <1>2, EmptySeq
<1> HIDE DEF f
<1>4. /\ l \in Seq(Frame)
      /\ l # <<>>
      /\ Len(l) = Len(list) + 1
      /\ \A i \in 1 .. Len(list) : l[i] = list[i]
      /\ l[Len(list) + 1] = f
  BY <1>1, <1>2, AppendProperties
<1>5. f.pos = end /\ f.end = end + sz
  BY DEF f
<1> HIDE DEF l
<1>6. \A i \in 1 .. Len(l) : l[i].pos <= l[i].end /\ l[i].end <= end + sz
  <2> SUFFICES ASSUME NEW i \in 1 .. Len(list) + 1
               PROVE  l[i].pos <= l[i].end /\ l[i].end <= end + sz
    BY <1>4
  <2>1. CASE i = Len(list) + 1
    BY <1>4, <1>5, <2>1
  <2>2. CASE i \in 1 .. Len(list)
    <3>1. list[i].pos <= list[i].end /\ list[i].end <= end
      BY <2>2 DEF Chain
    <3>2. l[i] = list[i] /\ list[i].end \in Nat
      BY <1>2, <1>4, <2>2 DEF Frame
    <3>3. QED
      BY <3>1, <3>2
  <2>3. QED
    BY <1>2, <2>1, <2>2
<1>7. \A i \in 1 .. Len(l) - 1 : l[i].end = l[i + 1].pos
  <2> SUFFICES ASSUME NEW i \in 1 .. Len(list)
               PROVE  l[i].end = l[i + 1].pos
    BY <1>2, <1>4
  <2>1. CASE i = Len(list)
    BY <1>2, <1>3, <1>4, <1>5, <2>1 DEF Chain
  <2>2. CASE i < Len(list)
    BY <1>2, <1>4, <2>2 DEF Chain
  <2>3. QED
    BY <1>2, <2>1, <2>2
<1>8. \A i, j \in 1 .. Len(l) : i < j => l[i].end <= l[j].pos
  <2> SUFFICES ASSUME NEW i \in 1 .. Len(list), NEW j \in 1 .. Len(list) + 1, i < j
               PROVE  l[i].end <= l[j].pos
    BY <1>2, <1>4
  <2>1. CASE j = Len(list) + 1
    BY <1>2, <1>4, <1>5, <2>1 DEF Chain
  <2>2. CASE j <= Len(list)
    BY <1>2, <1>4, <2>2 DEF Chain
  <2>3. QED
    BY <1>2, <2>1, <2>2
<1>9. Chain(l, end + sz)
  BY <1>2, <1>4, <1>5, <1>6, <1>7, <1>8 DEF Chain
<1>10. l[1].pos = OldestOf(list, end)
  BY <1>2, <1>3, <1>4, <1>5 DEF OldestOf
<1>11. QED
  BY <1>4, <1>9, <1>10 DEF l, f

(* Dropping the head of a chain moves its oldest byte behind that frame.   *)
LEMMA ChainTail ==
  ASSUME NEW list, NEW end \in Nat, Chain(list, end), list # <<>>
  PROVE  /\ Chain(Tail(list), end)
         /\ OldestOf(Tail(list), end) = list[1].end
         /\ Head(list) = list[1]
<1>1. Len(list) \in Nat \ {0} /\ list \in Seq(Frame)
  BY EmptySeq DEF Chain
<1>2. /\ Tail(list) \in Seq(Frame)
      /\ Len(Tail(list)) = Len(list) - 1
      /\ \A i \in 1 .. Len(list) - 1 : Tail(list)[i] = list[i + 1]
      /\ Head(list) = list[1]
  BY <1>1, TailFacts
<1> DEFINE l == Tail(list)
<1>3. /\ l \in Seq(Frame)
      /\ Len(l) = Len(list) - 1
      /\ \A i \in 1 .. Len(list) - 1 : l[i] = list[i + 1]
  BY <1>2
<1> HIDE DEF l
<1>4. /\ \A i \in 1 .. Len(l) : l[i].pos <= l[i].end /\ l[i].end <= end
      /\ \A i \in 1 .. Len(l) - 1 : l[i].end = l[i + 1].pos
      /\ \A i, j \in 1 .. Len(l) : i < j => l[i].end <= l[j].pos
  <2>1. \A i \in 1 .. Len(l) : i + 1 \in 1 .. Len(list) /\ l[i] = list[i + 1]
    BY <1>1, <1>3
  <2>2. \A i \in 1 .. Len(l) - 1 :
          /\ i \in 1 .. Len(l)
          /\ i + 1 \in 1 .. Len(l)
          /\ i + 1 \in 1 .. Len(list) - 1
    BY <1>1, <1>3
  <2>3. \A i \in 1 .. Len(l) - 1 : l[i].end = l[i + 1].pos
    BY <2>1, <2>2 DEF Chain
  <2>4. \A i, j \in 1 .. Len(l) : i < j => i + 1 < j + 1
    BY <1>1
  <2>5. QED
    BY <2>1, <2>3, <2>4 DEF Chain
<1>5. l # <<>> => l[Len(l)].end = end
  BY <1>1, <1>3, EmptySeq DEF Chain
<1>6. OldestOf(l, end) = list[1].end
  <2>1. CASE l = <<>>
    <3>1. Len(l) = 0 /\ Len(list) = 1
      BY <1>1, <1>3, <2>1, EmptySeq
    <3>2. QED
      BY <2>1, <3>1, <1>1 DEF OldestOf, Chain
  <2>2. CASE l # <<>>
    <3>1. Len(l) \in Nat \ {0}
      BY <1>3, <2>2, EmptySeq
    <3>2. l[1] = list[2] /\ list[1].end = list[2].pos
      BY <1>1, <1>3, <3>1 DEF Chain
    <3>3. QED
      BY <2>2, <3>2 DEF OldestOf
  <2>3. QED
    BY <2>1, <2>2
<1>7. QED
  BY <1>2, <1>3, <1>4, <1>5, <1>6 DEF Chain, l

(* Reading up to offset cut leaves a chain whose oldest byte is at cut.    *)
LEMMA ChainRead ==
  ASSUME NEW list, NEW end \in Nat, Chain(list, end), NEW n \in Nat, NEW i \in 1 .. Len(list),
         StopsIn(list, list[1].pos + n, i)
  PROVE  /\ Chain(AfterRead(list, list[1].pos + n, i), end)
         /\ OldestOf(AfterRead(list, list[1].pos + n, i), end) = list[1].pos + n
<1> DEFINE cut == list[1].pos + n
           l == AfterRead(list, cut, i)
<1>1. /\ Len(list) \in Nat
      /\ list \in Seq(Frame)
      /\ \A k \in 1 .. Len(list) : list[k].pos \in Nat /\ list[k].end \in Nat
  <2>1. list \in Seq(Frame)
    BY DEF Chain
  <2>2. \A k \in 1 .. Len(list) : list[k] \in Frame
    BY <2>1, ElementOfSeq
  <2>3. QED
    BY <2>1, <2>2, LenProperties DEF Frame
<1>2. cut \in Nat /\ list # <<>>
  BY <1>1, EmptySeq
<1>3. list[i].end >= cut /\ list[i].pos <= cut
  <2>1. CASE i = 1
    BY <1>1, <2>1 DEF StopsIn
  <2>2. CASE i > 1
    <3>1. i - 1 \in 1 .. Len(list) - 1 /\ i - 1 \in 1 .. i - 1
      BY <1>1, <2>2
    <3>2. list[i - 1].end = list[(i - 1) + 1].pos /\ list[i - 1].end < cut
      BY <3>1 DEF Chain, StopsIn
    <3>3. QED
      BY <1>1, <3>1, <3>2 DEF StopsIn
  <2>3. QED
    BY <2>1, <2>2
<1> HIDE DEF cut
<1>4. CASE list[i].end = cut
  <2>1. /\ l \in Seq(Frame)
        /\ Len(l) = Len(list) - i
        /\ \A j \in 1 .. Len(list) - i : l[j] = list[j + i]
    BY <1>1, <1>2, <1>4, AfterReadUsedUp
  <2> HIDE DEF l
  <2>2. /\ \A j \in 1 .. Len(l) : l[j].pos <= l[j].end /\ l[j].end <= end
        /\ \A j \in 1 .. Len(l) - 1 : l[j].end = l[j + 1].pos
        /\ \A j, k \in 1 .. Len(l) : j < k => l[j].end <= l[k].pos
    <3>1. \A j \in 1 .. Len(l) : j + i \in 1 .. Len(list) /\ l[j] = list[j + i]
      BY <1>1, <2>1
    <3>2. \A j \in 1 .. Len(l) - 1 :
            /\ j \in 1 .. Len(l)
            /\ j + 1 \in 1 .. Len(l)
            /\ j + i \in 1 .. Len(list) - 1
            /\ (j + i) + 1 = (j + 1) + i
      BY <1>1, <2>1
    <3>3. \A j \in 1 .. Len(l) - 1 : l[j].end = l[j + 1].pos
      BY <3>1, <3>2 DEF Chain
    <3>4. \A j, k \in 1 .. Len(l) : j < k => j + i < k + i
      BY <1>1
    <3>5. QED
      BY <3>1, <3>3, <3>4 DEF Chain
  <2>3. CASE l = <<>>
    <3>1. Len(list) = i
      BY <1>1, <2>1, <2>3, EmptySeq
    <3>2. QED
      BY <1>2, <1>4, <2>1, <2>2, <2>3, <3>1 DEF Chain, OldestOf, cut, l
  <2>4. CASE l # <<>>
    <3>1. Len(l) \in Nat \ {0}
      BY <2>1, <2>4, EmptySeq
    <3>2. l[Len(l)] = list[Len(list)] /\ l[1] = list[i + 1] /\ i \in 1 .. Len(list) - 1
      BY <1>1, <2>1, <3>1
    <3>3. l[Len(l)].end = end /\ l[1].pos = cut
      BY <1>2, <1>4, <3>2 DEF Chain
    <3>4. QED
      BY <2>1, <2>2, <2>4, <3>3 DEF Chain, OldestOf, cut, l
  <2>5. QED
    BY <2>3, <2>4
<1>5. CASE list[i].end # cut
  <2> DEFINE f == [pos |-> cut, end |-> list[i].end]
  <2>1. /\ l \in Seq(Frame)
        /\ Len(l) = Len(list) - i + 1
        /\ l[1] = f
        /\ \A j \in 2 .. Len(list) - i + 1 : l[j] = list[j + i - 1]
    BY <1>1, <1>2, <1>5, AfterReadCut
  <2>2. f.pos = cut /\ f.end = list[i].end
    OBVIOUS
  <2> HIDE DEF l, f
  <2>3. Len(l) \in Nat \ {0} /\ l # <<>>
    BY <1>1, <2>1, EmptySeq
  <2>4. \A j \in 1 .. Len(l) : l[j].end = list[j + i - 1].end
    BY <1>1, <2>1, <2>2
  <2>5. \A j \in 2 .. Len(l) : l[j].pos = list[j + i - 1].pos
    BY <1>1, <2>1
  <2>6. \A j \in 1 .. Len(l) : l[j].pos <= l[j].end /\ l[j].end <= end
    <3> SUFFICES ASSUME NEW j \in 1 .. Len(l)
                 PROVE  l[j].pos <= l[j].end /\ l[j].end <= end
      OBVIOUS
    <3>1. j + i - 1 \in 1 .. Len(list)
      BY <1>1, <2>1
    <3>2. list[j + i - 1].pos <= list[j + i - 1].end /\ list[j + i - 1].end <= end
      BY <3>1 DEF Chain
    <3>3. CASE j = 1
      BY <1>1, <1>3, <2>1, <2>2, <2>4, <3>2, <3>3
    <3>4. CASE j # 1
      BY <2>4, <2>5, <3>2, <3>4
    <3>5. QED
      BY <3>3, <3>4
  <2>7. \A j \in 1 .. Len(l) - 1 : l[j].end = l[j + 1].pos
    <3> SUFFICES ASSUME NEW j \in 1 .. Len(l) - 1
                 PROVE  l[j].end = l[j + 1].pos
      OBVIOUS
    <3>1. j + i - 1 \in 1 .. Len(list) - 1 /\ (j + i - 1) + 1 = (j + 1) + i - 1
      BY <1>1, <2>1
    <3>2. list[j + i - 1].end = list[(j + 1) + i - 1].pos
      BY <3>1 DEF Chain
    <3>3. j \in 1 .. Len(l) /\ j + 1 \in 2 .. Len(l)
      BY <2>3
    <3>4. QED
      BY <2>4, <2>5, <3>2, <3>3
  <2>8. \A j, k \in 1 .. Len(l) : j < k => l[j].end <= l[k].pos
    <3> SUFFICES ASSUME NEW j \in 1 .. Len(l), NEW k \in 1 .. Len(l), j < k
                 PROVE  l[j].end <= l[k].pos
      OBVIOUS
    <3>1. /\ j + i - 1 \in 1 .. Len(list)
          /\ k + i - 1 \in 1 .. Len(list)
          /\ j + i - 1 < k + i - 1
      BY <1>1, <2>1
    <3>2. list[j + i - 1].end <= list[k + i - 1].pos
      BY <3>1 DEF Chain
    <3>3. k \in 2 .. Len(l)
      BY <2>3
    <3>4. QED
      BY <2>4, <2>5, <3>2, <3>3
  <2>9. l[Len(l)].end = end
    <3>1. Len(l) \in 1 .. Len(l) /\ Len(l) + i - 1 = Len(list)
      BY <1>1, <2>1, <2>3
    <3>2. QED
      BY <1>2, <2>4, <3>1 DEF Chain
  <2>10. OldestOf(l, end) = cut
    BY <2>1, <2>2, <2>3 DEF OldestOf
  <2>11. QED
    BY <2>1, <2>6, <2>7, <2>8, <2>9, <2>10 DEF Chain, cut, l
<1>6. QED
  BY <1>4, <1>5

-----------------------------------------------------------------------------
(* The critical section of a read, whichever function it is part of.       *)
LEMMA ReadStep ==
  ASSUME IInv, NEW sz \in ReadSizes, ReadLocked(sz)
  PROVE  /\ afl' \in Seq(Frame) /\ cur_sz' \in Nat /\ filling' \in BOOLEAN
         /\ delivered' \in Nat /\ last' \in Result
         /\ written' = written
         /\ Chain(afl', written)
         /\ cur_sz' = written - OldestOf(afl', written)
         /\ written = delivered' + lost + cur_sz'
         /\ last'.from >= last.from + last.got
         /\ last'.from + last'.got <= OldestOf(afl', written)
         /\ OldestOf(afl', written) = OldestOf(afl, written) + last'.got
         /\ last'.got = 0 \/ last'.got = Min2(sz, cur_sz)
<1>1. /\ afl \in Seq(Frame) /\ cur_sz \in Nat /\ delivered \in Nat /\ lost \in Nat
      /\ written \in Nat /\ last \in Result /\ sz \in Nat \ {0}
      /\ last.from \in Nat /\ last.got \in Nat
  BY AuBufAssumption DEF IInv, TypeOK, Result
<1>2. /\ Chain(afl, written)
      /\ cur_sz = written - OldestOf(afl, written)
      /\ written = delivered + lost + cur_sz
      /\ last.from + last.got <= OldestOf(afl, written)
  BY <1>1, ChainIsInv DEF IInv, SizeAccounted, Conservation, ReadBehind
<1>3. written' = written
  BY DEF ReadLocked
<1>4. CASE ReadSilence(sz)
  <2>1. /\ afl' = afl /\ cur_sz' = cur_sz /\ delivered' = delivered /\ filling' = TRUE
        /\ last' = [sz |-> sz, from |-> last.from + last.got, got |-> 0, zeroed |-> sz]
    BY <1>4 DEF ReadSilence
  <2>2. last'.got = 0 /\ last'.from = last.from + last.got /\ last' \in Result
    BY <1>1, <2>1 DEF Result
  <2>3. OldestOf(afl, written) \in Nat
    BY <1>1, <1>2, ChainOldest
  <2>4. OldestOf(afl', written) = OldestOf(afl, written) /\ Chain(afl', written)
    BY <1>2, <2>1
  <2>5. /\ last'.from >= last.from + last.got
        /\ last'.from + last'.got <= OldestOf(afl, written)
        /\ OldestOf(afl, written) = OldestOf(afl, written) + last'.got
    <3>1. last.from + last.got <= OldestOf(afl, written)
      BY <1>2
    <3>2. QED
      BY <1>1, <2>2, <2>3, <3>1
  <2>6. afl' \in Seq(Frame) /\ cur_sz' \in Nat /\ filling' \in BOOLEAN /\ delivered' \in Nat
    BY <1>1, <2>1
  <2>7. written = delivered' + lost + cur_sz' /\ cur_sz' = written - OldestOf(afl, written)
    BY <1>2, <2>1
  <2>8. QED
    BY <1>3, <2>2, <2>4, <2>5, <2>6, <2>7
<1>5. CASE ReadPcm(sz)
  <2> DEFINE got == Min2(sz, cur_sz)
             cut == afl[1].pos + got
  <2>1. /\ cur_sz >= Need(sz)
        /\ filling' = FALSE
        /\ \/ cur_sz < sz /\ afl' = <<>>
           \/ /\ cur_sz >= sz
              /\ \E i \in 1 .. Len(afl) : StopsIn(afl, cut, i) /\ afl' = AfterRead(afl, cut, i)
        /\ cur_sz' = cur_sz - got
        /\ delivered' = delivered + got
        /\ last' = [sz |-> sz, from |-> afl[1].pos, got |-> got, zeroed |-> 0]
    BY <1>5 DEF ReadPcm
  <2>2. cur_sz > 0
    BY <1>1, <2>1, AuBufAssumption DEF Need
  <2>3. got \in Nat /\ got <= cur_sz /\ (cur_sz >= sz => got = sz) /\ (cur_sz < sz => got = cur_sz)
    BY <1>1 DEF Min2
  <2>4. afl # <<>> /\ OldestOf(afl, written) = afl[1].pos
    BY <1>1, <1>2, <2>2 DEF OldestOf
  <2>5. afl[1] \in Frame /\ afl[1].pos \in Nat
    BY <1>1, <1>2, <2>4, ChainOldest DEF Frame
  <2> HIDE DEF got
  <2>6. cur_sz' = cur_sz - got /\ delivered' = delivered + got
    BY <2>1
  <2>7. /\ last' \in Result /\ last'.from = afl[1].pos /\ last'.got = got
        /\ cur_sz' \in Nat /\ delivered' \in Nat
    BY <1>1, <2>1, <2>3, <2>5 DEF Result
  <2>8. Chain(afl', written) /\ OldestOf(afl', written) = cut
    <3>1. CASE cur_sz < sz /\ afl' = <<>>
      <4>1. Chain(<<>>, written) /\ OldestOf(<<>>, written) = written
        BY EmptySeq DEF Chain, OldestOf
      <4>2. cut = written
        BY <1>1, <1>2, <2>3, <2>4, <2>5, <3>1
      <4>3. QED
        BY <3>1, <4>1, <4>2
    <3>2. CASE \E i \in 1 .. Len(afl) : StopsIn(afl, cut, i) /\ afl' = AfterRead(afl, cut, i)
      BY <1>1, <1>2, <2>3, <3>2, ChainRead
    <3>3. QED
      BY <2>1, <3>1, <3>2
  <2>9. afl' \in Seq(Frame)
    BY <2>8 DEF Chain
  <2>10. /\ written = delivered + lost + cur_sz
        /\ cur_sz = written - afl[1].pos
        /\ cur_sz \in Nat /\ delivered \in Nat /\ lost \in Nat /\ written \in Nat
        /\ got \in Nat
    BY <1>1, <1>2, <2>3, <2>4
  <2>11. cur_sz' = written - cut
    BY <2>5, <2>6, <2>10
  <2>12. written = delivered' + lost + cur_sz'
    BY <2>6, <2>10
  <2>13. /\ last'.from >= last.from + last.got
         /\ last'.from + last'.got <= cut
         /\ cut = OldestOf(afl, written) + last'.got
    <3>1. last.from + last.got <= afl[1].pos
      BY <1>2, <2>4
    <3>2. QED
      BY <2>4, <2>5, <2>7, <2>10, <3>1
  <2>14. filling' \in BOOLEAN /\ last'.got = Min2(sz, cur_sz)
    BY <2>1, <2>7 DEF got
  <2>15. QED
    BY <1>3, <2>7, <2>8, <2>9, <2>11, <2>12, <2>13, <2>14
<1>6. QED
  BY <1>4, <1>5 DEF ReadLocked

(* An append, with the overrun it may cause.                               *)
LEMMA AppendStep ==
  ASSUME IInv, NEW sz \in WriteSizes, AubufAppend(sz)
  PROVE  /\ afl' \in Seq(Frame) /\ cur_sz' \in Nat /\ lost' \in Nat /\ written' \in Nat
         /\ Chain(afl', written')
         /\ cur_sz' = written' - OldestOf(afl', written')
         /\ written' = delivered + lost' + cur_sz'
         /\ written' = written + sz
         /\ OldestOf(afl', written') >= OldestOf(afl, written)
         /\ ~Overrun(sz) => OldestOf(afl', written') = OldestOf(afl, written)
<1> DEFINE list == Append(afl, [pos |-> written, end |-> written + sz])
           oldest == OldestOf(afl, written)
<1>1. cur_sz \in Nat /\ delivered \in Nat /\ lost \in Nat /\ written \in Nat /\ sz \in Nat
  BY AuBufAssumption DEF IInv, TypeOK
<1>2. Chain(afl, written)
  BY ChainIsInv DEF IInv, TypeOK
<1>3. oldest \in Nat /\ cur_sz = written - oldest /\ written = delivered + lost + cur_sz
  <2>1. cur_sz = written - oldest /\ written = delivered + lost + cur_sz
    BY ChainIsInv DEF IInv, TypeOK, SizeAccounted, Conservation
  <2>2. oldest \in Nat
    BY <1>1, <1>2, ChainOldest
  <2>3. QED
    BY <2>1, <2>2
<1>4. Chain(list, written + sz) /\ list # <<>> /\ list[1].pos = oldest
  BY <1>1, <1>2, ChainAppend
<1>5. /\ written' = written + sz
      /\ Overrun(sz) => /\ afl' = Tail(list)
                        /\ cur_sz' = cur_sz + sz - Left(Head(list))
                        /\ lost' = lost + Left(Head(list))
      /\ ~Overrun(sz) => afl' = list /\ cur_sz' = cur_sz + sz - 0 /\ lost' = lost + 0
  BY DEF AubufAppend
<1> HIDE DEF list, oldest
<1>6. written + sz \in Nat
  BY <1>1
<1>7. CASE Overrun(sz)
  <2> DEFINE next == list[1].end
  <2>1. /\ Chain(Tail(list), written + sz)
        /\ OldestOf(Tail(list), written + sz) = next
        /\ Head(list) = list[1]
    BY <1>4, <1>6, ChainTail
  <2>2. next \in Nat /\ next <= written + sz
    BY <1>4, <1>6, ChainOldest
  <2>3. oldest <= next
    <3>1. Len(list) \in Nat \ {0}
      BY <1>4, EmptySeq DEF Chain
    <3>2. list[1].pos <= list[1].end
      BY <1>4, <3>1 DEF Chain
    <3>3. QED
      BY <1>4, <3>2
  <2>4. Left(Head(list)) = next - oldest
    BY <1>4, <2>1 DEF Left
  <2>5. /\ cur_sz' = cur_sz + sz - (next - oldest)
        /\ lost' = lost + (next - oldest)
    BY <1>5, <1>7, <2>4
  <2>6. afl' = Tail(list) /\ written' = written + sz
    BY <1>5, <1>7
  <2>7. Chain(afl', written') /\ OldestOf(afl', written') = next
    BY <2>1, <2>6
  <2>8. afl' \in Seq(Frame)
    BY <2>7 DEF Chain
  <2> HIDE DEF next
  <2>9. cur_sz' \in Nat /\ lost' \in Nat
    BY <1>1, <1>3, <2>2, <2>3, <2>5
  <2>10. written' \in Nat /\ cur_sz' = written' - next /\ written' = delivered + lost' + cur_sz'
    BY <1>1, <1>3, <2>2, <2>3, <2>5, <2>6
  <2>11. next >= oldest
    BY <1>3, <2>2, <2>3
  <2>12. QED
    BY <1>7, <2>6, <2>7, <2>8, <2>9, <2>10, <2>11 DEF oldest
<1>8. CASE ~Overrun(sz)
  <2>1. /\ cur_sz' = cur_sz + sz - 0
        /\ lost' = lost + 0
        /\ written' = written + sz
    BY <1>5, <1>8
  <2>2. afl' = list
    BY <1>5, <1>8
  <2>3. Chain(afl', written') /\ OldestOf(afl', written') = oldest
    BY <1>4, <2>1, <2>2 DEF OldestOf
  <2>4. cur_sz' \in Nat /\ lost' \in Nat /\ written' \in Nat
    BY <1>1, <2>1
  <2>5. cur_sz' = written' - oldest /\ written' = delivered + lost' + cur_sz' /\ oldest >= oldest
    BY <1>1, <1>3, <2>1
  <2>6. afl' \in Seq(Frame)
    BY <2>3 DEF Chain
  <2>7. QED
    BY <2>1, <2>3, <2>4, <2>5, <2>6 DEF oldest
<1>9. QED
  BY <1>7, <1>8

-----------------------------------------------------------------------------
(* The inductive invariant in the terms of the lemmas, one state later.    *)
LEMMA InvNext ==
  ASSUME TypeOK', Chain(afl', written'), cur_sz' = written' - OldestOf(afl', written'),
         written' = delivered' + lost' + cur_sz',
         last'.from + last'.got <= OldestOf(afl', written')
  PROVE  IInv'
<1>1. afl' \in Seq(Frame)
  BY DEF TypeOK
<1>2. Oldest' = OldestOf(afl', written')
  BY DEF Oldest, OldestOf
<1>3. FramesAdjacent' /\ FramesOrdered'
  BY DEF Chain, FramesAdjacent, FramesOrdered
<1>4. SizeAccounted' /\ Conservation' /\ ReadBehind'
  BY <1>2 DEF SizeAccounted, Conservation, ReadBehind
<1>5. QED
  BY <1>3, <1>4 DEF IInv

LEMMA InvNow ==
  ASSUME IInv
  PROVE  /\ Chain(afl, written)
         /\ cur_sz = written - OldestOf(afl, written)
         /\ written = delivered + lost + cur_sz
         /\ last.from + last.got <= OldestOf(afl, written)
         /\ OldestOf(afl, written) \in Nat
         /\ OldestOf(afl, written) <= written
<1>1. afl \in Seq(Frame) /\ written \in Nat
  BY DEF IInv, TypeOK
<1>2. Chain(afl, written) /\ Oldest = OldestOf(afl, written)
  BY <1>1, ChainIsInv DEF IInv
<1>3. QED
  BY <1>1, <1>2, ChainOldest DEF IInv, SizeAccounted, Conservation, ReadBehind

LEMMA InvInit == Init => IInv
<1> SUFFICES ASSUME Init PROVE IInv
  OBVIOUS
<1>1. afl = <<>> /\ Len(afl) = 0 /\ afl \in Seq(Frame)
  BY EmptySeq DEF Init
<1>2. TypeOK
  BY <1>1 DEF Init, TypeOK, Result
<1>3. QED
  BY <1>1, <1>2 DEF Init, IInv, FramesAdjacent, FramesOrdered, SizeAccounted,
                    Conservation, ReadBehind, Oldest

LEMMA InvStep == IInv /\ [Next]_vars => IInv'
<1> SUFFICES ASSUME IInv, [Next]_vars PROVE IInv'
  OBVIOUS
<1>1. /\ TypeOK
      /\ Chain(afl, written)
      /\ cur_sz = written - OldestOf(afl, written)
      /\ written = delivered + lost + cur_sz
      /\ last.from + last.got <= OldestOf(afl, written)
      /\ OldestOf(afl, written) \in Nat
      /\ OldestOf(afl, written) <= written
  BY InvNow DEF IInv
<1>2. /\ last \in Result /\ last.from \in Nat /\ last.got \in Nat
      /\ delivered \in Nat /\ lost \in Nat /\ cur_sz \in Nat /\ written \in Nat
      /\ ts \in Nat /\ now \in Nat \ {0} /\ getting \in [Readers -> ReadSizes \cup {0}]
  BY <1>1 DEF TypeOK, Result
<1>3. ASSUME NEW sz \in WriteSizes, AubufAppend(sz)
      PROVE  IInv'
  <2>1. /\ afl' \in Seq(Frame) /\ cur_sz' \in Nat /\ lost' \in Nat /\ written' \in Nat
        /\ Chain(afl', written')
        /\ cur_sz' = written' - OldestOf(afl', written')
        /\ written' = delivered + lost' + cur_sz'
        /\ OldestOf(afl', written') >= OldestOf(afl, written)
    BY <1>3, AppendStep
  <2>2. /\ filling' = filling /\ ts' = ts /\ now' = now /\ getting' = getting
        /\ delivered' = delivered /\ last' = last
    BY <1>3 DEF AubufAppend
  <2>3. TypeOK'
    BY <1>1, <2>1, <2>2 DEF TypeOK
  <2>4. OldestOf(afl', written') \in Nat
    BY <2>1, ChainOldest
  <2>5. last'.from + last'.got <= OldestOf(afl', written')
    <3>1. last.from + last.got <= OldestOf(afl, written) /\ OldestOf(afl, written) \in Nat
      BY <1>1
    <3>2. OldestOf(afl', written') >= OldestOf(afl, written)
      BY <2>1
    <3>3. last.from \in Nat /\ last.got \in Nat /\ last' = last
      BY <1>2, <2>2
    <3>4. QED
      BY <2>4, <3>1, <3>2, <3>3
  <2>6. QED
    BY <2>1, <2>2, <2>3, <2>5, InvNext
<1>4. ASSUME NEW sz \in ReadSizes, ReadLocked(sz), getting' \in [Readers -> ReadSizes \cup {0}]
      PROVE  IInv'
  <2>1. /\ afl' \in Seq(Frame) /\ cur_sz' \in Nat /\ filling' \in BOOLEAN
        /\ delivered' \in Nat /\ last' \in Result
        /\ written' = written
        /\ Chain(afl', written)
        /\ cur_sz' = written - OldestOf(afl', written)
        /\ written = delivered' + lost + cur_sz'
        /\ last'.from + last'.got <= OldestOf(afl', written)
    BY <1>4, ReadStep
  <2>2. ts' = ts /\ now' = now /\ lost' = lost
    BY <1>4 DEF ReadLocked
  <2>3. TypeOK'
    BY <1>2, <1>4, <2>1, <2>2 DEF TypeOK
  <2>4. QED
    BY <2>1, <2>2, <2>3, InvNext
<1>5. ASSUME NEW r \in Readers, NEW sz \in ReadSizes, AubufRead(r, sz)
      PROVE  IInv'
  BY <1>2, <1>4, <1>5 DEF AubufRead
<1>6. ASSUME NEW r \in Readers, NEW sz \in ReadSizes, NEW p \in Ptimes, AubufGet(r, sz, p)
      PROVE  IInv'
  <2>1. /\ afl' = afl /\ cur_sz' = cur_sz /\ filling' = filling /\ now' = now
        /\ written' = written /\ delivered' = delivered /\ lost' = lost /\ last' = last
    BY <1>6 DEF AubufGet
  <2>2. ts' \in Nat /\ getting' \in [Readers -> ReadSizes \cup {0}]
    BY <1>2, <1>6, AuBufAssumption DEF AubufGet
  <2>3. TypeOK'
    BY <1>1, <2>1, <2>2 DEF TypeOK
  <2>4. QED
    BY <1>1, <2>1, <2>3, InvNext
<1>7. ASSUME NEW r \in Readers, AubufGetRead(r)
      PROVE  IInv'
  <2>1. getting[r] \in ReadSizes
    BY <1>2, <1>7 DEF AubufGetRead
  <2>2. getting' \in [Readers -> ReadSizes \cup {0}]
    BY <1>2, <1>7 DEF AubufGetRead
  <2>3. QED
    BY <1>4, <1>7, <2>1, <2>2 DEF AubufGetRead
<1>8. CASE AubufFlush
  <2>1. /\ afl' = <<>> /\ cur_sz' = 0 /\ filling' = TRUE /\ ts' = 0 /\ lost' = lost + cur_sz
        /\ now' = now /\ getting' = getting /\ written' = written
        /\ delivered' = delivered /\ last' = last
    BY <1>8 DEF AubufFlush
  <2>2. <<>> \in Seq(Frame) /\ Chain(<<>>, written) /\ OldestOf(<<>>, written) = written
    BY EmptySeq DEF Chain, OldestOf
  <2>3. lost' \in Nat
    BY <1>2, <2>1
  <2>4. TypeOK'
    BY <1>1, <2>1, <2>2, <2>3 DEF TypeOK
  <2>5. Chain(afl', written') /\ OldestOf(afl', written') = written
    BY <2>1, <2>2
  <2>6. cur_sz' = written' - written /\ written' = delivered' + lost' + cur_sz'
    <3>1. written = delivered + lost + cur_sz
      BY <1>1
    <3>2. QED
      BY <1>2, <2>1, <3>1
  <2>7. last'.from + last'.got <= written
    <3>1. /\ last.from + last.got <= OldestOf(afl, written)
          /\ OldestOf(afl, written) <= written
          /\ OldestOf(afl, written) \in Nat
      BY <1>1
    <3>2. last' = last
      BY <2>1
    <3>3. QED
      BY <1>2, <3>1, <3>2
  <2>8. QED
    BY <2>1, <2>4, <2>5, <2>6, <2>7, InvNext
<1>9. CASE Tick
  <2>1. /\ afl' = afl /\ cur_sz' = cur_sz /\ filling' = filling /\ ts' = ts
        /\ getting' = getting /\ written' = written /\ delivered' = delivered
        /\ lost' = lost /\ last' = last /\ now' = now + 1
    BY <1>9 DEF Tick
  <2>2. now' \in Nat \ {0}
    BY <1>2, <2>1
  <2>3. TypeOK'
    BY <1>1, <2>1, <2>2 DEF TypeOK
  <2>4. QED
    BY <1>1, <2>1, <2>3, InvNext
<1>10. CASE UNCHANGED vars
  BY <1>1, <1>10, InvNext DEF vars, TypeOK
<1>11. QED
  BY <1>3, <1>5, <1>6, <1>7, <1>8, <1>9, <1>10 DEF Next

(* Spec keeps the inductive invariant.                                     *)
THEOREM Invariant == Spec => []IInv
<1>1. QED
  BY InvInit, InvStep, PTL DEF Spec

(* Every variable keeps its type: no unsigned size drops below zero.       *)
THEOREM TypeCorrect == Spec => []TypeOK
<1>1. IInv => TypeOK
  BY DEF IInv
<1>2. QED
  BY <1>1, Invariant, PTL

(* The list of frames is a gapless piece of the stream, the size the code  *)
(* accounts for is the size of that piece, and every byte appended is      *)
(* delivered, dropped or held.                                             *)
THEOREM SizeCorrect == Spec => [](FramesAdjacent /\ SizeAccounted /\ Conservation)
<1>1. IInv => FramesAdjacent /\ SizeAccounted /\ Conservation
  BY DEF IInv
<1>2. QED
  BY <1>1, Invariant, PTL

(* No read returns a byte again, or a byte older than one already read.    *)
THEOREM ReadsInOrder == Spec => InOrder
<1>1. IInv /\ [Next]_vars => [last'.from >= last.from + last.got]_last
  <2> SUFFICES ASSUME IInv, [Next]_vars, last' # last
               PROVE  last'.from >= last.from + last.got
    OBVIOUS
  <2>1. ASSUME NEW r \in Readers, NEW sz \in ReadSizes, AubufRead(r, sz)
        PROVE  last'.from >= last.from + last.got
    BY <2>1, ReadStep DEF AubufRead
  <2>2. ASSUME NEW r \in Readers, AubufGetRead(r)
        PROVE  last'.from >= last.from + last.got
    <3>1. getting[r] \in ReadSizes
      BY <2>2 DEF AubufGetRead, IInv, TypeOK
    <3>2. QED
      BY <2>2, <3>1, ReadStep DEF AubufGetRead
  <2>3. QED
    BY <2>1, <2>2 DEF Next, vars, AubufAppend, AubufGet, AubufFlush, Tick
<1>2. QED
  BY <1>1, Invariant, PTL DEF Spec, InOrder

(* aubuf_get never runs ahead of the clock by more than one packet time.   *)
THEOREM GetIsPaced == Spec => []Paced
<1>1. Init => Paced
  BY DEF Init, Paced
<1>2. IInv /\ Paced /\ [Next]_vars => Paced'
  <2> SUFFICES ASSUME IInv, Paced, [Next]_vars PROVE Paced'
    OBVIOUS
  <2>1. ts \in Nat /\ now \in Nat \ {0} /\ Ptimes \subseteq Nat
    BY AuBufAssumption DEF IInv, TypeOK
  <2>2. ASSUME NEW r \in Readers, NEW sz \in ReadSizes, NEW p \in Ptimes, AubufGet(r, sz, p)
        PROVE  Paced'
    <3>1. now' = now /\ ts' <= now + p
      BY <2>1, <2>2 DEF AubufGet
    <3>2. QED
      BY <3>1 DEF Paced
  <2>3. CASE Tick
    <3>1. now' = now + 1 /\ ts' = ts
      BY <2>3 DEF Tick
    <3>2. \A p \in Ptimes : ts <= now + p => ts' <= now' + p
      BY <2>1, <3>1
    <3>3. QED
      BY <3>1, <3>2 DEF Paced
  <2>4. CASE AubufFlush
    BY <2>4 DEF AubufFlush, Paced
  <2>5. CASE UNCHANGED <<ts, now>>
    BY <2>5 DEF Paced
  <2>6. QED
    BY <2>2, <2>3, <2>4, <2>5
       DEF Next, vars, AubufAppend, AubufRead, AubufGetRead, ReadLocked
<1>3. QED
  BY <1>1, <1>2, Invariant, PTL DEF Spec

-----------------------------------------------------------------------------
(* The list of frames, the lock and the timed read implement the abstract  *)
(* window of the stream: every step is a Put, an Underrun, a Deliver, a    *)
(* Forget or invisible.                                                    *)
LEMMA FifoInitial == Init => Fifo!FifoInit
BY DEF Init, Oldest, Fifo!FifoInit

LEMMA FifoRead ==
  ASSUME IInv, NEW sz \in ReadSizes, ReadLocked(sz)
  PROVE  Fifo!Underrun(sz) \/ Fifo!Deliver(sz)
<1>1. /\ written' = written
      /\ Oldest = OldestOf(afl, written)
      /\ Oldest' = OldestOf(afl', written)
      /\ OldestOf(afl', written) = OldestOf(afl, written) + last'.got
  BY ReadStep, ChainIsInv DEF IInv, TypeOK, Oldest, OldestOf
<1>2. cur_sz = written - Oldest
  BY DEF IInv, SizeAccounted
<1>3. Need(sz) = Fifo!Need(sz)
  BY DEF Need, Fifo!Need
<1>4. CASE ReadSilence(sz)
  <2>1. filling' = TRUE /\ afl' = afl /\ cur_sz < Need(sz)
    BY <1>4 DEF ReadSilence
  <2>2. Oldest' = Oldest
    BY <1>1, <2>1
  <2>3. QED
    BY <1>1, <1>2, <1>3, <2>1, <2>2 DEF Fifo!Underrun
<1>5. CASE ReadPcm(sz)
  <2>1. filling' = FALSE /\ cur_sz >= Need(sz) /\ last'.got = Min2(sz, cur_sz)
    BY <1>5 DEF ReadPcm
  <2>2. Oldest' = Oldest + Min2(sz, written - Oldest)
    BY <1>1, <1>2, <2>1
  <2>3. Min2(sz, written - Oldest) = Fifo!Min2(sz, written - Oldest)
    BY DEF Min2, Fifo!Min2
  <2>4. QED
    BY <1>1, <1>2, <1>3, <2>1, <2>2, <2>3 DEF Fifo!Deliver
<1>6. QED
  BY <1>4, <1>5 DEF ReadLocked

LEMMA FifoStep == IInv /\ IInv' /\ [Next]_vars => [Fifo!FifoNext]_(Fifo!fifoVars)
<1> SUFFICES ASSUME IInv, IInv', [Next]_vars
             PROVE  Fifo!FifoNext \/ UNCHANGED Fifo!fifoVars
  OBVIOUS
<1>1. Oldest = OldestOf(afl, written) /\ Oldest' = OldestOf(afl', written')
  BY DEF Oldest, OldestOf
<1>2. /\ written \in Nat /\ written' \in Nat
      /\ Oldest \in Nat /\ Oldest' \in Nat /\ Oldest' <= written'
  <2>1. written \in Nat /\ Oldest \in Nat
    BY <1>1, InvNow DEF IInv, TypeOK
  <2>2. written' \in Nat /\ Chain(afl', written')
    BY DEF IInv, TypeOK, Chain, FramesAdjacent, FramesOrdered
  <2>3. QED
    BY <1>1, <2>1, <2>2, ChainOldest
<1>3. ASSUME NEW sz \in WriteSizes, AubufAppend(sz)
      PROVE  Fifo!Put(sz)
  <2>1. /\ written' = written + sz
        /\ Oldest' >= Oldest
        /\ ~Overrun(sz) => Oldest' = Oldest
    BY <1>1, <1>3, AppendStep
  <2>2. filling' = filling
    BY <1>3 DEF AubufAppend
  <2>3. Oldest' # Oldest => MaxSz # 0 /\ written' - Oldest > MaxSz
    <3>1. cur_sz = written - Oldest /\ sz \in Nat
      BY AuBufAssumption DEF IInv, SizeAccounted
    <3>2. Oldest' # Oldest => MaxSz # 0 /\ cur_sz + sz > MaxSz
      BY <2>1 DEF Overrun
    <3>3. QED
      BY <1>2, <2>1, <3>1, <3>2
  <2>4. Oldest' \in Oldest .. written'
    BY <1>2, <2>1
  <2>5. QED
    BY <2>1, <2>2, <2>3, <2>4 DEF Fifo!Put
<1>4. ASSUME NEW r \in Readers, AubufGetRead(r)
      PROVE  getting[r] \in ReadSizes
  BY <1>4 DEF AubufGetRead, IInv, TypeOK
<1>5. CASE AubufFlush
  <2>1. Oldest' = written' /\ written' = written /\ filling' = TRUE
    BY <1>5 DEF AubufFlush, Oldest
  <2>2. Fifo!Forget
    BY <2>1 DEF Fifo!Forget
  <2>3. QED
    BY <2>2 DEF Fifo!FifoNext
<1>6. CASE UNCHANGED <<afl, written, filling>>
  BY <1>6 DEF Oldest, Fifo!fifoVars
<1>7. CASE \E sz \in ReadSizes : ReadLocked(sz)
  BY <1>7, FifoRead DEF Fifo!FifoNext
<1>8. CASE \E sz \in WriteSizes : AubufAppend(sz)
  BY <1>3, <1>8 DEF Fifo!FifoNext
<1>9. QED
  BY <1>4, <1>5, <1>6, <1>7, <1>8 DEF Next, vars, AubufRead, AubufGetRead, AubufGet, Tick

(* aubuf implements the audio FIFO.                                        *)
THEOREM Implements == Spec => ImplementsFifo
<1>1. QED
  BY FifoInitial, FifoStep, Invariant, PTL DEF Spec, ImplementsFifo, Fifo!FifoSpec

-----------------------------------------------------------------------------
(* With writes of one size w, an overrun frees what it must: only the      *)
(* oldest frame can be smaller than w, and it is that frame's remainder    *)
(* that may lie above the limit.                                           *)
Uniform(w) ==
  /\ \A i \in 1 .. Len(afl) : Left(afl[i]) <= w
  /\ \A i \in 2 .. Len(afl) : Left(afl[i]) = w
  /\ afl # <<>> => cur_sz <= MaxSz + Left(afl[1])

LEMMA UniformAppend ==
  ASSUME IInv, NEW w \in WriteSizes, Uniform(w), MaxSz # 0, AubufAppend(w)
  PROVE  Uniform(w)'
<1> DEFINE f == [pos |-> written, end |-> written + w]
           list == Append(afl, f)
<1>1. /\ cur_sz \in Nat /\ w \in Nat /\ MaxSz \in Nat /\ written \in Nat
      /\ afl \in Seq(Frame) /\ Len(afl) \in Nat
  BY AuBufAssumption, LenProperties DEF IInv, TypeOK
<1>2. f \in Frame /\ Left(f) = w
  BY <1>1 DEF Frame, Left
<1> HIDE DEF f
<1>3. /\ list \in Seq(Frame) /\ list # <<>>
      /\ Len(list) = Len(afl) + 1
      /\ \A i \in 1 .. Len(afl) : list[i] = afl[i]
      /\ list[Len(afl) + 1] = f
  BY <1>1, <1>2, AppendProperties
<1>4. /\ Overrun(w) => afl' = Tail(list) /\ cur_sz' = cur_sz + w - Left(Head(list))
      /\ ~Overrun(w) => afl' = list /\ cur_sz' = cur_sz + w - 0
  BY DEF AubufAppend, f
<1> HIDE DEF list
<1>5. \A i \in 1 .. Len(list) : Left(list[i]) \in Int /\ Left(list[i]) <= w
  <2>1. \A i \in 1 .. Len(list) : list[i] \in Frame
    BY <1>3, ElementOfSeq
  <2>2. \A i \in 1 .. Len(list) : Left(list[i]) \in Int
    BY <2>1 DEF Left, Frame
  <2>3. \A i \in 1 .. Len(list) : i = Len(afl) + 1 \/ i \in 1 .. Len(afl)
    BY <1>1, <1>3
  <2>4. \A i \in 1 .. Len(afl) : Left(list[i]) <= w
    BY <1>3 DEF Uniform
  <2>5. Left(list[Len(afl) + 1]) <= w
    BY <1>1, <1>2, <1>3
  <2>6. QED
    BY <2>2, <2>3, <2>4, <2>5
<1>6. \A i \in 2 .. Len(list) : Left(list[i]) = w
  BY <1>1, <1>2, <1>3 DEF Uniform
<1>7. CASE Overrun(w)
  <2>1. /\ Len(afl') = Len(list) - 1
        /\ \A i \in 1 .. Len(list) - 1 : afl'[i] = list[i + 1]
        /\ afl' \in Seq(Frame)
        /\ Head(list) = list[1]
    <3>1. afl' = Tail(list)
      BY <1>4, <1>7
    <3>2. /\ Len(Tail(list)) = Len(list) - 1
          /\ \A i \in 1 .. Len(list) - 1 : Tail(list)[i] = list[i + 1]
          /\ Tail(list) \in Seq(Frame)
          /\ Head(list) = list[1]
      BY <1>3, TailFacts
    <3>3. QED
      BY <3>1, <3>2
  <2>2. \A i \in 1 .. Len(afl') : Left(afl'[i]) = w
    BY <1>1, <1>3, <1>6, <2>1
  <2>3. afl' # <<>> => cur_sz' <= MaxSz + Left(afl'[1])
    <3> SUFFICES ASSUME afl' # <<>> PROVE cur_sz' <= MaxSz + Left(afl'[1])
      OBVIOUS
    <3>1. Len(afl') \in Nat \ {0}
      BY <2>1, EmptySeq
    <3>2. Len(afl) > 0 /\ afl # <<>>
      BY <1>1, <1>3, <2>1, <3>1, EmptySeq
    <3>3. list[1] = afl[1] /\ Left(afl'[1]) = w
      BY <1>1, <1>3, <2>2, <3>1, <3>2
    <3>4. cur_sz <= MaxSz + Left(list[1]) /\ Left(list[1]) \in Int
      BY <1>1, <1>3, <1>5, <3>2, <3>3 DEF Uniform
    <3>5. cur_sz' = cur_sz + w - Left(list[1])
      BY <1>4, <1>7, <2>1
    <3>6. QED
      BY <1>1, <3>3, <3>4, <3>5
  <2>4. \A i \in 1 .. Len(afl') : Left(afl'[i]) <= w
    BY <1>1, <2>2
  <2>5. \A i \in 2 .. Len(afl') : Left(afl'[i]) = w
    BY <1>1, <1>3, <2>1, <2>2
  <2>6. QED
    BY <2>3, <2>4, <2>5 DEF Uniform, Left
<1>8. CASE ~Overrun(w)
  <2>1. afl' = list /\ cur_sz' = cur_sz + w - 0
    BY <1>4, <1>8
  <2>2. cur_sz' <= MaxSz
    BY <1>1, <1>8, <2>1 DEF Overrun
  <2>3. Left(list[1]) >= 0 /\ Left(list[1]) \in Int
    <3>1. CASE afl = <<>>
      BY <1>1, <1>2, <1>3, <3>1, EmptySeq
    <3>2. CASE afl # <<>>
      <4>1. Len(afl) \in Nat \ {0} /\ 1 \in 1 .. Len(afl)
        BY <1>1, <3>2, EmptySeq
      <4>2. afl[1].pos <= afl[1].end /\ afl[1] \in Frame
        BY <1>1, <4>1, ElementOfSeq DEF IInv, FramesAdjacent
      <4>3. QED
        BY <1>3, <4>1, <4>2 DEF Left, Frame
    <3>3. QED
      BY <3>1, <3>2
  <2>4. cur_sz' <= MaxSz + Left(list[1])
    BY <1>1, <2>1, <2>2, <2>3
  <2>5. QED
    BY <1>5, <1>6, <2>1, <2>4 DEF Uniform, Left
<1>9. QED
  BY <1>7, <1>8

LEMMA UniformRead ==
  ASSUME IInv, NEW w \in WriteSizes, Uniform(w), NEW sz \in ReadSizes, ReadLocked(sz)
  PROVE  Uniform(w)'
<1>1. CASE ReadSilence(sz)
  BY <1>1 DEF ReadSilence, Uniform
<1>2. CASE ReadPcm(sz)
  <2> DEFINE got == Min2(sz, cur_sz)
             cut == afl[1].pos + got
  <2>1. /\ cur_sz >= Need(sz)
        /\ \/ cur_sz < sz /\ afl' = <<>>
           \/ /\ cur_sz >= sz
              /\ \E i \in 1 .. Len(afl) : StopsIn(afl, cut, i) /\ afl' = AfterRead(afl, cut, i)
        /\ cur_sz' = cur_sz - got
    BY <1>2 DEF ReadPcm
  <2>2. /\ cur_sz \in Nat /\ w \in Nat /\ MaxSz \in Nat /\ sz \in Nat
        /\ afl \in Seq(Frame) /\ Len(afl) \in Nat
    BY AuBufAssumption, LenProperties DEF IInv, TypeOK
  <2>3. \A i \in 1 .. Len(afl) : afl[i].pos \in Nat /\ afl[i].end \in Nat
    <3>1. \A i \in 1 .. Len(afl) : afl[i] \in Frame
      BY <2>2, ElementOfSeq
    <3>2. QED
      BY <3>1 DEF Frame
  <2>4. got \in Nat
    BY <2>2 DEF Min2
  <2> HIDE DEF got
  <2>5. CASE afl' = <<>>
    BY <2>5, EmptySeq DEF Uniform
  <2>6. ASSUME NEW i \in 1 .. Len(afl), StopsIn(afl, cut, i), afl' = AfterRead(afl, cut, i)
        PROVE  Uniform(w)'
    <3>1. /\ 1 \in 1 .. Len(afl) /\ afl # <<>> /\ cut \in Nat
          /\ cur_sz <= MaxSz + Left(afl[1])
      <4>1. 1 \in 1 .. Len(afl) /\ afl # <<>>
        BY <2>2, EmptySeq
      <4>2. QED
        BY <2>3, <2>4, <4>1 DEF Uniform
    <3>2. afl[i].end >= cut /\ (i > 1 => afl[1].end < cut)
      BY <2>2, <2>6, <3>1 DEF StopsIn
    <3>3. Left(afl[1]) \in Int /\ (i > 1 => Left(afl[1]) < got) /\ afl[1].pos \in Nat
      BY <2>3, <2>4, <3>1, <3>2 DEF Left
    <3> HIDE DEF cut
    <3>4. CASE afl[i].end = cut
      <4>1. /\ Len(afl') = Len(afl) - i
            /\ \A j \in 1 .. Len(afl) - i : afl'[j] = afl[j + i]
        BY <2>2, <2>6, <3>1, <3>4, AfterReadUsedUp
      <4>2. \A j \in 1 .. Len(afl') : j + i \in 2 .. Len(afl)
        BY <2>2, <4>1
      <4>3. \A j \in 1 .. Len(afl') : Left(afl'[j]) = w
        BY <4>1, <4>2 DEF Uniform
      <4>4. Left(afl[1]) <= got
        BY <2>2, <2>3, <2>4, <3>1, <3>3, <3>4 DEF Left, cut
      <4>5. cur_sz' <= MaxSz
        BY <2>1, <2>2, <2>4, <3>1, <3>3, <4>4
      <4>6. afl' # <<>> => cur_sz' <= MaxSz + Left(afl'[1])
        <5> SUFFICES ASSUME afl' # <<>> PROVE cur_sz' <= MaxSz + Left(afl'[1])
          OBVIOUS
        <5>1. afl' \in Seq(Frame)
          BY <2>2, <2>6, <3>1, <3>4, AfterReadUsedUp
        <5>2. 1 \in 1 .. Len(afl')
          BY <5>1, EmptySeq
        <5>3. Left(afl'[1]) = w
          BY <4>3, <5>2
        <5>4. QED
          BY <2>1, <2>2, <2>4, <4>5, <5>3
      <4>7. \A j \in 1 .. Len(afl') : Left(afl'[j]) <= w
        BY <2>2, <4>3
      <4>8. \A j \in 2 .. Len(afl') : Left(afl'[j]) = w
        BY <2>2, <4>1, <4>3
      <4>9. QED
        BY <4>6, <4>7, <4>8 DEF Uniform, Left
    <3>5. CASE afl[i].end # cut
      <4>1. /\ Len(afl') = Len(afl) - i + 1
            /\ afl'[1] = [pos |-> cut, end |-> afl[i].end]
            /\ \A j \in 2 .. Len(afl) - i + 1 : afl'[j] = afl[j + i - 1]
        BY <2>2, <2>6, <3>1, <3>5, AfterReadCut
      <4>2. \A j \in 2 .. Len(afl') : j + i - 1 \in 2 .. Len(afl) /\ afl'[j] = afl[j + i - 1]
        BY <2>2, <4>1
      <4>3. \A j \in 2 .. Len(afl') : Left(afl'[j]) = w
        BY <4>2 DEF Uniform
      <4>4. Left(afl'[1]) = afl[i].end - cut /\ Left(afl'[1]) >= 0
        BY <2>3, <3>1, <3>2, <4>1 DEF Left
      <4>5. afl[i].pos <= cut
        <5>1. CASE i = 1
          BY <2>3, <2>4, <3>1, <5>1 DEF cut
        <5>2. CASE i > 1
          <6>1. i - 1 \in 1 .. Len(afl) - 1 /\ i - 1 \in 1 .. Len(afl)
                /\ i - 1 \in 1 .. i - 1 /\ (i - 1) + 1 = i
            BY <2>2, <5>2
          <6>2. afl[i - 1].end = afl[i].pos /\ afl[i - 1].end < cut
            BY <2>6, <6>1 DEF IInv, FramesAdjacent, StopsIn
          <6>3. QED
            BY <2>3, <3>1, <6>1, <6>2
        <5>3. QED
          BY <5>1, <5>2
      <4>6. Left(afl'[1]) <= w
        <5>1. afl[i].end - afl[i].pos <= w
          BY DEF Uniform, Left
        <5>2. afl[i].end \in Nat /\ afl[i].pos \in Nat
          BY <2>3
        <5>3. QED
          BY <2>2, <3>1, <4>4, <4>5, <5>1, <5>2
      <4>7. cur_sz' <= MaxSz + Left(afl'[1])
        <5>1. CASE i = 1
          <6>1. Left(afl'[1]) = Left(afl[1]) - got
            BY <2>3, <2>4, <3>1, <4>4, <5>1 DEF Left, cut
          <6>2. QED
            BY <2>1, <2>2, <2>4, <3>1, <3>3, <6>1
        <5>2. CASE i > 1
          <6>1. Left(afl[1]) < got
            BY <3>3, <5>2
          <6>2. Left(afl'[1]) \in Int
            BY <2>3, <3>1, <4>4
          <6>3. QED
            BY <2>1, <2>2, <2>4, <3>1, <3>3, <4>4, <6>1, <6>2
        <5>3. QED
          BY <5>1, <5>2
      <4>8. \A j \in 1 .. Len(afl') : Left(afl'[j]) <= w
        <5> SUFFICES ASSUME NEW j \in 1 .. Len(afl') PROVE Left(afl'[j]) <= w
          OBVIOUS
        <5>1. CASE j = 1
          BY <4>6, <5>1
        <5>2. CASE j # 1
          <6>1. j \in 2 .. Len(afl')
            BY <2>2, <4>1, <5>2
          <6>2. QED
            BY <2>2, <4>3, <6>1
        <5>3. QED
          BY <5>1, <5>2
      <4>9. QED
        BY <4>3, <4>7, <4>8 DEF Uniform, Left
    <3>6. QED
      BY <3>4, <3>5
  <2>7. QED
    BY <2>1, <2>5, <2>6
<1>3. QED
  BY <1>1, <1>2 DEF ReadLocked

(* With writes of one size, the buffer exceeds max_sz by at most one       *)
(* write, however reads cut its frames.                                    *)
THEOREM OverrunIsBounded == Spec => []OverrunBounded
<1> DEFINE U == \A w \in WriteSizes : MaxSz # 0 /\ WriteSizes = {w} => Uniform(w)
<1>1. Init => U
  BY EmptySeq DEF Init, Uniform
<1>2. IInv /\ U /\ [Next]_vars => U'
  <2> SUFFICES ASSUME IInv, U, [Next]_vars,
                      NEW w \in WriteSizes, MaxSz # 0, WriteSizes = {w}
               PROVE  Uniform(w)'
    OBVIOUS
  <2>1. Uniform(w)
    OBVIOUS
  <2>2. ASSUME NEW sz \in WriteSizes, AubufAppend(sz)
        PROVE  Uniform(w)'
    BY <2>1, <2>2, UniformAppend
  <2>3. ASSUME NEW sz \in ReadSizes, ReadLocked(sz)
        PROVE  Uniform(w)'
    BY <2>1, <2>3, UniformRead
  <2>4. ASSUME NEW r \in Readers, AubufGetRead(r)
        PROVE  Uniform(w)'
    <3>1. getting[r] \in ReadSizes
      BY <2>4 DEF AubufGetRead, IInv, TypeOK
    <3>2. QED
      BY <2>3, <2>4, <3>1 DEF AubufGetRead
  <2>5. CASE AubufFlush
    BY <2>5, EmptySeq DEF AubufFlush, Uniform
  <2>6. CASE UNCHANGED <<afl, cur_sz>>
    BY <2>1, <2>6 DEF Uniform
  <2>7. QED
    BY <2>2, <2>3, <2>4, <2>5, <2>6 DEF Next, vars, AubufRead, AubufGet, Tick
<1>3. IInv /\ U => OverrunBounded
  <2> SUFFICES ASSUME IInv, U, MaxSz # 0, NEW w \in WriteSizes, WriteSizes = {w}
               PROVE  cur_sz <= MaxSz + w
    BY DEF OverrunBounded
  <2>1. cur_sz \in Nat /\ w \in Nat /\ MaxSz \in Nat /\ written \in Nat /\ afl \in Seq(Frame)
    BY AuBufAssumption DEF IInv, TypeOK
  <2>2. CASE afl = <<>>
    BY <2>1, <2>2 DEF IInv, SizeAccounted, Oldest
  <2>3. CASE afl # <<>>
    <3>1. 1 \in 1 .. Len(afl)
      BY <2>1, <2>3, EmptySeq
    <3>2. cur_sz <= MaxSz + Left(afl[1]) /\ Left(afl[1]) <= w
      BY <2>3, <3>1 DEF Uniform
    <3>3. afl[1].pos \in Nat /\ afl[1].end \in Nat
      <4>1. afl[1] \in Frame
        BY <2>1, <3>1, ElementOfSeq
      <4>2. QED
        BY <4>1 DEF Frame
    <3>4. QED
      BY <2>1, <3>2, <3>3 DEF Left
  <2>4. QED
    BY <2>2, <2>3
<1> HIDE DEF U
<1>4. QED
  BY <1>1, <1>2, <1>3, Invariant, PTL DEF Spec

-----------------------------------------------------------------------------
(* Full reads.                                                             *)

(* Where no read is larger than wish_sz, the loop never runs off the list: *)
(* a read gives a full buffer of PCM, or one of silence.                   *)
THEOREM ReadsAreFull ==
  ASSUME \A sz \in ReadSizes : sz <= WishSz
  PROVE  Spec => []FullOrSilent
<1>1. Init => FullOrSilent
  BY DEF Init, FullOrSilent
<1>2. IInv /\ FullOrSilent /\ [Next]_vars => FullOrSilent'
  <2> SUFFICES ASSUME IInv, FullOrSilent, [Next]_vars PROVE FullOrSilent'
    OBVIOUS
  <2>1. CASE UNCHANGED last
    BY <2>1 DEF FullOrSilent
  <2>2. ASSUME NEW sz \in ReadSizes, ReadLocked(sz) PROVE FullOrSilent'
    <3>1. sz \in Nat /\ sz <= WishSz /\ WishSz \in Nat /\ cur_sz \in Nat
      BY AuBufAssumption DEF IInv, TypeOK
    <3>2. CASE ReadSilence(sz)
      BY <3>1, <3>2 DEF ReadSilence, FullOrSilent
    <3>3. CASE ReadPcm(sz)
      <4>1. sz <= cur_sz
        BY <3>1, <3>3 DEF ReadPcm, Need
      <4>2. Min2(sz, cur_sz) = sz
        BY <3>1, <4>1 DEF Min2
      <4>3. last'.sz = sz /\ last'.got = sz /\ last'.zeroed = 0
        BY <3>3, <4>2 DEF ReadPcm
      <4> QED
        BY <3>1, <4>3 DEF FullOrSilent
    <3> QED
      BY <2>2, <3>2, <3>3 DEF ReadLocked
  <2>3. ASSUME NEW r \in Readers, AubufGetRead(r) PROVE FullOrSilent'
    <3>1. getting[r] \in ReadSizes
      BY <2>3 DEF AubufGetRead, IInv, TypeOK
    <3> QED
      BY <2>2, <2>3, <3>1 DEF AubufGetRead
  <2> QED
    BY <2>1, <2>2, <2>3 DEF Next, AubufAppend, AubufRead, AubufGet, AubufFlush, Tick, vars
<1> QED
  BY <1>1, <1>2, Invariant, PTL DEF Spec

-----------------------------------------------------------------------------
(* The loop of aubuf_read.  Its recursion is over the numbers, and what    *)
(* holds of 0 and of the next of each holds of all: a least exception      *)
(* would have one before it.                                               *)

(* Every set of numbers has a least one.                                   *)
LEMMA LeastExists ==
  ASSUME NEW S \in SUBSET Nat, S # {}
  PROVE  \E m \in S : \A k \in S : m <= k
<1> DEFINE R == {ss \in Nat \X Nat : ss[1] < ss[2]}
<1>1. IsWellFoundedOn(R, Nat)
  BY NatLessThanWellFounded DEF OpToRel
<1>2. \A x \in Nat, y \in Nat : x < y => <<x, y>> \in R
  OBVIOUS
<1> HIDE DEF R
<1>3. PICK x \in S : \A y \in S : ~ (<<y, x>> \in R)
  BY <1>1, WFMin
<1>4. ASSUME NEW y \in S PROVE x <= y
  <2>1. x \in Nat /\ y \in Nat
    OBVIOUS
  <2>2. ~(y < x)
    BY <1>2, <1>3, <2>1, Zenon
  <2> QED
    BY <2>1, <2>2
<1> QED
  BY <1>4

(* Induction over the numbers, for a set of them.                          *)
LEMMA Reached ==
  ASSUME NEW S, 0 \in S, \A n \in Nat : n \in S => n + 1 \in S
  PROVE  \A n \in Nat : n \in S
<1> DEFINE Rest == {n \in Nat : n \notin S}
<1>1. ASSUME Rest # {} PROVE FALSE
  <2>1. Rest \in SUBSET Nat
    OBVIOUS
  <2>2. PICK m \in Rest : \A k \in Rest : m <= k
    BY <1>1, <2>1, LeastExists
  <2>3. m \in Nat /\ m # 0 /\ m - 1 \in Nat /\ ~(m <= m - 1)
    BY <2>2
  <2>4. m - 1 \in S
    BY <2>2, <2>3
  <2>5. (m - 1) + 1 = m
    BY <2>3
  <2> QED
    BY <2>2, <2>3, <2>4, <2>5
<1> QED
  BY <1>1

(* The first n turns of the loop.                                          *)
IsRun(f, n, loop) ==
  /\ DOMAIN f = 0 .. n
  /\ f[0] = loop
  /\ \A t \in 0 .. n : t # 0 => f[t] = Turn(f[t - 1])

LEMMA RunExists ==
  ASSUME NEW loop
  PROVE  \A n \in Nat : \E f : IsRun(f, n, loop)
<1> DEFINE S == {n \in Nat : \E f : IsRun(f, n, loop)}
<1>1. 0 \in S
  <2>1. IsRun([t \in 0 .. 0 |-> loop], 0, loop)
    BY DEF IsRun
  <2> QED
    BY <2>1
<1>2. ASSUME NEW n \in Nat, n \in S PROVE n + 1 \in S
  <2>1. PICK f : IsRun(f, n, loop)
    BY <1>2
  <2> DEFINE g == [t \in 0 .. n + 1 |-> IF t = n + 1 THEN Turn(f[n]) ELSE f[t]]
  <2>2. DOMAIN g = 0 .. n + 1 /\ g[0] = loop
    BY <2>1 DEF IsRun
  <2>3. ASSUME NEW t \in 0 .. n + 1, t # 0 PROVE g[t] = Turn(g[t - 1])
    <3>1. t - 1 \in 0 .. n /\ g[t - 1] = f[t - 1]
      BY <2>3
    <3>2. CASE t = n + 1
      <4>1. g[t] = Turn(f[n]) /\ t - 1 = n
        BY <3>2
      <4> QED
        BY <3>1, <4>1
    <3>3. CASE t # n + 1
      <4>1. t \in 0 .. n /\ g[t] = f[t]
        BY <3>3
      <4>2. f[t] = Turn(f[t - 1])
        BY <2>1, <2>3, <4>1 DEF IsRun
      <4> QED
        BY <3>1, <4>1, <4>2
    <3> QED
      BY <3>2, <3>3
  <2>4. IsRun(g, n + 1, loop)
    BY <2>2, <2>3 DEF IsRun
  <2> QED
    BY <2>4
<1> HIDE DEF S
<1>3. \A n \in Nat : n \in S
  BY <1>1, <1>2, Reached
<1> QED
  BY <1>3 DEF S

LEMMA RunsAgree ==
  ASSUME NEW loop, NEW n \in Nat, NEW m \in Nat, n <= m, NEW f, NEW g,
         IsRun(f, n, loop), IsRun(g, m, loop)
  PROVE  f[n] = g[n]
<1> DEFINE S == {t \in Nat : t <= n => f[t] = g[t]}
<1>1. 0 \in S
  BY DEF IsRun
<1>2. ASSUME NEW t \in Nat, t \in S PROVE t + 1 \in S
  <2>1. SUFFICES ASSUME t + 1 <= n PROVE f[t + 1] = g[t + 1]
    OBVIOUS
  <2>2. f[t] = g[t] /\ (t + 1) - 1 = t /\ t + 1 \in 0 .. n /\ t + 1 \in 0 .. m /\ t + 1 # 0
    BY <1>2, <2>1
  <2>3. f[t + 1] = Turn(f[(t + 1) - 1]) /\ g[t + 1] = Turn(g[(t + 1) - 1])
    BY <2>2 DEF IsRun
  <2> QED
    BY <2>2, <2>3
<1> HIDE DEF S
<1>3. \A t \in Nat : t \in S
  BY <1>1, <1>2, Reached
<1> QED
  BY <1>3 DEF S

(* ReadLoop is what its recursion says: after each turn comes the next.    *)
LEMMA LoopTurns ==
  ASSUME NEW loop, Len(loop.list) \in Nat
  PROVE  \E h : /\ h[0] = loop
                /\ \A t \in Nat : h[t + 1] = Turn(h[t])
                /\ ReadLoop(loop) = h[Len(loop.list)]
<1> DEFINE F(t) == CHOOSE f : IsRun(f, t, loop)
           g == [t \in Nat |-> F(t)[t]]
           Rec(h) == h = [t \in Nat |-> IF t = 0 THEN loop ELSE Turn(h[t - 1])]
           h == CHOOSE h : Rec(h)
<1>1. \A t \in Nat : IsRun(F(t), t, loop)
  BY RunExists
<1> HIDE DEF F
<1>2. \A t \in Nat : g[t] = IF t = 0 THEN loop ELSE Turn(g[t - 1])
  <2> SUFFICES ASSUME NEW t \in Nat
               PROVE  g[t] = IF t = 0 THEN loop ELSE Turn(g[t - 1])
    OBVIOUS
  <2>1. CASE t = 0
    BY <1>1, <2>1 DEF IsRun
  <2>2. CASE t # 0
    <3>1. t - 1 \in Nat /\ t - 1 <= t /\ t \in 0 .. t
      BY <2>2
    <3>2. IsRun(F(t), t, loop) /\ IsRun(F(t - 1), t - 1, loop)
      BY <1>1, <3>1
    <3>3. F(t)[t] = Turn(F(t)[t - 1])
      BY <2>2, <3>1, <3>2 DEF IsRun
    <3>4. F(t - 1)[t - 1] = F(t)[t - 1]
      BY <3>1, <3>2, RunsAgree
    <3> QED
      BY <2>2, <3>1, <3>3, <3>4
  <2> QED
    BY <2>1, <2>2
<1>3. Rec(g)
  BY <1>2
<1>4. Rec(h)
  BY <1>3
<1>5. ReadLoop(loop) = h[Len(loop.list)]
  BY DEF ReadLoop
<1> HIDE DEF h
<1>6. h[0] = loop
  BY <1>4
<1>7. \A t \in Nat : h[t + 1] = Turn(h[t])
  BY <1>4
<1> QED
  BY <1>5, <1>6, <1>7

(* After t turns over the list the loop goes on with the frames behind the *)
(* t-th, and wants what lies between that frame's end and cut; ...         *)
Begins(list, t) == IF t = 0 THEN list[1].pos ELSE list[t].end

Going(list, end, cut, t, loop) ==
  /\ loop.list = SubSeq(list, t + 1, Len(list))
  /\ loop.sz = cut - Begins(list, t)
  /\ loop.sz > 0
  /\ loop.cur_sz = end - Begins(list, t)
  /\ \A j \in 1 .. t : list[j].end < cut

(* ... or it has stopped in one of them.                                   *)
Stopped(list, end, cut, loop) ==
  /\ \E i \in 1 .. Len(list) : StopsIn(list, cut, i) /\ loop.list = AfterRead(list, cut, i)
  /\ loop.sz = 0
  /\ loop.cur_sz = end - cut

LEMMA TurnGoes ==
  ASSUME NEW list, NEW end \in Nat, Chain(list, end), NEW cut \in Nat,
         NEW t \in Nat, t < Len(list), NEW loop, Going(list, end, cut, t, loop)
  PROVE  \/ Going(list, end, cut, t + 1, Turn(loop))
         \/ Stopped(list, end, cut, Turn(loop))
<1> DEFINE N == Len(list)
           i == t + 1
           f == list[i]
           s == SubSeq(list, i, N)
           n == Min2(Left(f), loop.sz)
<1>1. list \in Seq(Frame) /\ N \in Nat /\ i \in 1 .. N /\ N \in i .. N
  BY LenProperties DEF Chain
<1>2. f \in Frame /\ f.pos \in Nat /\ f.end \in Nat /\ f.pos <= f.end
  <2>1. f \in Frame
    BY <1>1, ElementOfSeq
  <2> QED
    BY <1>1, <2>1 DEF Frame, Chain
<1>3. Begins(list, t) = f.pos /\ Begins(list, i) = f.end
  <2>1. CASE t = 0
    BY <2>1 DEF Begins
  <2>2. CASE t # 0
    <3>1. t \in 1 .. N - 1
      BY <1>1, <2>2
    <3>2. list[t].end = list[t + 1].pos
      BY <3>1 DEF Chain
    <3> QED
      BY <1>1, <2>2, <3>2 DEF Begins
  <2> QED
    BY <2>1, <2>2
<1>4. s \in Seq(Frame) /\ Len(s) = N - i + 1 /\ s # <<>> /\ s[1] = f
  <2>1. \A j \in i .. N : list[j] \in Frame
    BY <1>1, ElementOfSeq
  <2>2. /\ s \in Seq(Frame) /\ Len(s) = N - i + 1
        /\ \A j \in 1 .. N - i + 1 : s[j] = list[i + j - 1]
    BY <1>1, <2>1, SubSeqProperties
  <2>3. 1 \in 1 .. N - i + 1 /\ i + 1 - 1 = i
    BY <1>1
  <2>4. s[1] = list[i + 1 - 1]
    BY <2>2, <2>3
  <2>5. Len(s) # 0
    <3>1. N - i + 1 # 0
      BY <1>1
    <3> QED
      BY <2>2, <3>1
  <2>6. s # <<>>
    BY <2>5, EmptySeq
  <2> QED
    BY <2>2, <2>3, <2>4, <2>6
<1>5. Tail(s) = SubSeq(list, i + 1, N)
  BY <1>1, HeadTailOfSubSeq
<1>6. /\ loop.list = s /\ loop.sz = cut - f.pos /\ loop.sz > 0
      /\ loop.cur_sz = end - f.pos
      /\ \A j \in 1 .. t : list[j].end < cut
  BY <1>1, <1>3 DEF Going
<1>7. Turn(loop) = [list   |-> IF n = Left(f) THEN Tail(s) ELSE [s EXCEPT ![1].pos = @ + n],
                    cur_sz |-> loop.cur_sz - n,
                    sz     |-> loop.sz - n]
  <2>1. loop.list = s /\ s # <<>> /\ loop.sz # 0 /\ s[1] = f
    BY <1>4, <1>6
  <2> HIDE DEF s, f
  <2> QED
    BY <2>1 DEF Turn
<1>8. \A j \in 1 .. i - 1 : list[j].end < cut
  BY <1>6
<1> HIDE DEF s
<1>9. CASE f.end < cut
  <2>1. n = Left(f) /\ loop.sz - n = cut - f.end /\ loop.cur_sz - n = end - f.end
    BY <1>2, <1>6, <1>9 DEF Min2, Left
  <2> HIDE DEF n
  <2>2. /\ Turn(loop).list = SubSeq(list, i + 1, N)
        /\ Turn(loop).sz = cut - f.end
        /\ Turn(loop).cur_sz = end - f.end
    BY <1>5, <1>7, <2>1
  <2>3. \A j \in 1 .. i : list[j].end < cut
    BY <1>1, <1>8, <1>9
  <2>4. Going(list, end, cut, i, Turn(loop))
    BY <1>2, <1>3, <1>9, <2>2, <2>3 DEF Going
  <2> QED
    BY <2>4
<1>10. CASE f.end >= cut
  <2>1. n = loop.sz /\ loop.sz - n = 0 /\ loop.cur_sz - n = end - cut /\ f.pos + n = cut
    BY <1>2, <1>6, <1>10 DEF Min2, Left
  <2>2. n = Left(f) <=> f.end = cut
    BY <1>2, <1>6, <2>1 DEF Left
  <2>3. StopsIn(list, cut, i)
    BY <1>8, <1>10 DEF StopsIn
  <2> HIDE DEF n
  <2>4. Turn(loop).sz = 0 /\ Turn(loop).cur_sz = end - cut
    BY <1>7, <2>1
  <2>5. Turn(loop).list = AfterRead(list, cut, i)
    <3>1. CASE f.end = cut
      BY <1>5, <1>7, <2>2, <3>1 DEF AfterRead
    <3>2. CASE f.end # cut
      <4>1. Turn(loop).list = [s EXCEPT ![1].pos = @ + n]
        BY <1>7, <2>2, <3>2
      <4>2. [s EXCEPT ![1].pos = @ + n] = [s EXCEPT ![1].pos = cut]
        <5>1. s[1].pos + n = cut
          BY <1>4, <2>1
        <5>2. [s[1] EXCEPT !.pos = @ + n] = [s[1] EXCEPT !.pos = cut]
          BY <5>1
        <5> QED
          BY <5>2
      <4>3. AfterRead(list, cut, i) = [s EXCEPT ![1].pos = cut]
        BY <3>2 DEF AfterRead, s
      <4> QED
        BY <4>1, <4>2, <4>3
    <3> QED
      BY <3>1, <3>2
  <2>6. Stopped(list, end, cut, Turn(loop))
    BY <1>1, <2>3, <2>4, <2>5 DEF Stopped
  <2> QED
    BY <2>6
<1> QED
  BY <1>1, <1>2, <1>9, <1>10

(* So after a turn for each frame it has stopped, or run off the list.     *)
LEMMA LoopEnds ==
  ASSUME NEW list, NEW end \in Nat, Chain(list, end), list # <<>>,
         NEW n \in Nat \ {0}, NEW size, size = end - list[1].pos, NEW loop,
         loop = ReadLoop([list |-> list, cur_sz |-> size, sz |-> n])
  PROVE  \/ Going(list, end, list[1].pos + n, Len(list), loop)
         \/ Stopped(list, end, list[1].pos + n, loop)
<1> DEFINE start == [list |-> list, cur_sz |-> size, sz |-> n]
           cut == list[1].pos + n
<1>1. list \in Seq(Frame) /\ Len(list) \in Nat \ {0} /\ list[1].pos \in Nat
  <2>1. list \in Seq(Frame) /\ Len(list) \in Nat \ {0}
    BY LenProperties, EmptySeq DEF Chain
  <2>2. list[1] \in Frame
    BY <2>1, ElementOfSeq
  <2> QED
    BY <2>1, <2>2 DEF Frame
<1>2. start.list = list /\ start.cur_sz = size /\ start.sz = n
  OBVIOUS
<1>3. loop = ReadLoop(start)
  OBVIOUS
<1> HIDE DEF start
<1>4. PICK h : h[0] = start /\ (\A t \in Nat : h[t + 1] = Turn(h[t])) /\ loop = h[Len(list)]
  <2>1. Len(start.list) \in Nat /\ Len(start.list) = Len(list)
    BY <1>1, <1>2
  <2>2. \E h : /\ h[0] = start
               /\ \A t \in Nat : h[t + 1] = Turn(h[t])
               /\ ReadLoop(start) = h[Len(start.list)]
    BY <2>1, LoopTurns
  <2> QED
    BY <1>3, <2>1, <2>2
<1>5. cut \in Nat
  BY <1>1
<1> DEFINE S == {t \in Nat : t <= Len(list) =>
                    Going(list, end, cut, t, h[t]) \/ Stopped(list, end, cut, h[t])}
<1>6. 0 \in S
  <2>1. SubSeq(list, 0 + 1, Len(list)) = list
    BY <1>1, SubSeqFull
  <2>2. Begins(list, 0) = list[1].pos
    BY DEF Begins
  <2>3. Going(list, end, cut, 0, start)
    BY <1>1, <1>2, <2>1, <2>2 DEF Going
  <2> QED
    BY <1>4, <2>3
<1> HIDE DEF cut
<1>7. ASSUME NEW t \in Nat, t \in S PROVE t + 1 \in S
  <2> SUFFICES ASSUME t + 1 <= Len(list)
               PROVE  \/ Going(list, end, cut, t + 1, h[t + 1])
                      \/ Stopped(list, end, cut, h[t + 1])
    OBVIOUS
  <2>1. h[t + 1] = Turn(h[t]) /\ t < Len(list)
    <3>1. h[t + 1] = Turn(h[t])
      BY <1>4
    <3> QED
      BY <1>1, <3>1
  <2>2. Going(list, end, cut, t, h[t]) \/ Stopped(list, end, cut, h[t])
    BY <1>1, <1>7, <2>1
  <2>3. CASE Going(list, end, cut, t, h[t])
    BY <1>5, <2>1, <2>3, TurnGoes
  <2>4. CASE Stopped(list, end, cut, h[t])
    <3>1. Turn(h[t]) = h[t]
      BY <2>4 DEF Stopped, Turn
    <3> QED
      BY <2>1, <2>4, <3>1
  <2> QED
    BY <2>2, <2>3, <2>4
<1> HIDE DEF S
<1>8. \A t \in Nat : t \in S
  BY <1>6, <1>7, Reached
<1>9. Len(list) \in S
  BY <1>1, <1>8
<1>10. Going(list, end, cut, Len(list), h[Len(list)]) \/ Stopped(list, end, cut, h[Len(list)])
  BY <1>1, <1>9 DEF S
<1> QED
  BY <1>4, <1>10 DEF cut

(* LoopAgrees for every list, size and limit: what the actions say of a    *)
(* read is what the loop of aubuf_read does to the list, turn by turn.     *)
THEOREM ReadIsTheLoop == Spec => []LoopAgrees
<1>1. IInv => LoopAgrees
  <2> SUFFICES ASSUME IInv, NEW n \in ReadSizes
               PROVE  LET loop == ReadLoop([list |-> afl, cur_sz |-> cur_sz, sz |-> n])
                          got == Min2(n, cur_sz)
                          Stops(i) == StopsIn(afl, afl[1].pos + got, i)
                      IN  /\ loop.cur_sz = cur_sz - got
                          /\ loop.sz = n - got
                          /\ cur_sz < n => loop.list = <<>>
                          /\ cur_sz >= n =>
                               /\ \E i \in 1 .. Len(afl) : Stops(i)
                               /\ \A i \in 1 .. Len(afl) :
                                    Stops(i) => loop.list = AfterRead(afl, afl[1].pos + got, i)
    BY DEF LoopAgrees
  <2> DEFINE loop == ReadLoop([list |-> afl, cur_sz |-> cur_sz, sz |-> n])
             got == Min2(n, cur_sz)
             cut == afl[1].pos + n
  <2>1. /\ n \in Nat \ {0} /\ cur_sz \in Nat /\ written \in Nat
        /\ afl \in Seq(Frame) /\ Chain(afl, written)
        /\ cur_sz = written - OldestOf(afl, written)
    BY AuBufAssumption, ChainIsInv DEF IInv, TypeOK, SizeAccounted
  <2>2. CASE afl = <<>>
    <3> DEFINE start == [list |-> afl, cur_sz |-> cur_sz, sz |-> n]
    <3>1. start.list = afl /\ start.cur_sz = cur_sz /\ start.sz = n /\ loop = ReadLoop(start)
      OBVIOUS
    <3> HIDE DEF start, loop
    <3>2. Len(afl) = 0
      BY <2>2
    <3>3. loop = start
      BY <3>1, <3>2, LoopTurns
    <3>4. cur_sz = 0 /\ got = 0
      BY <2>1, <2>2 DEF OldestOf, Min2
    <3> QED
      BY <2>1, <2>2, <3>1, <3>3, <3>4 DEF loop
  <2>3. CASE afl # <<>>
    <3>1. afl[1].pos \in Nat /\ cur_sz = written - afl[1].pos /\ Len(afl) \in Nat \ {0}
      <4>1. Len(afl) \in Nat \ {0}
        BY <2>1, <2>3, LenProperties, EmptySeq
      <4>2. afl[1] \in Frame
        BY <2>1, <4>1, ElementOfSeq
      <4> QED
        BY <2>1, <2>3, <4>1, <4>2 DEF Frame, OldestOf
    <3>2. Going(afl, written, cut, Len(afl), loop) \/ Stopped(afl, written, cut, loop)
      BY <2>1, <2>3, <3>1, LoopEnds
    <3> HIDE DEF loop
    <3>3. cut \in Nat
      BY <2>1, <3>1
    <3>4. CASE Going(afl, written, cut, Len(afl), loop)
      <4>1. Begins(afl, Len(afl)) = written
        BY <2>1, <2>3, <3>1 DEF Begins, Chain
      <4>2. loop.sz = cut - written /\ loop.sz > 0 /\ loop.cur_sz = 0
        BY <2>1, <3>4, <4>1 DEF Going
      <4>3. cur_sz < n /\ got = cur_sz
        BY <2>1, <3>1, <4>2 DEF Min2
      <4>4. loop.list = <<>>
        <5>1. loop.list = SubSeq(afl, Len(afl) + 1, Len(afl))
          BY <3>4 DEF Going
        <5> QED
          BY <3>1, <5>1, SubSeqEmpty
      <4> QED
        BY <2>1, <3>1, <4>2, <4>3, <4>4 DEF loop
    <3>5. CASE Stopped(afl, written, cut, loop)
      <4>1. PICK i \in 1 .. Len(afl) : StopsIn(afl, cut, i) /\ loop.list = AfterRead(afl, cut, i)
        BY <3>5 DEF Stopped
      <4>2. loop.sz = 0 /\ loop.cur_sz = written - cut
        BY <3>5 DEF Stopped
      <4>3. \A k \in 1 .. Len(afl) : afl[k].end \in Nat /\ afl[k].end <= written
        <5>1. \A k \in 1 .. Len(afl) : afl[k] \in Frame
          BY <2>1, ElementOfSeq
        <5> QED
          BY <2>1, <5>1 DEF Frame, Chain
      <4>4. cut <= written
        BY <2>1, <3>3, <4>1, <4>3 DEF StopsIn
      <4>5. cur_sz >= n /\ got = n
        BY <2>1, <3>1, <4>4 DEF Min2
      <4>6. \A k \in 1 .. Len(afl) : StopsIn(afl, cut, k) => k = i
        <5> SUFFICES ASSUME NEW k \in 1 .. Len(afl), StopsIn(afl, cut, k), k # i PROVE FALSE
          OBVIOUS
        <5>1. i \in 1 .. k - 1 \/ k \in 1 .. i - 1
          BY <3>1
        <5> QED
          BY <3>3, <4>1, <4>3, <5>1 DEF StopsIn
      <4> HIDE DEF got
      <4>7. afl[1].pos + got = cut
        BY <4>5
      <4>8. loop.cur_sz = cur_sz - got /\ loop.sz = n - got
        BY <2>1, <3>1, <4>2, <4>5
      <4> HIDE DEF cut
      <4> QED
        BY <2>1, <4>1, <4>5, <4>6, <4>7, <4>8 DEF loop, got
    <3> QED
      BY <3>2, <3>4, <3>5
  <2> QED
    BY <2>2, <2>3
<1>2. QED
  BY <1>1, Invariant, PTL
=============================================================================
