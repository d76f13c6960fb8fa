-------------------------------- MODULE AuBuf --------------------------------
(***************************************************************************)
(* The audio buffer of librem, src/aubuf/aubuf.c: a list of PCM frames     *)
(* under one lock, filled by writers (a decoder, the network) and drained  *)
(* by readers (a sound device, the audio mixer).                           *)
(*                                                                         *)
(* Every function of aubuf.c does its work inside one critical section of  *)
(* ab->lock and is one action here, except aubuf_get, which leaves the     *)
(* lock between the timing decision and the read: it is two actions, and   *)
(* other threads run in between.                                           *)
(*                                                                         *)
(* Bytes are abstracted to their offset in the stream of all bytes ever    *)
(* appended.  A frame is the interval pos .. end-1 that is left of its     *)
(* mbuf.  An allocation that fails (ENOMEM) and a get that comes too early *)
(* (ETIMEDOUT) change nothing and are stuttering steps.                    *)
(***************************************************************************)
EXTENDS Integers, Sequences

CONSTANTS
  Readers,      \* threads that call aubuf_read and aubuf_get
  WriteSizes,   \* sizes passed to aubuf_write and aubuf_append
  ReadSizes,    \* sizes passed to aubuf_read and aubuf_get
  Ptimes,       \* packet times passed to aubuf_get, in ms
  WishSz,       \* min_sz of aubuf_alloc
  MaxSz,        \* max_sz of aubuf_alloc, 0 for no limit
  MaxWritten,   \* bound: bytes ever appended
  MaxFrames,    \* bound: frames in the list (a write may be empty)
  MaxNow        \* bound: value of the millisecond clock

ASSUME AuBufAssumption ==
  /\ WriteSizes \subseteq Nat
  /\ ReadSizes \subseteq Nat \ {0}
  /\ Ptimes \subseteq Nat \ {0}
  /\ WishSz \in Nat \ {0}
  /\ MaxSz \in Nat
  /\ MaxWritten \in Nat
  /\ MaxFrames \in Nat
  /\ MaxNow \in Nat

VARIABLES
  afl,          \* the list of frames, oldest first
  cur_sz,       \* the size the code accounts for
  filling,      \* TRUE until WishSz bytes are collected
  ts,           \* time of the next timed read, 0 when not started
  now,          \* tmr_jiffies()
  getting,      \* size a reader inside aubuf_get is about to read, or 0
  written,      \* history: bytes ever appended
  delivered,    \* history: bytes ever handed to a reader
  lost,         \* history: bytes dropped by an overrun or a flush
  last          \* history: what the last read put into the caller's buffer

vars == <<afl, cur_sz, filling, ts, now, getting, written, delivered, lost, last>>

(* The part of an mbuf that has not been read yet.                         *)
Frame == [pos : Nat, end : Nat]

Left(af) == af.end - af.pos

Min2(a, b) == IF a < b THEN a ELSE b

(* The result of a read of sz bytes: got bytes of the stream starting at   *)
(* offset from, and zeroed bytes of silence.                               *)
Result == [sz : Nat, from : Nat, got : Nat, zeroed : Nat]

Init ==
  /\ afl = <<>>
  /\ cur_sz = 0
  /\ filling = TRUE
  /\ ts = 0
  /\ now = 1
  /\ getting = [r \in Readers |-> 0]
  /\ written = 0
  /\ delivered = 0
  /\ lost = 0
  /\ last = [sz |-> 0, from |-> 0, got |-> 0, zeroed |-> 0]

-----------------------------------------------------------------------------
(* Writers.                                                                *)

(* An overrun: the accounted size passes the limit.                        *)
Overrun(sz) == MaxSz # 0 /\ cur_sz + sz > MaxSz

(* aubuf_write and aubuf_append.  Past the limit the oldest frame is       *)
(* dropped: one frame, however large the new one is.                       *)
AubufAppend(sz) ==
  LET list == Append(afl, [pos |-> written, end |-> written + sz])
      drop == IF Overrun(sz) THEN Left(Head(list)) ELSE 0
  IN  /\ written + sz <= MaxWritten
      /\ Len(afl) < MaxFrames
      /\ afl' = IF Overrun(sz) THEN Tail(list) ELSE list
      /\ cur_sz' = cur_sz + sz - drop
      /\ lost' = lost + drop
      /\ written' = written + sz
      /\ UNCHANGED <<filling, ts, now, getting, delivered, last>>

-----------------------------------------------------------------------------
(* Readers.                                                                *)

(* Fault: after the filling phase any data will do.                        *)
NeedAny(sz) == IF filling THEN WishSz ELSE 1

Need(sz) == IF filling THEN WishSz ELSE sz

(* Too little data: the caller's buffer is filled with silence and the     *)
(* buffer goes back to filling.                                            *)
ReadSilence(sz) ==
  /\ cur_sz < Need(sz)
  /\ filling' = TRUE
  /\ last' = [sz |-> sz, from |-> last.from + last.got, got |-> 0, zeroed |-> sz]
  /\ UNCHANGED <<afl, cur_sz, delivered>>

(* Fault: a frame that ends at the cut is passed over.                     *)
StopsPast(list, cut, i) ==
  /\ list[i].end > cut
  /\ \A j \in 1 .. (i - 1) : list[j].end <= cut

(* The loop of aubuf_read takes what is left of each frame in turn and     *)
(* stops in the first frame that reaches offset cut.                       *)
StopsIn(list, cut, i) ==
  /\ list[i].end >= cut
  /\ \A j \in 1 .. (i - 1) : list[j].end < cut

(* A fault: the pos of the frame is not advanced.                          *)
AfterReadRewound(list, cut, i) ==
  IF list[i].end = cut
    THEN SubSeq(list, i + 1, Len(list))
    ELSE SubSeq(list, i, Len(list))

(* That frame is freed if nothing is left of it.                           *)
AfterRead(list, cut, i) ==
  IF list[i].end = cut
    THEN SubSeq(list, i + 1, Len(list))
    ELSE [SubSeq(list, i, Len(list)) EXCEPT ![1].pos = cut]

(* The same, frame by frame as the code has it: one turn of the loop, ...  *)
Turn(loop) ==
  LET n == Min2(Left(loop.list[1]), loop.sz)
  IN  IF loop.list = <<>> \/ loop.sz = 0 THEN loop
      ELSE [list   |-> IF n = Left(loop.list[1]) THEN Tail(loop.list)
                       ELSE [loop.list EXCEPT ![1].pos = @ + n],
            cur_sz |-> loop.cur_sz - n,
            sz     |-> loop.sz - n]

(* ... and the loop, which has at most one for each frame.                 *)
ReadLoop(loop) ==
  LET turns[t \in Nat] == IF t = 0 THEN loop ELSE Turn(turns[t - 1])
  IN  turns[Len(loop.list)]

(* Enough data: the oldest bytes are copied out.  When the buffer has just *)
(* filled up with fewer than sz bytes the loop runs off the end of the     *)
(* list, and the rest of the caller's buffer is not touched.               *)
ReadPcm(sz) ==
  LET got == Min2(sz, cur_sz)
      cut == afl[1].pos + got
  IN  /\ cur_sz >= Need(sz)
      /\ filling' = FALSE
      /\ \/ cur_sz < sz /\ afl' = <<>>
         \/ /\ cur_sz >= sz
            /\ \E i \in 1 .. Len(afl) :
                 StopsIn(afl, cut, i) /\ afl' = AfterRead(afl, cut, i)
      /\ cur_sz' = cur_sz - got
      /\ delivered' = delivered + got
      /\ last' = [sz |-> sz, from |-> afl[1].pos, got |-> got, zeroed |-> 0]

(* The critical section of aubuf_read.                                     *)
ReadLocked(sz) ==
  /\ ReadSilence(sz) \/ ReadPcm(sz)
  /\ UNCHANGED <<ts, now, written, lost>>

AubufRead(r, sz) ==
  /\ getting[r] = 0
  /\ ReadLocked(sz)
  /\ UNCHANGED getting

(* Fault: the time of the next packet is not waited for.                   *)
AubufGetUnpaced(r, sz, ptime) ==
  /\ getting[r] = 0
  /\ ts' = (IF ts = 0 THEN now ELSE ts) + ptime
  /\ getting' = [getting EXCEPT ![r] = sz]
  /\ UNCHANGED <<afl, cur_sz, filling, now, written, delivered, lost, last>>

(* The first half of aubuf_get: the packet of ptime ms is due.             *)
AubufGet(r, sz, ptime) ==
  LET due == IF ts = 0 THEN now ELSE ts
  IN  /\ getting[r] = 0
      /\ due <= now
      /\ ts' = due + ptime
      /\ getting' = [getting EXCEPT ![r] = sz]
      /\ UNCHANGED <<afl, cur_sz, filling, now, written, delivered, lost, last>>

(* The second half, after the lock was released and taken again.           *)
AubufGetRead(r) ==
  /\ getting[r] # 0
  /\ ReadLocked(getting[r])
  /\ getting' = [getting EXCEPT ![r] = 0]

-----------------------------------------------------------------------------

(* Faults: aubuf_flush forgets to reset the size; the filling flag.        *)
AubufFlushSized ==
  /\ afl' = <<>>
  /\ filling' = TRUE
  /\ ts' = 0
  /\ lost' = lost + cur_sz
  /\ UNCHANGED <<cur_sz, now, getting, written, delivered, last>>

AubufFlushFlowing ==
  /\ afl' = <<>>
  /\ cur_sz' = 0
  /\ ts' = 0
  /\ lost' = lost + cur_sz
  /\ UNCHANGED <<filling, now, getting, written, delivered, last>>

AubufFlush ==
  /\ afl' = <<>>
  /\ filling' = TRUE
  /\ cur_sz' = 0
  /\ ts' = 0
  /\ lost' = lost + cur_sz
  /\ UNCHANGED <<now, getting, written, delivered, last>>

(* One millisecond passes.                                                 *)
Tick ==
  /\ now < MaxNow
  /\ now' = now + 1
  /\ UNCHANGED <<afl, cur_sz, filling, ts, getting, written, delivered, lost, last>>

Next ==
  \/ \E sz \in WriteSizes : AubufAppend(sz)
  \/ \E r \in Readers, sz \in ReadSizes : AubufRead(r, sz)
  \/ \E r \in Readers, sz \in ReadSizes, p \in Ptimes : AubufGet(r, sz, p)
  \/ \E r \in Readers : AubufGetRead(r)
  \/ AubufFlush
  \/ Tick

Spec == Init /\ [][Next]_vars

-----------------------------------------------------------------------------
(* Properties.                                                             *)

(* Every variable has its type.                                            *)
TypeOK ==
  /\ afl \in Seq(Frame)
  /\ cur_sz \in Nat
  /\ filling \in BOOLEAN
  /\ ts \in Nat
  /\ now \in Nat \ {0}
  /\ getting \in [Readers -> ReadSizes \cup {0}]
  /\ written \in Nat
  /\ delivered \in Nat
  /\ lost \in Nat
  /\ last \in Result

(* The frames are adjacent pieces of the stream, in stream order, and the  *)
(* newest ends where the stream ends: no sequence of partial reads,        *)
(* overruns and flushes leaves a hole or an overlap in the list.           *)
FramesAdjacent ==
  /\ \A i \in 1 .. Len(afl) : afl[i].pos <= afl[i].end
  /\ \A i \in 1 .. (Len(afl) - 1) : afl[i].end = afl[i + 1].pos
  /\ afl # <<>> => afl[Len(afl)].end = written

(* The oldest byte held.                                                   *)
Oldest == IF afl = <<>> THEN written ELSE afl[1].pos

(* The size the code accounts for is the size of what the list holds: the  *)
(* unsigned cur_sz never wraps below zero and is zero for an empty list.   *)
SizeAccounted == cur_sz = written - Oldest

(* Every byte appended was delivered once, was dropped by an overrun or a  *)
(* flush, or is still in the list.                                         *)
Conservation == written = delivered + lost + cur_sz

(* A reader is never ahead of the wall clock by more than one packet time. *)
Paced == ts # 0 => \E p \in Ptimes : ts <= now + p

(* What a read does to the list and its size is what the loop of the code  *)
(* does, turn by turn, empty frames included.                              *)
LoopAgrees ==
  \A sz \in ReadSizes :
    LET loop == ReadLoop([list |-> afl, cur_sz |-> cur_sz, sz |-> sz])
        got == Min2(sz, cur_sz)
        Stops(i) == StopsIn(afl, afl[1].pos + got, i)
    IN  /\ loop.cur_sz = cur_sz - got
        /\ loop.sz = sz - got
        /\ cur_sz < sz => loop.list = <<>>
        /\ cur_sz >= sz =>
             /\ \E i \in 1 .. Len(afl) : Stops(i)
             /\ \A i \in 1 .. Len(afl) :
                  Stops(i) => loop.list = AfterRead(afl, afl[1].pos + got, i)

(* A read gives the caller a full buffer: sz bytes of PCM or sz bytes of   *)
(* silence ("If there is not enough data in the audio buffer, silence will *)
(* be read").                                                              *)
FullOrSilent == last.got + last.zeroed = last.sz

(* An overrun drops one frame, whatever its size.  As long as all writes   *)
(* have the same size, the buffer exceeds max_sz by no more than one write *)
(* all the same, though the frame dropped may be one that was read in part.*)
OverrunBounded ==
  MaxSz # 0 => \A w \in WriteSizes : WriteSizes = {w} => cur_sz <= MaxSz + w

(* Reads return the stream in order: no byte is delivered twice, and none  *)
(* after a younger one, whatever writers and flushes do in between.        *)
InOrder == [][last'.from >= last.from + last.got]_last

(* What a step needs to know to keep the above: frames further apart are   *)
(* ordered too, and the last byte delivered lies before the oldest held.   *)
FramesOrdered ==
  /\ \A i, j \in 1 .. Len(afl) : i < j => afl[i].end <= afl[j].pos
  /\ \A i \in 1 .. Len(afl) : afl[i].end <= written

ReadBehind == last.from + last.got <= Oldest

IInv ==
  /\ TypeOK
  /\ FramesAdjacent
  /\ FramesOrdered
  /\ SizeAccounted
  /\ Conservation
  /\ ReadBehind

(* The list of frames implements the abstract window of the stream.        *)
Fifo == INSTANCE AudioFifo WITH lo <- Oldest, hi <- written

ImplementsFifo == Fifo!FifoSpec
=============================================================================
