---------------------------- MODULE AuFileProofs -----------------------------
(***************************************************************************)
(* Theorems about AuFile, for every size of pieces and files.              *)
(***************************************************************************)
EXTENDS AuFile, SequenceTheorems, TLAPS

(* The sequence 1, 2, ..., n.                                              *)
LEMMA UptoIs ==
  ASSUME NEW n \in Nat
  PROVE  /\ Upto(n) \in Seq(Nat)
         /\ Len(Upto(n)) = n
         /\ \A i \in 1..n : Upto(n)[i] = i
  BY DEF Upto

LEMMA IsUpto ==
  ASSUME NEW n \in Nat, NEW s \in Seq(Nat), Len(s) = n, \A i \in 1..n : s[i] = i
  PROVE  s = Upto(n)
  BY UptoIs, SeqEqual

LEMMA Associative ==
  ASSUME NEW s \in Seq(Nat), NEW t \in Seq(Nat), NEW u \in Seq(Nat)
  PROVE  (s \o t) \o u = s \o (t \o u)
  OBVIOUS

(* A piece that goes on where it ends makes it longer.                     *)
LEMMA Longer ==
  ASSUME NEW n \in Nat, NEW sz \in Nat, NEW u \in Seq(Nat),
         Len(u) = sz, \A i \in 1..sz : u[i] = n + i
  PROVE  Upto(n) \o u = Upto(n + sz)
<1> DEFINE v == Upto(n)
           w == v \o u
<1>1. v \in Seq(Nat) /\ Len(v) = n /\ \A i \in 1..n : v[i] = i
  BY UptoIs
<1> HIDE DEF v
<1>2. w \in Seq(Nat) /\ Len(w) = n + sz
  BY <1>1
<1>3. \A i \in 1..n : w[i] = i
  BY <1>1
<1>4. ASSUME NEW i \in 1..n + sz, i > n PROVE w[i] = i
  <2>1. w[i] = u[i - n] /\ i - n \in 1..sz
    BY <1>1, <1>4
  <2> HIDE DEF w
  <2> QED
    BY <2>1
<1> HIDE DEF w
<1>5. \A i \in 1..n + sz : w[i] = i
  BY <1>3, <1>4
<1>6. w = Upto(n + sz)
  BY <1>2, <1>5, IsUpto
<1> QED
  BY <1>6 DEF w, v

(* More of it is appended, ...                                             *)
LEMMA Grows ==
  ASSUME NEW s \in Seq(Nat), NEW t \in Seq(Nat), NEW n \in Nat, NEW sz \in Nat,
         s \o t = Upto(n)
  PROVE  /\ [i \in 1..sz |-> n + i] \in Seq(Nat)
         /\ s \o (t \o [i \in 1..sz |-> n + i]) = Upto(n + sz)
<1> DEFINE u == [i \in 1..sz |-> n + i]
<1>1. u \in Seq(Nat) /\ Len(u) = sz /\ \A i \in 1..sz : u[i] = n + i
  OBVIOUS
<1> HIDE DEF u
<1>2. s \o (t \o u) = (s \o t) \o u
  BY <1>1, Associative, Zenon
<1>3. Upto(n) \o u = Upto(n + sz)
  BY <1>1, Longer
<1>4. s \o (t \o u) = Upto(n + sz)
  BY <1>2, <1>3, Zenon
<1> QED
  BY <1>1, <1>4 DEF u

(* ... it is cut off, ...                                                  *)
LEMMA Prefixed ==
  ASSUME NEW s \in Seq(Nat), NEW t \in Seq(Nat), NEW n \in Nat, s \o t = Upto(n)
  PROVE  s = Upto(Len(s)) /\ Len(s) <= n
<1> DEFINE w == s \o t
<1>1. /\ Len(s) \in Nat /\ Len(t) \in Nat /\ Len(w) = Len(s) + Len(t)
      /\ \A i \in 1..Len(s) : w[i] = s[i]
  OBVIOUS
<1>2. w = Upto(n)
  OBVIOUS
<1> HIDE DEF w
<1>3. Len(s) + Len(t) = n /\ \A i \in 1..n : w[i] = i
  BY <1>1, <1>2, UptoIs
<1>4. \A i \in 1..Len(s) : s[i] = i
  BY <1>1, <1>3
<1> QED
  BY <1>1, <1>3, <1>4, IsUpto

(* ... a part of it goes from the buffer to the disk, ...                  *)
LEMMA Spilt ==
  ASSUME NEW s \in Seq(Nat), NEW t \in Seq(Nat), NEW k \in 1..Len(t)
  PROVE  /\ s \o SubSeq(t, 1, k) \in Seq(Nat) /\ SubSeq(t, k + 1, Len(t)) \in Seq(Nat)
         /\ (s \o SubSeq(t, 1, k)) \o SubSeq(t, k + 1, Len(t)) = s \o t
<1> DEFINE a == SubSeq(t, 1, k)
           b == SubSeq(t, k + 1, Len(t))
<1>1. a \in Seq(Nat) /\ b \in Seq(Nat)
  OBVIOUS
<1>2. a \o b = t
  BY ConcatAdjacentSubSeq, SubSeqFull
<1> HIDE DEF a, b
<1>3. (s \o a) \o b = s \o (a \o b) /\ s \o a \in Seq(Nat)
  BY <1>1
<1>4. (s \o a) \o b = s \o t
  BY <1>2, <1>3, Zenon
<1> QED
  BY <1>1, <1>3, <1>4 DEF a, b

(* ... and a part is played.                                               *)
LEMMA Plays ==
  ASSUME NEW body \in Seq(Nat), NEW r \in Nat, NEW n \in Nat, r + n <= Len(body),
         \A i \in r + 1..r + n : body[i] = i
  PROVE  Upto(r) \o SubSeq(body, r + 1, r + n) = Upto(r + n)
<1> DEFINE u == SubSeq(body, r + 1, r + n)
<1>1. \A i \in r + 1..r + n : body[i] \in Nat
  OBVIOUS
<1>2. u \in Seq(Nat) /\ Len(u) = n /\ \A i \in 1..n : u[i] = r + i
  BY <1>1, SubSeqProperties
<1> HIDE DEF u
<1>3. Upto(r) \o u = Upto(r + n)
  BY <1>2, Longer
<1> QED
  BY <1>3 DEF u

-----------------------------------------------------------------------------
(* Types.                                                                  *)

LEMMA EncodedIs ==
  ASSUME NEW f \in Formats, NEW n \in Nat, NEW b \in Seq(Nat)
  PROVE  /\ Encoded(f, n, b) \in Files
         /\ Encoded(f, n, b).head = TRUE /\ Encoded(f, n, b).body = b
         /\ Encoded(f, n, b).data = n /\ Encoded(f, n, b).riff = 36 + n
         /\ Encoded(f, n, b).before = <<>>
         /\ Encoded(f, n, b).wav = WavOf(f) /\ Encoded(f, n, b).bps = BpsOf(f)
<1>1. WavOf(f) \in WavFormats /\ BpsOf(f) \in Widths
  BY DEF WavOf, BpsOf, WavFormats, Widths, Formats
<1> QED
  BY <1>1 DEF Encoded, Files

LEMMA NoFileIs == NoFile \in Files /\ NoFile.head = FALSE /\ NoFile.body = <<>>
  BY DEF NoFile, Files, WavFormats, Widths, NoData

LEMMA FileIs ==
  ASSUME TypeOK
  PROVE  /\ file.head \in BOOLEAN /\ file.wav \in WavFormats /\ file.bps \in Widths
         /\ file.riff \in Nat /\ file.before \in Seq(Nat)
         /\ file.data \in Nat \cup {NoData} /\ file.body \in Seq(Nat)
         /\ \A b \in Seq(Nat) : [file EXCEPT !.body = b] \in Files
  BY DEF TypeOK, Files

LEMMA ChunksAre ==
  ASSUME TypeOK, NEW c \in ChunksRead
  PROVE  c \in [id : {"unset", "other", "data"}, size : Nat] /\ c.id # "unset"
<1>1. file.before \in Seq(Nat) /\ file.data \in Nat \cup {NoData} /\ skipped \in Nat
  BY FileIs DEF TypeOK
<1>2. CASE file.head /\ skipped < Len(file.before)
  <2>1. file.before[skipped + 1] \in Nat
    BY <1>1, <1>2
  <2> QED
    BY <1>2, <2>1 DEF ChunksRead
<1>3. CASE ~(file.head /\ skipped < Len(file.before))
  BY <1>1, <1>3 DEF ChunksRead, TypeOK
<1> QED
  BY <1>2, <1>3

LEMMA TypeNext == TypeOK /\ [Next]_vars => TypeOK'
<1> SUFFICES ASSUME TypeOK, [Next]_vars PROVE TypeOK'
  OBVIOUS
<1> USE AuFileAssumption DEF fileVars, readVars, pastVars
<1>1. ASSUME NEW f \in Formats, OpenWrite(f) PROVE TypeOK'
  <2>1. failed' \in BOOLEAN
    BY <1>1, Zenon DEF OpenWrite
  <2> QED
    BY <1>1, <2>1, NoFileIs DEF OpenWrite, TypeOK
<1>2. CASE OpenHeader
  <2>1. failed' \in BOOLEAN
    <3>1. failed' = failed \/ failed' = TRUE
      BY <1>2 DEF OpenHeader
    <3> QED
      BY <3>1 DEF TypeOK
  <2>2. file' \in Files
    <3>1. fmt \in Formats /\ <<>> \in Seq(Nat) /\ file \in Files
      BY DEF TypeOK
    <3>2. Encoded(fmt, 0, <<>>) \in Files
      BY <3>1, EncodedIs
    <3> QED
      BY <1>2, <3>1, <3>2 DEF OpenHeader
  <2> QED
    BY <1>2, <2>1, <2>2 DEF OpenHeader, TypeOK
<1>3. ASSUME NEW sz \in Pieces, Write(sz) PROVE TypeOK'
  <2>1. buf' \in Seq(Nat)
    <3>1. [i \in 1..sz |-> nwritten + i] \in Seq(Nat)
      BY DEF TypeOK
    <3> QED
      BY <1>3, <3>1 DEF Write, TypeOK
  <2> QED
    BY <1>3, <2>1 DEF Write, TypeOK
<1>4. ASSUME NEW sz \in Pieces, WriteFails(sz) PROVE TypeOK'
  <2>1. failed' \in BOOLEAN
    BY <1>4, Zenon DEF WriteFails
  <2>2. buf' \in Seq(Nat)
    <3>1. PICK part \in 0..sz - 1 : buf' = buf \o [i \in 1..part |-> Stray]
      BY <1>4 DEF WriteFails
    <3>2. [i \in 1..part |-> Stray] \in Seq(Nat)
      BY DEF Stray
    <3> QED
      BY <3>1, <3>2 DEF TypeOK
  <2> QED
    BY <1>4, <2>1, <2>2 DEF WriteFails, TypeOK
<1>5. ASSUME NEW sz \in Pieces, Read(sz) PROVE TypeOK'
  <2>1. sz \in Nat /\ Len(file.body) \in Nat
    BY FileIs
  <2> DEFINE n == IF Readable(sz) < Len(file.body) - nread
                 THEN Readable(sz) ELSE Len(file.body) - nread
  <2>2. got' = got \o SubSeq(file.body, nread + 1, nread + n) /\ nread' = nread + n
    BY <1>5 DEF Read
  <2>3. n \in Int /\ nread + n \in Nat /\ nread + n <= Len(file.body)
    BY <2>1 DEF Readable, TypeOK
  <2> HIDE DEF n
  <2>4. got' \in Seq(Nat)
    <3>1. \A i \in nread + 1..nread + n : i \in 1..Len(file.body)
      BY <2>1, <2>3 DEF TypeOK
    <3>2. \A i \in 1..Len(file.body) : file.body[i] \in Nat
      BY FileIs
    <3>3. SubSeq(file.body, nread + 1, nread + n) \in Seq(Nat)
      BY <2>3, <3>1, <3>2, SubSeqProperties DEF TypeOK
    <3> QED
      BY <2>2, <3>3 DEF TypeOK
  <2> QED
    BY <1>5, <2>2, <2>3, <2>4 DEF Read, TypeOK
<1>6. CASE Flush
  <2>1. PICK n \in 1..Len(buf) :
          /\ file' = [file EXCEPT !.body = @ \o SubSeq(buf, 1, n)]
          /\ buf' = SubSeq(buf, n + 1, Len(buf))
    BY <1>6 DEF Flush
  <2>2. buf' \in Seq(Nat) /\ file.body \o SubSeq(buf, 1, n) \in Seq(Nat)
    BY <2>1, FileIs, Spilt DEF TypeOK
  <2>3. file' \in Files
    BY <2>1, <2>2, FileIs
  <2> QED
    BY <1>6, <2>2, <2>3 DEF Flush, TypeOK
<1>7. CASE CloseEmpty
  <2>1. file.body \o buf \in Seq(Nat) /\ <<>> \in Seq(Nat)
    BY FileIs DEF TypeOK
  <2>2. file' \in Files /\ buf' \in Seq(Nat)
    BY <1>7, <2>1, FileIs DEF CloseEmpty
  <2> QED
    BY <1>7, <2>2 DEF CloseEmpty, TypeOK
<1>8. CASE CloseRewind
  <2>1. file.body \o buf \in Seq(Nat)
    BY FileIs DEF TypeOK
  <2>2. failed' \in BOOLEAN
    <3>1. failed' = failed \/ failed' = TRUE
      BY <1>8 DEF CloseRewind
    <3> QED
      BY <3>1 DEF TypeOK
  <2>3. file' \in Files
    BY <1>8, <2>1, FileIs DEF CloseRewind, TypeOK
  <2> QED
    BY <1>8, <2>2, <2>3 DEF CloseRewind, TypeOK
<1>9. CASE CloseHeader
  <2>1. file.body \o buf \in Seq(Nat) /\ <<>> \in Seq(Nat)
    BY FileIs DEF TypeOK
  <2>2. file' \in Files /\ buf' \in Seq(Nat)
    <3>1. fmt \in Formats /\ nwritten \in Nat
      BY DEF TypeOK
    <3> QED
      BY <1>9, <2>1, <3>1, EncodedIs DEF CloseHeader
  <2> QED
    BY <1>9, <2>2 DEF CloseHeader, TypeOK
<1>10. CASE Crash
  BY <1>10 DEF Crash, TypeOK
<1>11. CASE Receive
  <2>1. failed' \in BOOLEAN
    BY <1>11, Zenon DEF Receive
  <2> QED
    BY <1>11, <2>1 DEF Receive, TypeOK
<1>12. CASE OpenRead
  BY <1>12 DEF OpenRead, TypeOK
<1>13. CASE DecodeCutHead
  BY <1>13 DEF DecodeCutHead, OpenFails, TypeOK, Supported, Formats
<1>14. CASE DecodeHead
  BY <1>14 DEF DecodeHead, TypeOK
<1>15. CASE ChunkTooLarge \/ ChunkSeekFails
  BY <1>15 DEF ChunkTooLarge, ChunkSeekFails, OpenFails, TypeOK
<1>16. CASE ChunkSkip
  <2>1. chunk' \in [id : {"unset", "other", "data"}, size : Nat]
    BY <1>16, ChunksAre DEF ChunkSkip
  <2>2. skipped' \in Nat
    <3>1. Len(file.before) \in Nat /\ skipped \in Nat
      BY FileIs DEF TypeOK
    <3> QED
      BY <1>16, <3>1 DEF ChunkSkip
  <2> QED
    BY <1>16, <2>1, <2>2 DEF ChunkSkip, TypeOK
<1>17. CASE ChunkData
  <2>1. /\ chunk' \in [id : {"unset", "other", "data"}, size : Nat]
        /\ datasize' \in Nat
    BY <1>17, ChunksAre DEF ChunkData
  <2>2. fmt' \in Formats /\ mode' \in {"none", "read", "write"}
    BY <1>17 DEF ChunkData, AufmtsOf, Supported, Formats, TypeOK
  <2> QED
    BY <1>17, <2>1, <2>2 DEF ChunkData, TypeOK
<1>18. CASE CloseRead
  BY <1>18 DEF CloseRead, TypeOK
<1>19. CASE UNCHANGED vars
  BY <1>19 DEF vars, TypeOK
<1> QED
  BY <1>1, <1>2, <1>3, <1>4, <1>5, <1>6, <1>7, <1>8, <1>9, <1>10, <1>11, <1>12, <1>13,
     <1>14, <1>15, <1>16, <1>17, <1>18, <1>19 DEF Next, OpenSteps

-----------------------------------------------------------------------------
(* Who has the file open.                                                  *)

LEMMA ModesNext == TypeOK /\ Modes /\ [Next]_vars => Modes'
<1> SUFFICES ASSUME TypeOK, Modes, [Next]_vars PROVE Modes'
  OBVIOUS
<1> USE DEF fileVars, readVars, pastVars, Modes, OpenFails
<1>1. ASSUME NEW f \in Formats, OpenWrite(f) PROVE Modes'
  BY <1>1 DEF OpenWrite
<1>2. ASSUME NEW sz \in Pieces, Write(sz) \/ WriteFails(sz) \/ Read(sz) PROVE Modes'
  BY <1>2 DEF Write, WriteFails, Read
<1>3. CASE OpenHeader
  BY <1>3 DEF OpenHeader
<1>4. CASE Flush
  BY <1>4 DEF Flush
<1>5. CASE CloseEmpty \/ CloseRewind \/ CloseHeader \/ Crash \/ Receive
  BY <1>5 DEF CloseEmpty, CloseRewind, CloseHeader, Crash, Receive
<1>6. CASE OpenRead \/ DecodeCutHead \/ DecodeHead
  BY <1>6 DEF OpenRead, DecodeCutHead, DecodeHead
<1>7. CASE ChunkTooLarge \/ ChunkSkip \/ ChunkSeekFails \/ ChunkData \/ CloseRead
  BY <1>7 DEF ChunkTooLarge, ChunkSkip, ChunkSeekFails, ChunkData, CloseRead
<1>8. CASE UNCHANGED vars
  BY <1>8 DEF vars
<1> QED
  BY <1>1, <1>2, <1>3, <1>4, <1>5, <1>6, <1>7, <1>8 DEF Next, OpenSteps

-----------------------------------------------------------------------------
(* What is in the file.                                                    *)

(* Only the body of a header is replaced.                                  *)
LEMMA BodyOf ==
  ASSUME NEW f \in Formats, NEW n \in Nat, NEW b \in Seq(Nat), NEW c \in Seq(Nat)
  PROVE  [Encoded(f, n, b) EXCEPT !.body = c] = Encoded(f, n, c)
<1> DEFINE h == TRUE
           w == WavOf(f)
           s == BpsOf(f)
           r == 36 + n
           e == <<>>
<1>1. /\ Encoded(f, n, b) = [head |-> h, wav |-> w, bps |-> s, riff |-> r, before |-> e,
                             data |-> n, body |-> b]
      /\ Encoded(f, n, c) = [head |-> h, wav |-> w, bps |-> s, riff |-> r, before |-> e,
                             data |-> n, body |-> c]
  BY DEF Encoded
<1> HIDE DEF h, w, s, r, e
<1>2. [[head |-> h, wav |-> w, bps |-> s, riff |-> r, before |-> e,
        data |-> n, body |-> b] EXCEPT !.body = c] =
      [head |-> h, wav |-> w, bps |-> s, riff |-> r, before |-> e,
       data |-> n, body |-> c]
  OBVIOUS
<1> QED
  BY <1>1, <1>2

(* The header of a recording that is not yet closed.                       *)
LEMMA StartedIs ==
  ASSUME NEW f \in Formats, NEW b \in Seq(Nat)
  PROVE  /\ Encoded(f, 0, b).head = TRUE /\ Encoded(f, 0, b).body = b
         /\ Encoded(f, 0, b).data = 0
  BY 0 \in Nat, EncodedIs

LEMMA Rewritten ==
  ASSUME TypeOK, file = Encoded(fmt, 0, file.body), NEW c \in Seq(Nat)
  PROVE  [file EXCEPT !.body = c] = Encoded(fmt, 0, c)
<1>1. file.body \in Seq(Nat) /\ fmt \in Formats /\ 0 \in Nat
  BY FileIs DEF TypeOK
<1>2. [Encoded(fmt, 0, file.body) EXCEPT !.body = c] = Encoded(fmt, 0, c)
  BY <1>1, BodyOf
<1> QED
  BY <1>2, Zenon

(* What an unfailed recording is.                                          *)
LEMMA RecordingIs ==
  ASSUME TypeOK, Modes, Kept, ~failed, mode = "write"
  PROVE  /\ source = "recording" /\ recorded = nwritten /\ fmt = recfmt
         /\ file.body \o buf = Upto(nwritten)
         /\ file.body \in Seq(Nat) /\ buf \in Seq(Nat) /\ nwritten \in Nat
         /\ pc = "header" => file = NoFile /\ buf = <<>>
         /\ pc # "header" => file = Encoded(fmt, 0, file.body)
         /\ pc = "closing" => buf = <<>>
  BY FileIs DEF Modes, Kept, TypeOK

LEMMA KeptNext == TypeOK /\ Modes /\ Kept /\ [Next]_vars => Kept'
<1> SUFFICES ASSUME TypeOK, Modes, Kept, [Next]_vars, ~failed' PROVE Kept'
  BY DEF Kept
<1> USE DEF fileVars, readVars, pastVars
<1>1. ASSUME NEW f \in Formats, OpenWrite(f) PROVE Kept'
  <2>1. /\ recorded' = nwritten' /\ fmt' = recfmt' /\ nwritten' = 0
        /\ source' = "recording" /\ pc' = "header" /\ file' = NoFile /\ buf' = <<>>
    BY <1>1 DEF OpenWrite
  <2>2. NoFile.body \o <<>> = Upto(0)
    <3>1. NoFile.body \o <<>> = <<>>
      BY NoFileIs
    <3>2. <<>> = Upto(0)
      BY DEF Upto
    <3> QED
      BY <3>1, <3>2, Zenon
  <2> QED
    BY <2>1, <2>2 DEF Kept
<1>2. CASE OpenHeader
  <2>1. /\ mode = "write" /\ ~failed /\ pc = "header" /\ pc' = "idle"
        /\ file' = Encoded(fmt, 0, <<>>)
        /\ UNCHANGED <<source, buf, fmt, nwritten, recorded, recfmt>>
    BY <1>2 DEF OpenHeader, Modes
  <2>2. fmt \in Formats /\ <<>> \in Seq(Nat)
    BY DEF TypeOK
  <2>3. file'.body = file.body /\ file' = Encoded(fmt, 0, file'.body)
    <3>1. file.body = <<>>
      BY <2>1, RecordingIs, NoFileIs
    <3>2. Encoded(fmt, 0, <<>>).body = <<>>
      BY <2>2, StartedIs
    <3> QED
      BY <2>1, <3>1, <3>2, Zenon
  <2> QED
    BY <2>1, <2>3, RecordingIs DEF Kept
<1>3. ASSUME NEW sz \in Pieces, Write(sz) PROVE Kept'
  <2>1. /\ mode = "write" /\ ~failed /\ pc = "idle" /\ pc' = "idle" /\ sz \in Nat
        /\ buf' = buf \o [i \in 1..sz |-> nwritten + i]
        /\ nwritten' = nwritten + sz /\ recorded' = recorded + sz
        /\ UNCHANGED <<file, fmt, source, recfmt>>
    BY <1>3, AuFileAssumption DEF Write
  <2>2. file.body \o buf' = Upto(nwritten')
    BY <2>1, RecordingIs, Grows
  <2> QED
    BY <2>1, <2>2, RecordingIs DEF Kept
<1>4. ASSUME NEW sz \in Pieces, WriteFails(sz) PROVE FALSE
  BY <1>4 DEF WriteFails
<1>5. CASE Flush
  <2>1. /\ mode = "write" /\ ~failed /\ pc # "header" /\ buf # <<>>
        /\ UNCHANGED <<pc, fmt, nwritten, source, recorded, recfmt>>
    BY <1>5 DEF Flush, Modes
  <2>2. PICK n \in 1..Len(buf) :
          /\ file' = [file EXCEPT !.body = @ \o SubSeq(buf, 1, n)]
          /\ buf' = SubSeq(buf, n + 1, Len(buf))
    BY <1>5 DEF Flush
  <2> DEFINE b == file.body \o SubSeq(buf, 1, n)
  <2>3. b \in Seq(Nat) /\ b \o buf' = file.body \o buf
    BY <2>1, <2>2, RecordingIs, Spilt
  <2>4. file' = [file EXCEPT !.body = b]
    BY <2>2
  <2> HIDE DEF b
  <2>5. file' = Encoded(fmt, 0, b)
    BY <2>1, <2>3, <2>4, RecordingIs, Rewritten
  <2>6. fmt \in Formats
    BY DEF TypeOK
  <2>7. file'.body = b
    <3>1. Encoded(fmt, 0, b).body = b
      BY <2>3, <2>6, StartedIs
    <3> QED
      BY <2>5, <3>1, Zenon
  <2> QED
    BY <2>1, <2>3, <2>5, <2>7, RecordingIs DEF Kept
<1>6. CASE CloseEmpty
  <2>1. /\ mode = "write" /\ ~failed /\ pc = "idle" /\ nwritten = 0 /\ source' = "whole"
        /\ file' = [file EXCEPT !.body = file.body \o buf]
        /\ UNCHANGED <<recorded, recfmt>>
    BY <1>6 DEF CloseEmpty
  <2>2. file' = Encoded(recfmt, recorded, Upto(recorded))
    <3>1. /\ file.body \o buf = Upto(0) /\ fmt = recfmt /\ recorded = 0
          /\ file = Encoded(fmt, 0, file.body)
      BY <2>1, RecordingIs
    <3>2. [file EXCEPT !.body = Upto(0)] = Encoded(fmt, 0, Upto(0))
      BY <3>1, 0 \in Nat, UptoIs, Rewritten
    <3> QED
      BY <2>1, <3>1, <3>2, Zenon
  <2> QED
    BY <2>1, <2>2 DEF Kept
<1>7. CASE CloseRewind
  <2>1. /\ mode = "write" /\ ~failed /\ pc = "idle" /\ pc' = "closing" /\ buf' = <<>>
        /\ file' = [file EXCEPT !.body = file.body \o buf]
        /\ UNCHANGED <<source, fmt, nwritten, recorded, recfmt>>
    BY <1>7 DEF CloseRewind
  <2>2. file' = Encoded(fmt, 0, Upto(nwritten))
    <3>1. /\ file.body \o buf = Upto(nwritten) /\ nwritten \in Nat
          /\ file = Encoded(fmt, 0, file.body)
      BY <2>1, RecordingIs
    <3>2. [file EXCEPT !.body = Upto(nwritten)] = Encoded(fmt, 0, Upto(nwritten))
      BY <3>1, UptoIs, Rewritten
    <3> QED
      BY <2>1, <3>1, <3>2, Zenon
  <2>3. Upto(nwritten) \in Seq(Nat) /\ fmt \in Formats
    BY UptoIs DEF TypeOK
  <2>4. file'.body = Upto(nwritten)
    <3>1. Encoded(fmt, 0, Upto(nwritten)).body = Upto(nwritten)
      BY <2>3, StartedIs
    <3> QED
      BY <2>2, <3>1, Zenon
  <2>5. file'.body \o buf' = Upto(nwritten)
    BY <2>1, <2>3, <2>4
  <2> QED
    BY <2>1, <2>2, <2>4, <2>5, RecordingIs DEF Kept
<1>8. CASE CloseHeader
  <2>1. /\ mode = "write" /\ ~failed /\ source' = "whole"
        /\ file' = Encoded(fmt, nwritten, file.body \o buf)
        /\ UNCHANGED <<recorded, recfmt>>
    BY <1>8 DEF CloseHeader, Modes
  <2> QED
    BY <2>1, RecordingIs DEF Kept
<1>9. CASE Crash
  <2>1. mode = "write" /\ ~failed /\ source' = "cut" /\ file' = file
    BY <1>9 DEF Crash
  <2>2. file.body = Upto(Len(file.body))
    BY <2>1, RecordingIs, Prefixed
  <2>3. fmt \in Formats
    BY DEF TypeOK
  <2>4. file.head => file.data = 0
    <3>1. CASE pc = "header"
      BY <2>1, <3>1, RecordingIs, NoFileIs
    <3>2. CASE pc # "header"
      <4>1. file = Encoded(fmt, 0, file.body) /\ file.body \in Seq(Nat)
        BY <2>1, <3>2, RecordingIs
      <4>2. Encoded(fmt, 0, file.body).data = 0
        BY <2>3, <4>1, StartedIs
      <4> QED
        BY <4>1, <4>2, Zenon
    <3> QED
      BY <3>1, <3>2
  <2> QED
    BY <2>1, <2>2, <2>4 DEF Kept
<1>10. CASE Receive
  BY <1>10 DEF Receive, Kept
<1>11. CASE /\ UNCHANGED <<file, source, recorded, recfmt, failed>>
            /\ mode # "write" \/ UNCHANGED <<buf, pc, fmt, nwritten>>
  <2>1. CASE mode # "write"
    BY <1>11, <2>1 DEF Kept, Modes
  <2>2. CASE UNCHANGED <<buf, pc, fmt, nwritten>>
    BY <1>11, <2>2 DEF Kept
  <2> QED
    BY <1>11, <2>1, <2>2
<1>12. CASE OpenRead \/ DecodeCutHead \/ DecodeHead \/ ChunkTooLarge \/ ChunkSkip
              \/ ChunkSeekFails \/ ChunkData
  BY <1>11, <1>12 DEF Modes, OpenRead, DecodeCutHead, DecodeHead, ChunkTooLarge, ChunkSkip,
                      ChunkSeekFails, ChunkData, OpenFails
<1>13. CASE CloseRead \/ \E sz \in Pieces : Read(sz)
  BY <1>11, <1>13 DEF CloseRead, Read
<1>14. CASE UNCHANGED vars
  BY <1>11, <1>14 DEF vars
<1> QED
  BY <1>1, <1>2, <1>3, <1>4, <1>5, <1>6, <1>7, <1>8, <1>9, <1>10, <1>12, <1>13, <1>14
     DEF Next, OpenSteps

-----------------------------------------------------------------------------
(* How far the decoder is.                                                 *)

(* What a recording is that was closed, ...                                *)
LEMMA WholeIs ==
  ASSUME TypeOK, Kept, source = "whole", ~failed
  PROVE  /\ file.head = TRUE /\ file.body = Upto(recorded)
         /\ file.data = recorded /\ file.riff = 36 + recorded
         /\ file.before = <<>>
         /\ file.wav = WavOf(recfmt) /\ file.bps = BpsOf(recfmt)
<1>1. recfmt \in Formats /\ recorded \in Nat /\ Upto(recorded) \in Seq(Nat)
  BY UptoIs DEF TypeOK
<1>2. file = Encoded(recfmt, recorded, Upto(recorded))
  BY DEF Kept
<1> DEFINE u == Upto(recorded)
<1> HIDE DEF u
<1>3. u = Upto(recorded) /\ u \in Seq(Nat) /\ file = Encoded(recfmt, recorded, u)
  BY <1>1, <1>2 DEF u
<1>4. /\ Encoded(recfmt, recorded, u).head = TRUE /\ Encoded(recfmt, recorded, u).body = u
      /\ Encoded(recfmt, recorded, u).data = recorded
      /\ Encoded(recfmt, recorded, u).riff = 36 + recorded
      /\ Encoded(recfmt, recorded, u).before = <<>>
      /\ Encoded(recfmt, recorded, u).wav = WavOf(recfmt)
      /\ Encoded(recfmt, recorded, u).bps = BpsOf(recfmt)
  BY DEF Encoded
<1> QED
  BY <1>3, <1>4, Zenon

(* ... and its first chunk: the data.                                      *)
LEMMA FirstChunk ==
  ASSUME TypeOK, Kept, source = "whole", ~failed, skipped = 0, NEW c \in ChunksRead
  PROVE  c = [id |-> "data", size |-> recorded]
<1>1. file.head /\ file.before = <<>> /\ file.data = recorded /\ recorded \in Nat
  BY WholeIs DEF TypeOK
<1>2. Len(file.before) = 0 /\ file.data # NoData
  BY <1>1 DEF NoData
<1> QED
  BY <1>1, <1>2 DEF ChunksRead

LEMMA DecodingNext == TypeOK /\ Modes /\ Kept /\ Decoding /\ [Next]_vars => Decoding'
<1> SUFFICES ASSUME TypeOK, Modes, Kept, Decoding, [Next]_vars PROVE Decoding'
  OBVIOUS
<1> USE DEF fileVars, readVars, pastVars, OpenFails
<1>1. CASE pc' \notin {"decode", "chunks"}
  BY <1>1 DEF Decoding
<1>2. CASE /\ UNCHANGED <<pc, readVars, source, failed>>
  BY <1>2 DEF Decoding
<1>3. ASSUME NEW f \in Formats, OpenWrite(f) PROVE Decoding'
  BY <1>1, <1>3 DEF OpenWrite
<1>4. ASSUME NEW sz \in Pieces, Write(sz) \/ WriteFails(sz) \/ Read(sz) PROVE Decoding'
  BY <1>1, <1>4 DEF Write, WriteFails, Read, Modes
<1>5. CASE Flush \/ CloseRead
  BY <1>2, <1>5 DEF Flush, CloseRead
<1>6. CASE OpenHeader \/ CloseEmpty \/ CloseRewind \/ CloseHeader \/ Crash \/ Receive
  BY <1>1, <1>6 DEF OpenHeader, CloseEmpty, CloseRewind, CloseHeader, Crash, Receive
<1>7. CASE OpenRead
  BY <1>7 DEF OpenRead, Decoding
<1>8. CASE DecodeCutHead \/ DecodeHead
  <2>1. CASE pc' = "chunks"
    <3>1. /\ pc = "decode"
          /\ UNCHANGED <<readVars, source, failed>>
      BY <1>8, <2>1 DEF DecodeCutHead, DecodeHead
    <3> QED
      BY <2>1, <3>1 DEF Decoding
  <2> QED
    BY <1>1, <1>8, <2>1 DEF DecodeCutHead, DecodeHead
<1>9. CASE ChunkTooLarge \/ ChunkSeekFails \/ ChunkData
  BY <1>1, <1>9 DEF ChunkTooLarge, ChunkSeekFails, ChunkData
<1>10. CASE ChunkSkip
  <2>1. PICK c \in ChunksRead : c.id # "data" /\ chunk' = c
    BY <1>10 DEF ChunkSkip
  <2>2. c.id # "unset"
    BY <2>1, ChunksAre
  <2>3. pc = "chunks" /\ UNCHANGED <<pc, datasize, nread, got, source, failed>>
    BY <1>10 DEF ChunkSkip
  <2>4. ~(source = "whole" /\ ~failed)
    BY <2>1, <2>3, FirstChunk DEF Decoding
  <2> QED
    BY <2>1, <2>2, <2>3, <2>4 DEF Decoding
<1>11. CASE UNCHANGED vars
  BY <1>2, <1>11 DEF vars
<1> QED
  BY <1>3, <1>4, <1>5, <1>6, <1>7, <1>8, <1>9, <1>10, <1>11 DEF Next, OpenSteps

-----------------------------------------------------------------------------
(* What has been played.                                                   *)

(* The data of other programs that a decoder finds.                        *)
LEMMA DataFound ==
  ASSUME TypeOK, Modes, Kept, Decoding, ~failed, pc = "chunks",
         NEW c \in ChunksRead, c.id = "data", NEW i \in 1..Len(file.body), i <= c.size
  PROVE  file.body[i] = i
<1>1. file.body \in Seq(Nat) /\ c.size \in Nat /\ skipped \in Nat
  BY FileIs, ChunksAre DEF TypeOK
<1>2. CASE source = "whole"
  <2>1. file.body = Upto(recorded) /\ recorded \in Nat
    BY <1>2, WholeIs DEF TypeOK
  <2> QED
    BY <2>1, UptoIs
<1>3. CASE source = "cut"
  <2>1. file.body = Upto(Len(file.body)) /\ Len(file.body) \in Nat
    BY <1>1, <1>3 DEF Kept
  <2>2. Upto(Len(file.body))[i] = i
    BY <2>1, UptoIs
  <2> QED
    BY <2>1, <2>2, Zenon
<1>4. CASE source = "foreign"
  <2>1. file.head /\ file.data # NoData /\ (i > file.data \/ file.body[i] = i)
    BY <1>4, AuFileAssumption DEF Kept
  <2>2. file.before \in Seq(Nat) /\ Len(file.before) \in Nat
    BY FileIs
  <2>3. chunk.id # "data" /\ (chunk.id = "unset" => skipped = 0)
    BY DEF Decoding
  <2>4. c.size = file.data
    BY <2>1, <2>2, <2>3 DEF ChunksRead
  <2> QED
    BY <1>1, <2>1, <2>4
<1> QED
  BY <1>2, <1>3, <1>4 DEF Modes, Decoding, TypeOK

(* The header stands for the format it was made from.                      *)
LEMMA FormatBack ==
  ASSUME NEW f \in Formats, NEW g \in AufmtsOf(WavOf(f), BpsOf(f))
  PROVE  g = f
  BY DEF AufmtsOf, WavOf, BpsOf, Supported, Formats

LEMMA PlayedNext ==
  TypeOK /\ Modes /\ Kept /\ Decoding /\ Played /\ [Next]_vars => Played'
<1> SUFFICES ASSUME TypeOK, Modes, Kept, Decoding, Played, [Next]_vars,
                    mode' = "read", ~failed'
             PROVE  Played'
  BY DEF Played
<1> USE DEF fileVars, readVars, pastVars, OpenFails
<1>1. CASE /\ mode = "read"
           /\ UNCHANGED <<file, mode, fmt, nread, datasize, got,
                          source, recorded, recfmt, failed>>
  BY <1>1 DEF Played
<1>2. ASSUME nread = 0, got = <<>>, UNCHANGED <<file, nread, got, source, recorded, recfmt>>,
             datasize' \in Nat,
             \A i \in 1..Len(file.body) : i <= datasize' => file.body[i] = i,
             source = "whole" => datasize' = recorded /\ fmt' = recfmt
      PROVE  Played'
  <2>1. <<>> = Upto(0) /\ Len(file.body) \in Nat
    BY FileIs DEF Upto
  <2>2. got' = Upto(nread')
    BY <1>2, <2>1, Zenon
  <2>3. nread' <= datasize' /\ nread' <= Len(file'.body)
    BY <1>2, <2>1
  <2> QED
    BY <1>2, <2>2, <2>3 DEF Played
<1>3. CASE DecodeCutHead
  <2>1. /\ pc = "decode" /\ ~file.head /\ ~failed
        /\ UNCHANGED <<file, datasize, nread, got, source, recorded, recfmt>>
    BY <1>3 DEF DecodeCutHead, Modes
  <2>2. nread = 0 /\ got = <<>> /\ datasize' = 0
    BY <2>1 DEF Decoding
  <2>3. source # "whole"
    BY <2>1, WholeIs
  <2>4. \A i \in 1..Len(file.body) : i <= datasize' => file.body[i] = i
    BY <2>2
  <2> QED
    BY <1>2, <2>1, <2>2, <2>3, <2>4
<1>4. CASE ChunkData
  <2>1. PICK c \in ChunksRead : c.id = "data" /\ datasize' = c.size
    BY <1>4 DEF ChunkData
  <2>2. /\ pc = "chunks" /\ ~failed /\ mode # "read"
        /\ UNCHANGED <<file, nread, got, source, recorded, recfmt>>
    BY <1>4 DEF ChunkData, Modes
  <2>3. nread = 0 /\ got = <<>> /\ datasize' \in Nat
    BY <2>1, <2>2, ChunksAre DEF Decoding
  <2>4. \A i \in 1..Len(file.body) : i <= datasize' => file.body[i] = i
    BY <2>1, <2>2, DataFound
  <2>5. source = "whole" => datasize' = recorded /\ fmt' = recfmt
    <3> SUFFICES ASSUME source = "whole" PROVE datasize' = recorded /\ fmt' = recfmt
      OBVIOUS
    <3>1. skipped = 0
      BY <2>2 DEF Decoding
    <3>2. datasize' = recorded
      BY <2>1, <2>2, <3>1, FirstChunk
    <3>3. fmt' \in AufmtsOf(file.wav, file.bps)
      BY <1>4, <2>2, WholeIs DEF ChunkData
    <3>4. file.wav = WavOf(recfmt) /\ file.bps = BpsOf(recfmt) /\ recfmt \in Formats
      BY <2>2, WholeIs DEF TypeOK
    <3>5. fmt' = recfmt
      BY <3>3, <3>4, FormatBack
    <3> QED
      BY <3>2, <3>5
  <2> QED
    BY <1>2, <2>2, <2>3, <2>4, <2>5
<1>5. ASSUME NEW sz \in Pieces, Read(sz) PROVE Played'
  <2>1. /\ mode = "read" /\ ~failed
        /\ UNCHANGED <<file, fmt, datasize, source, recorded, recfmt>>
    BY <1>5 DEF Read
  <2>2. /\ sz \in Nat /\ nread \in Nat /\ datasize \in Nat
        /\ file.body \in Seq(Nat) /\ Len(file.body) \in Nat
    BY FileIs, AuFileAssumption DEF TypeOK
  <2>3. /\ nread <= datasize /\ nread <= Len(file.body) /\ got = Upto(nread)
        /\ \A i \in 1..Len(file.body) : i <= datasize => file.body[i] = i
        /\ source = "whole" => datasize = recorded /\ fmt = recfmt
    BY <2>1 DEF Played
  <2> DEFINE n == IF Readable(sz) < Len(file.body) - nread
                 THEN Readable(sz) ELSE Len(file.body) - nread
  <2>4. got' = got \o SubSeq(file.body, nread + 1, nread + n) /\ nread' = nread + n
    BY <1>5 DEF Read
  <2>5. n \in Nat /\ nread + n <= datasize /\ nread + n <= Len(file.body)
    BY <2>2, <2>3 DEF Readable
  <2> HIDE DEF n
  <2>6. \A i \in nread + 1..nread + n : file.body[i] = i
    BY <2>2, <2>3, <2>5
  <2>7. Upto(nread) \o SubSeq(file.body, nread + 1, nread + n) = Upto(nread + n)
    BY <2>2, <2>5, <2>6, Plays
  <2>8. got' = Upto(nread')
    BY <2>3, <2>4, <2>7, Zenon
  <2> QED
    BY <2>1, <2>3, <2>4, <2>5, <2>8 DEF Played
<1>6. ASSUME NEW f \in Formats, OpenWrite(f) PROVE FALSE
  BY <1>6 DEF OpenWrite
<1>7. ASSUME NEW sz \in Pieces, Write(sz) \/ WriteFails(sz) PROVE FALSE
  BY <1>7 DEF Write, WriteFails
<1>8. CASE OpenHeader \/ Flush \/ CloseEmpty \/ CloseRewind \/ CloseHeader \/ Crash \/ Receive
  BY <1>8 DEF OpenHeader, Flush, CloseEmpty, CloseRewind, CloseHeader, Crash, Receive, Modes
<1>9. CASE OpenRead \/ DecodeHead \/ ChunkTooLarge \/ ChunkSkip \/ ChunkSeekFails
  BY <1>9 DEF OpenRead, DecodeHead, ChunkTooLarge, ChunkSkip, ChunkSeekFails, Modes
<1>10. CASE CloseRead
  BY <1>10 DEF CloseRead
<1>11. CASE UNCHANGED vars
  BY <1>1, <1>11 DEF vars
<1> QED
  BY <1>3, <1>4, <1>5, <1>6, <1>7, <1>8, <1>9, <1>10, <1>11 DEF Next, OpenSteps

-----------------------------------------------------------------------------
(* What the decoder finds.                                                 *)

LEMMA EncodedFindable ==
  ASSUME NEW f \in Formats, NEW n \in Nat, NEW b \in Seq(Nat)
  PROVE  Findable(Encoded(f, n, b))
<1>1. Encoded(f, n, b).head = TRUE /\ Encoded(f, n, b).data = n
  BY EncodedIs
<1>2. n # NoData
  BY DEF NoData
<1> QED
  BY <1>1, <1>2, Zenon DEF Findable

LEMMA FoundNext ==
  TypeOK /\ Modes /\ Kept /\ Decoding /\ Found /\ [Next]_vars => Found'
<1> SUFFICES ASSUME TypeOK, Modes, Kept, Decoding, Found, [Next]_vars, ~failed'
             PROVE  Found'
  BY DEF Found
<1> USE DEF fileVars, readVars, pastVars, OpenFails
<1>f. fmt \in Formats /\ nwritten \in Nat /\ file.body \in Seq(Nat) /\ buf \in Seq(Nat)
  BY FileIs DEF TypeOK
<1>1. CASE /\ UNCHANGED <<file, failed>>
           /\ pc' # "chunks" \/ UNCHANGED <<pc, skipped>>
           /\ mode' # "read" \/ UNCHANGED <<mode, datasize>>
  BY <1>1 DEF Found
<1>2. CASE pc' # "chunks" /\ mode' # "read" /\ Findable(file')
  BY <1>2 DEF Found
<1>3. ASSUME NEW f \in Formats, OpenWrite(f) PROVE Found'
  BY <1>3, NoFileIs DEF OpenWrite, Found, Findable
<1>4. CASE OpenHeader
  <2>1. file' = Encoded(fmt, 0, <<>>) /\ pc' = "idle" /\ mode' = "write"
    BY <1>4 DEF OpenHeader, Modes
  <2>2. Findable(Encoded(fmt, 0, <<>>))
    <3>1. 0 \in Nat /\ <<>> \in Seq(Nat)
      OBVIOUS
    <3> QED
      BY <1>f, <3>1, EncodedFindable, Zenon
  <2> QED
    BY <1>2, <2>1, <2>2
<1>5. ASSUME NEW sz \in Pieces, Write(sz) \/ WriteFails(sz) \/ Read(sz) PROVE Found'
  BY <1>1, <1>5 DEF Write, WriteFails, Read
<1>6. CASE Flush \/ CloseEmpty \/ CloseRewind
  <2>1. mode = "write" /\ pc # "header" /\ ~failed
    BY <1>6 DEF Flush, CloseEmpty, CloseRewind, Modes
  <2>2. file = Encoded(fmt, 0, file.body)
    BY <2>1, RecordingIs
  <2>3. file.head = TRUE /\ file.data = 0
    BY <1>f, <2>2, StartedIs
  <2>4. \E b : file' = [file EXCEPT !.body = b]
    BY <1>6 DEF Flush, CloseEmpty, CloseRewind
  <2>5. file \in Files
    BY DEF TypeOK
  <2>6. file'.head = file.head /\ file'.data = file.data
    BY <2>4, <2>5 DEF Files
  <2>7. Findable(file')
    BY <2>3, <2>6 DEF Findable, NoData
  <2>8. pc' # "chunks" /\ mode' # "read"
    BY <1>6, <2>1 DEF Flush, CloseEmpty, CloseRewind, Modes
  <2> QED
    BY <1>2, <2>7, <2>8
<1>7. CASE CloseHeader
  <2>1. file' = Encoded(fmt, nwritten, file.body \o buf) /\ pc' = "idle" /\ mode' = "none"
    BY <1>7 DEF CloseHeader
  <2>2. Findable(Encoded(fmt, nwritten, file.body \o buf))
    <3>1. file.body \o buf \in Seq(Nat)
      BY <1>f
    <3> QED
      BY <1>f, <3>1, EncodedFindable, Zenon
  <2> QED
    BY <1>2, <2>1, <2>2
<1>8. CASE Crash \/ OpenRead \/ ChunkTooLarge \/ ChunkSeekFails \/ CloseRead
  BY <1>1, <1>8 DEF Crash, OpenRead, ChunkTooLarge, ChunkSeekFails, CloseRead
<1>9. CASE Receive
  <2>1. file' \in Foreign /\ pc' = "idle" /\ mode' = "none"
    BY <1>9 DEF Receive
  <2>2. ASSUME NEW f \in Foreign, ~Findable(f) PROVE f.body = <<>>
    <3>1. f.body \in Seq(Nat) /\ Len(f.body) \in Nat
      BY AuFileAssumption DEF Files
    <3>2. 1 \notin 1..Len(f.body)
      BY <2>2, AuFileAssumption DEF Findable
    <3> QED
      BY <3>1, <3>2
  <2> QED
    BY <2>1, <2>2 DEF Found
<1>10. CASE DecodeCutHead
  <2>1. file' = file /\ ~failed /\ ~Findable(file)
    BY <1>10 DEF DecodeCutHead, Findable
  <2> QED
    BY <2>1 DEF Found
<1>11. CASE DecodeHead
  <2>1. file' = file /\ ~failed /\ skipped' = 0 /\ mode' # "read"
    BY <1>11 DEF DecodeHead, Decoding, Modes
  <2>2. Len(file.before) \in Nat
    BY FileIs
  <2> QED
    BY <2>1, <2>2 DEF Found
<1>12. CASE ChunkSkip \/ ChunkData
  <2>1. /\ file' = file /\ ~failed /\ pc = "chunks" /\ mode = "none"
        /\ Len(file.before) \in Nat /\ skipped \in Nat
    BY <1>12, FileIs DEF ChunkSkip, ChunkData, Modes, TypeOK
  <2>2. CASE ~Findable(file)
    BY <2>1, <2>2 DEF Found
  <2>3. CASE Findable(file)
    <3>1. skipped <= Len(file.before)
      BY <2>1, <2>3 DEF Found
    <3>2. \A c \in ChunksRead :
            IF skipped < Len(file.before) THEN c.id = "other"
            ELSE c.id = "data" /\ c.size = file.data
      BY <2>1, <2>3, <3>1 DEF ChunksRead, Findable
    <3>3. CASE ChunkSkip
      <4>1. skipped < Len(file.before)
        BY <3>2, <3>3 DEF ChunkSkip
      <4>2. skipped' <= Len(file.before) /\ mode' # "read"
        BY <2>1, <3>3, <4>1 DEF ChunkSkip
      <4> QED
        BY <2>1, <2>3, <4>2 DEF Found
    <3>4. CASE ChunkData
      <4>1. datasize' = file.data /\ pc' = "idle"
        BY <3>2, <3>4 DEF ChunkData
      <4> QED
        BY <2>1, <2>3, <4>1 DEF Found
    <3> QED
      BY <1>12, <3>3, <3>4
  <2> QED
    BY <2>2, <2>3
<1>13. CASE UNCHANGED vars
  BY <1>1, <1>13 DEF vars
<1> QED
  BY <1>3, <1>4, <1>5, <1>6, <1>7, <1>8, <1>9, <1>10, <1>11, <1>12, <1>13 DEF Next, OpenSteps

-----------------------------------------------------------------------------
(* The theorems.                                                           *)

LEMMA IInvInit == Init => IInv
<1> SUFFICES ASSUME Init PROVE IInv
  OBVIOUS
<1>1. failed \in BOOLEAN
  BY Zenon DEF Init
<1>2. TypeOK
  BY <1>1, NoFileIs DEF Init, TypeOK, Formats
<1> QED
  BY <1>2, NoFileIs DEF Init, IInv, Modes, Kept, Decoding, Played, Found, Findable

LEMMA IInvNext == IInv /\ [Next]_vars => IInv'
  BY TypeNext, ModesNext, KeptNext, DecodingNext, PlayedNext, FoundNext DEF IInv

(* The inductive invariant holds in every state.                           *)
THEOREM Inductive == Spec => []IInv
  BY IInvInit, IInvNext, PTL DEF Spec

(* Every variable has its type.                                            *)
THEOREM TypeCorrect == Spec => []TypeOK
<1>1. IInv => TypeOK
  BY DEF IInv
<1> QED
  BY <1>1, Inductive, PTL

(* What is played is what was recorded, in its order and format, and all   *)
(* of it where the recording was closed.                                   *)
THEOREM ReadBackHolds == Spec => []ReadBack
<1>1. IInv => ReadBack
  BY DEF IInv, Played, ReadBack, Upto
<1> QED
  BY <1>1, Inductive, PTL

(* The file on the disk never promises data that is not in it.             *)
THEOREM HeaderHonestHolds == Spec => []HeaderHonest
<1>1. IInv => HeaderHonest
  <2> SUFFICES ASSUME IInv, source \in {"recording", "cut", "whole"}, ~failed, file.head
               PROVE  /\ file.data <= Len(file.body)
                      /\ file.body = Upto(Len(file.body))
                      /\ source = "whole" => file.data = recorded
    BY DEF HeaderHonest, Upto
  <2>1. TypeOK /\ Modes /\ Kept
    BY DEF IInv
  <2>2. file.body \in Seq(Nat) /\ Len(file.body) \in Nat
    BY <2>1, FileIs
  <2>3. CASE source = "recording"
    <3>1. pc # "header" /\ file.body = Upto(Len(file.body))
      BY <2>1, <2>3, RecordingIs, Prefixed, NoFileIs DEF Modes
    <3>2. file = Encoded(fmt, 0, file.body) /\ fmt \in Formats
      BY <2>1, <2>3, <3>1, RecordingIs DEF Modes, TypeOK
    <3>3. Encoded(fmt, 0, file.body).data = 0
      BY <2>2, <3>2, StartedIs
    <3>4. file.data = 0
      BY <3>2, <3>3, Zenon
    <3> QED
      BY <2>2, <2>3, <3>1, <3>4
  <2>4. CASE source = "cut"
    BY <2>1, <2>2, <2>4 DEF Kept
  <2>5. CASE source = "whole"
    <3>1. file.body = Upto(recorded) /\ file.data = recorded /\ recorded \in Nat
      BY <2>1, <2>5, WholeIs DEF TypeOK
    <3>2. Len(file.body) = recorded
      BY <3>1, UptoIs
    <3>3. file.body = Upto(Len(file.body))
      BY <3>1, <3>2, Zenon
    <3> QED
      BY <3>1, <3>2, <3>3
  <2> QED
    BY <2>3, <2>4, <2>5
<1> QED
  BY <1>1, Inductive, PTL

(* A recording in a supported format that was closed opens again: the      *)
(* decoder has no step but to find its data.                               *)
THEOREM ReopensHolds == Spec => Reopens
<1> DEFINE Step == source = "whole" /\ ~failed /\ recfmt \in Supported
                     /\ pc \in {"decode", "chunks"} /\ pc' = "idle" => mode' = "read"
<1>1. IInv /\ [Next]_vars => [Step]_vars
  <2> SUFFICES ASSUME IInv, Next, source = "whole", ~failed, recfmt \in Supported,
                      pc \in {"decode", "chunks"}, pc' = "idle", mode' # "read"
               PROVE  FALSE
    BY DEF vars
  <2> USE DEF fileVars, readVars, pastVars
  <2>1. TypeOK /\ Modes /\ Kept /\ Decoding
    BY DEF IInv
  <2>2. mode = "none" /\ buf = <<>> /\ skipped = 0
    BY <2>1 DEF Modes, Decoding
  <2>3. /\ file.head = TRUE /\ file.riff = 36 + recorded /\ recorded \in Nat
        /\ file.wav = WavOf(recfmt) /\ file.bps = BpsOf(recfmt)
    BY <2>1, WholeIs DEF TypeOK
  <2>4. ASSUME NEW c \in ChunksRead PROVE c.id = "data" /\ ~(c.size > file.riff)
    BY <2>1, <2>2, <2>3, FirstChunk
  <2>5. AufmtsOf(file.wav, file.bps) # {}
    BY <2>3 DEF AufmtsOf, WavOf, BpsOf, Supported
  <2>6. ~DecodeCutHead /\ ~DecodeHead
    BY <2>3 DEF DecodeCutHead, DecodeHead
  <2>7. ~ChunkTooLarge /\ ~ChunkSkip /\ ~ChunkSeekFails
    BY <2>4 DEF ChunkTooLarge, ChunkSkip, ChunkSeekFails
  <2>8. ~ChunkData
    BY <2>3, <2>5 DEF ChunkData
  <2> QED
    BY <2>2, <2>6, <2>7, <2>8 DEF Next, OpenSteps, OpenWrite, OpenHeader, Write, WriteFails, Read,
       Flush, CloseEmpty, CloseRewind, CloseHeader, Crash, Receive, OpenRead, CloseRead, Modes
<1> QED
  BY <1>1, Inductive, PTL DEF Spec, Reopens

-----------------------------------------------------------------------------
(* What is on the tape: nothing where the header promises nothing, ...     *)
LEMMA Blank ==
  ASSUME NEW f \in Files, ~Findable(f) \/ f.data = 0
  PROVE  OnTape(f) = <<>>
<1>1. f.body \in Seq(Nat) /\ Len(f.body) \in Nat
  BY DEF Files
<1>2. CASE ~Findable(f)
  BY <1>2 DEF OnTape
<1>3. CASE Findable(f) /\ f.data = 0
  <2>1. OnTape(f) = SubSeq(f.body, 1, 0)
    BY <1>1, <1>3 DEF OnTape
  <2> QED
    BY <1>1, <2>1, SubSeqEmpty
<1> QED
  BY <1>2, <1>3

(* ... all of a recording, where it promises that, ...                     *)
LEMMA Complete ==
  ASSUME NEW f \in Formats, NEW n \in Nat
  PROVE  OnTape(Encoded(f, n, Upto(n))) = Upto(n)
<1> DEFINE u == Upto(n)
           e == Encoded(f, n, u)
<1>1. u \in Seq(Nat) /\ Len(u) = n
  BY UptoIs
<1> HIDE DEF u
<1>2. e.data = n /\ e.body = u /\ Findable(e)
  BY <1>1, EncodedIs, EncodedFindable
<1> HIDE DEF e
<1>3. OnTape(e) = SubSeq(u, 1, Len(u))
  BY <1>1, <1>2 DEF OnTape
<1>4. SubSeq(u, 1, Len(u)) = u
  BY <1>1, SubSeqFull
<1> QED
  BY <1>3, <1>4 DEF u, e

(* ... and bytes in any case.                                              *)
LEMMA Bytes ==
  ASSUME NEW f \in Files
  PROVE  OnTape(f) \in Seq(Nat)
<1>1. /\ f.body \in Seq(Nat) /\ Len(f.body) \in Nat /\ f.head \in BOOLEAN
      /\ f.data \in Nat \cup {NoData}
  BY DEF Files
<1>2. CASE ~Findable(f)
  BY <1>2 DEF OnTape
<1>3. CASE Findable(f)
  <2> DEFINE m == IF f.data < Len(f.body) THEN f.data ELSE Len(f.body)
  <2>1. m \in Nat /\ m <= Len(f.body)
    BY <1>1, <1>3 DEF Findable
  <2>2. OnTape(f) = SubSeq(f.body, 1, m)
    BY <1>3 DEF OnTape
  <2> HIDE DEF m
  <2>3. \A i \in 1 .. m : f.body[i] \in Nat
    BY <1>1, <2>1
  <2>4. SubSeq(f.body, 1, m) \in Seq(Nat)
    BY <1>1, <2>1, <2>3, SubSeqProperties
  <2> QED
    BY <2>2, <2>4
<1> QED
  BY <1>2, <1>3

(* A recording in progress is not yet on the tape, nor on it when it is    *)
(* cut off.                                                                *)
LEMMA NotYet ==
  ASSUME TypeOK, Modes, Kept, ~failed, mode = "write"
  PROVE  OnTape(file) = <<>>
<1>1. CASE pc = "header"
  BY <1>1, RecordingIs, NoFileIs, Blank DEF Findable
<1>2. CASE pc # "header"
  <2>1. file = Encoded(fmt, 0, file.body) /\ file.body \in Seq(Nat) /\ fmt \in Formats
    BY <1>2, RecordingIs DEF TypeOK
  <2>2. Encoded(fmt, 0, file.body).data = 0
    BY <2>1, StartedIs
  <2>3. file.data = 0
    BY <2>1, <2>2, Zenon
  <2>4. file \in Files
    BY DEF TypeOK
  <2> QED
    BY <2>3, <2>4, Blank
<1> QED
  BY <1>1, <1>2

(* Where nothing of what the tape shows changes, there is no step of it.   *)
LEMMA TapeStays ==
  ASSUME UNCHANGED <<file, mode, failed>>,
         mode = "write" => buf' = buf,
         mode = "read" => got' = got
  PROVE  [Recorder!TapeNext]_(Recorder!tapeVars)
BY DEF Recorder!tapeVars

(* A disk that is full tears the tape, which stays so until there is a new *)
(* one.                                                                    *)
LEMMA TapeTears ==
  ASSUME TypeOK', failed'
  PROVE  [Recorder!TapeNext]_(Recorder!tapeVars)
<1>1. failed' = TRUE
  BY DEF TypeOK
<1>2. Recorder!Tear
  BY <1>1 DEF Recorder!Tear
<1> QED
  BY <1>2 DEF Recorder!TapeNext

(* Recording, as long as the disk has room.                                *)
LEMMA TapeRecords ==
  ASSUME IInv, IInv', ~failed', [Next]_vars,
         \/ \E f \in Formats : OpenWrite(f)
         \/ \E sz \in Pieces : Write(sz) \/ WriteFails(sz)
         \/ OpenHeader \/ Flush \/ CloseEmpty \/ CloseRewind \/ CloseHeader \/ Crash \/ Receive
  PROVE  [Recorder!TapeNext]_(Recorder!tapeVars)
<1> USE DEF fileVars, readVars, pastVars
<1>i. TypeOK /\ Modes /\ Kept /\ TypeOK' /\ Modes' /\ Kept'
  BY DEF IInv
<1>f. failed' = FALSE /\ (failed => failed = TRUE) /\ (~failed => failed = FALSE)
  BY <1>i DEF TypeOK
<1>w. ASSUME ~failed, mode = "write", mode' = "write", UNCHANGED failed,
             file'.body \o buf' = file.body \o buf, OnTape(file') = <<>>
      PROVE  [Recorder!TapeNext]_(Recorder!tapeVars)
  <2>1. OnTape(file) = <<>>
    BY <1>i, <1>w, NotYet
  <2> QED
    BY <1>w, <2>1 DEF Recorder!tapeVars
<1>n. OnTape(NoFile) = <<>>
  BY NoFileIs, Blank DEF Findable
<1>e. OnTape(Encoded(fmt, 0, <<>>)) = <<>>
  <2>1. /\ Encoded(fmt, 0, <<>>) \in Files /\ Encoded(fmt, 0, <<>>).data = 0
    <3>1. fmt \in Formats /\ 0 \in Nat /\ <<>> \in Seq(Nat)
      BY <1>i DEF TypeOK
    <3> QED
      BY <3>1, EncodedIs, Zenon
  <2> QED
    BY <2>1, Blank
<1>1. ASSUME NEW f \in Formats, OpenWrite(f)
      PROVE  [Recorder!TapeNext]_(Recorder!tapeVars)
  <2>1. mode = "none" /\ mode' = "write" /\ file' = NoFile /\ buf' = <<>>
    BY <1>1 DEF OpenWrite
  <2>2. OnTape(file') = <<>> /\ file'.body \o buf' = <<>>
    BY <1>n, <2>1, NoFileIs
  <2>3. Recorder!Record
    BY <1>f, <2>1, <2>2 DEF Recorder!Record
  <2> QED
    BY <2>3 DEF Recorder!TapeNext
<1>2. CASE OpenHeader
  <2>1. /\ pc = "header" /\ ~failed /\ mode = "write" /\ mode' = "write" /\ buf' = buf
        /\ file' = Encoded(fmt, 0, <<>>) /\ UNCHANGED failed
    BY <1>2, <1>i DEF OpenHeader, Modes
  <2>2. file.body = <<>>
    BY <1>i, <2>1, RecordingIs, NoFileIs
  <2>3. file'.body = <<>>
    <3>1. fmt \in Formats /\ <<>> \in Seq(Nat)
      BY <1>i DEF TypeOK
    <3> QED
      BY <2>1, <3>1, StartedIs, Zenon
  <2> QED
    BY <1>w, <1>e, <2>1, <2>2, <2>3
<1>3. ASSUME NEW sz \in Pieces, Write(sz)
      PROVE  [Recorder!TapeNext]_(Recorder!tapeVars)
  <2> DEFINE piece == [i \in 1 .. sz |-> nwritten + i]
  <2>1. /\ mode = "write" /\ ~failed /\ UNCHANGED <<file, mode, failed>>
        /\ buf' = buf \o piece /\ sz \in Nat
    BY <1>3, AuFileAssumption DEF Write
  <2>2. /\ file.body \o buf = Upto(nwritten) /\ nwritten \in Nat
        /\ file.body \in Seq(Nat) /\ buf \in Seq(Nat)
    BY <1>i, <2>1, RecordingIs
  <2>3. Len(file.body \o buf) = nwritten
    BY <2>2, UptoIs
  <2>4. piece \in Seq(Nat)
    BY <2>1, <2>2
  <2>5. file.body \o buf' = (file.body \o buf) \o piece
    <3> HIDE DEF piece
    <3> QED
      BY <2>1, <2>2, <2>4, Associative, Zenon
  <2>6. Recorder!Put(sz)
    BY <2>1, <2>3, <2>5 DEF Recorder!Put
  <2> QED
    BY <2>6 DEF Recorder!TapeNext
<1>4. ASSUME NEW sz \in Pieces, WriteFails(sz) PROVE FALSE
  BY <1>4 DEF WriteFails
<1>5. CASE Flush
  <2>1. PICK n \in 1..Len(buf) :
          /\ file' = [file EXCEPT !.body = @ \o SubSeq(buf, 1, n)]
          /\ buf' = SubSeq(buf, n + 1, Len(buf))
    BY <1>5 DEF Flush
  <2>2. mode = "write" /\ mode' = "write" /\ ~failed /\ UNCHANGED failed
    BY <1>5, <1>i DEF Flush, Modes
  <2>3. file'.body = file.body \o SubSeq(buf, 1, n)
    BY <2>1, <1>i DEF TypeOK, Files
  <2>b. file.body \in Seq(Nat) /\ buf \in Seq(Nat)
    BY <1>i, FileIs DEF TypeOK
  <2>s. (file.body \o SubSeq(buf, 1, n)) \o SubSeq(buf, n + 1, Len(buf)) = file.body \o buf
    BY <2>b, Spilt
  <2>4. file'.body \o buf' = file.body \o buf
    BY <2>1, <2>3, <2>s, Zenon
  <2>5. OnTape(file') = <<>>
    <3>1. pc # "header"
      BY <1>5, <1>i DEF Flush, Modes
    <3>2. file = Encoded(fmt, 0, file.body) /\ file.body \in Seq(Nat) /\ fmt \in Formats
      BY <1>i, <2>2, <3>1, RecordingIs DEF TypeOK
    <3>3. file.data = 0
      BY <3>2, StartedIs
    <3>4. file'.data = 0 /\ file' \in Files
      BY <1>i, <2>1, <3>3 DEF TypeOK, Files
    <3> QED
      BY <3>4, Blank
  <2> QED
    BY <1>w, <2>2, <2>4, <2>5
<1>6. CASE CloseRewind
  <2>1. /\ mode = "write" /\ mode' = "write" /\ ~failed /\ UNCHANGED failed /\ pc = "idle"
        /\ file' = [file EXCEPT !.body = file.body \o buf] /\ buf' = <<>>
    BY <1>6 DEF CloseRewind
  <2>2. file = Encoded(fmt, 0, file.body) /\ file.body \in Seq(Nat) /\ buf \in Seq(Nat)
        /\ fmt \in Formats
    BY <1>i, <2>1, RecordingIs DEF TypeOK
  <2>3. file.data = 0
    BY <2>2, StartedIs
  <2>4. file'.data = 0 /\ file' \in Files /\ file'.body = file.body \o buf
    BY <1>i, <2>1, <2>3 DEF TypeOK, Files
  <2>5. OnTape(file') = <<>>
    BY <2>4, Blank
  <2>6. file'.body \o buf' = file.body \o buf
    BY <2>1, <2>2, <2>4
  <2> QED
    BY <1>w, <2>1, <2>5, <2>6
<1>7. CASE CloseEmpty \/ CloseHeader
  <2>1. /\ mode = "write" /\ mode' = "none" /\ ~failed /\ UNCHANGED failed
        /\ source' = "whole" /\ UNCHANGED <<nwritten, recorded, recfmt>>
    BY <1>7, <1>i DEF CloseEmpty, CloseHeader, Modes
  <2>2. file.body \o buf = Upto(recorded) /\ recorded \in Nat /\ recfmt \in Formats
    BY <1>i, <2>1, RecordingIs DEF TypeOK
  <2>3. file' = Encoded(recfmt, recorded, Upto(recorded))
    BY <1>i, <2>1 DEF Kept
  <2>4. OnTape(file') = Upto(recorded)
    BY <2>2, <2>3, Complete
  <2>5. Recorder!Keep
    BY <1>f, <2>1, <2>2, <2>4 DEF Recorder!Keep
  <2> QED
    BY <2>5 DEF Recorder!TapeNext
<1>8. CASE Crash
  <2>1. mode = "write" /\ mode' = "none" /\ ~failed /\ UNCHANGED <<failed, file>>
    BY <1>8 DEF Crash
  <2>2. Recorder!CutOff
    BY <1>f, <2>1 DEF Recorder!CutOff
  <2> QED
    BY <2>2 DEF Recorder!TapeNext
<1>9. CASE Receive
  <2>1. mode = "none" /\ mode' = "none"
    BY <1>9 DEF Receive
  <2>2. OnTape(file') \in Seq(Nat)
    BY <1>i, Bytes DEF TypeOK
  <2>3. Recorder!Exchange
    BY <1>f, <2>1, <2>2 DEF Recorder!Exchange
  <2> QED
    BY <2>3 DEF Recorder!TapeNext
<1> QED
  BY <1>1, <1>2, <1>3, <1>4, <1>5, <1>6, <1>7, <1>8, <1>9

(* Playing.                                                                *)
LEMMA TapePlays ==
  ASSUME IInv, IInv', ~failed', [Next]_vars,
         OpenRead \/ DecodeCutHead \/ DecodeHead \/ ChunkTooLarge \/ ChunkSkip \/ ChunkSeekFails
           \/ ChunkData \/ CloseRead \/ \E sz \in Pieces : Read(sz)
  PROVE  [Recorder!TapeNext]_(Recorder!tapeVars)
<1> USE DEF fileVars, readVars, pastVars, OpenFails
<1>i. TypeOK /\ Modes /\ Kept /\ Decoding /\ Played /\ Found /\ TypeOK' /\ Played'
  BY DEF IInv
<1>f. /\ failed' = FALSE /\ failed = FALSE /\ file' = file /\ buf' = buf
  BY <1>i DEF TypeOK, OpenRead, DecodeCutHead, DecodeHead, ChunkTooLarge, ChunkSkip,
              ChunkSeekFails, ChunkData, CloseRead, Read
<1>1. CASE OpenRead \/ DecodeHead \/ ChunkTooLarge \/ ChunkSkip \/ ChunkSeekFails
  <2>1. mode' = mode /\ mode = "none"
    BY <1>1, <1>i DEF Modes, OpenRead, DecodeHead, ChunkTooLarge, ChunkSkip, ChunkSeekFails
  <2> QED
    BY <1>f, <2>1, TapeStays
<1>2. CASE DecodeCutHead \/ ChunkData
  <2>1. mode = "none" /\ mode' \in {"none", "read"} /\ got' = <<>>
    BY <1>2, <1>i DEF Modes, Decoding, DecodeCutHead, ChunkData
  <2>2. CASE mode' = "none"
    BY <1>f, <2>1, <2>2, TapeStays
  <2>3. CASE mode' = "read"
    <3>1. Recorder!Play
      BY <1>f, <2>1, <2>3 DEF Recorder!Play
    <3> QED
      BY <3>1 DEF Recorder!TapeNext
  <2> QED
    BY <2>1, <2>2, <2>3
<1>3. CASE CloseRead
  <2>1. mode = "read" /\ mode' = "none"
    BY <1>3 DEF CloseRead
  <2>2. Recorder!Stop
    BY <1>f, <2>1 DEF Recorder!Stop
  <2> QED
    BY <2>2 DEF Recorder!TapeNext
<1>4. ASSUME NEW sz \in Pieces, Read(sz)
      PROVE  [Recorder!TapeNext]_(Recorder!tapeVars)
  <2>1. mode = "read" /\ mode' = "read"
    BY <1>4 DEF Read
  <2>2. /\ sz \in Nat /\ nread \in Nat /\ datasize \in Nat /\ nread' \in Nat
        /\ file.body \in Seq(Nat) /\ Len(file.body) \in Nat
        /\ file.data \in Nat \cup {NoData}
    BY <1>i, FileIs, AuFileAssumption DEF TypeOK
  <2>3. /\ nread <= datasize /\ nread <= Len(file.body) /\ got = Upto(nread)
        /\ \A i \in 1..Len(file.body) : i <= datasize => file.body[i] = i
        /\ got' = Upto(nread')
    BY <1>i, <1>f, <2>1 DEF Played
  <2>4. nread' = nread + IF Readable(sz) < Len(file.body) - nread
                         THEN Readable(sz) ELSE Len(file.body) - nread
    BY <1>4 DEF Read
  <2>5. CASE ~Findable(file)
    <3>1. file.body = <<>>
      BY <1>i, <1>f, <2>5 DEF Found
    <3>2. nread' = nread
      BY <2>2, <2>3, <2>4, <3>1 DEF Readable
    <3>3. got' = got
      BY <2>3, <3>2
    <3> QED
      BY <1>f, <2>1, <3>3, TapeStays
  <2>6. CASE Findable(file)
    <3> DEFINE m == IF datasize < Len(file.body) THEN datasize ELSE Len(file.body)
               tape == SubSeq(file.body, 1, m)
               end == IF nread + sz < m THEN nread + sz ELSE m
    <3>1. datasize = file.data
      BY <1>i, <1>f, <2>1, <2>6 DEF Found
    <3>2. OnTape(file) = tape
      BY <2>6, <3>1 DEF OnTape
    <3>3. m \in Nat /\ m <= Len(file.body) /\ m <= datasize /\ nread <= m
      BY <2>2, <2>3
    <3>4. nread' = end
      BY <2>2, <2>3, <2>4 DEF Readable
    <3>5. end \in Nat /\ end <= m
      BY <2>2, <3>3
    <3> HIDE DEF m
    <3>6. tape \in Seq(Nat) /\ Len(tape) = m /\ \A i \in 1 .. m : tape[i] = i
      <4>1. \A i \in 1 .. m : file.body[i] \in Nat /\ file.body[i] = i
        BY <2>2, <2>3, <3>3
      <4>2. /\ SubSeq(file.body, 1, m) \in Seq(Nat)
            /\ Len(SubSeq(file.body, 1, m)) = m
            /\ \A i \in 1 .. m : SubSeq(file.body, 1, m)[i] = file.body[1 + i - 1]
        BY <2>2, <3>3, <4>1, SubSeqProperties
      <4> QED
        BY <4>1, <4>2
    <3> HIDE DEF tape, end
    <3>7. SubSeq(tape, 1, end) = Upto(end)
      <4>1. /\ SubSeq(tape, 1, end) \in Seq(Nat)
            /\ Len(SubSeq(tape, 1, end)) = end
            /\ \A i \in 1 .. end : SubSeq(tape, 1, end)[i] = i
        BY <3>3, <3>5, <3>6, SubSeqProperties
      <4> QED
        BY <3>5, <4>1, IsUpto
    <3>8. got' = SubSeq(tape, 1, end)
      BY <2>3, <3>4, <3>7
    <3>9. Len(got) = nread /\ end = IF Len(got) + sz < Len(tape) THEN Len(got) + sz ELSE Len(tape)
      BY <2>2, <2>3, <3>6, UptoIs DEF end
    <3>10. Recorder!Hear(sz)
      BY <1>f, <2>1, <3>2, <3>8, <3>9 DEF Recorder!Hear
    <3> QED
      BY <3>10 DEF Recorder!TapeNext
  <2> QED
    BY <2>5, <2>6
<1> QED
  BY <1>1, <1>2, <1>3, <1>4

(* Disk, buffer and decoder implement the tape: a recording comes onto it  *)
(* all at once and is played as it was recorded, in whatever pieces and    *)
(* wherever processes end.                                                 *)
THEOREM RecordsOnTape == Spec => ImplementsTape
<1>1. Init => Recorder!TapeInit
  BY NoFileIs, Blank DEF Init, Recorder!TapeInit, Findable
<1>2. IInv /\ IInv' /\ [Next]_vars => [Recorder!TapeNext]_(Recorder!tapeVars)
  <2> SUFFICES ASSUME IInv, IInv', [Next]_vars
               PROVE  [Recorder!TapeNext]_(Recorder!tapeVars)
    OBVIOUS
  <2>1. CASE failed'
    BY <2>1, TapeTears DEF IInv
  <2>2. CASE UNCHANGED vars
    BY <2>2, TapeStays DEF vars
  <2>3. CASE ~failed' /\ Next
    BY <2>3, TapeRecords, TapePlays DEF Next, OpenSteps
  <2> QED
    BY <2>1, <2>2, <2>3
<1>3. QED
  BY <1>1, <1>2, Inductive, PTL DEF Spec, ImplementsTape, Recorder!TapeSpec
=============================================================================
