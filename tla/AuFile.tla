------------------------------- MODULE AuFile -------------------------------
(***************************************************************************)
(* WAVE files of librem (src/rem/src/aufile): one path, at which a process *)
(* records, perhaps ends without closing the file, and at which it, or     *)
(* another one, plays what is there.  Other programs put files there too,  *)
(* which may be cut off.                                                   *)
(*                                                                         *)
(* Recorded bytes are numbered from 1; a byte that is no part of the       *)
(* recording is a Stray.  stdio keeps what is written in its buffer and    *)
(* puts it on the disk, in order, whenever it likes; the few bytes of a    *)
(* header go there at once.                                                *)
(*                                                                         *)
(* Left out: rate and channels, which are copied, memory that is not       *)
(* there, and sizes beyond 32 bits.                                        *)
(***************************************************************************)
EXTENDS Integers, Sequences

CONSTANTS
  Pieces,       \* how many bytes are read or written at a time
  MaxBytes,     \* bound: bytes of a recording
  Foreign,      \* files of other programs
  MayFail       \* whether the disk may be full

Stray == 0
NoData == -1

(* enum aufmt; those that WAVE files are for; enum wavfmt with the width.  *)
Formats == {"S16LE", "PCMA", "PCMU", "FLOAT"}
Supported == {"S16LE", "PCMA", "PCMU"}
WavFormats == {"PCM", "ALAW", "ULAW", "none"}
Widths == {0, 8, 16}

(* What is at the path: whether the header is complete up to the fmt       *)
(* chunk, format and width in it, the size of the RIFF chunk, the sizes of *)
(* the chunks between fmt and data, the size in the header of the data     *)
(* chunk, if there is one, and all that follows that header.               *)
Files == [head : BOOLEAN, wav : WavFormats, bps : Widths, riff : Nat,
          before : Seq(Nat), data : Nat \cup {NoData}, body : Seq(Nat)]

(* The data of other programs' files is numbered like a recording.         *)
ASSUME AuFileAssumption ==
  /\ Pieces \subseteq Nat \ {0}
  /\ MaxBytes \in Nat
  /\ Foreign \subseteq Files
  /\ \A f \in Foreign : \A i \in 1..Len(f.body) :
       f.head /\ f.data # NoData /\ (i > f.data \/ f.body[i] = i)
  /\ MayFail \in BOOLEAN

VARIABLES
  file,         \* the file on the disk
  buf,          \* bytes in the buffer of stdio
  mode,         \* of the open file, or "none"
  pc,           \* where aufile_open and the destructor are
  fmt,          \* prm.fmt
  nwritten, nread, datasize,    \* struct aufile
  chunk,        \* the variable chunk of wav_header_decode
  skipped,      \* how many chunks it has gone past
  got,          \* the bytes read since the file was opened
  source,       \* what the file is: "none", "recording", "cut", "whole" or "foreign"
  recorded,     \* how many bytes were recorded in it, in which format
  recfmt,
  failed        \* the disk was full while it was recorded

fileVars == <<file, buf>>
readVars == <<datasize, nread, chunk, skipped, got>>
pastVars == <<source, recorded, recfmt, failed>>
vars == <<file, buf, mode, pc, fmt, nwritten, datasize, nread, chunk, skipped,
          got, source, recorded, recfmt, failed>>

NoFile == [head |-> FALSE, wav |-> "none", bps |-> 0, riff |-> 0,
           before |-> <<>>, data |-> NoData, body |-> <<>>]

Init ==
  /\ file = NoFile
  /\ buf = <<>>
  /\ mode = "none"
  /\ pc = "idle"
  /\ fmt = "S16LE"
  /\ nwritten = 0 /\ nread = 0 /\ datasize = 0
  /\ chunk = [id |-> "unset", size |-> 0]
  /\ skipped = 0
  /\ got = <<>>
  /\ source = "none" /\ recorded = 0 /\ recfmt = "S16LE" /\ failed = FALSE

-----------------------------------------------------------------------------
(* The formats.                                                            *)

(* aufmt_to_wavfmt; the default is -1, which no reader knows.              *)
WavOf(f) ==
  CASE f = "S16LE" -> "PCM"
    [] f = "PCMA" -> "ALAW"
    [] f = "PCMU" -> "ULAW"
    [] OTHER -> "none"

(* A fault: the width of all samples is that of PCM.                       *)
BpsOfPcm(f) == IF f \in Supported THEN 16 ELSE 0

(* aufmt_to_bps.                                                           *)
BpsOf(f) ==
  CASE f = "S16LE" -> 16
    [] f \in {"PCMA", "PCMU"} -> 8
    [] OTHER -> 0

(* wavfmt_to_aufmt: the formats that a header stands for, none or one.     *)
AufmtsOf(wav, bps) == {f \in Supported : WavOf(f) = wav /\ bps = (IF f = "S16LE" THEN 16 ELSE 8)}

(* wav_header_encode, of a file with that many bytes of data.              *)
Encoded(f, bytes, body) ==
  [head |-> TRUE, wav |-> WavOf(f), bps |-> BpsOf(f), riff |-> 36 + bytes,
   before |-> <<>>, data |-> bytes, body |-> body]

-----------------------------------------------------------------------------
(* Recording.                                                              *)

(* aufile_open for writing.  The format is not looked at.                  *)
OpenWrite(f) ==
  /\ mode = "none" /\ pc = "idle"
  /\ file' = NoFile
  /\ buf' = <<>>
  /\ mode' = "write"
  /\ pc' = "header"
  /\ fmt' = f
  /\ nwritten' = 0
  /\ source' = "recording" /\ recorded' = 0 /\ recfmt' = f /\ failed' = FALSE
  /\ UNCHANGED readVars

(* The header of an empty file; a disk that is full closes it again.       *)
OpenHeader ==
  /\ pc = "header"
  /\ pc' = "idle"
  /\ \/ file' = Encoded(fmt, 0, <<>>) /\ UNCHANGED <<mode, failed, source>>
     \/ MayFail /\ mode' = "none" /\ failed' = TRUE /\ source' = "cut" /\ UNCHANGED file
  /\ UNCHANGED <<buf, fmt, nwritten, readVars, recorded, recfmt>>

(* aufile_write.                                                           *)
Write(sz) ==
  /\ mode = "write" /\ pc = "idle"
  /\ nwritten + sz <= MaxBytes
  /\ buf' = buf \o [i \in 1..sz |-> nwritten + i]
  /\ nwritten' = nwritten + sz
  /\ recorded' = recorded + sz
  /\ UNCHANGED <<file, mode, pc, fmt, readVars, source, recfmt, failed>>

(* A write that fails may leave a part of its bytes in the file.           *)
WriteFails(sz) ==
  /\ MayFail
  /\ mode = "write" /\ pc = "idle"
  /\ nwritten + sz <= MaxBytes
  /\ \E part \in 0..sz - 1 :
       /\ Len(file.body) + Len(buf) + part <= MaxBytes
       /\ buf' = buf \o [i \in 1..part |-> Stray]
  /\ failed' = TRUE
  /\ UNCHANGED <<file, mode, pc, fmt, nwritten, readVars, source, recorded, recfmt>>

(* stdio empties a part of its buffer.                                     *)
Flush ==
  /\ buf # <<>>
  /\ \E n \in 1..Len(buf) :
       /\ file' = [file EXCEPT !.body = @ \o SubSeq(buf, 1, n)]
       /\ buf' = SubSeq(buf, n + 1, Len(buf))
  /\ UNCHANGED <<mode, pc, fmt, nwritten, readVars, pastVars>>

(* The destructor of an empty recording leaves the header as it is.        *)
CloseEmpty ==
  /\ mode = "write" /\ pc = "idle"
  /\ nwritten = 0
  /\ mode' = "none"
  /\ file' = [file EXCEPT !.body = @ \o buf]
  /\ buf' = <<>>
  /\ source' = "whole"
  /\ UNCHANGED <<pc, fmt, nwritten, readVars, recorded, recfmt, failed>>

(* A fault: the header goes to the disk ahead of the data.                 *)
CloseRewindLast ==
  /\ mode = "write" /\ pc = "idle"
  /\ nwritten > 0
  /\ file' = Encoded(fmt, nwritten, file.body)
  /\ pc' = "closing"
  /\ UNCHANGED <<buf, mode, fmt, nwritten, readVars, pastVars>>

(* The destructor of a recording: rewind empties the buffer first, as far  *)
(* as the disk takes it; no error of it is looked at.                      *)
CloseRewind ==
  /\ mode = "write" /\ pc = "idle"
  /\ nwritten > 0
  /\ \/ /\ file' = [file EXCEPT !.body = @ \o buf]
        /\ UNCHANGED failed
     \/ /\ MayFail
        /\ buf # <<>>
        /\ failed' = TRUE
        /\ UNCHANGED file
  /\ buf' = <<>>
  /\ pc' = "closing"
  /\ UNCHANGED <<mode, fmt, nwritten, readVars, source, recorded, recfmt>>

(* The header gets the sizes, and the file is closed.                      *)
CloseHeader ==
  /\ pc = "closing"
  /\ file' = Encoded(fmt, nwritten, file.body \o buf)
  /\ buf' = <<>>
  /\ pc' = "idle"
  /\ mode' = "none"
  /\ source' = "whole"
  /\ UNCHANGED <<fmt, nwritten, readVars, recorded, recfmt, failed>>

(* The process ends, and what is in its buffer is lost.                    *)
Crash ==
  /\ mode = "write"
  /\ mode' = "none"
  /\ pc' = "idle"
  /\ buf' = <<>>
  /\ source' = "cut"
  /\ UNCHANGED <<file, fmt, nwritten, readVars, recorded, recfmt, failed>>

(* Another program puts a file at the path.                                *)
Receive ==
  /\ mode = "none" /\ pc = "idle"
  /\ file' \in Foreign
  /\ source' = "foreign" /\ failed' = FALSE
  /\ UNCHANGED <<buf, mode, pc, fmt, nwritten, readVars, recorded, recfmt>>

-----------------------------------------------------------------------------
(* Playing.                                                                *)

(* aufile_open for reading.                                                *)
OpenRead ==
  /\ mode = "none" /\ pc = "idle"
  /\ source # "none"
  /\ pc' = "decode"
  /\ nread' = 0 /\ datasize' = 0 /\ got' = <<>>
  /\ chunk' = [id |-> "unset", size |-> 0]
  /\ skipped' = 0
  /\ UNCHANGED <<fileVars, mode, fmt, nwritten, pastVars>>

OpenFails ==
  /\ pc' = "idle"
  /\ UNCHANGED <<fileVars, mode, fmt, nwritten, readVars, pastVars>>

(* A header that is cut off.  A read that meets the end of the file is no  *)
(* error to ferror, so the decoder goes on, or is done, with what is in    *)
(* variables that nothing was read into: it fails, it finds a format, or   *)
(* it goes on to look for chunks.                                          *)
DecodeCutHead ==
  /\ pc = "decode" /\ ~file.head
  /\ \/ OpenFails
     \/ /\ fmt' \in Supported
        /\ mode' = "read"
        /\ pc' = "idle"
        /\ UNCHANGED <<fileVars, nwritten, readVars, pastVars>>
     \/ /\ pc' = "chunks"
        /\ UNCHANGED <<fileVars, mode, fmt, nwritten, readVars, pastVars>>

(* RIFF, WAVE and fmt.                                                     *)
DecodeHead ==
  /\ pc = "decode" /\ file.head
  /\ pc' = "chunks"
  /\ UNCHANGED <<fileVars, mode, fmt, nwritten, readVars, pastVars>>

(* What chunk_decode leaves in chunk: the next one of the file, or, at its *)
(* end, what was there, which before the first one may be anything.        *)
ChunksRead ==
  IF file.head /\ skipped < Len(file.before)
    THEN {[id |-> "other", size |-> file.before[skipped + 1]]}
  ELSE IF file.head /\ skipped = Len(file.before) /\ file.data # NoData
    THEN {[id |-> "data", size |-> file.data]}
  ELSE IF chunk.id = "unset"
    THEN [id : {"other", "data"}, size : {0, 1}]
  ELSE {chunk}

(* A chunk larger than the file.                                           *)
ChunkTooLarge ==
  /\ pc = "chunks"
  /\ \E c \in ChunksRead : c.size > file.riff
  /\ OpenFails

(* A fault: a chunk is not gone past.                                      *)
ChunkSkipShort ==
  /\ pc = "chunks"
  /\ chunk' \in {c \in ChunksRead : c.size <= file.riff /\ c.id # "data"}
  /\ UNCHANGED <<fileVars, mode, pc, fmt, nwritten, datasize, nread, skipped, got, pastVars>>

(* Any other chunk is gone past, even beyond the end of the file: there    *)
(* only whether skipped is odd changes.                                    *)
ChunkSkip ==
  /\ pc = "chunks"
  /\ chunk' \in {c \in ChunksRead : c.size <= file.riff /\ c.id # "data"}
  /\ skipped' = IF skipped <= Len(file.before) + 1 THEN skipped + 1 ELSE skipped - 1
  /\ UNCHANGED <<fileVars, mode, pc, fmt, nwritten, datasize, nread, got, pastVars>>

(* Chunks of some size, again and again, end where no fseek can go.        *)
ChunkSeekFails ==
  /\ pc = "chunks"
  /\ skipped > Len(file.before)
  /\ \E c \in ChunksRead : c.id # "data" /\ c.size > 0
  /\ OpenFails

(* The data chunk: the file is open, if its format is known.               *)
ChunkData ==
  /\ pc = "chunks"
  /\ \E c \in ChunksRead :
       /\ c.size <= file.riff /\ c.id = "data"
       /\ chunk' = c
       /\ datasize' = c.size
  /\ pc' = "idle"
  /\ \/ /\ fmt' \in IF file.head THEN AufmtsOf(file.wav, file.bps) ELSE Supported
        /\ mode' = "read"
     \/ /\ ~file.head \/ AufmtsOf(file.wav, file.bps) = {}
        /\ UNCHANGED <<fmt, mode>>
  /\ UNCHANGED <<fileVars, nwritten, nread, skipped, got, pastVars>>

(* A fault: the end of the data chunk is tested, but not kept.             *)
ReadableOver(sz) == IF nread >= datasize THEN 0 ELSE sz

(* A fault: the last bytes of the data chunk, but for one.                 *)
ReadableShort(sz) ==
  IF nread >= datasize THEN 0
  ELSE IF sz < datasize - nread THEN sz ELSE datasize - nread - 1

(* How much aufile_read asks the file for.                                 *)
Readable(sz) ==
  IF nread >= datasize THEN 0
  ELSE IF sz < datasize - nread THEN sz ELSE datasize - nread

(* aufile_read; fread may find less in the file.                           *)
Read(sz) ==
  /\ mode = "read"
  /\ LET rest == Len(file.body) - nread
         n == IF Readable(sz) < rest THEN Readable(sz) ELSE rest
     IN  /\ got' = got \o SubSeq(file.body, nread + 1, nread + n)
         /\ nread' = nread + n
  /\ UNCHANGED <<fileVars, mode, pc, fmt, nwritten, datasize, chunk, skipped, pastVars>>

CloseRead ==
  /\ mode = "read"
  /\ mode' = "none"
  /\ UNCHANGED <<fileVars, pc, fmt, nwritten, readVars, pastVars>>

-----------------------------------------------------------------------------

OpenSteps ==
  \/ OpenHeader
  \/ DecodeCutHead \/ DecodeHead
  \/ ChunkTooLarge \/ ChunkSkip \/ ChunkSeekFails \/ ChunkData

Next ==
  \/ \E f \in Formats : OpenWrite(f)
  \/ \E sz \in Pieces : Write(sz) \/ WriteFails(sz) \/ Read(sz)
  \/ Flush
  \/ CloseEmpty \/ CloseRewind \/ CloseHeader
  \/ Crash \/ Receive
  \/ OpenRead \/ OpenSteps \/ CloseRead

Spec == Init /\ [][Next]_vars

(* A call that is made goes on.                                            *)
FairSpec == Spec /\ WF_vars(OpenSteps)

-----------------------------------------------------------------------------
(* Properties.                                                             *)

(* Every variable has its type.                                            *)
TypeOK ==
  /\ file \in Files
  /\ buf \in Seq(Nat)
  /\ mode \in {"none", "read", "write"}
  /\ pc \in {"idle", "header", "closing", "decode", "chunks"}
  /\ fmt \in Formats /\ recfmt \in Formats
  /\ nwritten \in Nat /\ nread \in Nat /\ datasize \in Nat
  /\ skipped \in Nat /\ recorded \in Nat
  /\ chunk \in [id : {"unset", "other", "data"}, size : Nat]
  /\ got \in Seq(Nat)
  /\ source \in {"none", "recording", "cut", "whole", "foreign"}
  /\ failed \in BOOLEAN

(* Whatever was recorded in pieces of one size and is played in pieces of  *)
(* another comes back byte for byte, in its format, and all of it, where   *)
(* the file was closed; nothing of the chunks after the data is played.    *)
ReadBack ==
  mode = "read" /\ ~failed =>
    /\ got = [i \in 1..nread |-> i]
    /\ source = "whole" => datasize = recorded /\ fmt = recfmt

(* Wherever the recording process ends, the file on the disk never has a   *)
(* data chunk larger than the file, and no byte in it before its turn.     *)
HeaderHonest ==
  source \in {"recording", "cut", "whole"} /\ ~failed /\ file.head =>
    /\ file.data <= Len(file.body)
    /\ file.body = [i \in 1..Len(file.body) |-> i]
    /\ source = "whole" => file.data = recorded

(* A recording in a supported format that was closed can be opened again.  *)
Reopens ==
  [][ source = "whole" /\ ~failed /\ recfmt \in Supported
        /\ pc \in {"decode", "chunks"} /\ pc' = "idle" => mode' = "read" ]_vars

Opening == pc \in {"header", "decode", "chunks"}

(* aufile_open of a file that has a format and data returns.               *)
OpenFindsData ==
  Opening /\ (mode = "write" \/ (file.head /\ file.data # NoData)) ~> ~Opening

(* "@return 0 if success, otherwise errorcode": aufile_open returns, if    *)
(* nothing but the fmt chunk is complete.                                  *)
OpenReturns == Opening /\ file.head ~> ~Opening

(* What a step needs to know to keep the above: who has the file open, ... *)
Upto(n) == [i \in 1..n |-> i]

Modes ==
  /\ mode = "write" <=> source = "recording"
  /\ pc \in {"header", "closing"} => mode = "write"
  /\ pc \in {"decode", "chunks"} => mode = "none"
  /\ mode # "write" \/ pc = "header" => buf = <<>>

(* ... what is in it, ...                                                  *)
Kept ==
  ~failed =>
    /\ source = "recording" =>
         /\ recorded = nwritten /\ fmt = recfmt
         /\ file.body \o buf = Upto(nwritten)
         /\ file = IF pc = "header" THEN NoFile ELSE Encoded(fmt, 0, file.body)
         /\ pc = "closing" => buf = <<>>
    /\ source = "cut" =>
         /\ file.body = Upto(Len(file.body))
         /\ file.head => file.data = 0
    /\ source = "whole" => file = Encoded(recfmt, recorded, Upto(recorded))
    /\ source = "foreign" => file \in Foreign

(* ... how far the decoder is, and what has been played.                   *)
Decoding ==
  /\ pc \in {"decode", "chunks"} =>
       source # "none" /\ nread = 0 /\ got = <<>> /\ datasize = 0
  /\ pc = "decode" => chunk.id = "unset" /\ skipped = 0
  /\ pc = "chunks" =>
       /\ chunk.id # "data"
       /\ chunk.id = "unset" => skipped = 0
       /\ source = "whole" /\ ~failed => skipped = 0

Played ==
  mode = "read" /\ ~failed =>
    /\ nread <= datasize /\ nread <= Len(file.body)
    /\ got = Upto(nread)
    /\ \A i \in 1..Len(file.body) : i <= datasize => file.body[i] = i
    /\ source = "whole" => datasize = recorded /\ fmt = recfmt

(* The decoder does not miss the data chunk, behind which all is that is   *)
(* in the file.                                                            *)
Findable(f) == f.head /\ f.data # NoData

Found ==
  ~failed =>
    /\ ~Findable(file) => file.body = <<>>
    /\ Findable(file) /\ pc = "chunks" => skipped <= Len(file.before)
    /\ Findable(file) /\ mode = "read" => datasize = file.data

IInv == TypeOK /\ Modes /\ Kept /\ Decoding /\ Played /\ Found

(* Disk, buffer and decoder implement the tape: on it is what the header   *)
(* promises, as far as the file has it, and a take is in the file and the  *)
(* buffer together.                                                        *)
OnTape(f) ==
  IF ~Findable(f) THEN <<>>
  ELSE SubSeq(f.body, 1, IF f.data < Len(f.body) THEN f.data ELSE Len(f.body))

Recorder == INSTANCE Tape WITH
  mode <- IF failed THEN "none" ELSE mode,
  tape <- IF failed THEN <<>> ELSE OnTape(file),
  take <- IF ~failed /\ mode = "write" THEN file.body \o buf ELSE <<>>,
  played <- IF ~failed /\ mode = "read" THEN got ELSE <<>>,
  torn <- failed

ImplementsTape == Recorder!TapeSpec
=============================================================================
