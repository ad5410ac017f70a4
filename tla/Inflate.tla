------------------------------ MODULE Inflate ------------------------------
(***************************************************************************)
(* DataOps: the loops that decompress a stream into a vector that grows,   *)
(* zlib_inflate (also gzip_inflate) and the streaming part of              *)
(* zstd_inflate.  The decompressors are external: a call makes what        *)
(* progress it can, and what it returns when it makes none is what ends    *)
(* the loops.  Lengths are counted in blocks; the input of a stream may be *)
(* cut short or corrupt.                                                   *)
(***************************************************************************)
EXTENDS Integers, FiniteSetsExt

CONSTANTS MaxIn, MaxOut,  \* bounds: compressed and decompressed length
          Word,           \* values of uInt, with which zlib counts: 2^32
          Patience        \* calls without progress that zstd puts up with: 16

InflateAssumption == {MaxIn, MaxOut, Word, Patience} \subseteq Nat \ {0}

VARIABLES
  codec,     \* "zlib" or "zstd"
  stream,    \* the lengths of its input, and of the output this yields; is it
             \* whole, is it sound
  consumed, made,  \* input consumed, output produced
  size,      \* of out_buffer
  room,      \* what the decompressor may write: avail_out, or size - pos
  idle,      \* zstd's calls without progress, one after another
  ret        \* "ok" as long as the loop goes on; then "end" or "error"

vars == <<codec, stream, consumed, made, size, room, idle, ret>>

Streams == [in : 1..MaxIn, out : 0..MaxOut, whole : BOOLEAN, sound : BOOLEAN]
Narrow(n) == IF codec = "zlib" THEN n % Word ELSE n

Start(c, s, n) ==
  /\ codec = c /\ stream = s /\ size = n /\ room = (IF c = "zlib" THEN n % Word ELSE n)
  /\ consumed = 0 /\ made = 0 /\ idle = 0 /\ ret = "ok"

\* The first size is a guess: four times a short input for zlib, or twice.
Init == \E s \in Streams :
  \/ Start("zstd", s, 2 * s.in)
  \/ \E n \in {2 * s.in, 4 * s.in} : Start("zlib", s, n)

Final == ret # "ok"

-----------------------------------------------------------------------------
\* inflate, ZSTD_decompressStream: output until the room or the stream is used
\* up; input as well, unless the room was used up first.
Decompresses(i, o, avail) ==
  /\ o = Min({avail, stream.out - made})
  /\ i \in 0..(Narrow(stream.in) - consumed)
  /\ o < avail => i = Narrow(stream.in) - consumed
  /\ consumed' = consumed + i
  /\ made' = made + o

AtEnd == stream.whole /\ consumed' = stream.in /\ made' = stream.out

\* avail_out after the vector has doubled; it is then written from total_out on.
RoomAfterGrowth == (2 * size - made) % Word

\* Fault: the loop of zlib_inflate waits for Z_STREAM_END.
Zlib_ret_waits == ret' = IF AtEnd THEN "end" ELSE "ok"

\* Fault: the loop goes on only while there is input.
Zlib_ret_while_input ==
  ret' = IF AtEnd THEN "end" ELSE IF consumed' < Narrow(stream.in) THEN "ok" ELSE "error"

\* Z_STREAM_END, Z_OK, or Z_BUF_ERROR when nothing could be done.
Zlib_ret == ret' = IF AtEnd THEN "end"
                   ELSE IF <<consumed', made'>> # <<consumed, made>> THEN "ok" ELSE "error"

\* A round of zlib_inflate: the vector grows first when there is no room.
InflateZlib(i, o) ==
  LET full  == room = 0
      avail == IF full THEN RoomAfterGrowth ELSE room
  IN  /\ codec = "zlib" /\ ~Final
      /\ size' = IF full THEN 2 * size ELSE size
      /\ Decompresses(i, o, avail)
      /\ room' = avail - o
      /\ Zlib_ret
      /\ UNCHANGED <<codec, stream, idle>>

\* A round of zstd_inflate: the vector grows afterwards when it is full, and the
\* loop ends when the decompressor has nothing left to do, or is asked in vain
\* too often.
InflateZstd(i, o) ==
  /\ codec = "zstd" /\ ~Final
  /\ Decompresses(i, o, room)
  /\ size' = IF o = room THEN 2 * size ELSE size
  /\ room' = size' - made'
  /\ idle' = IF i + o > 0 THEN 0 ELSE idle + 1
  /\ ret' = IF AtEnd THEN "end" ELSE IF idle' = Patience THEN "error" ELSE "ok"
  /\ UNCHANGED <<codec, stream>>

\* A corrupt stream is refused at some call.
Refuse == /\ ~stream.sound /\ ~Final
          /\ ret' = "error"
          /\ UNCHANGED <<codec, stream, consumed, made, size, room, idle>>

Next == \/ \E i \in 0..MaxIn, o \in 0..MaxOut : InflateZlib(i, o) \/ InflateZstd(i, o)
        \/ Refuse

(* The loops run on.                                                       *)
Spec == Init /\ [][Next]_vars /\ WF_vars(Next)

-----------------------------------------------------------------------------
\* The decompressor is never given more room than the vector has behind what was
\* written already.
RoomIsReal == room <= size - made

\* A sound and whole stream is decompressed, whatever its lengths: "corrupt data
\* or stream error" is said of no other.
SoundInflates == Final /\ stream.whole /\ stream.sound => ret = "end"

\* The loops come to an end, also on a stream that was cut short, and on one
\* that is corrupt.
Terminates == <>Final
=============================================================================
