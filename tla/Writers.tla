------------------------------ MODULE Writers ------------------------------
(***************************************************************************)
(* StreamWriter: writers to a file, to a vector they own or to a span of   *)
(* the caller, moved into one another, flushed and destroyed.  Only        *)
(* flushing touches the file, and opening or writing it may fail.          *)
(* Callers use a writer as they please, also after flush(), which makes it *)
(* a vector's writer; what that costs them is marked (`reused', `excused').*)
(***************************************************************************)
EXTENDS Integers, Sequences, SequencesExt

CONSTANTS Slots,       \* variables of type StreamWriter
          Paths, None,
          Counts,      \* bytes of a write
          Capacity,    \* of a new vector: 256 in the code
          SpanSize,    \* bytes of the caller's span
          MaxCursor    \* bound: bytes written to one writer

WritersAssumption ==
  /\ None \notin Paths /\ "span" \notin Paths \cup {None}
  /\ {Capacity, SpanSize, MaxCursor} \cup Counts \subseteq Nat

VARIABLES
  disk,     \* contents of the files
  span,     \* contents of the caller's span
  writers,  \* the writers that exist, per slot
  owed,     \* for each file, what its last writer had accepted
  told,     \* files of which a writer has said that data were lost
  excused   \* history: files that lost data in silence, in one of two ways: fclose
            \* failed, or their writer was used after flush()

vars == <<disk, span, writers, owed, told, excused>>

Zeros(n) == [i \in 1..n |-> 0]
Gone == [type |-> "gone"]
Live(w) == writers[w].type # "gone"

\* home, log, flushed and reused are ghosts: the file (or "span") that the writer
\* was made for, the bytes accepted since, the i-th of which is named i, whether
\* flush() has turned it into a vector's, and whether it was written or moved since.
Writer(type, buf, cap, path, vec, home) ==
  [type |-> type, buf |-> buf, cursor |-> 0, cap |-> cap, path |-> path,
   vec |-> vec, home |-> home, log |-> << >>, flushed |-> FALSE,
   reused |-> FALSE]

Init == /\ disk = [f \in Paths |-> << >>] /\ span = Zeros(SpanSize)
        /\ writers = [w \in Slots |-> Gone]
        /\ owed = [f \in Paths |-> << >>] /\ told = {} /\ excused = {}

\* The bytes behind m_buffer.
Buffer(r) == CASE r.buf = "vec" -> r.vec [] r.buf = "span" -> span [] OTHER -> << >>

-----------------------------------------------------------------------------
\* create_from_file: "wb" truncates the file.  One writer at a time has a path.
CreateFromFile(w, f) ==
  /\ ~Live(w) /\ \A v \in Slots : Live(v) => writers[v].home # f
  /\ writers' = [writers EXCEPT ![w] =
       Writer("OwningFile", "vec", Capacity, f, Zeros(Capacity), f)]
  /\ disk' = [disk EXCEPT ![f] = << >>]
  /\ owed' = [owed EXCEPT ![f] = << >>]
  /\ told' = told \ {f} /\ excused' = excused \ {f}
  /\ UNCHANGED span

ToVector(w) ==
  /\ ~Live(w)
  /\ writers' = [writers EXCEPT ![w] =
       Writer("OwningVector", "vec", Capacity, None, Zeros(Capacity), None)]
  /\ UNCHANGED <<disk, span, owed, told, excused>>

ToSpan(w) ==
  /\ ~Live(w) /\ \A v \in Slots : Live(v) => writers[v].home # "span"
  /\ writers' = [writers EXCEPT ![w] =
       Writer("NonOwning", "span", SpanSize, None, << >>, "span")]
  /\ UNCHANGED <<disk, span, owed, told, excused>>

\* The outcomes of flush_to_disk: what the file may hold then, and whether it
\* says so.  A file that cannot be opened keeps what it had; fwrite's count is
\* compared with the cursor, fclose's result is not looked at.
FlushToDisk(r) ==
  LET With(n) == [disk EXCEPT ![r.path] = SubSeq(Buffer(r), 1, n)]
  IN  IF r.type # "OwningFile" \/ r.path = None
        THEN {[disk |-> disk, ok |-> TRUE, silent |-> FALSE]}
        ELSE {[disk |-> With(n), ok |-> n = r.cursor, silent |-> FALSE] : n \in 0..r.cursor}
             \cup {[disk |-> disk, ok |-> FALSE, silent |-> FALSE]}
             \cup {[disk |-> With(n), ok |-> TRUE, silent |-> TRUE] : n \in 0..(r.cursor - 1)}

Silenced(out, r) == IF out.silent THEN {r.path} ELSE {}

\* A writer that goes on after flush(): its file does not get what it accepts.
Reused(r) == [r EXCEPT !.reused = @ \/ r.flushed]
Late(r) == {f \in Paths : r.flushed /\ f = r.home}

\* A move: the vector's bytes stay where they are, so a file's m_buffer stays
\* valid; a vector's is read anew.
Moved(r) == IF r.type = "OwningVector" THEN [r EXCEPT !.buf = "vec"] ELSE r

\* What a move leaves behind, the cursor apart: a constructor keeps it.
MovedFrom(r) ==
  [r EXCEPT !.type = "NonOwning", !.buf = "null", !.cap = 0, !.vec = << >>,
            !.home = None, !.log = << >>, !.flushed = FALSE, !.reused = FALSE]

\* StreamWriter(StreamWriter&&): the path is copied.
MoveConstruct(d, s) ==
  /\ ~Live(d) /\ Live(s)
  /\ writers' = [writers EXCEPT ![d] = Moved(Reused(writers[s])), ![s] = MovedFrom(@)]
  /\ UNCHANGED <<disk, span, owed, told, excused>>

\* Fault: moving into a file's writer drops what it holds.
LastFlush_skipped(w) ==
  /\ UNCHANGED <<disk, told, excused>>
  /\ owed' = IF writers[w].home \in Paths
               THEN [owed EXCEPT ![writers[w].home] = writers[w].log] ELSE owed

\* The last flush of a writer, in its destructor or when another is moved into
\* it; a failure is reported on stderr.
LastFlush(w) ==
  \E out \in FlushToDisk(writers[w]) :
    /\ disk' = out.disk
    /\ told' = IF out.ok THEN told ELSE told \cup {writers[w].path}
    /\ excused' = excused \cup Silenced(out, writers[w])
    /\ owed' = IF writers[w].home \in Paths
                 THEN [owed EXCEPT ![writers[w].home] = writers[w].log] ELSE owed

MoveAssign(d, s) ==
  /\ d # s /\ Live(d) /\ Live(s)
  /\ LastFlush(d)
  /\ writers' = [writers EXCEPT ![d] = Moved(Reused(writers[s])),
                   ![s] = [MovedFrom(@) EXCEPT !.cursor = 0, !.path = None]]
  /\ UNCHANGED span

Destroy(w) ==
  /\ Live(w)
  /\ LastFlush(w)
  /\ writers' = [writers EXCEPT ![w] = Gone]
  /\ UNCHANGED span

\* flush(): a writer of any kind becomes a vector's.
Flush(w) ==
  /\ Live(w)
  /\ \E out \in FlushToDisk(writers[w]) :
       /\ disk' = out.disk
       /\ excused' = excused \cup Silenced(out, writers[w])
       /\ writers' = IF ~out.ok THEN writers
                     ELSE [writers EXCEPT ![w].type = "OwningVector",
                             ![w].flushed = @ \/ writers[w].type # "OwningVector"]
  /\ UNCHANGED <<span, owed, told>>

\* The writer with room for n more bytes: the vector grows to twice the
\* capacity or to what is needed, and becomes the buffer.
Roomy(r, n) ==
  IF r.cursor + n <= r.cap THEN r
  ELSE LET need == r.cursor + n
           size == IF 2 * r.cap > need THEN 2 * r.cap ELSE need
       IN  [r EXCEPT !.cap = size, !.buf = "vec",
                     !.vec = [i \in 1..size |-> IF i <= Len(@) THEN @[i] ELSE 0]]

Put(bytes, at, n) == [i \in 1..Len(bytes) |-> IF i \in (at + 1)..(at + n) THEN i ELSE bytes[i]]

\* write(byte, count), and write(buffer, size), which copies instead; a span
\* that is too small refuses.
Write(w, n) ==
  LET r == Roomy(Reused(writers[w]), n)
      done == [r EXCEPT !.cursor = @ + n, !.log = @ \o [i \in 1..n |-> Len(@) + i]]
  IN  /\ Live(w)
      /\ writers[w].cursor + n <= MaxCursor
      /\ writers[w].type = "NonOwning" => writers[w].cursor + n <= writers[w].cap
      /\ IF r.buf = "span"
           THEN /\ span' = Put(span, r.cursor, n)
                /\ writers' = [writers EXCEPT ![w] = done]
           ELSE /\ writers' = [writers EXCEPT
                     ![w] = [done EXCEPT !.vec = Put(@, r.cursor, n)]]
                /\ UNCHANGED span
      /\ excused' = excused \cup Late(writers[w])
      /\ UNCHANGED <<disk, owed, told>>

Next == \E w \in Slots :
  \/ \E f \in Paths : CreateFromFile(w, f)
  \/ ToVector(w) \/ ToSpan(w)
  \/ \E d \in Slots : MoveConstruct(d, w) \/ MoveAssign(d, w)
  \/ Destroy(w) \/ Flush(w)
  \/ \E n \in Counts : Write(w, n)

Spec == Init /\ [][Next]_vars

-----------------------------------------------------------------------------
\* The capacity that a write is checked against is there: no write goes past
\* the end of the vector or of the span, nor through a null pointer, until a writer
\* is used after flush().
RoomIsReal == \A w \in Slots : Live(w) /\ ~writers[w].reused =>
  writers[w].cap <= Len(Buffer(writers[w]))

\* data() holds, up to cursor(), every byte the writer accepted, in order, through
\* growth and moves, until it is used after flush().
BufferIsLog == \A w \in Slots :
  Live(w) /\ ~writers[w].reused /\ writers[w].buf # "null" =>
    SubSeq(Buffer(writers[w]), 1, writers[w].cursor) = writers[w].log

\* Once a file has no writer any more, it holds all that its last writer had
\* accepted, or the writer said that data were lost, unless fclose failed or the
\* writer was written to after flush().
FileGetsAll == \A f \in Paths :
  /\ \A w \in Slots : Live(w) => writers[w].home # f
  /\ f \notin told \cup excused
  => disk[f] = owed[f]

=============================================================================
