-------------------------------- MODULE Lines --------------------------------
(***************************************************************************)
(* LineBuffer (ProcessOps.cpp): the output of a child arrives in reads of  *)
(* any size; the callback is given its lines.  A line ends at "n", "r" or  *)
(* "r" "n" (line feed, carriage return); empty lines are not reported.     *)
(***************************************************************************)
EXTENDS Integers, Sequences, FiniteSets, Loops

CONSTANTS Chars,         \* the bytes that occur, among them "n" and "r"
          MaxRead,       \* bound of the model: bytes in one read
          MaxOutput      \* bound of the model: bytes a child writes

VARIABLES output,        \* history: all that was read
          m_accumulator, lines

IsEnd(c) == c \in {"n", "r"}

Next_start(data, i) ==
  IF data[i] = "r" /\ i < Len(data) /\ data[i + 1] = "n" THEN i + 2 ELSE i + 1

(* A round of append's loop: `start' is where the line in hand goes on; it *)
(* is beyond i when i is the "n" of an "r" "n".                            *)
Scan(data, t, i) ==
  LET line == t.acc \o SubSeq(data, t.start, i - 1)
  IN IF t.start > i \/ ~IsEnd(data[i]) THEN t
     ELSE [acc |-> <<>>, start |-> Next_start(data, i),
           out |-> IF line = <<>> THEN t.out ELSE Append(t.out, line)]
Scanned(data) ==
  LET Round(t, i) == Scan(data, t, i)
  IN  Loop(Round, [acc |-> m_accumulator, start |-> 1, out |-> lines], Len(data))[Len(data)]
Rest(data, t) == t.acc \o SubSeq(data, t.start, Len(data))

Init == output = <<>> /\ m_accumulator = <<>> /\ lines = <<>>

\* Fault: the end of a read is taken for the end of a line
append_cuts(data) ==
  LET t == Scanned(data)
  IN /\ lines' = IF Rest(data, t) = <<>> THEN t.out ELSE Append(t.out, Rest(data, t))
     /\ m_accumulator' = <<>>
append(data) ==
  LET t == Scanned(data)
  IN lines' = t.out /\ m_accumulator' = Rest(data, t)
flush ==
  /\ lines' = IF m_accumulator = <<>> THEN lines ELSE Append(lines, m_accumulator)
  /\ m_accumulator' = <<>>

Read(data) == append(data) /\ output' = output \o data
(* The child's end is an end of line like any other.                       *)
EndOfOutput == flush /\ output' = Append(output, "n")

Next ==
  \/ \E k \in 1..MaxRead : \E data \in [1..k -> Chars] : Len(output) + k <= MaxOutput /\ Read(data)
  \/ Len(output) < MaxOutput /\ output # <<>> /\ EndOfOutput
Spec == Init /\ [][Next]_<<output, m_accumulator, lines>>

-----------------------------------------------------------------------------
(* What was reported, and what waits for its end, are the maximal runs of  *)
(* other bytes in the whole output, in their order: how it was cut into    *)
(* reads, also in the middle of "r" "n", makes no difference.              *)
Runs(text) == {r \in (1..Len(text)) \X (1..Len(text)) :
  /\ r[1] <= r[2] /\ \A k \in r[1]..r[2] : ~IsEnd(text[k])
  /\ r[1] = 1 \/ IsEnd(text[r[1] - 1])
  /\ r[2] = Len(text) \/ IsEnd(text[r[2] + 1])}
CutsDoNotMatter ==
  \E run \in [1..Cardinality(Runs(output)) -> Runs(output)] :
    /\ \A a, b \in DOMAIN run : a < b => run[a][1] < run[b][1]
    /\ lines \o (IF m_accumulator = <<>> THEN <<>> ELSE <<m_accumulator>>)
         = [k \in DOMAIN run |-> SubSeq(output, run[k][1], run[k][2])]
=============================================================================
