------------------------------- MODULE Files -------------------------------
(***************************************************************************)
(* FileOps: whole-file reads and writes and the opening of streams, by     *)
(* clients that work on one path at the same time.  A call is as many      *)
(* steps as it makes system calls, and the file may change between them.   *)
(***************************************************************************)
EXTENDS Integers, FiniteSetsExt

CONSTANTS Clients, Absent,
          Lengths            \* lengths of the contents written

FilesAssumption == Lengths \subseteq Nat /\ Absent \notin Nat

VARIABLES
  file,    \* the length of the file, or Absent
  call,    \* the call of each client
  claim,   \* clients whose write, not to overwrite, was told that it made the file
  got      \* the client's last read: which way, bytes returned, bytes that it found,
           \* and history: was the file cut since its length was taken

vars == <<file, call, claim, got>>

Idle == [at |-> "idle"]
Nothing(binary) == [binary |-> binary, returned |-> 0, held |-> 0, cut |-> FALSE]

Init == /\ file \in Lengths \cup {Absent}
        /\ call = [c \in Clients |-> Idle] /\ claim = {}
        /\ got = [c \in Clients |-> Nothing(FALSE)]

Goes(c, state) == call' = [call EXCEPT ![c] = state]

\* ... and the file is cut to nothing under the calls that are reading it.
GoesCutting(c, state) == call' = [d \in Clients |->
  IF d = c THEN state
  ELSE IF call[d].at = "reading" THEN [call[d] EXCEPT !.cut = TRUE] ELSE call[d]]

-----------------------------------------------------------------------------
\* Fault: the mode is "w" whatever the caller asked for.
OpenToWrite_always(c, n, overwrite) ==
  /\ call[c] = Idle
  /\ file' = 0
  /\ claim' = IF overwrite THEN {} ELSE claim \cup {c}
  /\ GoesCutting(c, [at |-> "writing", length |-> n])
  /\ UNCHANGED got

\* write_text_file, write_binary_file: fopen with "w", which truncates, or "wx",
\* which fails when the file exists.
OpenToWrite(c, n, overwrite) ==
  /\ call[c] = Idle
  /\ overwrite \/ file = Absent
  /\ file' = 0
  /\ claim' = IF overwrite THEN {} ELSE claim \cup {c}
  /\ GoesCutting(c, [at |-> "writing", length |-> n])
  /\ UNCHANGED got

\* fwrite and fclose at the beginning of the file; fewer bytes may arrive, and
\* the count is returned.
Write(c) ==
  /\ call[c].at = "writing"
  /\ \E n \in 0..call[c].length : file' = Max({file, n})
  /\ Goes(c, Idle)
  /\ UNCHANGED <<claim, got>>

\* stream_to_file looks whether the file exists ...
CheckToStream(c, n) ==
  /\ call[c] = Idle
  /\ file = Absent
  /\ Goes(c, [at |-> "checked", length |-> n])
  /\ UNCHANGED <<file, claim, got>>

\* ... and create_from_file opens it with "wb", over what is there by then.
OpenToStream(c, n, overwrite) ==
  /\ call[c] = IF overwrite THEN Idle ELSE [at |-> "checked", length |-> n]
  /\ file' = 0
  /\ claim' = IF overwrite THEN {} ELSE claim
  /\ GoesCutting(c, [at |-> "streaming", length |-> n])
  /\ UNCHANGED got

\* The writer's flush opens the path once more.
FlushStream(c) ==
  /\ call[c].at = "streaming"
  /\ file' = call[c].length
  /\ GoesCutting(c, Idle)
  /\ UNCHANGED <<claim, got>>

\* read_text_file, read_binary_file: fopen, and ftell at the end for the length;
\* an empty file is read as empty.
OpenToRead(c, binary) ==
  /\ call[c] = Idle /\ file # Absent
  /\ IF file > 0
       THEN /\ Goes(c, [at |-> "reading", length |-> file, binary |-> binary, cut |-> FALSE])
            /\ UNCHANGED got
       ELSE /\ got' = [got EXCEPT ![c] = Nothing(binary)]
            /\ UNCHANGED call
  /\ UNCHANGED <<file, claim>>

\* Fault: what fread returned is not looked at in either function.
Read_unresized(c) ==
  /\ call[c].at = "reading"
  /\ got' = [got EXCEPT ![c] = [binary |-> call[c].binary, returned |-> call[c].length,
                                held |-> Min({file, call[c].length}), cut |-> call[c].cut]]
  /\ Goes(c, Idle)
  /\ UNCHANGED <<file, claim>>

\* fread: what is there, up to the length asked for.  The text is resized to it,
\* the vector of a binary read keeps the length asked for.
Read(c) ==
  LET held == Min({file, call[c].length})
  IN  /\ call[c].at = "reading"
      /\ got' = [got EXCEPT ![c] =
           [binary |-> call[c].binary,
            returned |-> IF call[c].binary THEN call[c].length ELSE held,
            held |-> held, cut |-> call[c].cut]]
      /\ Goes(c, Idle)
      /\ UNCHANGED <<file, claim>>

\* Somebody removes the file while nobody has it open.
Remove ==
  /\ file # Absent /\ \A c \in Clients : call[c].at \in {"idle", "checked"}
  /\ file' = Absent /\ claim' = {}
  /\ UNCHANGED <<call, got>>

Next ==
  \/ Remove
  \/ \E c \in Clients :
       \/ \E n \in Lengths :
            \/ \E overwrite \in BOOLEAN : OpenToWrite(c, n, overwrite)
            \/ CheckToStream(c, n)
            \/ \E overwrite \in BOOLEAN : OpenToStream(c, n, overwrite)
       \/ \E binary \in BOOLEAN : OpenToRead(c, binary)
       \/ Write(c) \/ FlushStream(c) \/ Read(c)

Spec == Init /\ [][Next]_vars

-----------------------------------------------------------------------------
\* Of the clients that write without overwriting, one at most is told that it
\* made the file that is there: the others hear "File already exists".  (It is
\* not so for streams, whose check and opening are two steps.)
OneCreator == \A c, d \in claim : c = d

\* What is returned is what the file held, as long as nobody cut it between the
\* taking of its length and the reading; a text is also when somebody did.  (A
\* binary read then returns as many bytes as it asked for.)
FoundUnlessCut == \A c \in Clients :
  got[c].returned # got[c].held => got[c].binary /\ got[c].cut
=============================================================================
