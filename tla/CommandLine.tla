----------------------------- MODULE CommandLine -----------------------------
(***************************************************************************)
(* How a word gets from a parent to its child: the string of arguments     *)
(* that spawn_process_posix cuts into words after the fork                 *)
(* (ProcessOps.cpp), the connection string that spawn_node sends that way  *)
(* (IPC.cpp), and the CLIParser with which the child reads its words       *)
(* (CLI.cpp, CLI.hpp).  "_" is the space, "q" the double quote, "b" the    *)
(* backslash, "|" the separator of the connection string.                  *)
(***************************************************************************)
EXTENDS Integers, Sequences, FiniteSetsExt, Loops

CONSTANTS
  Letters,               \* the characters of the words given
  MaxWord, MaxWords,     \* bounds of the model
  Descriptors            \* the [socket_path, shared_mem_path, shared_mem_size]

VARIABLES
  words,                 \* history: the words the parent meant
  args,                  \* the string it built
  argv, m_current_arg,   \* the child: its words, and CLIParser's cursor
  heard                  \* history: the words CLIParser gave out

vars == <<words, args, argv, m_current_arg, heard>>

-----------------------------------------------------------------------------
(* The connection string.                                                  *)

Digits == <<"0", "1", "2", "3", "4", "5", "6", "7", "8", "9">>
(* The paths that spawn_node formats, and the size, a u32.                 *)
PathLetters == (Letters \cup {Digits[k] : k \in 1..10}) \ {"q", "b", "|"}
MaxHalf == 2147483647  \* the largest u32, halved: TLC's integers end here
CommandLineAssumption ==
  /\ MaxWord \in Nat /\ MaxWords \in Nat
  /\ Descriptors \subseteq [socket_path : Seq(PathLetters), shared_mem_path : Seq(PathLetters),
                            shared_mem_size : Nat]
  /\ \A d \in Descriptors : d.shared_mem_size \div 2 <= MaxHalf

Powers == <<1, 10, 100, 1000, 10000, 100000, 1000000, 10000000, 100000000, 1000000000>>
IsDigit(c) == \E k \in 1..10 : c = Digits[k]
Value(c) == (CHOOSE k \in 1..10 : c = Digits[k]) - 1
(* from_chars, and std::format of a u32.                                   *)
Number(digits) ==
  LET Round(n, i) == 10 * n + Value(digits[i])
  IN  Loop(Round, 0, Len(digits))[Len(digits)]
Decimal(n) ==
  LET length == Min({k \in 1..10 : k = 10 \/ n < Powers[k + 1]})
  IN  [i \in 1..length |-> Digits[((n \div Powers[length - i + 1]) % 10) + 1]]

serialize(d) ==
  d.socket_path \o <<"|">> \o d.shared_mem_path \o <<"|">> \o Decimal(d.shared_mem_size) \o <<"|">>

NoDescriptor == [socket_path |-> <<>>, shared_mem_path |-> <<>>, shared_mem_size |-> 0]
(* Three fields, each with a bar behind it; from_chars reads the digits    *)
(* that the last one starts with, and refuses what is no u32.              *)
Bars(data, t) == {i \in t..Len(data) : data[i] = "|"}
deserialize(data) ==
  LET bar1 == Min(Bars(data, 1))
      bar2 == Min(Bars(data, bar1 + 1))
      bar3 == Min(Bars(data, bar2 + 1))
      size == SubSeq(data, bar2 + 1, bar3 - 1)
      stops == {i \in 1..Len(size) : ~IsDigit(size[i])}
      digits == IF stops = {} THEN size ELSE SubSeq(size, 1, Min(stops) - 1)
  IN IF Bars(data, 1) = {} \/ Bars(data, bar1 + 1) = {} \/ Bars(data, bar2 + 1) = {}
        \/ size = <<>> \/ 1 \in stops \/ Number(digits) \div 2 > MaxHalf
     THEN NoDescriptor
     ELSE [socket_path |-> SubSeq(data, 1, bar1 - 1),
           shared_mem_path |-> SubSeq(data, bar1 + 1, bar2 - 1),
           shared_mem_size |-> Number(digits)]

-----------------------------------------------------------------------------
(* The loop over args in the forked child.                                 *)

EndToken(t) ==
  IF t.token = <<>> THEN t
  ELSE [argv |-> Append(t.argv, t.token), token |-> <<>>, quoted |-> t.quoted,
        escaped |-> t.escaped]
Add(t, c) ==
  [argv |-> t.argv, token |-> Append(t.token, c), quoted |-> t.quoted, escaped |-> FALSE]
\* Fault: a backslash means nothing between quotes
Token_literal(t, c) ==
  IF t.escaped THEN Add(t, c)
  ELSE IF c = "b" /\ ~t.quoted THEN [t EXCEPT !.escaped = TRUE]
  ELSE IF c = "q" THEN [t EXCEPT !.quoted = ~@]
  ELSE IF c = "_" /\ ~t.quoted THEN EndToken(t)
  ELSE Add(t, c)
Token(t, c) ==
  IF t.escaped THEN Add(t, c)
  ELSE IF c = "b" THEN [t EXCEPT !.escaped = TRUE]
  ELSE IF c = "q" THEN [t EXCEPT !.quoted = ~@]
  ELSE IF c = "_" /\ ~t.quoted THEN EndToken(t)
  ELSE Add(t, c)
Tokens(string) ==
  LET Round(t, i) == Token(t, string[i])
      start == [argv |-> <<>>, token |-> <<>>, quoted |-> FALSE, escaped |-> FALSE]
  IN  EndToken(Loop(Round, start, Len(string))[Len(string)]).argv

(* Three ways to write a word: as it is, in quotes as spawn_node does, and *)
(* in quotes with backslashes before what has a meaning there.             *)
Has(w, c) == \E i \in DOMAIN w : w[i] = c
Special(w) == Has(w, "q") \/ Has(w, "b")
Escaped(w) ==
  LET Round(text, i) == text \o (IF w[i] \in {"q", "b"} THEN <<"b", w[i]>> ELSE <<w[i]>>)
  IN  Loop(Round, <<>>, Len(w))[Len(w)]
InQuotes(w) == <<"q">> \o w \o <<"q">>
Spellings(w) == {InQuotes(Escaped(w))}
  \cup (IF Special(w) THEN {} ELSE {InQuotes(w)})
  \cup (IF Special(w) \/ Has(w, "_") \/ w = <<>> THEN {} ELSE {w})

-----------------------------------------------------------------------------
Init ==
  /\ words = <<>> /\ args = <<>> /\ argv = <<>> /\ m_current_arg = 0 /\ heard = <<>>

GiveWord(w) ==
  /\ argv = <<>> /\ Len(words) < MaxWords
  /\ \E spelling \in Spellings(w) :
       args' = (IF args = <<>> THEN args ELSE Append(args, "_")) \o spelling
  /\ words' = Append(words, w)
  /\ UNCHANGED <<argv, m_current_arg, heard>>
GiveDescriptor(d) ==
  /\ argv = <<>> /\ words = <<>>
  /\ words' = <<serialize(d)>> /\ args' = InQuotes(serialize(d))
  /\ UNCHANGED <<argv, m_current_arg, heard>>

(* The child: its program's name comes first, and CLIParser skips it.      *)
Spawn ==
  /\ argv = <<>>
  /\ argv' = <<<<"program">>>> \o Tokens(args) /\ m_current_arg' = 2
  /\ UNCHANGED <<words, args, heard>>

remaining == m_current_arg <= Len(argv)
peek == IF remaining THEN argv[m_current_arg] ELSE <<>>
next ==
  /\ argv # <<>> /\ remaining
  /\ heard' = Append(heard, peek) /\ m_current_arg' = m_current_arg + 1
  /\ UNCHANGED <<words, args, argv>>
consume(expected) ==
  /\ argv # <<>> /\ remaining /\ peek = expected
  /\ m_current_arg' = m_current_arg + 1 /\ heard' = Append(heard, expected)
  /\ UNCHANGED <<words, args, argv>>

Words == UNION {[1..k -> Letters] : k \in 0..MaxWord}
Next ==
  \/ \E w \in Words : GiveWord(w) \/ consume(w)
  \/ (\E d \in Descriptors : GiveDescriptor(d)) \/ Spawn \/ next
Spec == Init /\ [][Next]_vars

-----------------------------------------------------------------------------
(* The child's words are the parent's, in each spelling; an empty word is  *)
(* lost, quoted or not.                                                    *)
Kept(w) == IF w = <<>> THEN <<>> ELSE <<w>>
NonEmpty(ws) == LET Round(kept, i) == kept \o Kept(ws[i]) IN Loop(Round, <<>>, Len(ws))[Len(ws)]
WordsArrive == argv # <<>> => Tail(argv) = NonEmpty(words)

(* The node's first word is the descriptor that spawn_node wrote, and a    *)
(* string cut short at any place is no descriptor.                         *)
DescriptorArrives == argv # <<>> => \A d \in Descriptors :
  words = <<serialize(d)>> =>
    /\ deserialize(argv[2]) = d
    /\ \A k \in 0..Len(argv[2]) - 1 : deserialize(SubSeq(argv[2], 1, k)) = NoDescriptor

(* CLIParser gives out every word after the program's name, in order,      *)
(* once, whether asked for or expected.                                    *)
CursorKeepsPlace == argv # <<>> =>
  heard \o SubSeq(argv, m_current_arg, Len(argv)) = Tail(argv)
=============================================================================
