----------------------------- MODULE Utilities -----------------------------
(***************************************************************************)
(* Child processes, the components that turn data into other data and the  *)
(* test framework.  None calls another while at work, so a behaviour is    *)
(* about one of them, `part', and the others stay as they are.             *)
(***************************************************************************)
EXTENDS Process

CONSTANTS
  Chars, MaxRead, MaxOutput,                             \* Lines
  Letters, MaxWord, MaxWords, Descriptors,               \* CommandLine
  Sample, MaxLen,                                        \* Codecs
  MaxData, MaxSet, Values,                               \* Crc
  MaxIn, MaxOut, Word, Patience,                         \* Inflate
  Blocks, Units, MaxChecks                               \* TestRunner

VARIABLES
  part,
  output, m_accumulator, lines,                          \* Lines
  words, args, argv, m_current_arg, heard,               \* CommandLine
  data,                                                  \* Codecs
  summed, p, hw, sw,                                     \* Crc
  codec, stream, consumed, made, size, room, idle, ret,  \* Inflate
  StopOnFail, entries, at, unit, checks, m_test_count,   \* TestRunner
  m_fail_count, m_block_count, phase, summaries, exit_code, fates

Lines == INSTANCE Lines
CommandLine == INSTANCE CommandLine
Codecs == INSTANCE Codecs
Crc == INSTANCE Crc WITH MaxLen <- MaxData, data <- summed
Inflate == INSTANCE Inflate
TestRunner == INSTANCE TestRunner

ASSUME UtilitiesAssumption ==
  /\ ProcessAssumption
  /\ CommandLine!CommandLineAssumption /\ Codecs!CodecsAssumption /\ Crc!CrcAssumption
  /\ Inflate!InflateAssumption /\ TestRunner!TestRunnerAssumption

Parts == {"Process", "Lines", "CommandLine", "Codecs", "Crc", "Inflate", "TestRunner"}

(* A part that stays as it is starts in one state only.                    *)
UtilitiesInit ==
  /\ part \in Parts
  /\ Init /\ Lines!Init /\ CommandLine!Init /\ Codecs!Init
  /\ TestRunner!Init /\ (part = "TestRunner" \/ ~StopOnFail)
  /\ IF part = "Crc" THEN Crc!Init ELSE Crc!Start(<<>>)
  /\ IF part = "Inflate" THEN Inflate!Init
     ELSE Inflate!Start("zstd", [in |-> 1, out |-> 0, whole |-> TRUE, sound |-> TRUE], 2)

lineVars == <<output, m_accumulator, lines>>
wordVars == <<words, args, argv, m_current_arg, heard>>
sumVars == <<summed, p, hw, sw>>
inflateVars == <<codec, stream, consumed, made, size, room, idle, ret>>
testVars == <<StopOnFail, entries, at, unit, checks, m_test_count, m_fail_count,
              m_block_count, phase, summaries, exit_code, fates>>
dataVars == <<lineVars, wordVars, data, sumVars, inflateVars, testVars>>
utilityVars == <<part, vars, dataVars>>

UtilitiesNext ==
  /\ UNCHANGED part
  /\ IF part = "Process" THEN Next ELSE UNCHANGED vars
  /\ IF part = "Lines" THEN Lines!Next ELSE UNCHANGED lineVars
  /\ IF part = "CommandLine" THEN CommandLine!Next ELSE UNCHANGED wordVars
  /\ IF part = "Codecs" THEN Codecs!Next ELSE UNCHANGED data
  /\ IF part = "Crc" THEN Crc!Next ELSE UNCHANGED sumVars
  /\ IF part = "Inflate" THEN Inflate!Next ELSE UNCHANGED inflateVars
  /\ IF part = "TestRunner" THEN TestRunner!Next ELSE UNCHANGED testVars

(* Process has its own fairness, of threads and of what a new process does *)
(* by itself.  Of the others it matters to Inflate, whose loops are        *)
(* sequential code.                                                        *)
Runs(A) == part = "Process" /\ A /\ UNCHANGED <<part, dataVars>>
UtilitiesFairness ==
  /\ WF_utilityVars(part = "Inflate" /\ UtilitiesNext)
  /\ \A h \in Handles :
       /\ WF_utilityVars(Runs(Watch(h)))
       /\ WF_utilityVars(Runs(Exec(h) \/ ExecFails(h)))
       /\ WF_utilityVars(Runs(Kill(h))) /\ WF_utilityVars(Runs(Joined(h)))
UtilitiesSpec == UtilitiesInit /\ [][UtilitiesNext]_utilityVars /\ UtilitiesFairness

-----------------------------------------------------------------------------
(* LineBuffer: the lines reported do not depend on how a child's output    *)
(* was cut into reads.                                                     *)
CutsDoNotMatter == Lines!CutsDoNotMatter

(* spawn_process_posix, ConnectionDescriptor and CLIParser: the words that *)
(* a parent wrote are those that its child's parser gives out, and a node  *)
(* reads the descriptor that spawn_node wrote.                             *)
ArgumentsArrive ==
  CommandLine!WordsArrive /\ CommandLine!DescriptorArrives /\ CommandLine!CursorKeepsPlace

(* base64, hexadecimal text and URL encoding: what was encoded is decoded  *)
(* to itself.                                                              *)
RoundTrips == Codecs!Base64RoundTrip /\ Codecs!HexRoundTrip /\ Codecs!UrlRoundTrip

(* crc32: the software's tables sum as the processors' instructions do.    *)
SameEverywhere == Crc!SameEverywhere

(* zlib_inflate, gzip_inflate, zstd_inflate: a sound stream is             *)
(* decompressed, with the room that the vector has and no more.            *)
SoundInflates == Inflate!RoomIsReal /\ Inflate!SoundInflates

(* Their loops end, also on a stream that is cut short or corrupt.         *)
InflateEnds == (part = "Inflate") ~> Inflate!Final

(* IATest: the one summary tells which tests ran and failed; they ran      *)
(* once, in order, up to a failure that stops the runner.                  *)
SummaryTells == TestRunner!SummaryTells /\ TestRunner!EachRunsOnce
=============================================================================
