----------------------------- MODULE TestRunner -----------------------------
(***************************************************************************)
(* The unit-test framework (IATest.hpp) and the program that runs it       *)
(* (Tests/Unit/Main.cpp under IACORE_MAIN): blocks that register           *)
(* themselves before main, in whatever order the linker gives, a runner    *)
(* that runs the tests of each, and the summary and exit code that tell    *)
(* the outside what happened.  A test is a sequence of checks; the first   *)
(* that fails ends it, and so does an exception.                           *)
(***************************************************************************)
EXTENDS Integers, Sequences, FiniteSets

CONSTANTS Blocks, Units,   \* how many tests each block declares
          MaxChecks        \* a bound on the checks of one test

TestRunnerAssumption == Units \in Nat \ {0} /\ MaxChecks \in Nat

Running == 256   \* no exit code yet

VARIABLES
  StopOnFail,     \* the runner's template parameter
  entries,        \* TestRegistry: the blocks in their order
  at,             \* the position of the block in hand; 0 before the first
  unit, checks,   \* the test of it in hand and its checks passed; unit 0 before
  m_test_count, m_fail_count, m_block_count,
  phase,          \* "static", "block", "test", "ended"
  summaries,      \* what has been printed
  exit_code,
  fates           \* history: <<block, test, passed>> of each test that ended

vars == <<StopOnFail, entries, at, unit, checks, m_test_count, m_fail_count, m_block_count,
          phase, summaries, exit_code, fates>>

counts == <<m_test_count, m_fail_count, m_block_count>>

Init == /\ StopOnFail \in BOOLEAN
        /\ entries = <<>> /\ at = 0 /\ unit = Units /\ checks = 0
        /\ m_test_count = 0 /\ m_fail_count = 0 /\ m_block_count = 0
        /\ phase = "static" /\ summaries = <<>> /\ exit_code = Running /\ fates = <<>>

-----------------------------------------------------------------------------
\* AutoRegister, while static objects are constructed.
Register(b) ==
  /\ phase = "static" /\ \A i \in DOMAIN entries : entries[i] # b
  /\ entries' = Append(entries, b)
  /\ UNCHANGED <<StopOnFail, at, unit, checks, counts, phase, summaries, exit_code, fates>>

\* Main.cpp: the sockets are initialised, run_all makes its runner ...
Main ==
  /\ phase = "static"
  /\ phase' = "block"
  /\ UNCHANGED <<StopOnFail, entries, at, unit, checks, counts, summaries, exit_code, fates>>

\* ... or the sockets are not: IACORE_MAIN turns the error into -20.
MainFails ==
  /\ phase = "static"
  /\ phase' = "ended" /\ exit_code' = -20
  /\ UNCHANGED <<StopOnFail, entries, at, unit, checks, counts, summaries, fates>>

\* test_block for the next entry: a fresh block declares its tests.
TestBlock ==
  /\ phase = "block" /\ unit = Units /\ at < Len(entries)
  /\ at' = at + 1 /\ unit' = 0
  /\ m_block_count' = m_block_count + 1
  /\ UNCHANGED <<StopOnFail, entries, checks, m_test_count, m_fail_count, phase, summaries,
                 exit_code, fates>>

StartTest ==
  /\ phase = "block" /\ unit < Units
  /\ unit' = unit + 1 /\ checks' = 0 /\ phase' = "test"
  /\ m_test_count' = m_test_count + 1
  /\ UNCHANGED <<StopOnFail, entries, at, m_fail_count, m_block_count, summaries, exit_code,
                 fates>>

\* IAT_CHECK and the like hold: on to the next.
CheckHolds ==
  /\ phase = "test" /\ checks < MaxChecks
  /\ checks' = checks + 1
  /\ UNCHANGED <<StopOnFail, entries, at, unit, counts, phase, summaries, exit_code, fates>>

Told(passed) == fates' = Append(fates, <<entries[at], unit, passed>>)
Summary(f) == <<m_test_count, f, m_block_count>>

\* The test returns true.
Passes ==
  /\ phase = "test"
  /\ Told(TRUE) /\ phase' = "block"
  /\ UNCHANGED <<StopOnFail, entries, at, unit, checks, counts, summaries, exit_code>>

\* A failure is counted; a StopOnFail runner sums up and exits with -1.
Counted ==
  /\ Told(FALSE)
  /\ m_fail_count' = m_fail_count + 1
  /\ IF StopOnFail
       THEN /\ summaries' = Append(summaries, Summary(m_fail_count + 1))
            /\ exit_code' = 255 /\ phase' = "ended"
       ELSE phase' = "block" /\ UNCHANGED <<summaries, exit_code>>
  /\ UNCHANGED <<StopOnFail, entries, at, unit, checks, m_test_count, m_block_count>>

\* A check fails, and with it the test.
CheckFails == phase = "test" /\ checks < MaxChecks /\ Counted

\* Fault: the result is set before the call, and an exception leaves it true.
Throws_passes ==
  /\ phase = "test"
  /\ Told(FALSE) /\ phase' = "block"
  /\ UNCHANGED <<StopOnFail, entries, at, unit, checks, counts, summaries, exit_code>>

\* An exception of any kind is caught and is a failure.
Throws == phase = "test" /\ Counted

\* run_all returns 0; its runner's destructor sums up; main returns what it got.
AllRun ==
  /\ phase = "block" /\ unit = Units /\ at = Len(entries)
  /\ summaries' = Append(summaries, Summary(m_fail_count))
  /\ exit_code' = 0 /\ phase' = "ended"
  /\ UNCHANGED <<StopOnFail, entries, at, unit, checks, counts, fates>>

Next == \/ \E b \in Blocks : Register(b)
        \/ Main \/ MainFails \/ TestBlock \/ StartTest \/ CheckHolds \/ CheckFails \/ Passes
        \/ Throws \/ AllRun

Spec == Init /\ [][Next]_vars

-----------------------------------------------------------------------------
Failed == {i \in DOMAIN fates : ~fates[i][3]}
Begun == {k \in DOMAIN entries : \E i \in DOMAIN fates : fates[i][1] = entries[k]}

\* A run that gets past its start prints one summary, and it tells exactly what
\* happened: the tests that ran, those that failed for whatever reason (a check
\* or an exception), and the blocks.
SummaryTells ==
  phase = "ended" /\ exit_code # -20 =>
    summaries = <<<<Len(fates), Cardinality(Failed), Cardinality(Begun)>>>>

\* Every test of every registered block runs once, in the blocks' order, unless
\* the runner stops at the first failure; nothing runs after that.
EachRunsOnce ==
  /\ \A i \in DOMAIN fates :
       fates[i][1] = entries[(i - 1) \div Units + 1] /\ fates[i][2] = ((i - 1) % Units) + 1
  /\ StopOnFail => Failed \subseteq {Len(fates)}
  /\ exit_code = 0 => Len(fates) = Len(entries) * Units

=============================================================================
