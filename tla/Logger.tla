------------------------------- MODULE Logger -------------------------------
(***************************************************************************)
(* The library's log (Logger.cpp, Logger.hpp) and the count of its users   *)
(* (IACore.cpp) whose last terminate() closes the log's file.  A message   *)
(* is checked against the level and then written by log_internal, to       *)
(* std::cout, and by a write and a put into the file when it is open.  None*)
(* of it is under a lock, so that any other call may come between two of   *)
(* these steps.  (Two threads in one std::ofstream are a data race; that   *)
(* their writes come one after the other is the mildest outcome.)          *)
(***************************************************************************)
EXTENDS Integers, Sequences

CONSTANTS Threads, Clients, Paths, None,
          MaxLines    \* a bound on the messages

Levels == {1, 2}      \* two of the five: what is told apart is above or below

LoggerAssumption == None \notin Paths /\ MaxLines \in Nat

VARIABLES
  users,              \* the clients between their initialize() and terminate()
  g_core_init_count,
  m_log_level,
  m_log_file,         \* the open file's path, or None
  disk,               \* what each file holds
  call,               \* where each thread's log call is: <<line, step>>, or <<>>
  lines,              \* messages so far
  target,             \* history: where the users have asked the log to go
  due,                \* history: the lines each file ought to hold
  mixed               \* history: the files in use while calls overlapped

vars == <<users, g_core_init_count, m_log_level, m_log_file, disk, call, lines, target, due,
          mixed>>

Init == /\ users = {} /\ g_core_init_count = 0 /\ m_log_level = 1
        /\ m_log_file = None /\ mixed = {}
        /\ disk = [p \in Paths |-> <<>>] /\ call = [t \in Threads |-> <<>>]
        /\ lines = 0 /\ target = None /\ due = [p \in Paths |-> <<>>]

Quiet == \A t \in Threads : call[t] = <<>>

\* A call that touches the file while a message is under way mixes them up.
Mixes(F) == mixed' = IF Quiet THEN mixed ELSE mixed \cup (F \ {None})

Logged == <<disk, call, lines>>

-----------------------------------------------------------------------------
(* IACore.                                                                 *)

Initialize(c) ==
  /\ c \notin users
  /\ users' = users \cup {c}
  /\ g_core_init_count' = g_core_init_count + 1
  /\ UNCHANGED <<m_log_level, m_log_file, target, due, mixed>> /\ UNCHANGED Logged

\* The last one closes the log's file.
Terminate(c) ==
  /\ c \in users
  /\ users' = users \ {c}
  /\ target' = IF users' = {} THEN None ELSE target
  /\ g_core_init_count' = g_core_init_count - 1
  /\ m_log_file' = IF g_core_init_count' > 0 THEN m_log_file ELSE None
  /\ IF g_core_init_count' > 0 THEN UNCHANGED mixed ELSE Mixes({m_log_file})
  /\ UNCHANGED <<m_log_level, due>> /\ UNCHANGED Logged

(* Logger.                                                                 *)

\* Fault: the file in use is not closed, so that the stream refuses to open.
EnableLogging_unclosed(p) ==
  /\ users # {}
  /\ m_log_file' = IF m_log_file = None THEN p ELSE m_log_file
  /\ disk' = IF m_log_file = None THEN [disk EXCEPT ![p] = <<>>] ELSE disk
  /\ target' = p /\ due' = [due EXCEPT ![p] = <<>>]
  /\ mixed' = (IF Quiet THEN mixed ELSE mixed \cup {m_log_file, p}) \ {None}
  /\ UNCHANGED <<users, g_core_init_count, m_log_level, call, lines>>

\* The file in use is closed; opening the new one empties it, and makes a clean
\* start when no message is under way.
EnableLogging(p) ==
  /\ users # {}
  /\ m_log_file' = p
  /\ disk' = [disk EXCEPT ![p] = <<>>]
  /\ target' = p /\ due' = [due EXCEPT ![p] = <<>>]
  /\ mixed' = IF Quiet THEN mixed \ {p} ELSE mixed \cup ({m_log_file, p} \ {None})
  /\ UNCHANGED <<users, g_core_init_count, m_log_level, call, lines>>

\* It cannot be opened: the error is returned, and there is no file any more.
EnableLoggingFails ==
  /\ users # {}
  /\ m_log_file' = None /\ target' = None /\ Mixes({m_log_file})
  /\ UNCHANGED <<users, g_core_init_count, m_log_level, due>> /\ UNCHANGED Logged

SetLogLevel(l) ==
  /\ m_log_level' = l
  /\ UNCHANGED <<users, g_core_init_count, m_log_file, target, due, mixed>> /\ UNCHANGED Logged

\* trace() ... error(): a message below the level goes nowhere.
Log(t, l) ==
  /\ call[t] = <<>> /\ lines < MaxLines
  /\ lines' = lines + 1
  /\ IF m_log_level <= l
       THEN /\ call' = [call EXCEPT ![t] = <<lines', 1>>]
            /\ due' = IF target = None THEN due
                      ELSE [due EXCEPT ![target] = Append(@, lines')]
            /\ Mixes({m_log_file})
       ELSE UNCHANGED <<call, due, mixed>>
  /\ UNCHANGED <<users, g_core_init_count, m_log_level, m_log_file, disk, target>>

\* std::cout << prefix << out_line << RESET << '\n', of which the console's text is
\* left out here.
Insert(t) ==
  /\ call[t] # <<>> /\ call[t][2] = 1
  /\ call' = [call EXCEPT ![t] = <<@[1], 2>>]
  /\ UNCHANGED <<users, g_core_init_count, m_log_level, m_log_file, disk, lines, target, due,
                 mixed>>

IsOpen(t) ==
  /\ call[t] # <<>> /\ call[t][2] = 2
  /\ call' = [call EXCEPT ![t] = IF m_log_file = None THEN <<>> ELSE <<@[1], 3>>]
  /\ UNCHANGED <<users, g_core_init_count, m_log_level, m_log_file, disk, lines, target, due,
                 mixed>>

\* write(), then put('\n') and flush(): into the file of that moment, if any.
Put(t) ==
  /\ call[t] # <<>> /\ call[t][2] \in {3, 4}
  /\ disk' = IF m_log_file = None THEN disk
             ELSE [disk EXCEPT ![m_log_file] = Append(@, <<call[t][1], call[t][2] - 2>>)]
  /\ call' = [call EXCEPT ![t] = IF @[2] = 3 THEN <<@[1], 4>> ELSE <<>>]
  /\ UNCHANGED <<users, g_core_init_count, m_log_level, m_log_file, lines, target, due, mixed>>

Next ==
  \/ \E c \in Clients : Initialize(c) \/ Terminate(c)
  \/ \E p \in Paths : EnableLogging(p)
  \/ EnableLoggingFails
  \/ \E l \in Levels : SetLogLevel(l)
  \/ \E t \in Threads : Insert(t) \/ IsOpen(t) \/ Put(t) \/ \E l \in Levels : Log(t, l)

Spec == Init /\ [][Next]_vars

-----------------------------------------------------------------------------
\* Between calls every file holds exactly the lines logged at or above the level
\* while it was the log's file: none is lost to another user's terminate(), to
\* a change of files or to one that could not be opened, and none goes elsewhere,
\* unless it was in use when a call met another that was under way.
KeepsLog ==
  Quiet => \A p \in Paths \ mixed :
             disk[p] = [i \in 1..(2 * Len(due[p])) |-> <<due[p][(i + 1) \div 2], 2 - (i % 2)>>]
=============================================================================
