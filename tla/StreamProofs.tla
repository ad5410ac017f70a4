---------------------------- MODULE StreamProofs ----------------------------
(***************************************************************************)
(* What holds of Resources' streams of bytes: the log's files and the      *)
(* writers, for any threads, users, files and numbers of writers.          *)
(***************************************************************************)
EXTENDS Resources, FiniteSetTheorems, SequenceTheorems, TLAPS

LEMMA StreamSteps ==
  ASSUME [ResourcesNext]_resourceVars
  PROVE  [Logger!Next]_logVars /\ [Writers!Next]_writerVars
<1>1. CASE ResourcesNext
  BY <1>1, Zenon DEF ResourcesNext
<1>2. CASE UNCHANGED resourceVars
  BY <1>2, Zenon DEF resourceVars
<1>. QED  BY <1>1, <1>2

-----------------------------------------------------------------------------
(* Logger.                                                                 *)

(* A file with both pieces of each of these lines.                         *)
Holds(d, s) ==
  /\ Len(d) = 2 * Len(s)
  /\ \A i \in 1..Len(d) : d[i] = <<s[(i + 1) \div 2], 2 - (i % 2)>>

Pieces == Nat \X {1, 2}

(* A file with all of its lines but the last, of which it has k pieces.    *)
Lacks(d, s, k) ==
  /\ Len(s) > 0 /\ k \in {0, 1} /\ Len(d) = 2 * (Len(s) - 1) + k
  /\ \A i \in 1..Len(d) : d[i] = <<s[(i + 1) \div 2], 2 - (i % 2)>>

LEMMA LineLogged ==
  ASSUME NEW d \in Seq(Pieces), NEW s \in Seq(Nat), NEW n \in Nat, Holds(d, s)
  PROVE  Lacks(d, Append(s, n), 0)
BY DEF Holds, Lacks

LEMMA FirstPiece ==
  ASSUME NEW d \in Seq(Pieces), NEW s \in Seq(Nat), NEW n \in Nat, Lacks(d, s, 0),
         s[Len(s)] = n
  PROVE  Lacks(Append(d, <<n, 1>>), s, 1)
<1>1. PICK k \in Nat : k = Len(s)
  OBVIOUS
<1>2. k > 0 /\ Len(d) = 2 * (k - 1)
  BY <1>1 DEF Lacks
<1>3. PICK x \in Pieces : x = <<n, 1>>
  BY DEF Pieces
<1>4. /\ Len(Append(d, x)) = 2 * (k - 1) + 1 /\ Append(d, x)[2 * (k - 1) + 1] = x
      /\ \A i \in 1..(2 * (k - 1)) : Append(d, x)[i] = d[i]
  BY <1>2
<1>5. (2 * (k - 1) + 1 + 1) \div 2 = k /\ 2 - ((2 * (k - 1) + 1) % 2) = 1
  BY <1>2
<1>6. ASSUME NEW i \in 1..(2 * (k - 1) + 1)
      PROVE  Append(d, x)[i] = <<s[(i + 1) \div 2], 2 - (i % 2)>>
  <2>1. CASE i = 2 * (k - 1) + 1
    BY <1>1, <1>3, <1>4, <1>5, <2>1
  <2>2. CASE i # 2 * (k - 1) + 1
    <3>1. i \in 1..(2 * (k - 1))
      BY <1>2, <2>2
    <3>. QED  BY <1>2, <1>4, <3>1 DEF Lacks
  <2>. QED  BY <2>1, <2>2
<1>. QED  BY <1>1, <1>2, <1>3, <1>4, <1>6 DEF Lacks

LEMMA SecondPiece ==
  ASSUME NEW d \in Seq(Pieces), NEW s \in Seq(Nat), NEW n \in Nat, Lacks(d, s, 1),
         s[Len(s)] = n
  PROVE  Holds(Append(d, <<n, 2>>), s)
<1>1. PICK k \in Nat : k = Len(s)
  OBVIOUS
<1>2. k > 0 /\ Len(d) = 2 * k - 1
  BY <1>1 DEF Lacks
<1>3. PICK x \in Pieces : x = <<n, 2>>
  BY DEF Pieces
<1>4. /\ Len(Append(d, x)) = 2 * k /\ Append(d, x)[2 * k] = x
      /\ \A i \in 1..(2 * k - 1) : Append(d, x)[i] = d[i]
  BY <1>2
<1>5. (2 * k + 1) \div 2 = k /\ 2 - ((2 * k) % 2) = 2
  BY <1>2
<1>6. ASSUME NEW i \in 1..(2 * k)
      PROVE  Append(d, x)[i] = <<s[(i + 1) \div 2], 2 - (i % 2)>>
  <2>1. CASE i = 2 * k
    BY <1>1, <1>3, <1>4, <1>5, <2>1
  <2>2. CASE i # 2 * k
    <3>1. i \in 1..(2 * k - 1)
      BY <1>2, <2>2
    <3>. QED  BY <1>2, <1>4, <3>1 DEF Lacks
  <2>. QED  BY <2>1, <2>2
<1>. QED  BY <1>1, <1>2, <1>3, <1>4, <1>6 DEF Holds

(* Unless it has been in use when calls overlapped, the log's file is the  *)
(* one last asked for and every file has its lines; the one call under way *)
(* has written the pieces that its step says, of the file's last line.     *)
Busy(t) == logCall[t] # << >>
Written(t) == IF logCall[t][2] = 4 THEN 1 ELSE 0
Mixed == m_log_file \in mixed \cup {Null}

LogFiles == logDisk \in [Paths -> Seq(Pieces)] /\ due \in [Paths -> Seq(Nat)]

LogUsers ==
  /\ IsFiniteSet(users) /\ g_core_init_count = Cardinality(users)
  /\ m_log_file = target /\ m_log_file \in Paths \cup {Null}
  /\ users = {} => target = Null

Logs ==
  /\ LogUsers /\ LogFiles /\ lines \in Nat /\ DOMAIN logCall = Threads
  /\ \A t \in Threads : Busy(t) => logCall[t] \in Nat \X (1..4)
  /\ \A t, u \in Threads : Busy(t) /\ Busy(u) => t = u \/ Mixed
  /\ \A p \in Paths \ mixed : p # m_log_file \/ Logger!Quiet => Holds(logDisk[p], due[p])
  /\ \A t \in Threads : Busy(t) /\ ~Mixed =>
       /\ Lacks(logDisk[m_log_file], due[m_log_file], Written(t))
       /\ due[m_log_file][Len(due[m_log_file])] = logCall[t][1]

LEMMA LogNames == Null \notin Paths
BY ResourcesAssumption DEF ResourcesAssumption, Logger!LoggerAssumption

LEMMA QuietIsNobody == Logger!Quiet <=> \A t \in Threads : ~Busy(t)
BY DEF Logger!Quiet, Busy

(* A call that is no thread's message, and that leaves the files alone.    *)
LEMMA IdleLogs ==
  ASSUME Logs, UNCHANGED <<logCall, m_log_file, logDisk, due, mixed>>, lines' \in Nat, LogUsers'
  PROVE  Logs'
<1>1. /\ \A t \in Threads : (Busy(t)' <=> Busy(t)) /\ Written(t)' = Written(t)
      /\ (Mixed' <=> Mixed) /\ (Logger!Quiet' <=> Logger!Quiet) /\ LogFiles'
      /\ DOMAIN logCall' = Threads
  BY DEF Busy, Written, Mixed, Logger!Quiet, LogFiles, Logs
<1>2. \A t \in Threads : Busy(t)' => logCall'[t] \in Nat \X (1..4)
  BY <1>1 DEF Logs
<1>3. \A t, u \in Threads : Busy(t)' /\ Busy(u)' => t = u \/ Mixed'
  BY <1>1 DEF Logs
<1>4. (\A p \in Paths \ mixed : p # m_log_file \/ Logger!Quiet => Holds(logDisk[p], due[p]))'
  BY <1>1 DEF Logs, Holds
<1>5. (\A t \in Threads : Busy(t) /\ ~Mixed =>
       /\ Lacks(logDisk[m_log_file], due[m_log_file], Written(t))
       /\ due[m_log_file][Len(due[m_log_file])] = logCall[t][1])'
  BY <1>1 DEF Logs, Lacks
<1>. QED  BY <1>1, <1>2, <1>3, <1>4, <1>5 DEF Logs

(* One that turns to another file, which is mixed then unless all is quiet.*)
LEMMA TurnLogs ==
  ASSUME Logs, UNCHANGED logCall, lines' \in Nat, LogUsers', LogFiles',
         Logger!Quiet \/ Mixed',
         \A p \in Paths \ mixed' : p # m_log_file' \/ Logger!Quiet =>
           Holds(logDisk'[p], due'[p])
  PROVE  Logs'
<1>1. /\ \A t \in Threads : (Busy(t)' <=> Busy(t))
      /\ (Logger!Quiet' <=> Logger!Quiet) /\ DOMAIN logCall' = Threads
  BY DEF Busy, Logger!Quiet, Logs
<1>2. \A t \in Threads : Busy(t)' => Mixed'
  BY <1>1, QuietIsNobody
<1>3. (\A p \in Paths \ mixed : p # m_log_file \/ Logger!Quiet => Holds(logDisk[p], due[p]))'
  BY <1>1 DEF Holds
<1>4. \A t \in Threads : Busy(t)' => logCall'[t] \in Nat \X (1..4)
  BY <1>1 DEF Logs
<1>. QED  BY <1>1, <1>2, <1>3, <1>4 DEF Logs

(* Terminate and EnableLogging's failure leave no file.                    *)
LEMMA NoFileLogs ==
  ASSUME Logs, UNCHANGED <<logCall, logDisk, due, lines>>, LogUsers', m_log_file' = Null,
         Logger!Mixes({m_log_file})
  PROVE  Logs'
<1>1. Mixed' /\ LogFiles' /\ lines' \in Nat
  BY DEF Mixed, Logs, LogFiles
<1>2. ASSUME NEW p \in Paths \ mixed' PROVE Holds(logDisk'[p], due'[p])
  <2>1. CASE Logger!Quiet
    <3>1. mixed' = mixed
      BY <2>1 DEF Logger!Mixes
    <3>. QED  BY <1>2, <2>1, <3>1 DEF Logs
  <2>2. CASE ~Logger!Quiet
    <3>1. mixed' = mixed \cup ({m_log_file} \ {Null}) /\ p # Null
      BY <2>2, LogNames DEF Logger!Mixes
    <3>2. p \notin mixed /\ p # m_log_file
      BY <1>2, <3>1
    <3>. QED  BY <1>2, <3>2 DEF Logs
  <2>. QED  BY <2>1, <2>2
<1>. QED  BY <1>1, <1>2, TurnLogs

LEMMA UsersLog ==
  ASSUME Logs, NEW c, Logger!Initialize(c) \/ Logger!Terminate(c)
  PROVE  Logs'
<1>1. UNCHANGED <<logCall, logDisk, due, lines>> /\ lines' \in Nat /\ LogUsers
  BY DEF Logger!Initialize, Logger!Terminate, Logger!Logged, Logs
<1>2. CASE Logger!Initialize(c)
  <2>1. /\ c \notin users /\ users' = users \cup {c}
        /\ g_core_init_count' = g_core_init_count + 1 /\ UNCHANGED <<m_log_file, target, mixed>>
    BY <1>2 DEF Logger!Initialize
  <2>2. IsFiniteSet(users') /\ Cardinality(users') = Cardinality(users) + 1
    BY <1>1, <2>1, FS_AddElement DEF LogUsers
  <2>3. LogUsers'
    BY <1>1, <2>1, <2>2 DEF LogUsers
  <2>. QED  BY <1>1, <2>1, <2>3, IdleLogs
<1>3. CASE Logger!Terminate(c)
  <2>1. /\ c \in users /\ users' = users \ {c}
        /\ target' = (IF users' = {} THEN Null ELSE target)
        /\ g_core_init_count' = g_core_init_count - 1
        /\ m_log_file' = (IF g_core_init_count' > 0 THEN m_log_file ELSE Null)
        /\ IF g_core_init_count' > 0 THEN UNCHANGED mixed ELSE Logger!Mixes({m_log_file})
    BY <1>3 DEF Logger!Terminate
  <2>2. IsFiniteSet(users') /\ Cardinality(users') = Cardinality(users) - 1
    BY <1>1, <2>1, FS_RemoveElement DEF LogUsers
  <2>3. Cardinality(users') \in Nat /\ (Cardinality(users') = 0 <=> users' = {})
    BY <2>2, FS_CardinalityType, FS_EmptySet
  <2>4. g_core_init_count' = Cardinality(users')
    BY <1>1, <2>1, <2>2 DEF LogUsers
  <2>5. CASE users' = {}
    <3>1. m_log_file' = Null /\ target' = Null /\ Logger!Mixes({m_log_file})
      BY <2>1, <2>3, <2>4, <2>5
    <3>2. LogUsers'
      BY <2>2, <2>4, <3>1 DEF LogUsers
    <3>. QED  BY <1>1, <3>1, <3>2, NoFileLogs
  <2>6. CASE users' # {}
    <3>1. UNCHANGED <<m_log_file, target, mixed>>
      BY <2>1, <2>3, <2>4, <2>6
    <3>2. LogUsers'
      BY <1>1, <2>2, <2>4, <2>6, <3>1 DEF LogUsers
    <3>. QED  BY <1>1, <3>1, <3>2, IdleLogs
  <2>. QED  BY <2>5, <2>6
<1>. QED  BY <1>2, <1>3

LEMMA SettingsLog ==
  ASSUME Logs,
         \/ \E p \in Paths : Logger!EnableLogging(p)
         \/ Logger!EnableLoggingFails
         \/ \E l \in Logger!Levels : Logger!SetLogLevel(l)
  PROVE  Logs'
<1>1. /\ UNCHANGED <<logCall, users, g_core_init_count, lines>> /\ lines' \in Nat
      /\ LogUsers /\ LogFiles
  BY DEF Logger!EnableLogging, Logger!EnableLoggingFails, Logger!SetLogLevel,
         Logger!Logged, Logs
<1>2. CASE \E l \in Logger!Levels : Logger!SetLogLevel(l)
  <2>1. UNCHANGED <<logDisk, due, m_log_file, mixed, target>>
    BY <1>2 DEF Logger!SetLogLevel, Logger!Logged
  <2>2. LogUsers'
    BY <1>1, <2>1 DEF LogUsers
  <2>. QED  BY <1>1, <2>1, <2>2, IdleLogs
<1>3. CASE Logger!EnableLoggingFails
  <2>1. /\ UNCHANGED <<logDisk, due>> /\ m_log_file' = Null /\ target' = Null
        /\ Logger!Mixes({m_log_file})
    BY <1>3 DEF Logger!EnableLoggingFails, Logger!Logged
  <2>2. LogUsers'
    BY <1>1, <2>1 DEF LogUsers
  <2>. QED  BY <1>1, <2>1, <2>2, NoFileLogs
<1>4. ASSUME NEW p \in Paths, Logger!EnableLogging(p) PROVE Logs'
  <2>1. /\ users # {} /\ m_log_file' = p /\ target' = p
        /\ logDisk' = [logDisk EXCEPT ![p] = << >>] /\ due' = [due EXCEPT ![p] = << >>]
        /\ mixed' = IF Logger!Quiet THEN mixed \ {p}
                    ELSE mixed \cup ({m_log_file, p} \ {Null})
    BY <1>4 DEF Logger!EnableLogging
  <2>2. LogFiles' /\ LogUsers'
    BY <1>1, <2>1 DEF LogFiles, LogUsers
  <2>3. Holds(<< >>, << >>)
    BY DEF Holds
  <2>4. Logger!Quiet \/ Mixed'
    BY <2>1, LogNames DEF Mixed
  <2>5. ASSUME NEW q \in Paths \ mixed', q # m_log_file' \/ Logger!Quiet
        PROVE  Holds(logDisk'[q], due'[q])
    <3>1. CASE q = p
      BY <1>1, <2>1, <2>3, <3>1 DEF LogFiles
    <3>2. CASE q # p
      <4>1. q \notin mixed /\ (q # m_log_file \/ Logger!Quiet)
        BY <2>1, <2>5, <3>2, LogNames
      <4>2. Holds(logDisk[q], due[q])
        BY <4>1 DEF Logs
      <4>. QED  BY <1>1, <2>1, <3>2, <4>2 DEF LogFiles
    <3>. QED  BY <3>1, <3>2
  <2>. QED  BY <1>1, <2>2, <2>4, <2>5, TurnLogs
<1>. QED  BY <1>2, <1>3, <1>4

(* A call is at a step of its line.                                        *)
LEMMA AtStep ==
  ASSUME NEW n \in Nat, NEW k \in 1..4
  PROVE  \E c \in Nat \X (1..4) : c = <<n, k>> /\ c # << >> /\ c[1] = n /\ c[2] = k
<1>1. <<n, k>> \in Nat \X (1..4) /\ <<n, k>> # << >> /\ <<n, k>>[1] = n /\ <<n, k>>[2] = k
  OBVIOUS
<1>. QED  BY <1>1, Zenon

(* What is to hold after a step of the thread t, whose call is c then.     *)
LEMMA ThreadLogs ==
  ASSUME Logs, NEW t \in Threads, NEW c \in {<< >>} \cup Nat \X (1..4),
         logCall' = [logCall EXCEPT ![t] = c], \A u \in Threads : Busy(u) => u = t \/ Mixed',
         UNCHANGED <<users, g_core_init_count, m_log_file, target>>, LogFiles', lines' \in Nat,
         \A p \in Paths \ mixed' : p # m_log_file \/ c = << >> => Holds(logDisk'[p], due'[p]),
         c # << >> /\ ~Mixed' =>
           /\ Lacks(logDisk'[m_log_file], due'[m_log_file], IF c[2] = 4 THEN 1 ELSE 0)
           /\ due'[m_log_file][Len(due'[m_log_file])] = c[1]
  PROVE  Logs'
<1>1. DOMAIN logCall' = Threads /\ logCall'[t] = c
  BY DEF Logs
<1>2. \A u \in Threads : u # t => logCall'[u] = logCall[u]
  BY DEF Logs
<1>3. \A u \in Threads : Busy(u)' => (u = t /\ c # << >>) \/ (Busy(u) /\ (u = t \/ Mixed'))
  BY <1>1, <1>2 DEF Busy
<1>4. Logger!Quiet' => c = << >>
  BY <1>1 DEF Logger!Quiet
<1>5. LogUsers'
  BY DEF Logs, LogUsers
<1>6. \A u \in Threads : Busy(u)' => logCall'[u] \in Nat \X (1..4)
  BY <1>1, <1>2 DEF Busy, Logs
<1>7. \A u, v \in Threads : Busy(u)' /\ Busy(v)' => u = v \/ Mixed'
  BY <1>3
<1>8. \A p \in Paths \ mixed' : p # m_log_file' \/ Logger!Quiet' => Holds(logDisk[p], due[p])'
  BY <1>4 DEF Holds
<1>9. ASSUME NEW u \in Threads, Busy(u)', ~Mixed'
      PROVE  /\ Lacks(logDisk[m_log_file], due[m_log_file], Written(u))'
             /\ due'[m_log_file][Len(due'[m_log_file])] = logCall'[u][1]
  <2>1. u = t /\ c # << >> /\ logCall'[u] = c
    BY <1>1, <1>3, <1>9 DEF Busy
  <2>. QED  BY <1>9, <2>1 DEF Lacks, Written
<1>. QED  BY <1>1, <1>5, <1>6, <1>7, <1>8, <1>9 DEF Logs

LEMMA MessageLogs ==
  ASSUME Logs, NEW t \in Threads, NEW l, Logger!Log(t, l)
  PROVE  Logs'
<1>1. /\ lines' = lines + 1 /\ logCall[t] = << >>
      /\ UNCHANGED <<users, g_core_init_count, m_log_file, logDisk, target>>
  BY DEF Logger!Log
<1>2. LogUsers /\ LogFiles /\ lines \in Nat /\ lines' \in Nat /\ LogUsers'
  BY <1>1 DEF Logs, LogUsers
<1>4. CASE UNCHANGED <<logCall, due, mixed>>
  BY <1>1, <1>2, <1>4, IdleLogs
<1>5. CASE /\ logCall' = [logCall EXCEPT ![t] = <<lines', 1>>]
           /\ due' = IF target = Null THEN due
                     ELSE [due EXCEPT ![target] = Append(@, lines')]
           /\ Logger!Mixes({m_log_file})
  <2>1. PICK c \in Nat \X (1..4) : c = <<lines', 1>> /\ c # << >> /\ c[1] = lines' /\ c[2] = 1
    BY <1>2, AtStep
  <2>2. m_log_file = target /\ m_log_file \in Paths \cup {Null}
    BY <1>2 DEF LogUsers
  <2>3. mixed \subseteq mixed' /\ (Logger!Quiet \/ Mixed')
    BY <1>1, <1>5 DEF Mixed, Logger!Mixes
  <2>4. LogFiles'
    BY <1>1, <1>2, <1>5, <2>2 DEF LogFiles
  <2>5. ASSUME NEW p \in Paths \ mixed', p # m_log_file PROVE Holds(logDisk'[p], due'[p])
    <3>1. Holds(logDisk[p], due[p])
      BY <2>3, <2>5 DEF Logs
    <3>2. due'[p] = due[p]
      BY <1>2, <1>5, <2>2, <2>5 DEF LogFiles
    <3>. QED  BY <1>1, <3>1, <3>2
  <2>6. ASSUME ~Mixed'
        PROVE  /\ Lacks(logDisk'[m_log_file], due'[m_log_file], 0)
               /\ due'[m_log_file][Len(due'[m_log_file])] = lines'
    <3>1. m_log_file \in Paths /\ m_log_file \notin mixed /\ m_log_file # Null /\ Logger!Quiet
      BY <1>1, <2>2, <2>3, <2>6 DEF Mixed
    <3>2. logDisk[m_log_file] \in Seq(Pieces) /\ due[m_log_file] \in Seq(Nat)
      BY <1>2, <3>1 DEF LogFiles
    <3>3. due'[m_log_file] = Append(due[m_log_file], lines')
      BY <1>2, <1>5, <2>2, <3>1 DEF LogFiles
    <3>4. Holds(logDisk[m_log_file], due[m_log_file])
      BY <3>1 DEF Logs
    <3>5. Lacks(logDisk[m_log_file], Append(due[m_log_file], lines'), 0)
      BY <1>2, <3>2, <3>4, LineLogged
    <3>6. Append(due[m_log_file], lines')[Len(Append(due[m_log_file], lines'))] = lines'
      BY <1>2, <3>2
    <3>. QED  BY <1>1, <3>3, <3>5, <3>6
  <2>7. logCall' = [logCall EXCEPT ![t] = c]
    BY <1>5, <2>1
  <2>8. \A u \in Threads : Busy(u) => u = t \/ Mixed'
    BY <2>3, QuietIsNobody
  <2>9. \A p \in Paths \ mixed' : p # m_log_file \/ c = << >> => Holds(logDisk'[p], due'[p])
    BY <2>1, <2>5
  <2>10. c # << >> /\ ~Mixed' =>
           /\ Lacks(logDisk'[m_log_file], due'[m_log_file], IF c[2] = 4 THEN 1 ELSE 0)
           /\ due'[m_log_file][Len(due'[m_log_file])] = c[1]
    BY <2>1, <2>6
  <2>. QED  BY <1>1, <1>2, <2>4, <2>7, <2>8, <2>9, <2>10, ThreadLogs
<1>. QED  BY <1>4, <1>5 DEF Logger!Log

LEMMA InsertLogs ==
  ASSUME Logs, NEW t \in Threads, Logger!Insert(t) \/ Logger!IsOpen(t)
  PROVE  Logs'
<1>1. /\ Busy(t)
      /\ UNCHANGED <<users, g_core_init_count, m_log_file, logDisk, target, due, lines, mixed>>
  BY DEF Logger!Insert, Logger!IsOpen, Busy
<1>2. /\ logCall[t] \in Nat \X (1..4) /\ (Mixed' <=> Mixed) /\ DOMAIN logCall = Threads
      /\ \A u \in Threads : Busy(u) => u = t \/ Mixed'
  BY <1>1 DEF Logs, Mixed
<1>3. LogFiles' /\ lines' \in Nat
  BY <1>1 DEF Logs, LogFiles
<1>4. \A p \in Paths \ mixed' : p # m_log_file => Holds(logDisk'[p], due'[p])
  BY <1>1 DEF Logs
<1>5. ASSUME logCall[t][2] # 4, ~Mixed'
      PROVE  /\ Lacks(logDisk'[m_log_file], due'[m_log_file], 0)
             /\ due'[m_log_file][Len(due'[m_log_file])] = logCall[t][1]
  BY <1>1, <1>2, <1>5 DEF Logs, Written
<1>6. PICK n \in Nat : n = logCall[t][1]
  BY <1>2
<1>7. ASSUME NEW k \in {2, 3}, logCall[t][2] # 4, logCall' = [logCall EXCEPT ![t] = <<n, k>>]
      PROVE  Logs'
  <2>1. k \in 1..4 /\ k # 4
    OBVIOUS
  <2>2. PICK c \in Nat \X (1..4) : c = <<n, k>> /\ c # << >> /\ c[1] = n /\ c[2] = k
    BY <2>1, AtStep, ZenonT(60)
  <2>3. logCall' = [logCall EXCEPT ![t] = c]
    BY <1>7, <2>2
  <2>4. \A p \in Paths \ mixed' : p # m_log_file \/ c = << >> => Holds(logDisk'[p], due'[p])
    BY <1>4, <2>2
  <2>5. c # << >> /\ ~Mixed' =>
           /\ Lacks(logDisk'[m_log_file], due'[m_log_file], IF c[2] = 4 THEN 1 ELSE 0)
           /\ due'[m_log_file][Len(due'[m_log_file])] = c[1]
    BY <1>5, <1>6, <1>7, <2>1, <2>2
  <2>. QED  BY <1>1, <1>2, <1>3, <2>3, <2>4, <2>5, ThreadLogs
<1>8. CASE Logger!Insert(t)
  BY <1>2, <1>6, <1>7, <1>8 DEF Logger!Insert
<1>9. CASE Logger!IsOpen(t)
  <2>1. /\ logCall[t][2] = 2
        /\ logCall' = [logCall EXCEPT ![t] = IF m_log_file = Null THEN << >> ELSE <<n, 3>>]
    BY <1>2, <1>6, <1>9 DEF Logger!IsOpen
  <2>2. CASE m_log_file = Null
    <3>1. \A p \in Paths \ mixed' : p # m_log_file
      BY <2>2, LogNames
    <3>2. logCall' = [logCall EXCEPT ![t] = << >>] /\ << >> \in {<< >>} \cup Nat \X (1..4)
      BY <2>1, <2>2
    <3>. QED  BY <1>1, <1>2, <1>3, <1>4, <3>1, <3>2, ThreadLogs
  <2>3. CASE m_log_file # Null
    BY <1>7, <2>1, <2>3
  <2>. QED  BY <2>2, <2>3
<1>. QED  BY <1>8, <1>9

LEMMA PutLogs ==
  ASSUME Logs, NEW t \in Threads, Logger!Put(t)
  PROVE  Logs'
<1>1. /\ Busy(t)
      /\ UNCHANGED <<users, g_core_init_count, m_log_file, target, due, lines, mixed>>
      /\ logCall[t][2] \in {3, 4}
  BY DEF Logger!Put, Busy
<1>2. /\ logCall[t] \in Nat \X (1..4) /\ (Mixed' <=> Mixed) /\ DOMAIN logCall = Threads
      /\ \A u \in Threads : Busy(u) => u = t \/ Mixed'
  BY <1>1 DEF Logs, Mixed
<1>3. PICK n \in Nat, k \in {3, 4} : n = logCall[t][1] /\ k = logCall[t][2]
  BY <1>1, <1>2
<1>4. PICK x \in Pieces : x = <<n, k - 2>>
  <2>1. <<n, 1>> \in Pieces /\ <<n, 2>> \in Pieces
    BY DEF Pieces
  <2>2. k - 2 = 1 \/ k - 2 = 2
    OBVIOUS
  <2>. QED  BY <2>1, <2>2
<1>5. /\ logDisk' = IF m_log_file = Null THEN logDisk
                    ELSE [logDisk EXCEPT ![m_log_file] = Append(@, x)]
      /\ logCall' = [logCall EXCEPT ![t] = IF k = 3 THEN <<n, 4>> ELSE << >>]
  BY <1>2, <1>3, <1>4 DEF Logger!Put
<1>6. m_log_file \in Paths \cup {Null} /\ LogFiles /\ lines' \in Nat
  BY <1>1 DEF Logs, LogUsers
<1>7. LogFiles'
  BY <1>1, <1>5, <1>6 DEF LogFiles
<1>8. ASSUME NEW p \in Paths \ mixed', p # m_log_file PROVE Holds(logDisk'[p], due'[p])
  <2>1. Holds(logDisk[p], due[p])
    BY <1>1, <1>8 DEF Logs
  <2>2. logDisk'[p] = logDisk[p]
    BY <1>5, <1>6, <1>8 DEF LogFiles
  <2>. QED  BY <1>1, <2>1, <2>2
<1>9. ASSUME ~Mixed
      PROVE  /\ k = 3 => Lacks(logDisk'[m_log_file], due[m_log_file], 1)
             /\ k = 4 => Holds(logDisk'[m_log_file], due[m_log_file])
             /\ due[m_log_file][Len(due[m_log_file])] = n
  <2>1. m_log_file \in Paths /\ m_log_file # Null
    BY <1>6, <1>9 DEF Mixed
  <2>2. PICK d \in Seq(Pieces), s \in Seq(Nat) : d = logDisk[m_log_file] /\ s = due[m_log_file]
    BY <1>6, <2>1 DEF LogFiles
  <2>3. Lacks(d, s, IF k = 4 THEN 1 ELSE 0) /\ s[Len(s)] = n
    BY <1>1, <1>3, <1>9, <2>2 DEF Logs, Written
  <2>4. logDisk'[m_log_file] = Append(d, x)
    BY <1>5, <1>6, <2>1, <2>2 DEF LogFiles
  <2>5. CASE k = 3
    BY <1>4, <2>2, <2>3, <2>4, <2>5, FirstPiece
  <2>6. CASE k = 4
    BY <1>4, <2>2, <2>3, <2>4, <2>6, SecondPiece
  <2>. QED  BY <2>5, <2>6
<1>10. CASE k = 3
  <2>1. PICK c \in Nat \X (1..4) : c = <<n, 4>> /\ c # << >> /\ c[1] = n /\ c[2] = 4
    BY AtStep
  <2>2. logCall' = [logCall EXCEPT ![t] = c]
    BY <1>5, <1>10, <2>1
  <2>3. \A p \in Paths \ mixed' : p # m_log_file \/ c = << >> => Holds(logDisk'[p], due'[p])
    BY <1>8, <2>1
  <2>4. c # << >> /\ ~Mixed' =>
           /\ Lacks(logDisk'[m_log_file], due'[m_log_file], IF c[2] = 4 THEN 1 ELSE 0)
           /\ due'[m_log_file][Len(due'[m_log_file])] = c[1]
    BY <1>1, <1>2, <1>9, <1>10, <2>1
  <2>. QED  BY <1>1, <1>2, <1>6, <1>7, <2>2, <2>3, <2>4, ThreadLogs
<1>11. CASE k = 4
  <2>1. ASSUME NEW p \in Paths \ mixed' PROVE Holds(logDisk'[p], due'[p])
    <3>1. CASE p # m_log_file
      BY <1>8, <3>1
    <3>2. CASE p = m_log_file
      <4>1. ~Mixed
        BY <1>1, <3>2, LogNames DEF Mixed
      <4>. QED  BY <1>1, <1>9, <1>11, <3>2, <4>1
    <3>. QED  BY <3>1, <3>2
  <2>2. << >> \in {<< >>} \cup Nat \X (1..4) /\ logCall' = [logCall EXCEPT ![t] = << >>]
    BY <1>5, <1>11
  <2>. QED  BY <1>1, <1>2, <1>6, <1>7, <2>1, <2>2, ThreadLogs
<1>. QED  BY <1>10, <1>11

LEMMA LogsKept == ASSUME Logs, [Logger!Next]_logVars PROVE Logs'
<1>1. CASE UNCHANGED logVars
  <2>1. LogUsers' /\ lines' \in Nat
    BY <1>1 DEF logVars, Logs, LogUsers
  <2>. QED  BY <1>1, <2>1, IdleLogs DEF logVars
<1>2. CASE Logger!Next
  BY <1>2, UsersLog, SettingsLog, MessageLogs, InsertLogs, PutLogs DEF Logger!Next
<1>. QED  BY <1>1, <1>2

LEMMA LogsInitially == ASSUME ResourcesInit PROVE Logs
<1>1. Logger!Init
  BY DEF ResourcesInit
<1>2. LogUsers
  BY <1>1, FS_EmptySet DEF Logger!Init, LogUsers
<1>3. /\ logDisk = [p \in Paths |-> << >>] /\ due = [p \in Paths |-> << >>]
      /\ logCall = [t \in Threads |-> << >>] /\ lines = 0
  BY <1>1 DEF Logger!Init
<1>4. Holds(<< >>, << >>)
  BY DEF Holds
<1>. QED  BY <1>2, <1>3, <1>4 DEF Logs, LogFiles, Busy

(* Between calls every file has the lines that were logged while it was    *)
(* the log's file, and no other, unless it was in use when calls overlapped.*)
THEOREM LogIsKept == ResourcesSpec => []KeepsLog
<1>1. Logs => KeepsLog
  <2>1. SUFFICES ASSUME Logs, Logger!Quiet, NEW p \in Paths \ mixed
                 PROVE  logDisk[p] = [i \in 1..(2 * Len(due[p])) |->
                                        <<due[p][(i + 1) \div 2], 2 - (i % 2)>>]
    BY DEF KeepsLog, Logger!KeepsLog
  <2>2. PICK d \in Seq(Pieces), s \in Seq(Nat) : d = logDisk[p] /\ s = due[p]
    BY <2>1 DEF Logs, LogFiles
  <2>3. Holds(d, s)
    BY <2>1, <2>2 DEF Logs
  <2>4. d = [i \in 1..Len(d) |-> d[i]]
    OBVIOUS
  <2>. QED  BY <2>2, <2>3, <2>4 DEF Holds
<1>2. ResourcesInit => Logs
  BY LogsInitially
<1>3. Logs /\ [ResourcesNext]_resourceVars => Logs'
  BY LogsKept, StreamSteps
<1>. QED  BY <1>1, <1>2, <1>3, PTL DEF ResourcesSpec

-----------------------------------------------------------------------------
(* StreamWriter.                                                           *)

WriterObjects == [type : {"OwningFile", "OwningVector", "NonOwning"},
                  buf : {"vec", "span", "null"}, cursor : Nat, cap : Nat,
                  path : Paths \cup {Null}, vec : Seq(Nat),
                  home : Paths \cup {Null, "span"}, log : Seq(Nat), flushed : BOOLEAN,
                  reused : BOOLEAN]

(* The first n bytes that a writer accepts, and a buffer that holds them.  *)
Accepted(n) == [i \in 1..n |-> i]
Has(bytes, n) == n <= Len(bytes) /\ \A i \in 1..n : bytes[i] = i

(* What a writer knows of its buffer and of its file: which kind goes with *)
(* which buffer, and that the buffer has what was accepted, until it is    *)
(* used after flush().                                                     *)
Whole(r) ==
  /\ r.buf = "vec" => r.cap <= Len(r.vec) /\ Has(r.vec, r.cursor) /\ r.home # "span"
  /\ r.buf = "span" => r.cap = SpanSize /\ Has(span, r.cursor)
  /\ r.buf = "null" => r.cap = 0 /\ r.home = Null
  /\ r.buf # "null" => r.cursor <= r.cap /\ r.log = Accepted(r.cursor)

Fit(r) ==
  /\ r \in WriterObjects
  /\ r.type = "OwningFile" => r.buf = "vec" /\ ~r.flushed /\ r.path = r.home /\ r.home \in Paths
  /\ r.type = "OwningVector" /\ ~r.flushed => r.buf = "vec" /\ r.home = Null
  /\ r.type = "NonOwning" => r.buf # "vec" /\ ~r.flushed
  /\ r.buf = "span" => r.home = "span"
  /\ r.reused => r.flushed
  /\ ~r.reused => Whole(r)

(* A file that was flushed holds what was accepted; one that has no writer *)
(* any more holds what its last one had accepted, or somebody said not, or *)
(* it is excused.                                                          *)
Saved(f) == disk[f] = owed[f] \/ f \in told \cup excused
Here(w) == writers[w].type # "gone"
Away(f) == \A w \in WriterSlots : Here(w) => writers[w].home # f

Storage ==
  /\ disk \in [Paths -> Seq(Nat)] /\ owed \in [Paths -> Seq(Nat)] /\ told \subseteq Paths
  /\ excused \subseteq Paths /\ span \in Seq(Nat) /\ Len(span) = SpanSize

Writing ==
  /\ Storage /\ DOMAIN writers = WriterSlots
  /\ \A w \in WriterSlots : writers[w] = Writers!Gone \/ Fit(writers[w])
  /\ \A v, w \in WriterSlots : Here(v) /\ Here(w) /\ writers[v].home = writers[w].home =>
       v = w \/ writers[v].home = Null
  /\ \A w \in WriterSlots : Here(w) /\ writers[w].flushed /\ writers[w].home \in Paths =>
       disk[writers[w].home] = writers[w].log \/ writers[w].home \in excused
  /\ \A f \in Paths : Away(f) => Saved(f)

LEMMA WriterNames ==
  /\ Null \notin Paths /\ "span" \notin Paths /\ "span" # Null
  /\ Capacity \in Nat /\ SpanSize \in Nat /\ Counts \subseteq Nat
BY ResourcesAssumption DEF ResourcesAssumption, Writers!WritersAssumption

LEMMA LiveIsHere == \A w \in WriterSlots : Writers!Live(w) <=> Here(w)
BY DEF Writers!Live, Here

LEMMA HereFits == ASSUME Writing, NEW w \in WriterSlots, Here(w) PROVE Fit(writers[w])
BY DEF Writing, Here, Writers!Gone

(* Sequences.                                                              *)
LEMMA Zeroes ==
  ASSUME NEW n \in Nat PROVE Writers!Zeros(n) \in Seq(Nat) /\ Len(Writers!Zeros(n)) = n
BY DEF Writers!Zeros

LEMMA Prefix ==
  ASSUME NEW bytes \in Seq(Nat), NEW n \in Nat, Has(bytes, n)
  PROVE  SubSeq(bytes, 1, n) = Accepted(n)
<1>1. SubSeq(bytes, 1, n) = [i \in 1..n |-> bytes[i]]
  BY DEF Has
<1>. QED  BY <1>1 DEF Has, Accepted

LEMMA MoreAccepted ==
  ASSUME NEW n \in Nat, NEW k \in Nat, NEW log \in Seq(Nat), log = Accepted(n)
  PROVE  log \o [i \in 1..k |-> Len(log) + i] = Accepted(n + k)
<1>1. PICK more : more = [i \in 1..k |-> Len(log) + i]
  OBVIOUS
<1>2. Len(log) = n /\ \A i \in 1..n : log[i] = i
  BY DEF Accepted
<1>3. more \in Seq(Nat) /\ Len(more) = k /\ \A i \in 1..k : more[i] = n + i
  BY <1>1, <1>2
<1>4. PICK all \in Seq(Nat) : all = log \o more
  <2>1. log \o more \in Seq(Nat)
    BY <1>3
  <2>. QED  BY <2>1
<1>5. Len(all) = n + k
  BY <1>2, <1>3, <1>4
<1>6. ASSUME NEW i \in 1..(n + k) PROVE all[i] = i
  <2>1. CASE i <= n
    BY <1>2, <1>3, <1>4, <2>1
  <2>2. CASE i > n
    <3>1. all[i] = more[i - n] /\ i - n \in 1..k
      BY <1>2, <1>3, <1>4, <2>2
    <3>. QED  BY <1>3, <3>1
  <2>. QED  BY <2>1, <2>2
<1>7. all = [i \in 1..(n + k) |-> all[i]]
  BY <1>5
<1>. QED  BY <1>1, <1>4, <1>6, <1>7 DEF Accepted

LEMMA PutKeeps ==
  ASSUME NEW bytes \in Seq(Nat), NEW n \in Nat, NEW k \in Nat, Has(bytes, n),
         n + k <= Len(bytes)
  PROVE  /\ Writers!Put(bytes, n, k) \in Seq(Nat)
         /\ Len(Writers!Put(bytes, n, k)) = Len(bytes)
         /\ Has(Writers!Put(bytes, n, k), n + k)
<1>1. PICK put : put = Writers!Put(bytes, n, k)
  OBVIOUS
<1>2. put = [i \in 1..Len(bytes) |-> IF i \in (n + 1)..(n + k) THEN i ELSE bytes[i]]
  BY <1>1 DEF Writers!Put
<1>3. put \in Seq(Nat) /\ Len(put) = Len(bytes)
  BY <1>2
<1>4. \A i \in 1..(n + k) : put[i] = i
  BY <1>2 DEF Has
<1>. QED  BY <1>1, <1>3, <1>4 DEF Has

LEMMA PutTyped ==
  ASSUME NEW bytes \in Seq(Nat), NEW n \in Nat, NEW k \in Nat
  PROVE  /\ Writers!Put(bytes, n, k) \in Seq(Nat)
         /\ Len(Writers!Put(bytes, n, k)) = Len(bytes)
<1>1. PICK put : put = Writers!Put(bytes, n, k)
  OBVIOUS
<1>2. put = [i \in 1..Len(bytes) |-> IF i \in (n + 1)..(n + k) THEN i ELSE bytes[i]]
  BY <1>1 DEF Writers!Put
<1>3. put \in Seq(Nat) /\ Len(put) = Len(bytes)
  BY <1>2
<1>. QED  BY <1>1, <1>3

(* A writer is as fit where the span stays, or is another's.               *)
LEMMA FitStays ==
  ASSUME NEW r, Fit(r), r.buf # "span" \/ UNCHANGED span
  PROVE  Fit(r)'
BY DEF Fit, Whole

(* New writers, and what a move leaves.                                    *)
LEMMA NewFits ==
  /\ \A f \in Paths :
       Fit(Writers!Writer("OwningFile", "vec", Capacity, f, Writers!Zeros(Capacity), f))
  /\ Fit(Writers!Writer("OwningVector", "vec", Capacity, Null, Writers!Zeros(Capacity), Null))
  /\ Storage => Fit(Writers!Writer("NonOwning", "span", SpanSize, Null, << >>, "span"))
<1>1. Accepted(0) = << >>
  BY DEF Accepted
<1>2. \A bytes \in Seq(Nat) : Has(bytes, 0)
  BY DEF Has
<1>3. << >> \in Seq(Nat)
  OBVIOUS
<1>4. PICK z \in Seq(Nat) : z = Writers!Zeros(Capacity) /\ Len(z) = Capacity
  BY Zeroes, WriterNames
<1>5. ASSUME NEW f \in Paths PROVE Fit(Writers!Writer("OwningFile", "vec", Capacity, f, z, f))
  BY <1>1, <1>2, <1>3, <1>4, WriterNames DEF Fit, Whole, Writers!Writer, WriterObjects
<1>6. Fit(Writers!Writer("OwningVector", "vec", Capacity, Null, z, Null))
  BY <1>1, <1>2, <1>3, <1>4, WriterNames DEF Fit, Whole, Writers!Writer, WriterObjects
<1>7. Storage => Fit(Writers!Writer("NonOwning", "span", SpanSize, Null, << >>, "span"))
  BY <1>1, <1>2, <1>3, WriterNames DEF Fit, Whole, Writers!Writer, WriterObjects, Storage
<1>. QED  BY <1>4, <1>5, <1>6, <1>7

(* What a move makes of a writer, and what it leaves behind.               *)
LEMMA MovedFits ==
  ASSUME NEW r, Fit(r), NEW q, q = Writers!Moved(Writers!Reused(r))
  PROVE  Fit(q) /\ q.home = r.home /\ q.log = r.log /\ q.flushed = r.flushed
<1>1. r \in WriterObjects
  BY DEF Fit
<1>2. PICK u : u = Writers!Reused(r)
  OBVIOUS
<1>3. u = [r EXCEPT !.reused = r.reused \/ r.flushed] /\ q = Writers!Moved(u)
  BY <1>1, <1>2 DEF Writers!Reused, WriterObjects
<1>4. CASE ~r.flushed
  <2>1. ~r.reused
    BY <1>4 DEF Fit
  <2>2. u = r
    BY <1>1, <1>3, <1>4, <2>1 DEF WriterObjects
  <2>3. r.type = "OwningVector" => r.buf = "vec"
    BY <1>4 DEF Fit
  <2>4. Writers!Moved(r) = r
    BY <1>1, <2>3 DEF Writers!Moved, WriterObjects
  <2>5. q = r
    BY <1>3, <2>2, <2>4
  <2>. QED  BY <2>5
<1>5. CASE r.flushed
  <2>1. r.type = "OwningVector"
    BY <1>1, <1>5 DEF Fit, WriterObjects
  <2>2. q = [r EXCEPT !.reused = TRUE, !.buf = "vec"]
    BY <1>1, <1>3, <1>5, <2>1 DEF Writers!Moved, WriterObjects
  <2>3. /\ q \in WriterObjects /\ q.type = "OwningVector" /\ q.flushed = r.flushed
        /\ q.reused /\ q.buf = "vec" /\ q.home = r.home /\ q.log = r.log
    BY <1>1, <1>5, <2>1, <2>2 DEF WriterObjects
  <2>. QED  BY <1>5, <2>3 DEF Fit
<1>. QED  BY <1>4, <1>5

LEMMA MovedFromFits ==
  ASSUME NEW r, Fit(r)
  PROVE  /\ Fit(Writers!MovedFrom(r))
         /\ Fit([Writers!MovedFrom(r) EXCEPT !.cursor = 0, !.path = Null])
         /\ Writers!MovedFrom(r).home = Null
         /\ [Writers!MovedFrom(r) EXCEPT !.cursor = 0, !.path = Null].home = Null
<1>1. r \in WriterObjects
  BY DEF Fit
<1>2. PICK m : m = Writers!MovedFrom(r)
  OBVIOUS
<1>3. m = [type |-> "NonOwning", buf |-> "null", cursor |-> r.cursor, cap |-> 0,
           path |-> r.path, vec |-> << >>, home |-> Null, log |-> << >>, flushed |-> FALSE,
           reused |-> FALSE]
  BY <1>1, <1>2 DEF Writers!MovedFrom, WriterObjects
<1>4. << >> \in Seq(Nat) /\ r.cursor \in Nat /\ r.path \in Paths \cup {Null}
  BY <1>1 DEF WriterObjects
<1>5. /\ m \in WriterObjects /\ m.type = "NonOwning" /\ m.buf = "null" /\ m.cap = 0
      /\ m.home = Null /\ m.flushed = FALSE /\ m.reused = FALSE
  BY <1>3, <1>4 DEF WriterObjects
<1>6. PICK c : c = [m EXCEPT !.cursor = 0, !.path = Null]
  OBVIOUS
<1>7. /\ c \in WriterObjects /\ c.type = "NonOwning" /\ c.buf = "null" /\ c.cap = 0
      /\ c.home = Null /\ c.flushed = FALSE /\ c.reused = FALSE
  BY <1>5, <1>6 DEF WriterObjects
<1>8. Fit(m) /\ Fit(c)
  BY <1>5, <1>7 DEF Fit, Whole
<1>. QED  BY <1>2, <1>5, <1>6, <1>7, <1>8

(* What flush_to_disk does to a writer's file, if it has one.              *)
LEMMA Flushed ==
  ASSUME Storage, NEW r, Fit(r), NEW out \in Writers!FlushToDisk(r)
  PROVE  /\ out.disk \in [Paths -> Seq(Nat)]
         /\ \A f \in Paths : f # r.home => out.disk[f] = disk[f]
         /\ r.type # "OwningFile" =>
              out.disk = disk /\ out.ok /\ Writers!Silenced(out, r) = {}
         /\ r.type = "OwningFile" => Writers!Silenced(out, r) \subseteq {r.home}
         /\ r.type = "OwningFile" /\ out.ok =>
              out.disk[r.home] = r.log \/ r.home \in Writers!Silenced(out, r)
<1>1. CASE r.type # "OwningFile"
  <2>1. out = [disk |-> disk, ok |-> TRUE, silent |-> FALSE]
    BY <1>1 DEF Writers!FlushToDisk
  <2>. QED  BY <1>1, <2>1 DEF Storage, Writers!Silenced
<1>2. CASE r.type = "OwningFile"
  <2>1. /\ r.path = r.home /\ r.home \in Paths /\ r.buf = "vec" /\ r.cursor \in Nat
        /\ r.vec \in Seq(Nat) /\ Has(r.vec, r.cursor) /\ r.log = Accepted(r.cursor)
    BY <1>2 DEF Fit, Whole, WriterObjects
  <2>2. PICK f \in Paths : f = r.home
    BY <2>1
  <2>3. Writers!Buffer(r) = r.vec
    BY <2>1 DEF Writers!Buffer
  <2>4. \/ out = [disk |-> disk, ok |-> FALSE, silent |-> FALSE]
        \/ \E n \in 0..r.cursor, b \in BOOLEAN, c \in BOOLEAN :
             /\ out = [disk |-> [disk EXCEPT ![f] = SubSeq(r.vec, 1, n)], ok |-> b, silent |-> c]
             /\ c \/ (b <=> n = r.cursor)
    <3>1. ~(r.type # "OwningFile" \/ r.path = Null)
      BY <1>2, <2>1, WriterNames
    <3>2. \/ out = [disk |-> disk, ok |-> FALSE, silent |-> FALSE]
          \/ \E n \in 0..r.cursor :
               out = [disk |-> [disk EXCEPT ![f] = SubSeq(r.vec, 1, n)], ok |-> n = r.cursor,
                      silent |-> FALSE]
          \/ \E n \in 0..(r.cursor - 1) :
               out = [disk |-> [disk EXCEPT ![f] = SubSeq(r.vec, 1, n)], ok |-> TRUE,
                      silent |-> TRUE]
      BY <2>1, <2>2, <2>3, <3>1, Zenon DEF Writers!FlushToDisk
    <3>3. 0..(r.cursor - 1) \subseteq 0..r.cursor
      BY <2>1
    <3>. QED  BY <3>2, <3>3, Zenon
  <2>5. CASE out = [disk |-> disk, ok |-> FALSE, silent |-> FALSE]
    BY <1>2, <2>5 DEF Storage, Writers!Silenced
  <2>6. ASSUME NEW n \in 0..r.cursor, NEW b \in BOOLEAN, NEW c \in BOOLEAN,
               out = [disk |-> [disk EXCEPT ![f] = SubSeq(r.vec, 1, n)], ok |-> b, silent |-> c],
               c \/ (b <=> n = r.cursor)
        PROVE  /\ out.disk \in [Paths -> Seq(Nat)]
               /\ \A g \in Paths : g # r.home => out.disk[g] = disk[g]
               /\ Writers!Silenced(out, r) \subseteq {r.home}
               /\ out.ok => out.disk[r.home] = r.log \/ r.home \in Writers!Silenced(out, r)
    <3>1. out.disk = [disk EXCEPT ![f] = SubSeq(r.vec, 1, n)] /\ out.ok = b /\ out.silent = c
      BY <2>6
    <3>2. SubSeq(r.vec, 1, n) \in Seq(Nat)
      BY <2>1 DEF Has
    <3>3. n = r.cursor => SubSeq(r.vec, 1, n) = r.log
      BY <2>1, Prefix
    <3>4. disk \in [Paths -> Seq(Nat)]
      BY DEF Storage
    <3>5. /\ out.disk \in [Paths -> Seq(Nat)] /\ out.disk[f] = SubSeq(r.vec, 1, n)
          /\ \A g \in Paths : g # f => out.disk[g] = disk[g]
      BY <3>1, <3>2, <3>4
    <3>6. Writers!Silenced(out, r) = IF c THEN {r.home} ELSE {}
      BY <2>1, <3>1 DEF Writers!Silenced
    <3>7. CASE c
      BY <2>2, <3>5, <3>6, <3>7
    <3>8. CASE ~c
      <4>1. b <=> n = r.cursor
        BY <2>6, <3>8
      <4>. QED  BY <2>2, <3>1, <3>3, <3>5, <3>6, <3>8, <4>1
    <3>. QED  BY <3>7, <3>8
  <2>. QED  BY <1>2, <2>4, <2>5, <2>6
<1>. QED  BY <1>1, <1>2

(* What a step does not do to a file.                                      *)
Same(f) == /\ disk'[f] = disk[f] /\ owed'[f] = owed[f]
           /\ (f \in told' <=> f \in told) /\ (f \in excused' <=> f \in excused)

LEMMA NewWrites ==
  ASSUME Writing, NEW w \in WriterSlots, ~Here(w), NEW r, Fit(r), ~r.flushed,
         \A v \in WriterSlots : Here(v) => writers[v].home # r.home \/ r.home = Null,
         writers' = [writers EXCEPT ![w] = r], UNCHANGED span, Storage',
         \A f \in Paths : f # r.home => Same(f)
  PROVE  Writing'
<1>1. /\ DOMAIN writers' = WriterSlots /\ writers'[w] = r
      /\ \A v \in WriterSlots : v # w => writers'[v] = writers[v]
  BY DEF Writing
<1>2. /\ r.type # "gone" /\ Here(w)'
      /\ \A v \in WriterSlots : v # w => (Here(v)' <=> Here(v))
  BY <1>1 DEF Here, Fit, WriterObjects
<1>3. ASSUME NEW v \in WriterSlots PROVE writers'[v] = Writers!Gone \/ Fit(writers[v])'
  BY <1>1 DEF Writing, Fit, Whole
<1>4. \A u, v \in WriterSlots : Here(u)' /\ Here(v)' /\ writers'[u].home = writers'[v].home =>
         u = v \/ writers'[u].home = Null
  BY <1>1, <1>2 DEF Writing
<1>5. ASSUME NEW v \in WriterSlots, Here(v)', writers'[v].flushed, writers'[v].home \in Paths
      PROVE  \/ disk'[writers'[v].home] = writers'[v].log
             \/ writers'[v].home \in excused'
  <2>1. v # w /\ Here(v) /\ writers'[v] = writers[v]
    BY <1>1, <1>2, <1>5
  <2>2. writers[v].home # r.home
    BY <1>5, <2>1, WriterNames
  <2>. QED  BY <1>5, <2>1, <2>2 DEF Writing, Same
<1>6. ASSUME NEW f \in Paths, Away(f)' PROVE Saved(f)'
  <2>1. f # r.home
    BY <1>1, <1>2, <1>6 DEF Away
  <2>2. Away(f)
    BY <1>1, <1>2, <1>6 DEF Away
  <2>. QED  BY <2>1, <2>2 DEF Writing, Saved, Same
<1>. QED  BY <1>1, <1>3, <1>4, <1>5, <1>6 DEF Writing

LEMMA CreateWrites ==
  ASSUME Writing, NEW w \in WriterSlots,
         \/ \E f \in Paths : Writers!CreateFromFile(w, f)
         \/ Writers!ToVector(w)
         \/ Writers!ToSpan(w)
  PROVE  Writing'
<1>1. /\ UNCHANGED span /\ ~Here(w) /\ Storage
  BY LiveIsHere DEF Writers!CreateFromFile, Writers!ToVector, Writers!ToSpan, Writing
<1>2. ASSUME NEW f \in Paths, Writers!CreateFromFile(w, f) PROVE Writing'
  <2>1. PICK r : r = Writers!Writer("OwningFile", "vec", Capacity, f, Writers!Zeros(Capacity), f)
    OBVIOUS
  <2>2. Fit(r) /\ ~r.flushed /\ r.home = f
    BY <2>1, NewFits DEF Writers!Writer
  <2>3. /\ writers' = [writers EXCEPT ![w] = r]
        /\ \A v \in WriterSlots : Here(v) => writers[v].home # f
        /\ disk' = [disk EXCEPT ![f] = << >>] /\ owed' = [owed EXCEPT ![f] = << >>]
        /\ told' = told \ {f} /\ excused' = excused \ {f}
    BY <1>2, <2>1, LiveIsHere DEF Writers!CreateFromFile
  <2>4. Storage' /\ \A g \in Paths : g # f => Same(g)
    BY <1>1, <2>3 DEF Storage, Same
  <2>. QED  BY <1>1, <2>2, <2>3, <2>4, NewWrites
<1>3. CASE Writers!ToVector(w)
  <2>1. PICK r : r = Writers!Writer("OwningVector", "vec", Capacity, Null,
                                    Writers!Zeros(Capacity), Null)
    OBVIOUS
  <2>2. Fit(r) /\ ~r.flushed /\ r.home = Null
    BY <2>1, NewFits DEF Writers!Writer
  <2>3. writers' = [writers EXCEPT ![w] = r] /\ UNCHANGED <<disk, owed, told, excused>>
    BY <1>3, <2>1 DEF Writers!ToVector
  <2>4. Storage' /\ \A g \in Paths : Same(g)
    BY <1>1, <2>3 DEF Storage, Same
  <2>. QED  BY <1>1, <2>2, <2>3, <2>4, NewWrites
<1>4. CASE Writers!ToSpan(w)
  <2>1. PICK r : r = Writers!Writer("NonOwning", "span", SpanSize, Null, << >>, "span")
    OBVIOUS
  <2>2. Fit(r) /\ ~r.flushed /\ r.home = "span"
    BY <1>1, <2>1, NewFits DEF Writers!Writer
  <2>3. /\ writers' = [writers EXCEPT ![w] = r] /\ UNCHANGED <<disk, owed, told, excused>>
        /\ \A v \in WriterSlots : Here(v) => writers[v].home # "span"
    BY <1>4, <2>1, LiveIsHere DEF Writers!ToSpan
  <2>4. Storage' /\ \A g \in Paths : Same(g)
    BY <1>1, <2>3 DEF Storage, Same
  <2>. QED  BY <1>1, <2>2, <2>3, <2>4, NewWrites
<1>. QED  BY <1>2, <1>3, <1>4

(* The last flush settles the writer's file and touches no other.          *)
Settled(w, f) == IF f = writers[w].home THEN Saved(f)' ELSE Same(f)

LEMMA LastFlushSettles ==
  ASSUME Writing, NEW w \in WriterSlots, Here(w), Writers!LastFlush(w), UNCHANGED span
  PROVE  Storage' /\ \A f \in Paths : Settled(w, f)
<1>1. PICK r : r = writers[w]
  OBVIOUS
<1>2. Fit(r) /\ Storage
  BY <1>1, HereFits DEF Writing
<1>3. PICK out \in Writers!FlushToDisk(r) :
        /\ disk' = out.disk
        /\ told' = (IF out.ok THEN told ELSE told \cup {r.path})
        /\ excused' = excused \cup Writers!Silenced(out, r)
        /\ owed' = IF r.home \in Paths THEN [owed EXCEPT ![r.home] = r.log] ELSE owed
  BY <1>1 DEF Writers!LastFlush
<1>4. /\ disk' \in [Paths -> Seq(Nat)]
      /\ \A f \in Paths : f # r.home => disk'[f] = disk[f]
      /\ r.type # "OwningFile" => disk' = disk /\ out.ok /\ excused' = excused
      /\ r.type = "OwningFile" => excused' \subseteq excused \cup {r.home}
      /\ excused \subseteq excused'
      /\ r.type = "OwningFile" /\ out.ok => disk'[r.home] = r.log \/ r.home \in excused'
  BY <1>2, <1>3, Flushed
<1>5. r.log \in Seq(Nat)
  BY <1>2 DEF Fit, WriterObjects
<1>6. owed' \in [Paths -> Seq(Nat)] /\ \A f \in Paths : f # r.home => owed'[f] = owed[f]
  BY <1>2, <1>3, <1>5 DEF Storage
<1>7. r.home \in Paths => owed'[r.home] = r.log
  BY <1>2, <1>3 DEF Storage
<1>8. CASE r.type = "OwningFile"
  <2>1. r.path = r.home /\ r.home \in Paths
    BY <1>2, <1>8 DEF Fit
  <2>2. /\ told' \subseteq Paths /\ excused' \subseteq Paths
        /\ \A f \in Paths : f # r.home =>
             (f \in told' <=> f \in told) /\ (f \in excused' <=> f \in excused)
    BY <1>2, <1>3, <1>4, <1>8, <2>1 DEF Storage
  <2>3. Saved(r.home)'
    BY <1>3, <1>4, <1>7, <1>8, <2>1 DEF Saved
  <2>4. Storage'
    BY <1>2, <1>4, <1>6, <2>2 DEF Storage
  <2>5. ASSUME NEW f \in Paths PROVE Settled(w, f)
    <3>1. CASE f = r.home
      BY <1>1, <2>3, <3>1 DEF Settled, Saved
    <3>2. CASE f # r.home
      <4>1. disk'[f] = disk[f] /\ owed'[f] = owed[f]
        BY <1>4, <1>6, <3>2
      <4>2. (f \in told' <=> f \in told) /\ (f \in excused' <=> f \in excused)
        BY <2>2, <3>2
      <4>. QED  BY <1>1, <3>2, <4>1, <4>2 DEF Settled, Same
    <3>. QED  BY <3>1, <3>2
  <2>. QED  BY <2>4, <2>5
<1>9. CASE r.type # "OwningFile"
  <2>1. disk' = disk /\ told' = told /\ excused' = excused
    BY <1>3, <1>4, <1>9
  <2>2. r.home \in Paths => r.flushed
    BY <1>2, <1>9, WriterNames DEF Fit, Whole, WriterObjects
  <2>3. r.home \in Paths => disk'[r.home] = owed'[r.home] \/ r.home \in excused'
    BY <1>1, <1>7, <2>1, <2>2 DEF Writing
  <2>. QED  BY <1>1, <1>2, <1>4, <1>6, <2>1, <2>3 DEF Storage, Settled, Same, Saved
<1>. QED  BY <1>8, <1>9

(* s's writer goes to d, whose own, if any, has been flushed.              *)
LEMMA MovesWrite ==
  ASSUME Writing, NEW d \in WriterSlots, NEW s \in WriterSlots, d # s, Here(s),
         NEW q, Fit(q), q.home = writers[s].home, q.log = writers[s].log,
         q.flushed = writers[s].flushed, NEW m, Fit(m), m.home = Null,
         writers' = [writers EXCEPT ![d] = q, ![s] = m], UNCHANGED span, Storage',
         \A f \in Paths : IF Here(d) THEN Settled(d, f) ELSE Same(f)
  PROVE  Writing'
<1>1. /\ DOMAIN writers' = WriterSlots /\ writers'[d] = q /\ writers'[s] = m
      /\ \A v \in WriterSlots \ {d, s} : writers'[v] = writers[v]
  BY DEF Writing
<1>2. /\ Here(d)' /\ \A v \in WriterSlots \ {d, s} : Here(v)' <=> Here(v)
  BY <1>1 DEF Here, Fit, WriterObjects
<1>3. ASSUME NEW v \in WriterSlots PROVE writers'[v] = Writers!Gone \/ Fit(writers[v])'
  BY <1>1 DEF Writing, Fit, Whole
<1>4. ASSUME NEW u \in WriterSlots, NEW v \in WriterSlots, Here(u)', Here(v)',
             writers'[u].home = writers'[v].home
      PROVE  u = v \/ writers'[u].home = Null
  <2>1. \A v1 \in WriterSlots \ {d, s} : Here(v1)' =>
          Here(v1) /\ writers'[v1].home = writers[v1].home
    BY <1>1, <1>2
  <2>. QED  BY <1>1, <1>4, <2>1 DEF Writing
<1>5. ASSUME NEW v \in WriterSlots, Here(v)', writers'[v].flushed, writers'[v].home \in Paths
      PROVE  \/ disk'[writers'[v].home] = writers'[v].log
             \/ writers'[v].home \in excused'
  <2>1. PICK u \in WriterSlots :
          /\ u # d /\ Here(u) /\ writers'[v].home = writers[u].home
          /\ writers'[v].log = writers[u].log /\ writers[u].flushed
    <3>1. v # s
      BY <1>1, <1>5, WriterNames
    <3>2. CASE v = d
      BY <1>1, <1>5, <3>2
    <3>3. CASE v # d
      BY <1>1, <1>2, <1>5, <3>1, <3>3
    <3>. QED  BY <3>2, <3>3
  <2>2. Here(d) => writers[u].home # writers[d].home
    BY <1>5, <2>1, WriterNames DEF Writing
  <2>3. Same(writers[u].home)
    BY <1>5, <2>1, <2>2 DEF Settled
  <2>. QED  BY <1>5, <2>1, <2>3 DEF Writing, Same
<1>6. ASSUME NEW f \in Paths, Away(f)' PROVE Saved(f)'
  <2>1. CASE Here(d) /\ writers[d].home = f
    BY <2>1 DEF Settled
  <2>2. CASE ~(Here(d) /\ writers[d].home = f)
    <3>1. Same(f)
      BY <2>2 DEF Settled
    <3>2. Away(f)
      BY <1>1, <1>2, <1>6, <2>2 DEF Away
    <3>. QED  BY <3>1, <3>2 DEF Writing, Saved, Same
  <2>. QED  BY <2>1, <2>2
<1>. QED  BY <1>1, <1>3, <1>4, <1>5, <1>6 DEF Writing

LEMMA MoveWrites ==
  ASSUME Writing, NEW d \in WriterSlots, NEW s \in WriterSlots,
         Writers!MoveConstruct(d, s) \/ Writers!MoveAssign(d, s)
  PROVE  Writing'
<1>1. Here(s) /\ UNCHANGED span
  BY LiveIsHere DEF Writers!MoveConstruct, Writers!MoveAssign
<1>2. PICK r : r = writers[s]
  OBVIOUS
<1>3. Fit(r)
  BY <1>1, <1>2, HereFits
<1>4. PICK q, m, c : /\ q = Writers!Moved(Writers!Reused(r)) /\ m = Writers!MovedFrom(r)
                     /\ c = [m EXCEPT !.cursor = 0, !.path = Null]
  OBVIOUS
<1>5. /\ Fit(q) /\ q.home = writers[s].home /\ q.log = writers[s].log
      /\ q.flushed = writers[s].flushed
      /\ Fit(m) /\ m.home = Null /\ Fit(c) /\ c.home = Null
  BY <1>2, <1>3, <1>4, MovedFits, MovedFromFits
<1>6. CASE Writers!MoveConstruct(d, s)
  <2>1. /\ ~Here(d) /\ d # s /\ UNCHANGED <<disk, owed, told, excused>>
        /\ writers' = [writers EXCEPT ![d] = Writers!Moved(Writers!Reused(writers[s])),
                                      ![s] = Writers!MovedFrom(@)]
    BY <1>1, <1>6, LiveIsHere DEF Writers!MoveConstruct
  <2>2. writers' = [writers EXCEPT ![d] = q, ![s] = m]
    BY <1>2, <1>4, <1>5, <2>1 DEF Writing
  <2>3. Storage' /\ \A f \in Paths : Same(f)
    BY <1>1, <2>1 DEF Writing, Storage, Same
  <2>4. \A f \in Paths : IF Here(d) THEN Settled(d, f) ELSE Same(f)
    BY <2>1, <2>3
  <2>. QED  BY <1>1, <1>5, <2>1, <2>2, <2>3, <2>4, MovesWrite
<1>7. CASE Writers!MoveAssign(d, s)
  <2>1. /\ Here(d) /\ d # s /\ Writers!LastFlush(d)
        /\ writers' = [writers EXCEPT ![d] = Writers!Moved(Writers!Reused(writers[s])),
                         ![s] = [Writers!MovedFrom(@) EXCEPT !.cursor = 0, !.path = Null]]
    BY <1>7, LiveIsHere DEF Writers!MoveAssign
  <2>2. writers' = [writers EXCEPT ![d] = q, ![s] = c]
    BY <1>2, <1>4, <1>5, <2>1 DEF Writing
  <2>3. Storage' /\ \A f \in Paths : Settled(d, f)
    BY <1>1, <2>1, LastFlushSettles, Zenon
  <2>4. \A f \in Paths : IF Here(d) THEN Settled(d, f) ELSE Same(f)
    BY <2>1, <2>3
  <2>5. Storage' /\ d # s /\ UNCHANGED span
    BY <1>1, <2>1, <2>3
  <2>. QED  BY <1>1, <1>5, <2>2, <2>4, <2>5, MovesWrite
<1>. QED  BY <1>6, <1>7

LEMMA DestroyWrites ==
  ASSUME Writing, NEW w \in WriterSlots, Writers!Destroy(w)
  PROVE  Writing'
<1>1. /\ Here(w) /\ Writers!LastFlush(w) /\ UNCHANGED span
      /\ writers' = [writers EXCEPT ![w] = Writers!Gone]
  BY LiveIsHere DEF Writers!Destroy
<1>2. Storage' /\ \A f \in Paths : Settled(w, f)
  BY <1>1, LastFlushSettles
<1>3. /\ DOMAIN writers' = WriterSlots /\ writers'[w] = Writers!Gone
      /\ \A v \in WriterSlots : v # w => writers'[v] = writers[v]
  BY <1>1 DEF Writing
<1>4. ~Here(w)' /\ \A v \in WriterSlots : v # w => (Here(v)' <=> Here(v))
  BY <1>3 DEF Here, Writers!Gone
<1>5. ASSUME NEW v \in WriterSlots PROVE writers'[v] = Writers!Gone \/ Fit(writers[v])'
  BY <1>1, <1>3 DEF Writing, Fit, Whole
<1>6. ASSUME NEW u \in WriterSlots, NEW v \in WriterSlots, Here(u)', Here(v)',
             writers'[u].home = writers'[v].home
      PROVE  u = v \/ writers'[u].home = Null
  BY <1>3, <1>4, <1>6 DEF Writing
<1>7. ASSUME NEW v \in WriterSlots, Here(v)', writers'[v].flushed, writers'[v].home \in Paths
      PROVE  \/ disk'[writers'[v].home] = writers'[v].log
             \/ writers'[v].home \in excused'
  <2>1. v # w /\ Here(v) /\ writers'[v] = writers[v]
    BY <1>3, <1>4, <1>7
  <2>2. writers[v].home # writers[w].home
    BY <1>1, <1>7, <2>1, WriterNames DEF Writing
  <2>3. Same(writers[v].home)
    BY <1>2, <1>7, <2>1, <2>2 DEF Settled
  <2>. QED  BY <1>7, <2>1, <2>3 DEF Writing, Same
<1>8. ASSUME NEW f \in Paths, Away(f)' PROVE Saved(f)'
  <2>1. CASE writers[w].home = f
    BY <1>2, <2>1 DEF Settled
  <2>2. CASE writers[w].home # f
    <3>1. Same(f)
      BY <1>2, <2>2 DEF Settled
    <3>2. Away(f)
      BY <1>3, <1>4, <1>8, <2>2 DEF Away
    <3>. QED  BY <3>1, <3>2 DEF Writing, Saved, Same
  <2>. QED  BY <2>1, <2>2
<1>. QED  BY <1>2, <1>3, <1>5, <1>6, <1>7, <1>8 DEF Writing

(* The writer of w changes, but not its file.                              *)
Becomes(w, q) == /\ DOMAIN writers' = WriterSlots /\ writers'[w] = q
                 /\ \A v \in WriterSlots : v # w => writers'[v] = writers[v]

LEMMA Becoming ==
  ASSUME Writing, NEW w \in WriterSlots, NEW q,
         writers' = [writers EXCEPT ![w] = q] \/ (writers' = writers /\ q = writers[w])
  PROVE  Becomes(w, q)
BY DEF Writing, Becomes

LEMMA SameHome ==
  ASSUME Writing, NEW w \in WriterSlots, Here(w), NEW q, Fit(q)', q.home = writers[w].home,
         Becomes(w, q), Storage', UNCHANGED <<owed, told>>,
         UNCHANGED span \/ q.home = "span", \A f \in Paths : f # q.home => Same(f),
         q.flushed /\ q.home \in Paths => disk'[q.home] = q.log \/ q.home \in excused'
  PROVE  Writing'
<1>1. /\ DOMAIN writers' = WriterSlots /\ writers'[w] = q
      /\ \A v \in WriterSlots : v # w => writers'[v] = writers[v]
  BY DEF Becomes
<1>2. \A v \in WriterSlots : /\ Here(v)' <=> Here(v)
                             /\ writers'[v].home = writers[v].home
  BY <1>1 DEF Here, Fit, WriterObjects
<1>3. ASSUME NEW v \in WriterSlots PROVE writers'[v] = Writers!Gone \/ Fit(writers[v])'
  <2>1. CASE v = w
    BY <1>1, <2>1 DEF Fit, Whole
  <2>2. CASE v # w /\ writers[v] # Writers!Gone
    <3>1. writers'[v] = writers[v] /\ Fit(writers[v])
      BY <1>1, <2>2 DEF Writing
    <3>2. Here(v)
      BY <3>1 DEF Here, Fit, WriterObjects
    <3>3. writers[v].buf # "span" \/ UNCHANGED span
      BY <2>2, <3>1, <3>2, WriterNames DEF Writing, Fit
    <3>4. PICK r : r = writers[v]
      OBVIOUS
    <3>5. Fit(r)'
      BY <3>1, <3>3, <3>4, FitStays
    <3>. QED  BY <3>1, <3>4, <3>5 DEF Fit, Whole
  <2>. QED  BY <1>1, <2>1, <2>2
<1>4. ASSUME NEW u \in WriterSlots, NEW v \in WriterSlots, Here(u)', Here(v)',
             writers'[u].home = writers'[v].home
      PROVE  u = v \/ writers'[u].home = Null
  BY <1>2, <1>4 DEF Writing
<1>5. ASSUME NEW v \in WriterSlots, Here(v)', writers'[v].flushed, writers'[v].home \in Paths
      PROVE  \/ disk'[writers'[v].home] = writers'[v].log
             \/ writers'[v].home \in excused'
  <2>1. CASE v = w
    BY <1>1, <1>5, <2>1
  <2>2. CASE v # w
    <3>1. Here(v) /\ writers'[v] = writers[v]
      BY <1>1, <1>2, <1>5, <2>2
    <3>2. writers[v].home # q.home
      BY <1>5, <2>2, <3>1, WriterNames DEF Writing
    <3>. QED  BY <1>5, <3>1, <3>2 DEF Writing, Same
  <2>. QED  BY <2>1, <2>2
<1>6. ASSUME NEW f \in Paths, Away(f)' PROVE Saved(f)'
  <2>1. Away(f)
    BY <1>2, <1>6 DEF Away
  <2>2. f # q.home
    BY <2>1 DEF Away
  <2>. QED  BY <2>1, <2>2 DEF Writing, Saved, Same
<1>. QED  BY <1>1, <1>3, <1>4, <1>5, <1>6 DEF Writing

LEMMA FlushWrites ==
  ASSUME Writing, NEW w \in WriterSlots, Writers!Flush(w)
  PROVE  Writing'
<1>1. Here(w) /\ UNCHANGED <<span, owed, told>>
  BY LiveIsHere DEF Writers!Flush
<1>2. PICK r : r = writers[w]
  OBVIOUS
<1>3. Fit(r) /\ Storage /\ r \in WriterObjects
  BY <1>1, <1>2, HereFits DEF Writing, Fit
<1>4. PICK out \in Writers!FlushToDisk(r) :
        /\ disk' = out.disk /\ excused' = excused \cup Writers!Silenced(out, r)
        /\ writers' = IF ~out.ok THEN writers
                      ELSE [writers EXCEPT ![w].type = "OwningVector",
                              ![w].flushed = @ \/ r.type # "OwningVector"]
  BY <1>2 DEF Writers!Flush
<1>5. /\ disk' \in [Paths -> Seq(Nat)]
      /\ \A f \in Paths : f # r.home => disk'[f] = disk[f]
      /\ r.type # "OwningFile" => disk' = disk /\ out.ok /\ excused' = excused
      /\ r.type = "OwningFile" => excused' \subseteq excused \cup {r.home}
      /\ excused \subseteq excused'
      /\ r.type = "OwningFile" /\ out.ok => disk'[r.home] = r.log \/ r.home \in excused'
  BY <1>3, <1>4, Flushed
<1>6. Storage' /\ \A f \in Paths : f # r.home => Same(f)
  BY <1>1, <1>3, <1>5 DEF Storage, Same, Fit
<1>7. Fit(r)'
  BY <1>1, <1>3, FitStays
<1>8. CASE ~out.ok
  <2>1. ~r.flushed
    BY <1>3, <1>5, <1>8 DEF Fit
  <2>2. Becomes(w, r)
    BY <1>2, <1>4, <1>8, Becoming
  <2>. QED  BY <1>1, <1>2, <1>5, <1>6, <1>7, <2>1, <2>2, SameHome
<1>9. CASE out.ok
  <2>1. PICK q : q = [r EXCEPT !.type = "OwningVector",
                               !.flushed = r.flushed \/ r.type # "OwningVector"]
    OBVIOUS
  <2>6. writers' = [writers EXCEPT ![w] = q]
    BY <1>2, <1>4, <1>9, <2>1 DEF Writing
  <2>2. Becomes(w, q)
    BY <2>6, Becoming
  <2>3. /\ q \in WriterObjects /\ q.type = "OwningVector" /\ q.buf = r.buf /\ q.cap = r.cap
        /\ q.home = r.home /\ q.vec = r.vec /\ q.cursor = r.cursor /\ q.log = r.log
        /\ (q.flushed <=> r.flushed \/ r.type # "OwningVector") /\ q.reused = r.reused
    BY <1>3, <2>1 DEF WriterObjects
  <2>4. Fit(q)'
    BY <1>7, <2>3 DEF Fit, Whole
  <2>5. q.flushed /\ q.home \in Paths => disk'[q.home] = q.log \/ q.home \in excused'
    <3>1. ASSUME q.flushed, r.home \in Paths
          PROVE  disk'[r.home] = r.log \/ r.home \in excused'
      <4>1. CASE r.type = "OwningFile"
        BY <1>5, <1>9, <4>1
      <4>2. CASE r.type # "OwningFile"
        <5>1. r.type = "OwningVector"
          BY <1>3, <3>1, <4>2, WriterNames DEF Fit, Whole, WriterObjects
        <5>2. r.flushed /\ disk' = disk /\ excused' = excused
          BY <1>5, <2>3, <3>1, <4>2, <5>1
        <5>. QED  BY <1>1, <1>2, <3>1, <5>2 DEF Writing
      <4>. QED  BY <4>1, <4>2
    <3>. QED  BY <2>3, <3>1
  <2>. QED  BY <1>1, <1>2, <1>5, <1>6, <2>2, <2>3, <2>4, <2>5, SameHome
<1>. QED  BY <1>8, <1>9

(* The vector grows if it has to, and keeps what it has.                   *)
LEMMA RoomyFits ==
  ASSUME NEW r, Fit(r), r.flushed => r.reused, NEW n \in Nat,
         r.type = "NonOwning" => r.cursor + n <= r.cap,
         NEW q, q = Writers!Roomy(r, n)
  PROVE  /\ Fit(q) /\ q.home = r.home /\ q.type = r.type /\ q.cursor = r.cursor
         /\ (q.flushed <=> r.flushed) /\ (q.reused <=> r.reused)
         /\ ~r.reused => r.cursor + n <= q.cap
<1>1. r \in WriterObjects /\ r.cursor \in Nat /\ r.cap \in Nat /\ r.vec \in Seq(Nat)
  BY DEF Fit, WriterObjects
<1>2. CASE r.cursor + n <= r.cap
  BY <1>2 DEF Writers!Roomy
<1>3. CASE ~(r.cursor + n <= r.cap)
  <2>1. r.type # "NonOwning" /\ (~r.reused => r.buf = "vec" /\ Whole(r))
    BY <1>3 DEF Fit, WriterObjects
  <2>2. PICK size \in Nat :
          size = IF 2 * r.cap > r.cursor + n THEN 2 * r.cap ELSE r.cursor + n
    BY <1>1
  <2>3. PICK vec : vec = [i \in 1..size |-> IF i <= Len(r.vec) THEN r.vec[i] ELSE 0]
    OBVIOUS
  <2>4. vec \in Seq(Nat) /\ Len(vec) = size
    BY <1>1, <2>3
  <2>5. size >= r.cursor + n
    BY <1>1, <2>2
  <2>6. q = [r EXCEPT !.cap = size, !.buf = "vec", !.vec = vec]
    BY <1>1, <1>3, <2>2, <2>3 DEF Writers!Roomy, WriterObjects
  <2>7. /\ q \in WriterObjects /\ q.cap = size /\ q.buf = "vec" /\ q.vec = vec
        /\ q.type = r.type /\ q.home = r.home /\ q.cursor = r.cursor /\ q.log = r.log
        /\ q.flushed = r.flushed /\ q.path = r.path /\ q.reused = r.reused
    BY <1>1, <2>4, <2>6 DEF WriterObjects
  <2>8. CASE r.reused
    BY <2>1, <2>7, <2>8 DEF Fit
  <2>9. CASE ~r.reused
    <3>1. Has(vec, r.cursor)
      BY <1>1, <2>1, <2>3, <2>4, <2>5, <2>9 DEF Whole, Has
    <3>2. r.cursor <= size /\ r.log = Accepted(r.cursor) /\ r.home # "span"
      BY <1>1, <2>1, <2>5, <2>9 DEF Whole
    <3>3. Whole(q)
      BY <2>4, <2>7, <3>1, <3>2 DEF Whole
    <3>. QED  BY <2>1, <2>5, <2>7, <2>9, <3>3 DEF Fit
  <2>. QED  BY <2>8, <2>9
<1>. QED  BY <1>2, <1>3

(* The writer w of a step of Write(w, n), before and after growing.        *)
LEMMA Reusing ==
  ASSUME NEW r, Fit(r), NEW u, u = Writers!Reused(r)
  PROVE  /\ Fit(u) /\ u.home = r.home /\ u.cursor = r.cursor /\ u.cap = r.cap
         /\ u.type = r.type /\ (u.flushed <=> r.flushed) /\ (u.reused <=> r.flushed)
<1>1. r \in WriterObjects /\ (r.reused => r.flushed)
  BY DEF Fit
<1>2. u = [r EXCEPT !.reused = r.reused \/ r.flushed]
  BY <1>1 DEF Writers!Reused, WriterObjects
<1>3. /\ u \in WriterObjects /\ u.type = r.type /\ u.buf = r.buf /\ u.cap = r.cap
      /\ u.cursor = r.cursor /\ u.path = r.path /\ u.vec = r.vec /\ u.home = r.home
      /\ u.log = r.log /\ u.flushed = r.flushed /\ (u.reused <=> r.flushed)
  BY <1>1, <1>2 DEF WriterObjects
<1>4. ~u.reused => Whole(u)
  BY <1>1, <1>3 DEF Fit, Whole
<1>. QED  BY <1>3, <1>4 DEF Fit

LEMMA WriteWrites ==
  ASSUME Writing, NEW w \in WriterSlots, NEW n \in Counts, Writers!Write(w, n)
  PROVE  Writing'
<1>1. PICK u, r : u = Writers!Reused(writers[w]) /\ r = Writers!Roomy(u, n)
  OBVIOUS
<1>2. PICK done : done = [r EXCEPT !.cursor = @ + n,
                                   !.log = @ \o [i \in 1..n |-> Len(@) + i]]
  OBVIOUS
<1>3. /\ Here(w)
      /\ writers[w].type = "NonOwning" => writers[w].cursor + n <= writers[w].cap
      /\ IF r.buf = "span"
           THEN /\ span' = Writers!Put(span, r.cursor, n)
                /\ writers' = [writers EXCEPT ![w] = done]
           ELSE /\ writers' = [writers EXCEPT
                     ![w] = [done EXCEPT !.vec = Writers!Put(@, r.cursor, n)]]
                /\ UNCHANGED span
      /\ excused' = excused \cup Writers!Late(writers[w])
      /\ UNCHANGED <<disk, owed, told>>
  BY <1>1, <1>2, LiveIsHere DEF Writers!Write
<1>4. n \in Nat
  BY WriterNames
<1>5. /\ Fit(r) /\ r.home = writers[w].home /\ (r.flushed <=> writers[w].flushed)
      /\ (r.reused <=> r.flushed) /\ (~r.reused => r.cursor + n <= r.cap)
  <2>1. Fit(writers[w])
    BY <1>3, HereFits
  <2>2. /\ Fit(u) /\ u.home = writers[w].home /\ u.cursor = writers[w].cursor
        /\ u.cap = writers[w].cap /\ u.type = writers[w].type
        /\ (u.flushed <=> writers[w].flushed) /\ (u.reused <=> writers[w].flushed)
    BY <1>1, <2>1, Reusing
  <2>3. u.type = "NonOwning" => u.cursor + n <= u.cap
    BY <1>3, <2>2
  <2>. QED  BY <1>1, <1>4, <2>2, <2>3, RoomyFits
<1>6. /\ r \in WriterObjects /\ r.cursor \in Nat /\ r.log \in Seq(Nat) /\ r.vec \in Seq(Nat)
  BY <1>5 DEF Fit, WriterObjects
<1>7. PICK log \in Seq(Nat) : log = r.log \o [i \in 1..n |-> Len(r.log) + i]
  <2>1. [i \in 1..n |-> Len(r.log) + i] \in Seq(Nat)
    BY <1>4, <1>6
  <2>2. r.log \o [i \in 1..n |-> Len(r.log) + i] \in Seq(Nat)
    BY <1>6, <2>1
  <2>. QED  BY <2>2
<1>8. /\ done \in WriterObjects /\ done.cursor = r.cursor + n /\ done.log = log
      /\ done.type = r.type /\ done.buf = r.buf /\ done.cap = r.cap /\ done.path = r.path
      /\ done.home = r.home /\ done.vec = r.vec /\ done.flushed = r.flushed
      /\ done.reused = r.reused
  <2>1. done = [r EXCEPT !.cursor = r.cursor + n, !.log = log]
    BY <1>2, <1>6, <1>7 DEF WriterObjects
  <2>2. r.cursor + n \in Nat
    BY <1>4, <1>6
  <2>. QED  BY <1>6, <2>1, <2>2 DEF WriterObjects
<1>9. ~r.reused /\ r.buf # "null" => done.log = Accepted(r.cursor + n)
  <2>1. ~r.reused /\ r.buf # "null" => r.log = Accepted(r.cursor)
    BY <1>5 DEF Fit, Whole
  <2>. QED  BY <1>4, <1>6, <1>7, <1>8, <2>1, MoreAccepted
<1>10. Storage
  BY DEF Writing
<1>11. /\ excused' \subseteq Paths /\ \A f \in Paths : f # r.home => Same(f)
       /\ r.flushed /\ r.home \in Paths => r.home \in excused'
  BY <1>3, <1>5, <1>10 DEF Writers!Late, Storage, Same
<1>12. CASE r.buf = "span"
  <2>1. r.home = "span" /\ (~r.reused => r.cap = SpanSize /\ Has(span, r.cursor))
    BY <1>5, <1>12 DEF Fit, Whole
  <2>2. span \in Seq(Nat) /\ Len(span) = SpanSize /\ SpanSize \in Nat
    BY <1>10, WriterNames DEF Storage
  <2>3. span' \in Seq(Nat) /\ Len(span') = SpanSize
    <3>1. span' = Writers!Put(span, r.cursor, n)
      BY <1>3, <1>12
    <3>2. PICK put : put = Writers!Put(span, r.cursor, n)
      OBVIOUS
    <3>3. put \in Seq(Nat) /\ Len(put) = Len(span)
      BY <1>4, <1>6, <2>2, <3>2, PutTyped
    <3>. QED  BY <2>2, <3>1, <3>2, <3>3
  <2>4. ~r.reused => Has(span', r.cursor + n)
    BY <1>3, <1>4, <1>5, <1>6, <1>12, <2>1, <2>2, PutKeeps
  <2>5. Fit(done)'
    BY <1>5, <1>8, <1>9, <1>12, <2>1, <2>3, <2>4 DEF Fit, Whole
  <2>6. Storage'
    BY <1>3, <1>10, <1>11, <2>3 DEF Storage
  <2>7. Becomes(w, done)
    BY <1>3, <1>12, Becoming
  <2>. QED  BY <1>3, <1>5, <1>8, <1>11, <2>1, <2>5, <2>6, <2>7, WriterNames, SameHome
<1>13. CASE r.buf # "span"
  <2>1. PICK put : put = Writers!Put(r.vec, r.cursor, n)
    OBVIOUS
  <2>2. put \in Seq(Nat) /\ Len(put) = Len(r.vec)
    BY <1>4, <1>6, <2>1, PutTyped
  <2>3. ~r.reused /\ r.buf = "vec" => Has(put, r.cursor + n)
    <3>1. ASSUME ~r.reused, r.buf = "vec" PROVE Has(put, r.cursor + n)
      <4>1. Has(r.vec, r.cursor) /\ r.cap <= Len(r.vec) /\ r.cap \in Nat
        BY <1>5, <3>1 DEF Fit, Whole, WriterObjects
      <4>2. r.cursor + n <= Len(r.vec)
        BY <1>4, <1>5, <1>6, <3>1, <4>1
      <4>. QED  BY <1>4, <1>6, <2>1, <4>1, <4>2, PutKeeps
    <3>. QED  BY <3>1
  <2>4. PICK q : q = [done EXCEPT !.vec = put]
    OBVIOUS
  <2>5. writers' = [writers EXCEPT ![w] = q] /\ UNCHANGED span
    BY <1>3, <1>8, <1>13, <2>1, <2>4 DEF WriterObjects
  <2>6. /\ q \in WriterObjects /\ q.cursor = r.cursor + n /\ q.log = done.log /\ q.vec = put
        /\ q.type = r.type /\ q.buf = r.buf /\ q.cap = r.cap /\ q.path = r.path
        /\ q.home = r.home /\ q.flushed = r.flushed /\ q.reused = r.reused
    BY <1>8, <2>2, <2>4 DEF WriterObjects
  <2>7. Fit(q)
    BY <1>5, <1>9, <1>13, <2>2, <2>3, <2>6 DEF Fit, Whole
  <2>8. Fit(q)' /\ Storage'
    BY <1>3, <1>10, <1>11, <2>5, <2>7, FitStays DEF Storage
  <2>9. Becomes(w, q)
    BY <2>5, Becoming
  <2>. QED  BY <1>3, <1>5, <1>11, <2>5, <2>6, <2>8, <2>9, SameHome
<1>. QED  BY <1>12, <1>13

LEMMA WritingKept == ASSUME Writing, [Writers!Next]_writerVars PROVE Writing'
<1>1. CASE UNCHANGED writerVars
  BY <1>1 DEF writerVars, Writing, Storage, Fit, Whole, Here, Away, Saved
<1>2. CASE Writers!Next
  <2>1. PICK w \in WriterSlots :
          \/ \E f \in Paths : Writers!CreateFromFile(w, f)
          \/ Writers!ToVector(w) \/ Writers!ToSpan(w)
          \/ \E d \in WriterSlots : Writers!MoveConstruct(d, w) \/ Writers!MoveAssign(d, w)
          \/ Writers!Destroy(w) \/ Writers!Flush(w)
          \/ \E n \in Counts : Writers!Write(w, n)
    BY <1>2 DEF Writers!Next
  <2>. QED  BY <2>1, CreateWrites, MoveWrites, DestroyWrites, FlushWrites, WriteWrites
<1>. QED  BY <1>1, <1>2

LEMMA WritingInitially == ASSUME ResourcesInit PROVE Writing
<1>1. Writers!Init
  BY DEF ResourcesInit
<1>2. span \in Seq(Nat) /\ Len(span) = SpanSize
  BY <1>1, Zeroes, WriterNames DEF Writers!Init
<1>3. Storage /\ \A f \in Paths : Saved(f)
  BY <1>1, <1>2 DEF Writers!Init, Storage, Saved
<1>4. DOMAIN writers = WriterSlots /\ \A w \in WriterSlots : writers[w] = Writers!Gone /\ ~Here(w)
  BY <1>1 DEF Writers!Init, Here, Writers!Gone
<1>. QED  BY <1>3, <1>4 DEF Writing

(* A writer's buffer has what the writer accepted, in room that is there,  *)
(* until it is used after flush(), and in the end its file has, or the     *)
(* writer has said that it does not, or fclose or that use lost it.        *)
THEOREM WritersKeepWhole == ResourcesSpec => []WritersKeepAll
<1>1. Writing => WritersKeepAll
  <2>1. ASSUME Writing, NEW w \in WriterSlots, Here(w), ~writers[w].reused
        PROVE  /\ writers[w].cap <= Len(Writers!Buffer(writers[w]))
               /\ writers[w].buf # "null" =>
                    SubSeq(Writers!Buffer(writers[w]), 1, writers[w].cursor) = writers[w].log
    <3>1. PICK r : r = writers[w]
      OBVIOUS
    <3>2. /\ Fit(r) /\ Whole(r) /\ r \in WriterObjects /\ r.vec \in Seq(Nat)
          /\ r.cursor \in Nat /\ Storage
      BY <2>1, <3>1, HereFits DEF Fit, WriterObjects, Writing
    <3>3. CASE r.buf = "vec"
      <4>1. Writers!Buffer(r) = r.vec
        BY <3>3 DEF Writers!Buffer
      <4>. QED  BY <3>1, <3>2, <3>3, <4>1, Prefix DEF Whole
    <3>4. CASE r.buf = "span"
      <4>1. Writers!Buffer(r) = span
        BY <3>4 DEF Writers!Buffer
      <4>2. span \in Seq(Nat) /\ Len(span) = SpanSize /\ SpanSize \in Nat
        BY <3>2, WriterNames DEF Storage
      <4>. QED  BY <3>1, <3>2, <3>4, <4>1, <4>2, Prefix DEF Whole
    <3>5. CASE r.buf = "null"
      <4>1. Writers!Buffer(r) = << >>
        BY <3>5 DEF Writers!Buffer
      <4>. QED  BY <3>1, <3>2, <3>5, <4>1 DEF Whole
    <3>. QED  BY <3>2, <3>3, <3>4, <3>5 DEF WriterObjects
  <2>2. ASSUME Writing PROVE Writers!RoomIsReal /\ Writers!BufferIsLog
    BY <2>1, <2>2, LiveIsHere DEF Writers!RoomIsReal, Writers!BufferIsLog
  <2>3. ASSUME Writing PROVE Writers!FileGetsAll
    BY <2>3, LiveIsHere DEF Writers!FileGetsAll, Writing, Away, Saved
  <2>. QED  BY <2>2, <2>3 DEF WritersKeepAll
<1>2. ResourcesInit => Writing
  BY WritingInitially
<1>3. Writing /\ [ResourcesNext]_resourceVars => Writing'
  BY WritingKept, StreamSteps
<1>. QED  BY <1>1, <1>2, <1>3, PTL DEF ResourcesSpec

=============================================================================
