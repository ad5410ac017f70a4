------------------------------ MODULE IpcProofs ------------------------------
(***************************************************************************)
(* Proofs about Ipc, for any number of sessions, any capacity of the rings *)
(* and any bounds.                                                         *)
(*                                                                         *)
(* The manager's loops walk two lists backwards while what they call takes *)
(* sessions out of them: the place at which a loop stands is one of its    *)
(* list, and the session it works on is there (Slots), since a session is  *)
(* in one place of one list (Once).  That a session whose process was ever *)
(* forked is on a list, destroyed or just being returned is NoOrphan; it   *)
(* needs that a handle has its process's id from fork to waitpid           *)
(* (HandleIds), and that sessions are numbered as they are made (Numbered).*)
(* What a node sends is in the ring or was delivered, in order (Streams).  *)
(***************************************************************************)
EXTENDS Ipc, FiniteSetTheorems, SequenceTheorems, TLAPS

(* Types.                                                                  *)
Steps == {"idle", "sleep", "return", "pend", "register", "act", "drain", "packet", "recv",
          "signal", "scan", "crashed", "gone"}

Unique(q) == \A i, j \in DOMAIN q : q[i] = q[j] => i = j

Locals == [at : Steps, i : Nat, id : Ids, of : Ids, now : SUBSET Sessions, wait : Ids,
           more : BOOLEAN, moved : BOOLEAN]
States == {"none", "starting", "up", "joined", "exited", "waited", "ended"}
Shape ==
  /\ m \in Locals
  /\ pending \in Seq(Sessions) /\ active \in Seq(Sessions)
  /\ map \in [Ids -> Ids]
  /\ doomed \subseteq Sessions /\ late \subseteq Sessions /\ dialled \subseteq Sessions
  /\ held \in [Sessions -> SUBSET Resources]
  /\ proc \in [Sessions -> States]
  /\ hid \in [Sessions -> Ids]

(* The id of a handle is there from fork to waitpid.                       *)
HandleIds == \A s \in Sessions :
  hid[s] = IF proc[s] \in {"up", "joined", "exited"} THEN s ELSE 0

(* Where the manager's loops stand.                                        *)
Slots ==
  /\ m.at = "pend" => m.i <= Len(pending)
  /\ m.at = "register" => m.i \in DOMAIN pending /\ pending[m.i] = m.of
  /\ m.at = "act" => m.i <= Len(active)
  /\ m.at \in {"drain", "packet", "recv", "signal"} =>
       m.i \in DOMAIN active /\ (active[m.i] = m.of \/ m.moved)

(* A session is listed once, after its process was forked.                 *)
Spawning(s) == m.at \in {"sleep", "return"} /\ m.of = s
Once ==
  /\ Unique(pending) /\ Unique(active)
  /\ ToSet(pending) \cap ToSet(active) = {}
  /\ m.at \in {"sleep", "return"} => m.of \in Sessions \ Listed
  /\ m.at = "return" => proc[m.of] \notin {"none", "starting"}
  /\ \A s \in Listed : proc[s] \notin {"none", "starting"}

(* Sessions are numbered in the order in which they are made.              *)
Used == {s \in Sessions : proc[s] # "none" \/ held[s] # {}}
Numbered == \E k \in Nat : Used = 1..k

(* A process that runs, or will, is some session's of the manager's.       *)
NoOrphan == \A s \in Sessions :
  proc[s] = "starting" \/ Running(s) => s \in Listed \cup doomed \/ Spawning(s)

(* Of the packets 1..n the last are in the ring, and the others were       *)
(* delivered, in order; 0 stands for a call without a packet.              *)
Split(n, delivered, ring) ==
  /\ n \in Nat /\ delivered \in Seq(Nat) /\ ring \in Seq(Nat) /\ Len(ring) <= n
  /\ \A k \in 1..Len(ring) : ring[k] = n - Len(ring) + k
  /\ \A p \in 1..(n - Len(ring)) : \E k \in 1..Len(delivered) : delivered[k] = p
  /\ \A k \in 1..Len(delivered) :
       delivered[k] \in (IF EmptyPopIsTrue THEN 0 ELSE 1)..(n - Len(ring))
  /\ \A j, k \in 1..Len(delivered) :
       j < k /\ delivered[k] # 0 => delivered[j] < delivered[k]
Streams == \A s \in Sessions : Split(sent[s], got[s], mino[s])

IInv == Shape /\ HandleIds /\ Slots /\ Once /\ Numbered /\ NoOrphan

(* A step's part in OnlyPathIsLeft.                                        *)
Leaves == \A s \in Listed : s \notin Listed' =>
  held'[s] \subseteq {"path"} /\ ~Running(s)' /\ s \in doomed'

-----------------------------------------------------------------------------
(* Lists of sessions.                                                      *)

(* What erasing the element at a place does to a sequence.                 *)
LEMMA RemoveAtElements ==
  ASSUME NEW q \in Seq(Sessions), NEW i \in DOMAIN q
  PROVE  /\ RemoveAt(q, i) \in Seq(Sessions) /\ Len(RemoveAt(q, i)) = Len(q) - 1
         /\ \A j \in 1..(Len(q) - 1) :
              RemoveAt(q, i)[j] = IF j < i THEN q[j] ELSE q[j + 1]
<1>. DEFINE n == Len(q)
            a == SubSeq(q, 1, i - 1)
            b == SubSeq(q, i + 1, n)
<1>1. n \in Nat /\ i \in 1..n /\ \A j \in 1..n : q[j] \in Sessions
  OBVIOUS
<1>2. /\ 1 \in Int /\ i - 1 \in Int /\ i + 1 \in Int /\ n \in Int
      /\ \A j \in 1..(i - 1) : q[j] \in Sessions
      /\ \A j \in (i + 1)..n : q[j] \in Sessions
  BY <1>1
<1>3. /\ a \in Seq(Sessions)
      /\ Len(a) = IF 1 <= i - 1 THEN i - 1 - 1 + 1 ELSE 0
      /\ \A j \in 1..i - 1 - 1 + 1 : a[j] = q[1 + j - 1]
  BY <1>2, SubSeqProperties
<1>4. /\ b \in Seq(Sessions)
      /\ Len(b) = IF i + 1 <= n THEN n - (i + 1) + 1 ELSE 0
      /\ \A j \in 1..n - (i + 1) + 1 : b[j] = q[i + 1 + j - 1]
  BY <1>2, SubSeqProperties
<1>5. RemoveAt(q, i) = a \o b
  BY DEF RemoveAt
<1>. HIDE DEF n, a, b
<1>6. Len(a) = i - 1 /\ \A j \in 1..(i - 1) : a[j] = q[j]
  BY <1>1, <1>3
<1>7. Len(b) = n - i /\ \A j \in 1..(n - i) : b[j] = q[i + j]
  BY <1>1, <1>4
<1>8. a \o b \in Seq(Sessions) /\ Len(a \o b) = Len(a) + Len(b)
  BY <1>3, <1>4, ConcatProperties
<1>9. \A j \in 1..Len(a) + Len(b) :
        (a \o b)[j] = IF j <= Len(a) THEN a[j] ELSE b[j - Len(a)]
  BY <1>3, <1>4, ConcatProperties
<1>10. Len(a) + Len(b) = n - 1
  BY <1>1, <1>6, <1>7
<1>11. ASSUME NEW j \in 1..(n - 1)
       PROVE  (a \o b)[j] = IF j < i THEN q[j] ELSE q[j + 1]
  <2>. DEFINE c == (a \o b)[j]
  <2>1. c = IF j <= i - 1 THEN a[j] ELSE b[j - (i - 1)]
    BY <1>6, <1>9, <1>10
  <2>. HIDE DEF c
  <2>2. ASSUME j < i PROVE c = q[j]
    BY <1>1, <1>6, <2>1, <2>2
  <2>3. ASSUME ~(j < i) PROVE c = q[j + 1]
    <3>1. j - (i - 1) \in 1..(n - i) /\ i + (j - (i - 1)) = j + 1 /\ ~(j <= i - 1)
      BY <1>1, <2>3
    <3>2. b[j - (i - 1)] = q[i + (j - (i - 1))]
      BY <1>7, <3>1
    <3>3. q[i + (j - (i - 1))] = q[j + 1]
      BY <3>1
    <3>4. c = b[j - (i - 1)]
      BY <2>1, <3>1
    <3>. QED  BY <3>2, <3>3, <3>4
  <2>4. c = IF j < i THEN q[j] ELSE q[j + 1]
    BY <2>2, <2>3
  <2>. QED  BY <2>4 DEF c
<1>. QED  BY <1>1, <1>5, <1>8, <1>10, <1>11 DEF n

(* ... and to the set of a list without repetitions.                       *)
LEMMA RemoveAtSet ==
  ASSUME NEW q \in Seq(Sessions), Unique(q), NEW i \in DOMAIN q
  PROVE  /\ RemoveAt(q, i) \in Seq(Sessions) /\ Len(RemoveAt(q, i)) = Len(q) - 1
         /\ Unique(RemoveAt(q, i))
         /\ ToSet(RemoveAt(q, i)) = ToSet(q) \ {q[i]}
         /\ \A j \in 1..(i - 1) : RemoveAt(q, i)[j] = q[j]
<1>1. PICK r : r = RemoveAt(q, i)
  OBVIOUS
<1>2. /\ Len(q) \in Nat /\ DOMAIN q = 1..Len(q)
      /\ r \in Seq(Sessions) /\ Len(r) = Len(q) - 1
      /\ \A j \in 1..(Len(q) - 1) : r[j] = IF j < i THEN q[j] ELSE q[j + 1]
  <2>1. /\ r \in Seq(Sessions) /\ Len(r) = Len(q) - 1
        /\ \A j \in 1..(Len(q) - 1) : r[j] = IF j < i THEN q[j] ELSE q[j + 1]
    BY <1>1, RemoveAtElements, Zenon
  <2>. QED  BY <2>1
<1>3. DOMAIN r = 1..(Len(q) - 1)
  BY <1>2
<1>4. Unique(r)
  <2>1. ASSUME NEW j \in 1..(Len(q) - 1), NEW k \in 1..(Len(q) - 1), r[j] = r[k]
        PROVE  j = k
    <3>1. /\ j \in DOMAIN q /\ j + 1 \in DOMAIN q /\ k \in DOMAIN q /\ k + 1 \in DOMAIN q
          /\ i \in Int /\ j \in Int /\ k \in Int
      BY <1>2
    <3>2. PICK a, b \in DOMAIN q : /\ a = (IF j < i THEN j ELSE j + 1) /\ r[j] = q[a]
                                  /\ b = (IF k < i THEN k ELSE k + 1) /\ r[k] = q[b]
      BY <1>2, <3>1
    <3>3. a = b
      BY <2>1, <3>2 DEF Unique
    <3>. QED  BY <3>1, <3>2, <3>3
  <2>. QED  BY <1>3, <2>1 DEF Unique
<1>5. ToSet(r) \subseteq ToSet(q) \ {q[i]}
  <2>1. \A j \in 1..(Len(q) - 1) : r[j] \in ToSet(q) \ {q[i]}
    BY <1>2 DEF Unique, ToSet
  <2>. QED  BY <1>3, <2>1 DEF ToSet
<1>6. ToSet(q) \ {q[i]} \subseteq ToSet(r)
  <2>1. ASSUME NEW j \in DOMAIN q, q[j] # q[i] PROVE q[j] \in ToSet(r)
    <3>1. CASE j < i
      <4>1. j \in DOMAIN r /\ r[j] = q[j]
        BY <1>2, <1>3, <3>1
      <4>. QED  BY <4>1 DEF ToSet
    <3>2. CASE j > i
      <4>1. j - 1 \in DOMAIN r /\ r[j - 1] = q[j]
        BY <1>2, <1>3, <3>2
      <4>. QED  BY <4>1 DEF ToSet
    <3>. QED  BY <1>2, <2>1, <3>1, <3>2
  <2>. QED  BY <2>1 DEF ToSet
<1>7. \A j \in 1..(i - 1) : r[j] = q[j]
  BY <1>2
<1>. QED  BY <1>1, <1>2, <1>4, <1>5, <1>6, <1>7

(* What appending a session that is not there does to such a list.         *)
LEMMA AppendSet ==
  ASSUME NEW q \in Seq(Sessions), Unique(q), NEW s \in Sessions, s \notin ToSet(q)
  PROVE  /\ Append(q, s) \in Seq(Sessions) /\ Len(Append(q, s)) = Len(q) + 1
         /\ Unique(Append(q, s)) /\ ToSet(Append(q, s)) = ToSet(q) \cup {s}
<1>1. PICK r : r = Append(q, s)
  OBVIOUS
<1>2. /\ Len(q) \in Nat /\ DOMAIN q = 1..Len(q) /\ DOMAIN r = 1..(Len(q) + 1)
      /\ r \in Seq(Sessions) /\ Len(r) = Len(q) + 1
      /\ r[Len(q) + 1] = s /\ \A j \in 1..Len(q) : r[j] = q[j]
  BY <1>1
<1>3. \A j \in 1..Len(q) : q[j] # s
  BY <1>2 DEF ToSet
<1>4. \A j \in DOMAIN r : j \in 1..Len(q) \/ j = Len(q) + 1
  BY <1>2
<1>5. Unique(r)
  BY <1>2, <1>3, <1>4 DEF Unique
<1>6. ToSet(r) \subseteq ToSet(q) \cup {s}
  BY <1>2, <1>4 DEF ToSet
<1>7. ToSet(q) \cup {s} \subseteq ToSet(r)
  <2>1. Len(q) + 1 \in DOMAIN r /\ \A j \in 1..Len(q) : j \in DOMAIN r
    BY <1>2
  <2>. QED  BY <1>2, <2>1 DEF ToSet
<1>. QED  BY <1>1, <1>2, <1>5, <1>6, <1>7

(* The sessions of the two lists.                                          *)
LEMMA ListedSessions == ASSUME Shape PROVE Listed \subseteq Sessions
BY DEF Shape, Listed, ToSet

(* The place of a session in the list.                                     *)
LEMMA PlaceOf ==
  ASSUME Shape, NEW s \in ToSet(active)
  PROVE  Place(s) \in DOMAIN active /\ active[Place(s)] = s
BY DEF Place, ToSet

-----------------------------------------------------------------------------
(* What the steps have in common.                                          *)

(* Steps that the manager takes among its own locals.                      *)
LEMMA ManagerSide ==
  ASSUME IInv, UNCHANGED <<late, mVars, nVars>>, m' \in Locals, Slots',
         m.at \notin {"sleep", "return"}, m'.at \notin {"sleep", "return"}
  PROVE  IInv' /\ Leaves
<1>. USE DEF IInv, mVars, nVars
<1>1. Shape' /\ HandleIds' /\ Numbered'
  BY DEF Shape, HandleIds, Numbered, Used
<1>2. Listed' = Listed
  BY DEF Listed
<1>3. Once'
  BY <1>2 DEF Once
<1>4. NoOrphan'
  BY <1>2 DEF NoOrphan, Spawning, Running
<1>5. Leaves
  BY <1>2 DEF Leaves
<1>. QED  BY <1>1, <1>3, <1>4, <1>5

(* Steps of the nodes, of the threads that watch them and of the clock.    *)
LEMMA NodeSide ==
  ASSUME IInv, UNCHANGED <<m, pending, active, map, doomed>>,
         late' \subseteq Sessions, dialled' \subseteq Sessions,
         held' \in [Sessions -> SUBSET Resources], proc' \in [Sessions -> States],
         hid' \in [Sessions -> Ids], HandleIds', Used' = Used,
         \A s \in Sessions :
           /\ proc'[s] \in {"none", "starting"} => proc[s] \in {"none", "starting"}
           /\ proc'[s] = "starting" \/ Running(s)' => proc[s] = "starting" \/ Running(s)
  PROVE  IInv' /\ Leaves
<1>. USE DEF IInv
<1>1. Shape' /\ Slots' /\ Numbered'
  BY DEF Shape, Slots, Numbered
<1>2. Listed' = Listed /\ Listed \subseteq Sessions
  BY ListedSessions DEF Listed
<1>3. Once'
  BY <1>2 DEF Once
<1>4. NoOrphan'
  BY <1>2 DEF NoOrphan, Spawning
<1>5. Leaves
  BY <1>2 DEF Leaves
<1>. QED  BY <1>1, <1>3, <1>4, <1>5

(* Destroying listed sessions: nothing of theirs is held but their sockets'*)
(* files, and no process of theirs runs.                                   *)
LEMMA FreeListed ==
  ASSUME IInv, NEW S \in SUBSET Listed, Free(S), hid' = hid
  PROVE  /\ proc' \in [Sessions -> States] /\ held' \in [Sessions -> SUBSET Resources]
         /\ doomed' \subseteq Sessions /\ doomed' = doomed \cup S
         /\ HandleIds' /\ Used' = Used
         /\ \A s \in Sessions :
              /\ proc'[s] \in {"none", "starting"} <=> proc[s] \in {"none", "starting"}
              /\ proc'[s] = "starting" <=> proc[s] = "starting"
              /\ Running(s)' => Running(s)
         /\ \A s \in S : held'[s] \subseteq {"path"} /\ ~Running(s)'
<1>. USE DEF IInv
<1>1. S \subseteq Sessions
  BY ListedSessions
<1>2. proc' \in [Sessions -> States] /\ held' \in [Sessions -> SUBSET Resources]
  BY DEF Shape, Free, Struck, States
<1>3. doomed' = doomed \cup S /\ doomed' \subseteq Sessions
  BY <1>1 DEF Free, Shape
<1>4. \A s \in Sessions : Running(s) => HandleActive(s)
  BY DEF HandleIds, Running, HandleActive, Sessions
<1>5. \A s \in Sessions : proc'[s] = IF s \in S /\ Running(s) THEN "exited" ELSE proc[s]
  BY <1>4 DEF Free, Struck
<1>6. \A s \in Sessions : held'[s] = IF s \in S THEN held[s] \cap {"path"} ELSE held[s]
  BY DEF Free
<1>7. HandleIds'
  BY <1>5 DEF HandleIds, Running
<1>8. Used' = Used
  <2>1. \A s \in S : proc[s] # "none" /\ proc'[s] # "none"
    BY <1>1, <1>5 DEF Once, Running
  <2>2. \A s \in Sessions \ S : proc'[s] = proc[s] /\ held'[s] = held[s]
    BY <1>5, <1>6
  <2>. QED  BY <1>1, <2>1, <2>2 DEF Used
<1>9. \A s \in Sessions :
        /\ proc'[s] \in {"none", "starting"} <=> proc[s] \in {"none", "starting"}
        /\ proc'[s] = "starting" <=> proc[s] = "starting"
        /\ Running(s)' => Running(s)
  BY <1>5 DEF Running
<1>10. \A s \in S : held'[s] \subseteq {"path"} /\ ~Running(s)'
  BY <1>1, <1>5, <1>6 DEF Running
<1>. QED  BY <1>2, <1>3, <1>7, <1>8, <1>9, <1>10

(* Sessions leave the lists as they are destroyed.                         *)
LEMMA Dropped ==
  ASSUME IInv, NEW S \in SUBSET Listed, Free(S), UNCHANGED <<hid, dialled>>,
         late' \subseteq Sessions, map' \in [Ids -> Ids], m' \in Locals, Slots',
         pending' \in Seq(Sessions), Unique(pending'), active' \in Seq(Sessions), Unique(active'),
         ToSet(pending') = ToSet(pending) \ S, ToSet(active') = ToSet(active) \ S,
         m.at \notin {"sleep", "return"}, m'.at \notin {"sleep", "return"}
  PROVE  IInv' /\ Leaves
<1>. USE DEF IInv
<1>1. /\ proc' \in [Sessions -> States] /\ held' \in [Sessions -> SUBSET Resources]
      /\ doomed' \subseteq Sessions /\ doomed' = doomed \cup S
      /\ HandleIds' /\ Used' = Used
  BY FreeListed
<1>2. \A s \in Sessions :
        /\ proc'[s] \in {"none", "starting"} <=> proc[s] \in {"none", "starting"}
        /\ proc'[s] = "starting" <=> proc[s] = "starting"
        /\ Running(s)' => Running(s)
  BY FreeListed
<1>3. \A s \in S : held'[s] \subseteq {"path"} /\ ~Running(s)'
  BY FreeListed
<1>4. Listed' = Listed \ S /\ Listed \subseteq Sessions
  BY ListedSessions DEF Listed
<1>5. Shape'
  BY <1>1 DEF Shape
<1>6. Numbered'
  BY <1>1 DEF Numbered
<1>7. Once'
  BY <1>2, <1>4 DEF Once
<1>8. NoOrphan'
  BY <1>1, <1>2, <1>4 DEF NoOrphan, Spawning
<1>9. Leaves
  BY <1>1, <1>3, <1>4 DEF Leaves
<1>. QED  BY <1>1, <1>5, <1>6, <1>7, <1>8, <1>9

-----------------------------------------------------------------------------
(* The steps.                                                              *)

(* What nodes, watching threads and the clock do.                          *)
LEMMA BesidesManager ==
  ASSUME IInv, NEW s \in Sessions, Watch(s) \/ Node(s) \/ Tick(s)
  PROVE  IInv' /\ Leaves
<1>. USE DEF IInv
<1>1. CASE Fork(s)
  <2>1. /\ UNCHANGED <<m, late, pending, active, map, doomed, held, dialled>>
        /\ proc[s] = "starting" /\ proc' = [proc EXCEPT ![s] = "up"]
        /\ hid' = [hid EXCEPT ![s] = s]
    BY <1>1 DEF Fork, Became, mVars
  <2>2. proc' \in [Sessions -> States] /\ hid' \in [Sessions -> Ids] /\ HandleIds'
    BY <2>1 DEF Shape, HandleIds, States, Ids, Sessions
  <2>3. Used' = Used
    BY <2>1 DEF Used, Shape
  <2>. QED  BY <2>1, <2>2, <2>3, NodeSide DEF Shape, Running
<1>2. CASE WaitedFor(s) \/ Ended(s)
  <2>1. /\ UNCHANGED <<m, late, pending, active, map, doomed, held, dialled>>
        /\ proc[s] \in {"exited", "waited"} /\ proc' \in [Sessions -> States]
        /\ \E state \in {"waited", "ended"} : proc' = [proc EXCEPT ![s] = state]
    BY <1>2 DEF WaitedFor, Ended, Became, Shape, States, mVars
  <2>2. hid' \in [Sessions -> Ids] /\ HandleIds'
    <3>1. 0 \in Ids
      BY IpcAssumption DEF Ids
    <3>2. CASE WaitedFor(s)
      BY <3>1, <3>2 DEF WaitedFor, Became, Shape, HandleIds
    <3>3. CASE Ended(s)
      BY <3>3 DEF Ended, Became, Shape, HandleIds
    <3>. QED  BY <1>2, <3>2, <3>3
  <2>3. Used' = Used
    BY <2>1 DEF Used, Shape
  <2>. QED  BY <2>1, <2>2, <2>3, NodeSide DEF Shape, Running
<1>3. CASE Dial(s)
  BY <1>3, NodeSide DEF Dial, Shape, HandleIds, mVars, Used, Running
<1>4. CASE NodeMap(s)
  BY <1>4, NodeSide DEF NodeMap, Became, Shape, HandleIds, States, mVars, Used, Running
<1>5. CASE NodeExit(s)
  BY <1>5, NodeSide DEF NodeExit, Became, Shape, HandleIds, States, mVars, Used, Running
<1>6. CASE NodeSendPacket(s) \/ NodeSendSignal(s)
  BY <1>6, NodeSide DEF NodeSendPacket, NodeSendSignal, nVars, Shape, HandleIds, mVars, Used,
    Running
<1>7. CASE NodeUpdate(s)
  <2>1. UNCHANGED <<m, late, pending, active, map, doomed, hid, dialled>> /\ proc[s] = "joined"
    BY <1>7 DEF NodeUpdate
  <2>2. CASE UNCHANGED <<held, proc>>
    BY <2>1, <2>2, NodeSide DEF Shape, HandleIds, Used, Running
  <2>3. CASE held' = [held EXCEPT ![s] = @ \ {"shm"}] /\ Became(s, "exited")
    BY <2>1, <2>3, NodeSide DEF Became, Shape, HandleIds, States, Used, Running
  <2>. QED  BY <1>7, <2>2, <2>3 DEF NodeUpdate
<1>8. CASE Tick(s)
  BY <1>8, NodeSide DEF Tick, nVars, Shape, HandleIds, mVars, Used, Running
<1>. QED  BY <1>1, <1>2, <1>3, <1>4, <1>5, <1>6, <1>7, <1>8 DEF Watch, Node

(* The manager's loops, where they change no session.                      *)
LEMMA ManagerLoops ==
  ASSUME IInv,
         \/ Update \/ PendDone \/ NotYet \/ Visit \/ PopPacket \/ PopNothing \/ RecvSignal
         \/ RecvNothing \/ UpdateDone \/ Scan
  PROVE  IInv' /\ Leaves
<1>. USE DEF IInv
<1>0. /\ m \in Locals /\ Len(pending) \in Nat /\ Len(active) \in Nat
      /\ DOMAIN active = 1..Len(active)
      /\ \A j \in DOMAIN active : active[j] \in Sessions
      /\ \A s \in Sessions : hid[s] \in Ids
      /\ late \in SUBSET Sessions /\ 0 \in Ids /\ Sessions \subseteq Ids
  BY IpcAssumption DEF Shape, Ids, Sessions
<1>1. CASE Update \/ Scan
  <2>1. PICK more \in BOOLEAN :
          m' = [m EXCEPT !.at = "pend", !.i = Len(pending), !.now = late, !.more = more]
    BY <1>1 DEF Update, Scan
  <2>2. m' \in Locals /\ m'.at = "pend" /\ m'.i = Len(pending)
    BY <1>0, <2>1 DEF Locals, Steps
  <2>. QED  BY <1>1, <2>2, ManagerSide DEF Update, Scan, At, Slots, mVars
<1>2. CASE PendDone
  <2>1. m' = [m EXCEPT !.at = "act", !.i = Len(active), !.now = {}]
    BY <1>2 DEF PendDone
  <2>2. m' \in Locals /\ m'.at = "act" /\ m'.i = Len(active)
    BY <1>0, <2>1 DEF Locals, Steps
  <2>. QED  BY <1>0, <1>2, <2>2, ManagerSide DEF PendDone, At, Slots, mVars
<1>3. CASE NotYet
  <2>1. m' = [m EXCEPT !.i = @ - 1] /\ m.i > 0 /\ m.at = "pend"
    BY <1>3 DEF NotYet, At
  <2>2. m' \in Locals /\ m'.at = "pend" /\ m'.i = m.i - 1 /\ m.i \in Nat
    BY <1>0, <2>1 DEF Locals
  <2>. QED  BY <1>0, <1>3, <2>1, <2>2, ManagerSide DEF NotYet, Slots, mVars
<1>4. CASE Visit
  <2>1. /\ m' = [m EXCEPT !.at = "drain", !.of = active[m.i], !.id = hid[active[m.i]],
                     !.moved = FALSE]
        /\ m.i > 0 /\ m.at = "act"
    BY <1>4 DEF Visit, At, Here
  <2>2. m.i \in DOMAIN active /\ active[m.i] \in Sessions
    BY <1>0, <2>1 DEF Slots, Locals
  <2>3. m' \in Locals /\ m'.at = "drain" /\ m'.i = m.i /\ m'.of = active[m.i]
    BY <1>0, <2>1, <2>2 DEF Locals, Steps
  <2>. QED  BY <1>4, <2>1, <2>2, <2>3, ManagerSide DEF Visit, Slots, mVars
<1>5. CASE PopPacket \/ PopNothing \/ RecvSignal
  <2>1. /\ UNCHANGED <<late, mVars, nVars>> /\ m.at \in {"drain", "recv"}
        /\ \E phase \in {"packet", "recv", "signal"} : m' = [m EXCEPT !.at = phase]
    BY <1>5 DEF PopPacket, PopNothing, RecvSignal, At, Go
  <2>. QED  BY <1>0, <2>1, ManagerSide DEF Locals, Steps, Slots, mVars
<1>6. CASE RecvNothing
  <2>1. /\ m' = [m EXCEPT !.at = "act", !.i = @ - 1, !.of = 0, !.id = 0, !.moved = FALSE]
        /\ m.at = "recv"
    BY <1>6 DEF RecvNothing, NextNode, At
  <2>2. m.i \in DOMAIN active /\ m.i - 1 \in Nat
    BY <1>0, <2>1 DEF Slots
  <2>3. m' \in Locals /\ m'.at = "act" /\ m'.i = m.i - 1
    BY <1>0, <2>1, <2>2 DEF Locals, Steps
  <2>. QED  BY <1>0, <1>6, <2>1, <2>2, <2>3, ManagerSide DEF RecvNothing, Slots, mVars
<1>7. CASE UpdateDone
  <2>1. /\ m' = [m EXCEPT !.at = IF m.more THEN "scan" ELSE "idle", !.of = 0, !.id = 0,
                     !.wait = IF m.more THEN @ ELSE 0, !.moved = FALSE]
        /\ m.at = "act"
    BY <1>7 DEF UpdateDone, At
  <2>2. m' \in Locals /\ m'.at \in {"scan", "idle"}
    BY <1>0, <2>1 DEF Locals, Steps
  <2>. QED  BY <1>7, <2>1, <2>2, ManagerSide DEF UpdateDone, Slots, mVars
<1>. QED  BY <1>1, <1>2, <1>3, <1>4, <1>5, <1>6, <1>7

(* Sending to a node, which may go away meanwhile.                         *)
LEMMA ManagerSends ==
  ASSUME IInv, NEW n \in Ids, SendPacket(n) \/ SendSignal(n) \/ WaitOnline(n)
  PROVE  IInv' /\ Leaves
<1>. USE DEF IInv
<1>1. /\ UNCHANGED <<late, mVars, nVars>> /\ m.at = "idle"
      /\ \/ m' = m \/ m' = [m EXCEPT !.at = "crashed"]
         \/ m' = [m EXCEPT !.at = "scan", !.wait = n]
  BY DEF SendPacket, SendSignal, WaitOnline, At, Go
<1>2. m' \in Locals /\ m'.at \in {"idle", "crashed", "scan"}
  BY <1>1 DEF Shape, Locals, Steps
<1>. QED  BY <1>1, <1>2, ManagerSide DEF Slots

(* The number of the next session is that of one never used.               *)
LEMMA NextIsFresh ==
  ASSUME IInv
  PROVE  /\ Next_sid \notin Used /\ Next_sid \in Nat
         /\ \E k \in Nat : Next_sid = k + 1 /\ Used = 1..k
<1>1. PICK k \in Nat : Used = 1..k
  BY DEF IInv, Numbered
<1>2. Cardinality(1..k) = k
  BY FS_Interval
<1>3. Next_sid = k + 1
  BY <1>1, <1>2 DEF Next_sid, Used
<1>. QED  BY <1>1, <1>3

(* spawn_node makes the session, whose number is the next, ...             *)
LEMMA Spawns ==
  ASSUME IInv, SpawnNode \/ SpawnFails
  PROVE  IInv' /\ Leaves
<1>. USE DEF IInv
<1>1. PICK s : s = Next_sid
  OBVIOUS
<1>2. PICK k \in Nat : Next_sid = k + 1 /\ Used = 1..k
  BY NextIsFresh
<1>3. s \in Sessions \ Used
  BY <1>1, <1>2 DEF SpawnNode, SpawnFails
<1>4. proc[s] = "none" /\ held[s] = {}
  BY <1>3 DEF Used
<1>5. PICK h \in SUBSET Resources : h # {} /\ held' = [held EXCEPT ![s] = h]
  BY <1>1 DEF SpawnNode, SpawnFails, Resources
<1>6. /\ UNCHANGED <<late, pending, active, map, doomed, hid, dialled>>
      /\ m.at = "idle"
  BY DEF SpawnNode, SpawnFails, At, nVars
<1>7. s \notin Listed /\ Listed' = Listed /\ Listed \subseteq Sessions
  BY <1>4, <1>6, ListedSessions DEF Once, Listed
<1>8. CASE SpawnNode
  <2>1. m' = [m EXCEPT !.at = "sleep", !.of = s] /\ proc' = [proc EXCEPT ![s] = "starting"]
    BY <1>1, <1>8 DEF SpawnNode, Became
  <2>2. m' \in Locals /\ m'.at = "sleep" /\ m'.of = s
    <3>1. s \in Ids
      BY <1>3 DEF Sessions, Ids
    <3>. QED  BY <2>1, <3>1 DEF Shape, Locals, Steps
  <2>3. Shape' /\ HandleIds' /\ Slots'
    BY <1>4, <1>5, <1>6, <2>1, <2>2 DEF Shape, HandleIds, Slots, States
  <2>4. Once'
    BY <1>3, <1>6, <1>7, <2>1, <2>2 DEF Once, Shape
  <2>5. Used' = Used \cup {s}
    BY <1>3, <1>5, <2>1 DEF Used, Shape
  <2>6. k + 1 \in Nat /\ Used' = 1..(k + 1)
    BY <1>1, <1>2, <2>5
  <2>7. NoOrphan'
    BY <1>6, <1>7, <2>1, <2>2 DEF NoOrphan, Spawning, Running, Shape
  <2>. QED  BY <1>7, <2>3, <2>4, <2>6, <2>7 DEF Numbered, Leaves
<1>9. CASE SpawnFails
  <2>1. m' = m /\ proc' = proc
    BY <1>9 DEF SpawnFails, nVars
  <2>2. Shape' /\ HandleIds' /\ Slots' /\ Once'
    BY <1>5, <1>6, <1>7, <2>1 DEF Shape, HandleIds, Slots, Once
  <2>3. Used' = Used \cup {s}
    BY <1>3, <1>5, <2>1 DEF Used, Shape
  <2>4. k + 1 \in Nat /\ Used' = 1..(k + 1)
    BY <1>1, <1>2, <2>3
  <2>5. NoOrphan'
    BY <1>6, <1>7, <2>1 DEF NoOrphan, Spawning, Running
  <2>. QED  BY <1>7, <2>2, <2>4, <2>5 DEF Numbered, Leaves
<1>. QED  BY <1>8, <1>9

(* ... and puts it on the list once the process was forked, or gives up.   *)
LEMMA SpawnEnds ==
  ASSUME IInv, SpawnCheck \/ SpawnReturn
  PROVE  IInv' /\ Leaves
<1>. USE DEF IInv
<1>1. /\ m.at \in {"sleep", "return"} /\ doomed = {} /\ m.of \in Sessions \ Listed
      /\ UNCHANGED <<late, active, map, held, proc, hid, dialled>>
  BY DEF SpawnCheck, SpawnReturn, At, Once, nVars
<1>2. 0 \in Ids /\ Listed \subseteq Sessions
  BY IpcAssumption, ListedSessions DEF Ids
<1>3. Used' = Used
  BY <1>1 DEF Used
<1>4. CASE SpawnCheck /\ HandleActive(m.of)
  <2>1. m' = [m EXCEPT !.at = "return"] /\ UNCHANGED <<doomed, pending>> /\ m.at = "sleep"
    BY <1>4 DEF SpawnCheck, Go, At
  <2>2. m' \in Locals /\ m'.at = "return" /\ m'.of = m.of /\ proc[m.of] \notin {"none", "starting"}
    BY <1>1, <1>4, <2>1 DEF Shape, Locals, Steps, HandleActive, HandleIds
  <2>3. Listed' = Listed
    BY <1>1, <2>1 DEF Listed
  <2>4. Shape' /\ HandleIds' /\ Slots' /\ Numbered'
    BY <1>1, <1>3, <2>1, <2>2 DEF Shape, HandleIds, Slots, Numbered
  <2>5. Once'
    BY <1>1, <2>1, <2>2, <2>3 DEF Once
  <2>6. NoOrphan' /\ Leaves
    BY <1>1, <2>1, <2>2, <2>3 DEF NoOrphan, Spawning, Running, Leaves
  <2>. QED  BY <2>4, <2>5, <2>6
<1>5. CASE SpawnCheck /\ ~HandleActive(m.of)
  <2>1. m' = [m EXCEPT !.at = "idle", !.of = 0] /\ doomed' = {m.of} /\ pending' = pending
    BY <1>5 DEF SpawnCheck
  <2>2. m' \in Locals /\ m'.at = "idle"
    BY <1>2, <2>1 DEF Shape, Locals, Steps
  <2>3. Listed' = Listed
    BY <1>1, <2>1 DEF Listed
  <2>4. Shape' /\ HandleIds' /\ Slots' /\ Numbered'
    BY <1>1, <1>3, <2>1, <2>2 DEF Shape, HandleIds, Slots, Numbered
  <2>5. Once'
    BY <1>1, <2>1, <2>2, <2>3 DEF Once
  <2>6. NoOrphan' /\ Leaves
    BY <1>1, <2>1, <2>2, <2>3 DEF NoOrphan, Spawning, Running, Leaves
  <2>. QED  BY <2>4, <2>5, <2>6
<1>6. CASE SpawnReturn
  <2>1. /\ m' = [m EXCEPT !.at = "idle", !.of = 0] /\ doomed' = doomed
        /\ pending' = Append(pending, m.of) /\ m.at = "return"
    BY <1>6 DEF SpawnReturn, At
  <2>2. m' \in Locals /\ m'.at = "idle"
    BY <1>2, <2>1 DEF Shape, Locals, Steps
  <2>3. m.of \notin ToSet(pending) /\ m.of \notin ToSet(active)
    BY <1>1 DEF Listed
  <2>4. /\ pending' \in Seq(Sessions) /\ Unique(pending')
        /\ ToSet(pending') = ToSet(pending) \cup {m.of}
    BY <1>1, <2>1, <2>3, AppendSet DEF Shape, Once
  <2>5. Listed' = Listed \cup {m.of}
    BY <1>1, <2>4 DEF Listed
  <2>6. Shape' /\ HandleIds' /\ Slots' /\ Numbered'
    BY <1>1, <1>3, <2>1, <2>2, <2>4 DEF Shape, HandleIds, Slots, Numbered
  <2>7. Once'
    BY <1>1, <2>1, <2>2, <2>3, <2>4, <2>5 DEF Once
  <2>8. NoOrphan' /\ Leaves
    BY <1>1, <2>1, <2>2, <2>5 DEF NoOrphan, Spawning, Running, Leaves
  <2>. QED  BY <2>6, <2>7, <2>8
<1>. QED  BY <1>4, <1>5, <1>6

(* A session that was destroyed is forgotten once its watching thread ended.*)
LEMMA JoinStep ==
  ASSUME IInv, Join
  PROVE  IInv' /\ Leaves
<1>. USE DEF IInv
<1>1. /\ doomed' = {} /\ \A s \in doomed : proc[s] = "ended"
      /\ UNCHANGED <<m, late, pending, active, map, held, proc, hid, dialled>>
  BY DEF Join, nVars
<1>2. Listed' = Listed
  BY <1>1 DEF Listed
<1>3. Shape' /\ HandleIds' /\ Slots' /\ Numbered'
  BY <1>1 DEF Shape, HandleIds, Slots, Numbered, Used
<1>4. Once'
  BY <1>1, <1>2 DEF Once
<1>5. NoOrphan' /\ Leaves
  BY <1>1, <1>2 DEF NoOrphan, Spawning, Running, Leaves
<1>. QED  BY <1>3, <1>4, <1>5

(* The three steps of the loop over the pending sessions.                  *)
LEMMA ExpireStep ==
  ASSUME IInv, NEW s \in Sessions, Expire(s)
  PROVE  IInv' /\ Leaves
<1>. USE DEF IInv
<1>1. /\ m.at = "pend" /\ m.i > 0 /\ s = pending[m.i] /\ Free({s})
      /\ pending' = RemoveAt(pending, m.i) /\ m' = [m EXCEPT !.i = @ - 1]
      /\ late' = late \ {s} /\ UNCHANGED <<active, map, hid, dialled>>
  BY DEF Expire, At
<1>2. m.i \in DOMAIN pending /\ m.i \in Nat /\ pending \in Seq(Sessions)
  BY <1>1 DEF Slots, Shape, Locals
<1>3. /\ pending' \in Seq(Sessions) /\ Len(pending') = Len(pending) - 1 /\ Unique(pending')
      /\ ToSet(pending') = ToSet(pending) \ {s}
  BY <1>1, <1>2, RemoveAtSet DEF Once
<1>4. m' \in Locals /\ m'.at = "pend" /\ m'.i = m.i - 1
  <2>1. m \in Locals /\ m.i - 1 \in Nat
    BY <1>1, <1>2 DEF Shape
  <2>. QED  BY <1>1, <2>1 DEF Locals
<1>5. Slots'
  BY <1>1, <1>2, <1>3, <1>4 DEF Slots
<1>6. s \in ToSet(pending) /\ {s} \in SUBSET Listed
  BY <1>1, <1>2 DEF ToSet, Listed
<1>7. ToSet(active') = ToSet(active) \ {s} /\ active' \in Seq(Sessions) /\ Unique(active')
  BY <1>1, <1>6 DEF Once, Shape
<1>8. late' \subseteq Sessions /\ map' \in [Ids -> Ids]
  BY <1>1 DEF Shape
<1>. QED  BY <1>1, <1>3, <1>4, <1>5, <1>6, <1>7, <1>8, Dropped

(* accept: the session goes to the other list in the next step.            *)
LEMMA AcceptStep ==
  ASSUME IInv, NEW s \in Sessions, Accept(s)
  PROVE  IInv' /\ Leaves
<1>. USE DEF IInv
<1>1. /\ m.at = "pend" /\ m.i > 0 /\ s = pending[m.i]
      /\ held' = [held EXCEPT ![s] = (@ \cup {"data"}) \ {"listener"}]
      /\ m' = [m EXCEPT !.at = "register", !.of = s]
      /\ UNCHANGED <<late, pending, active, map, doomed, proc, hid, dialled>>
  BY DEF Accept, At, nVars
<1>2. m.i \in DOMAIN pending /\ s \in Ids
  BY <1>1 DEF Slots, Shape, Locals, Sessions, Ids
<1>3. m' \in Locals /\ m'.at = "register" /\ m'.i = m.i /\ m'.of = s
  BY <1>1, <1>2 DEF Shape, Locals, Steps
<1>4. s \in Listed /\ Listed' = Listed
  BY <1>1, <1>2 DEF Listed, ToSet
<1>5. Used' = Used
  BY <1>1, <1>4 DEF Used, Once, Shape
<1>6. Shape' /\ HandleIds' /\ Slots' /\ Numbered'
  BY <1>1, <1>2, <1>3, <1>5 DEF Shape, HandleIds, Slots, Numbered, Resources
<1>7. Once'
  BY <1>1, <1>3, <1>4 DEF Once
<1>8. NoOrphan' /\ Leaves
  BY <1>1, <1>3, <1>4 DEF NoOrphan, Spawning, Running, Leaves
<1>. QED  BY <1>6, <1>7, <1>8

(* The session moves from the one list to the other.                       *)
LEMMA RegisterStep ==
  ASSUME IInv, Register
  PROVE  IInv' /\ Leaves
<1>. USE DEF IInv
<1>1. /\ m.at = "register" /\ active' = Append(active, m.of)
      /\ pending' = RemoveAt(pending, m.i) /\ map' = [map EXCEPT ![hid[m.of]] = m.of]
      /\ m' = [m EXCEPT !.at = "pend", !.i = @ - 1, !.of = 0] /\ late' = late \ {m.of}
      /\ UNCHANGED <<doomed, held, proc, hid, dialled>>
  BY DEF Register, At, nVars
<1>2. /\ pending \in Seq(Sessions) /\ active \in Seq(Sessions)
      /\ m.i \in DOMAIN pending /\ m.i - 1 \in Nat /\ pending[m.i] = m.of
  BY <1>1 DEF Slots, Shape, Locals
<1>3. m.of \in Sessions /\ m.of \in ToSet(pending) /\ m.of \notin ToSet(active)
  <2>1. m.of \in Sessions /\ m.of \in ToSet(pending)
    BY <1>2 DEF ToSet
  <2>. QED  BY <2>1 DEF Once
<1>4. /\ pending' \in Seq(Sessions) /\ Len(pending') = Len(pending) - 1 /\ Unique(pending')
      /\ ToSet(pending') = ToSet(pending) \ {m.of}
  <2>1. Unique(pending)
    BY DEF Once
  <2>2. PICK r : r = RemoveAt(pending, m.i)
    OBVIOUS
  <2>3. /\ r \in Seq(Sessions) /\ Len(r) = Len(pending) - 1 /\ Unique(r)
        /\ ToSet(r) = ToSet(pending) \ {m.of}
    BY <1>2, <2>1, <2>2, RemoveAtSet
  <2>. QED  BY <1>1, <2>2, <2>3
<1>5. /\ active' \in Seq(Sessions) /\ Unique(active')
      /\ ToSet(active') = ToSet(active) \cup {m.of}
  BY <1>1, <1>2, <1>3, AppendSet DEF Once
<1>6. Listed' = Listed
  BY <1>3, <1>4, <1>5 DEF Listed
<1>7. 0 \in Ids
  BY IpcAssumption DEF Ids
<1>8. m' \in Locals /\ m'.at = "pend" /\ m'.i = m.i - 1
  BY <1>1, <1>2, <1>7 DEF Shape, Locals, Steps
<1>9. m.of \in Ids /\ map' \in [Ids -> Ids]
  BY <1>1, <1>3 DEF Shape, Locals
<1>10. Shape' /\ HandleIds'
  BY <1>1, <1>4, <1>5, <1>8, <1>9 DEF Shape, HandleIds
<1>11. Slots'
  BY <1>2, <1>4, <1>8 DEF Slots
<1>12. Once'
  BY <1>1, <1>3, <1>4, <1>5, <1>6, <1>8 DEF Once
<1>13. Numbered' /\ NoOrphan' /\ Leaves
  BY <1>1, <1>6, <1>8 DEF Numbered, Used, NoOrphan, Spawning, Running, Leaves
<1>. QED  BY <1>10, <1>11, <1>12, <1>13

(* A connection that ended: the session leaves the slot that the loop is   *)
(* at.                                                                     *)
LEMMA DisconnectStep ==
  ASSUME IInv, Disconnect
  PROVE  IInv' /\ Leaves
<1>. USE DEF IInv
<1>1. /\ m.at = "recv" /\ Free({active[m.i]}) /\ active' = RemoveAt(active, m.i)
      /\ map' = [map EXCEPT ![m.id] = 0]
      /\ m' = [m EXCEPT !.at = "act", !.i = @ - 1, !.of = 0, !.id = 0, !.moved = FALSE]
      /\ UNCHANGED <<late, pending, hid, dialled>>
  BY DEF Disconnect, At, NextNode, Here
<1>2. active \in Seq(Sessions) /\ m.i \in DOMAIN active /\ m.i - 1 \in Nat
  BY <1>1 DEF Slots, Shape, Locals
<1>3. /\ active' \in Seq(Sessions) /\ Len(active') = Len(active) - 1 /\ Unique(active')
      /\ ToSet(active') = ToSet(active) \ {active[m.i]}
  BY <1>1, <1>2, RemoveAtSet DEF Once
<1>4. active[m.i] \in ToSet(active) /\ {active[m.i]} \in SUBSET Listed
  BY <1>2 DEF ToSet, Listed
<1>5. /\ ToSet(pending') = ToSet(pending) \ {active[m.i]} /\ pending' \in Seq(Sessions)
      /\ Unique(pending')
  BY <1>1, <1>4 DEF Once, Shape
<1>6. 0 \in Ids
  BY IpcAssumption DEF Ids
<1>7. m' \in Locals /\ m'.at = "act" /\ m'.i = m.i - 1
  BY <1>1, <1>2, <1>6 DEF Shape, Locals, Steps
<1>8. Slots'
  BY <1>2, <1>3, <1>7 DEF Slots
<1>9. late' \subseteq Sessions /\ map' \in [Ids -> Ids]
  BY <1>1, <1>6 DEF Shape
<1>. QED  BY <1>1, <1>3, <1>4, <1>5, <1>7, <1>8, <1>9, Dropped

(* shutdown_node, from wherever it is called: the session goes from its    *)
(* place in the list, and the places before that one keep their sessions.  *)
LEMMA ShutdownDrops ==
  ASSUME IInv, NEW n \in Ids, NEW next, Shutdown(n, next), next \in Locals,
         m.at \notin {"sleep", "return"}, next.at \notin {"sleep", "return"},
         Found(n) /\ ~Freed(n) => (next.at = "idle" \/ Slots'),
         ~Found(n) => (next.at = "idle" \/ next = m)
  PROVE  IInv' /\ Leaves
<1>. USE DEF IInv
<1>1. UNCHANGED <<late, hid, dialled>>
  BY DEF Shutdown
<1>2. CASE ~Found(n)
  <2>1. m' = next /\ UNCHANGED <<mVars, proc>>
    BY <1>2 DEF Shutdown
  <2>2. Slots'
    BY <1>2, <2>1 DEF Slots, mVars
  <2>. QED  BY <1>1, <2>1, <2>2, ManagerSide DEF nVars
<1>3. CASE Found(n) /\ Freed(n)
  <2>1. m' = [m EXCEPT !.at = "crashed"] /\ UNCHANGED <<mVars, proc>>
    BY <1>3 DEF Shutdown, Go
  <2>2. m' \in Locals /\ m'.at = "crashed"
    BY <2>1 DEF Shape, Locals, Steps
  <2>3. Slots'
    BY <2>2 DEF Slots
  <2>. QED  BY <1>1, <2>1, <2>2, <2>3, ManagerSide DEF nVars
<1>4. CASE Found(n) /\ ~Freed(n)
  <2>1. PICK s : s = map[n] /\ s \in ToSet(active)
    BY <1>4 DEF Freed
  <2>2. /\ Free({s}) /\ active' = RemoveAt(active, Place(s))
        /\ map' = [map EXCEPT ![n] = 0] /\ m' = next /\ UNCHANGED pending
    BY <1>4, <2>1 DEF Shutdown
  <2>3. Place(s) \in DOMAIN active /\ active[Place(s)] = s
    BY <2>1, PlaceOf
  <2>4. /\ active' \in Seq(Sessions) /\ Unique(active')
        /\ ToSet(active') = ToSet(active) \ {s}
    BY <2>2, <2>3, RemoveAtSet DEF Once, Shape
  <2>5. {s} \in SUBSET Listed
    BY <2>1 DEF Listed
  <2>6. /\ ToSet(pending') = ToSet(pending) \ {s} /\ pending' \in Seq(Sessions)
        /\ Unique(pending')
    BY <2>1, <2>2 DEF Once, Shape
  <2>7. 0 \in Ids
    BY IpcAssumption DEF Ids
  <2>8. late' \subseteq Sessions /\ map' \in [Ids -> Ids]
    BY <1>1, <2>2, <2>7 DEF Shape
  <2>9. Slots'
    BY <1>4, <2>2 DEF Slots
  <2>. QED  BY <1>1, <2>2, <2>4, <2>5, <2>6, <2>8, <2>9, Dropped
<1>. QED  BY <1>2, <1>3, <1>4

(* on_packet: while there is a place after the loop's, it is in the list   *)
(* also when one session has gone, and it holds the same one when that was *)
(* after it; where there is none the manager has crashed.                  *)
LEMMA OnPacketStep ==
  ASSUME IInv, OnPacket
  PROVE  IInv' /\ Leaves
<1>. USE DEF IInv
<1>1. m.at = "packet" /\ m \in Locals
  BY DEF OnPacket, At, Shape
<1>2. /\ active \in Seq(Sessions) /\ m.i \in DOMAIN active /\ (active[m.i] = m.of \/ m.moved)
      /\ m.i \in Nat /\ Len(active) \in Nat /\ DOMAIN active = 1..Len(active)
  BY <1>1 DEF Slots, Shape, Locals
<1>3. CASE m' = [m EXCEPT !.at = "drain"] /\ UNCHANGED <<late, mVars, nVars, ioVars>>
  BY <1>1, <1>2, <1>3, ManagerSide DEF Slots, mVars, Locals, Steps
<1>4. ASSUME NEW n \in Ids, Found(n),
             Shutdown(n, [m EXCEPT !.at = IF m.i < Len(active) THEN "drain" ELSE "crashed",
                                   !.moved = @ \/ Place(map[n]) <= m.i])
      PROVE  IInv' /\ Leaves
  <2>1. PICK next : next = [m EXCEPT !.at = IF m.i < Len(active) THEN "drain" ELSE "crashed",
                                     !.moved = @ \/ Place(map[n]) <= m.i]
    OBVIOUS
  <2>2. /\ next \in Locals /\ next.i = m.i /\ next.of = m.of
        /\ next.at = (IF m.i < Len(active) THEN "drain" ELSE "crashed")
        /\ next.moved = (m.moved \/ Place(map[n]) <= m.i)
    BY <1>1, <2>1 DEF Locals, Steps
  <2>3. ASSUME ~Freed(n) PROVE Slots'
    <3>1. PICK s : s = map[n] /\ s \in ToSet(active)
      BY <1>4, <2>3 DEF Freed
    <3>2. m' = next /\ active' = RemoveAt(active, Place(s))
      BY <1>4, <2>1, <2>3, <3>1 DEF Shutdown
    <3>3. Place(s) \in DOMAIN active
      BY <3>1, PlaceOf
    <3>4. Len(active') = Len(active) - 1 /\ active' \in Seq(Sessions)
          /\ \A j \in 1..(Place(s) - 1) : active'[j] = active[j]
      BY <1>2, <3>2, <3>3, RemoveAtSet DEF Once
    <3>5. CASE ~(m.i < Len(active))
      BY <2>2, <3>2, <3>5 DEF Slots
    <3>6. CASE m.i < Len(active)
      <4>1. m'.at = "drain" /\ m'.i = m.i /\ m'.of = m.of
            /\ m'.moved = (m.moved \/ Place(s) <= m.i)
        BY <2>2, <3>1, <3>2, <3>6
      <4>2. m.i \in DOMAIN active'
        BY <1>2, <3>4, <3>6
      <4>3. Place(s) <= m.i \/ active'[m.i] = active[m.i]
        BY <1>2, <3>3, <3>4
      <4>. QED  BY <1>2, <4>1, <4>2, <4>3 DEF Slots
    <3>. QED  BY <3>5, <3>6
  <2>4. next.at \notin {"sleep", "return"} /\ Shutdown(n, next)
    BY <1>4, <2>1, <2>2
  <2>. QED  BY <1>1, <1>4, <2>2, <2>3, <2>4, ShutdownDrops
<1>. QED  BY <1>3, <1>4 DEF OnPacket, Go

(* on_signal: the loop goes on from the place before, which is in the list *)
(* still.                                                                  *)
LEMMA OnSignalStep ==
  ASSUME IInv, OnSignal
  PROVE  IInv' /\ Leaves
<1>. USE DEF IInv
<1>1. m.at = "signal" /\ m \in Locals
  BY DEF OnSignal, At, Shape
<1>2. PICK next : next = NextNode
  OBVIOUS
<1>3. /\ active \in Seq(Sessions) /\ m.i \in DOMAIN active /\ m.i - 1 \in Nat
      /\ m.i - 1 <= Len(active) - 1
  BY <1>1 DEF Slots, Shape, Locals
<1>4. 0 \in Ids
  BY IpcAssumption DEF Ids
<1>5. next \in Locals /\ next.at = "act" /\ next.i = m.i - 1
  BY <1>1, <1>2, <1>3, <1>4 DEF NextNode, Locals, Steps
<1>6. CASE m' = next /\ UNCHANGED <<late, mVars, nVars, ioVars>>
  BY <1>1, <1>3, <1>5, <1>6, ManagerSide DEF Slots, mVars
<1>7. ASSUME NEW n \in Ids, Found(n), Shutdown(n, next)
      PROVE  IInv' /\ Leaves
  <2>1. ASSUME ~Freed(n) PROVE Slots'
    <3>1. PICK s : s = map[n] /\ s \in ToSet(active)
      BY <1>7, <2>1 DEF Freed
    <3>2. m' = next /\ active' = RemoveAt(active, Place(s))
      BY <1>7, <2>1, <3>1 DEF Shutdown
    <3>3. Place(s) \in DOMAIN active
      BY <3>1, PlaceOf
    <3>4. Len(active') = Len(active) - 1
      BY <1>3, <3>2, <3>3, RemoveAtSet DEF Once
    <3>. QED  BY <1>3, <1>5, <3>2, <3>4 DEF Slots
  <2>. QED  BY <1>1, <1>5, <1>7, <2>1, ShutdownDrops
<1>. QED  BY <1>2, <1>6, <1>7 DEF OnSignal

(* ~IpcManager.                                                            *)
LEMMA DestroyStep ==
  ASSUME IInv, Destroy
  PROVE  IInv' /\ Leaves
<1>. USE DEF IInv
<1>1. /\ m.at = "idle" /\ m' = [m EXCEPT !.at = "gone"] /\ Free(Listed)
      /\ active' = <<>> /\ pending' = <<>> /\ UNCHANGED <<late, map, hid, dialled>>
  <2>1. Listed = ToSet(active) \cup ToSet(pending)
    BY DEF Listed
  <2>. QED  BY <2>1 DEF Destroy, At, Go
<1>2. m' \in Locals /\ m'.at = "gone"
  BY <1>1 DEF Shape, Locals, Steps
<1>3. Slots'
  BY <1>2 DEF Slots
<1>4. /\ pending' \in Seq(Sessions) /\ Unique(pending') /\ ToSet(pending') = {}
      /\ active' \in Seq(Sessions) /\ Unique(active') /\ ToSet(active') = {}
  BY <1>1 DEF Unique, ToSet
<1>5. ToSet(pending') = ToSet(pending) \ Listed /\ ToSet(active') = ToSet(active) \ Listed
  BY <1>4 DEF Listed
<1>6. late' \subseteq Sessions /\ map' \in [Ids -> Ids]
  BY <1>1 DEF Shape
<1>. QED  BY <1>1, <1>2, <1>3, <1>4, <1>5, <1>6, Dropped

(* shutdown_node, by its caller and by the loop that meets a node that is  *)
(* gone.                                                                   *)
LEMMA ShutdownNodeStep ==
  ASSUME IInv, NEW n \in Ids, ShutdownNode(n)
  PROVE  IInv' /\ Leaves
<1>1. m.at = "idle" /\ Shutdown(n, m) /\ m \in Locals
  BY DEF ShutdownNode, At, IInv, Shape
<1>. QED  BY <1>1, ShutdownDrops

-----------------------------------------------------------------------------
(* No step breaks the invariant, and none drops a session that leaves      *)
(* something.                                                              *)
LEMMA NextKeeps == ASSUME IInv, Next PROVE IInv' /\ Leaves
<1>1. CASE \E s \in Sessions : Watch(s) \/ Node(s) \/ Tick(s)
  BY <1>1, BesidesManager
<1>2. CASE Join \/ SpawnCheck \/ SpawnReturn
  BY <1>2, JoinStep, SpawnEnds
<1>3. CASE UpdateSteps
  BY <1>3, ManagerLoops, RegisterStep, DisconnectStep, OnPacketStep, OnSignalStep, ExpireStep,
     AcceptStep DEF UpdateSteps
<1>4. CASE Calls
  BY <1>4, Spawns, ManagerLoops, DestroyStep, ShutdownNodeStep, ManagerSends DEF Calls
<1>. QED  BY <1>1, <1>2, <1>3, <1>4 DEF Next, Manager

(* The invariant holds at the start and is kept.                           *)
LEMMA Initially == ASSUME Init PROVE IInv
<1>1. 0 \in Ids
  BY IpcAssumption DEF Ids
<1>2. m \in Locals /\ m.at = "idle"
  BY <1>1 DEF Init, Locals, Steps
<1>3. Shape
  BY <1>1, <1>2 DEF Init, Shape, States
<1>4. ToSet(pending) = {} /\ ToSet(active) = {} /\ Unique(pending) /\ Unique(active)
  BY DEF Init, ToSet, Unique
<1>5. HandleIds /\ Slots
  BY <1>2 DEF Init, HandleIds, Slots
<1>6. Once
  BY <1>2, <1>4 DEF Once, Listed
<1>7. Used = 1..0
  BY DEF Init, Used
<1>8. NoOrphan
  BY DEF Init, NoOrphan, Running
<1>. QED  BY <1>3, <1>5, <1>6, <1>7, <1>8 DEF IInv, Numbered

LEMMA Inductive == IInv /\ [Next]_vars => IInv'
<1>1. CASE UNCHANGED vars
  <2>1. UNCHANGED <<m, late, pending, active, map, doomed, held, proc, hid, dialled>>
    BY <1>1 DEF vars, mVars, nVars
  <2>. QED  BY <2>1 DEF IInv, Shape, HandleIds, Slots, Once, Numbered, Used, NoOrphan, Spawning,
    Running, Listed
<1>. QED  BY <1>1, NextKeeps

(* The manager's lists, its loop and the processes of its sessions stay    *)
(* together, through spawns, updates, callbacks, shutdowns and ends.       *)
THEOREM Invariance == Spec => []IInv
<1>. QED  BY Initially, Inductive, PTL DEF Spec

(* update's place is in the list whatever callbacks shut down, and holds   *)
(* the session it began with unless an on_packet of the same visit shut    *)
(* down that one or one before it.                                         *)
THEOREM LoopKeepsItsSlot == Spec => []LoopSlotValid
<1>1. IInv => LoopSlotValid
  BY DEF IInv, Slots, LoopSlotValid, Here
<1>. QED  BY <1>1, Invariance, PTL

(* A session that leaves the lists, by whichever way, leaves no socket, no *)
(* mapping, no shared memory's name and no running process, and its thread *)
(* is joined: only its socket's file stays.                                *)
THEOREM SessionsLeaveOnlyPaths == Spec => OnlyPathIsLeft
<1>1. IInv /\ [Next]_vars => (\A s \in Listed : s \notin Listed' =>
        held'[s] \subseteq {"path"} /\ ~Running(s)' /\ s \in doomed')
  <2>1. CASE UNCHANGED vars
    BY <2>1 DEF vars, mVars, Listed
  <2>. QED  BY <2>1, NextKeeps DEF Leaves
<1>. QED  BY <1>1, Invariance, PTL DEF Spec, OnlyPathIsLeft

(* A node's process runs, or is about to be forked, only for a session that*)
(* the manager lists, is spawning or is joining.                           *)
THEOREM NoNodeIsOrphaned == Spec => []NoOrphan
<1>1. IInv => NoOrphan
  BY DEF IInv
<1>. QED  BY <1>1, Invariance, PTL

-----------------------------------------------------------------------------
(* Packets.                                                                *)

(* What a step leaves alone when it moves no packet.                       *)
LEMMA StreamsKept ==
  ASSUME Streams, UNCHANGED <<mino, sent, got>>
  PROVE  Streams'
BY DEF Streams

(* A packet sent goes to the end of the ring, ...                          *)
LEMMA SplitSend ==
  ASSUME NEW n, NEW g, NEW q, Split(n, g, q)
  PROVE  Split(n + 1, g, Append(q, n + 1))
<1>1. PICK r : r = Append(q, n + 1)
  OBVIOUS
<1>2. n \in Nat /\ g \in Seq(Nat) /\ q \in Seq(Nat) /\ Len(q) \in Nat /\ Len(q) <= n
  BY DEF Split
<1>3. /\ r \in Seq(Nat) /\ Len(r) = Len(q) + 1 /\ r[Len(q) + 1] = n + 1
      /\ \A k \in 1..Len(q) : r[k] = q[k]
  BY <1>1, <1>2
<1>4. (n + 1) - Len(r) = n - Len(q) /\ n + 1 \in Nat /\ Len(r) <= n + 1
  BY <1>2, <1>3
<1>5. ASSUME NEW k \in 1..Len(r) PROVE r[k] = n - Len(q) + k
  <2>1. k \in 1..Len(q) \/ k = Len(q) + 1
    BY <1>2, <1>3
  <2>2. ASSUME k \in 1..Len(q) PROVE r[k] = n - Len(q) + k
    BY <1>3, <2>2 DEF Split
  <2>3. ASSUME k = Len(q) + 1 PROVE r[k] = n - Len(q) + k
    BY <1>2, <1>3, <2>3
  <2>. QED  BY <2>1, <2>2, <2>3
<1>. QED  BY <1>1, <1>2, <1>3, <1>4, <1>5 DEF Split

(* ... one popped from its front goes to the end of what was delivered, ...*)
LEMMA SplitPop ==
  ASSUME NEW n, NEW g, NEW q, Split(n, g, q), q # <<>>
  PROVE  Split(n, Append(g, Head(q)), Tail(q))
<1>1. PICK f, r : f = Append(g, Head(q)) /\ r = Tail(q)
  OBVIOUS
<1>2. /\ n \in Nat /\ g \in Seq(Nat) /\ q \in Seq(Nat) /\ Len(g) \in Nat
      /\ Len(q) \in Nat \ {0} /\ Len(q) <= n
      /\ \A k \in 1..Len(q) : q[k] = n - Len(q) + k
  BY DEF Split
<1>3. PICK d \in Nat : d = n - Len(q)
  <2>1. n \in Nat /\ Len(q) \in Nat /\ Len(q) <= n
    BY <1>2
  <2>. QED  BY <2>1
<1>4. Head(q) = d + 1
  BY <1>2, <1>3
<1>5. /\ f \in Seq(Nat) /\ Len(f) = Len(g) + 1 /\ f[Len(g) + 1] = d + 1
      /\ \A k \in 1..Len(g) : f[k] = g[k]
  BY <1>1, <1>2, <1>4
<1>6. /\ r \in Seq(Nat) /\ Len(r) = Len(q) - 1 /\ Len(r) <= n /\ n - Len(r) = d + 1
      /\ \A k \in 1..Len(r) : r[k] = q[k + 1]
  <2>1. r \in Seq(Nat) /\ Len(r) = Len(q) - 1 /\ \A k \in 1..Len(r) : r[k] = q[k + 1]
    BY <1>1, <1>2
  <2>. QED  BY <1>2, <1>3, <2>1
<1>7. /\ \A p \in 1..d : \E k \in 1..Len(g) : g[k] = p
      /\ \A k \in 1..Len(g) : g[k] \in (IF EmptyPopIsTrue THEN 0 ELSE 1)..d
      /\ \A j, k \in 1..Len(g) : j < k /\ g[k] # 0 => g[j] < g[k]
  BY <1>3 DEF Split
<1>8. ASSUME NEW k \in 1..Len(r) PROVE r[k] = d + 1 + k
  <2>1. k + 1 \in 1..Len(q)
    BY <1>2, <1>6
  <2>2. q[k + 1] = n - Len(q) + (k + 1)
    BY <1>2, <2>1
  <2>. QED  BY <1>2, <1>3, <1>6, <2>2
<1>9. \A k \in 1..Len(f) : k \in 1..Len(g) \/ k = Len(g) + 1
  BY <1>2, <1>5
<1>10. ASSUME NEW p \in 1..(d + 1) PROVE \E k \in 1..Len(f) : f[k] = p
  <2>1. CASE p \in 1..d
    <3>1. PICK k \in 1..Len(g) : g[k] = p
      BY <1>7, <2>1
    <3>2. k \in 1..Len(f) /\ f[k] = p
      BY <1>2, <1>5, <3>1
    <3>. QED  BY <3>2
  <2>2. CASE p = d + 1
    <3>1. Len(g) + 1 \in 1..Len(f) /\ f[Len(g) + 1] = p
      BY <1>2, <1>5, <2>2
    <3>. QED  BY <3>1
  <2>. QED  BY <2>1, <2>2
<1>11. ASSUME NEW k \in 1..Len(f)
       PROVE  f[k] \in (IF EmptyPopIsTrue THEN 0 ELSE 1)..(d + 1)
  <2>1. CASE k \in 1..Len(g)
    <3>1. g[k] \in (IF EmptyPopIsTrue THEN 0 ELSE 1)..d
      BY <1>7, <2>1
    <3>. QED  BY <1>5, <2>1, <3>1
  <2>2. CASE k = Len(g) + 1
    BY <1>5, <2>2
  <2>. QED  BY <1>9, <2>1, <2>2
<1>12. ASSUME NEW j \in 1..Len(f), NEW k \in 1..Len(f), j < k, f[k] # 0
       PROVE  f[j] < f[k]
  <2>1. j \in 1..Len(g) /\ f[j] = g[j] /\ g[j] \in Nat /\ g[j] <= d
    <3>1. j \in 1..Len(g)
      <4>1. Len(g) \in Nat /\ Len(f) = Len(g) + 1
        BY <1>2, <1>5
      <4>. QED  BY <1>12, <4>1
    <3>2. g[j] \in (IF EmptyPopIsTrue THEN 0 ELSE 1)..d
      BY <1>7, <3>1
    <3>. QED  BY <1>5, <3>1, <3>2
  <2>2. CASE k \in 1..Len(g)
    BY <1>5, <1>7, <1>12, <2>1, <2>2
  <2>3. CASE k = Len(g) + 1
    BY <1>5, <2>1, <2>3
  <2>. QED  BY <1>9, <2>2, <2>3
<1>. QED  BY <1>1, <1>2, <1>3, <1>5, <1>6, <1>8, <1>10, <1>11, <1>12 DEF Split

(* ... and a call without a packet is seen as such.                        *)
LEMMA SplitEmpty ==
  ASSUME NEW n, NEW g, NEW q, Split(n, g, q), EmptyPopIsTrue = TRUE
  PROVE  Split(n, Append(g, 0), q)
<1>1. PICK f : f = Append(g, 0)
  OBVIOUS
<1>2. /\ n \in Nat /\ g \in Seq(Nat) /\ q \in Seq(Nat) /\ Len(g) \in Nat
      /\ Len(q) \in Nat /\ Len(q) <= n
  BY DEF Split
<1>3. PICK d \in Nat : d = n - Len(q)
  BY <1>2
<1>4. /\ f \in Seq(Nat) /\ Len(f) = Len(g) + 1 /\ f[Len(g) + 1] = 0
      /\ \A k \in 1..Len(g) : f[k] = g[k]
      /\ \A k \in 1..Len(f) : k \in 1..Len(g) \/ k = Len(g) + 1
      /\ \A k \in 1..Len(g) : k \in 1..Len(f)
  BY <1>1, <1>2
<1>5. /\ \A p \in 1..d : \E k \in 1..Len(g) : g[k] = p
      /\ \A k \in 1..Len(g) : g[k] \in 0..d
      /\ \A j, k \in 1..Len(g) : j < k /\ g[k] # 0 => g[j] < g[k]
  BY <1>3 DEF Split
<1>6. \A p \in 1..d : \E k \in 1..Len(f) : f[k] = p
  BY <1>4, <1>5
<1>7. \A k \in 1..Len(f) : f[k] \in 0..d
  BY <1>3, <1>4, <1>5
<1>8. ASSUME NEW j \in 1..Len(f), NEW k \in 1..Len(f), j < k, f[k] # 0
      PROVE  f[j] < f[k]
  <2>1. k \in 1..Len(g)
    BY <1>4, <1>8
  <2>2. j \in 1..Len(g)
    BY <1>2, <1>4, <1>8, <2>1
  <2>. QED  BY <1>4, <1>5, <1>8, <2>1, <2>2
<1>. QED  BY <1>1, <1>2, <1>3, <1>4, <1>6, <1>7, <1>8 DEF Split

(* The three kinds of step that change a stream.                           *)
LEMMA SendStep ==
  ASSUME Streams, DOMAIN sent = Sessions, DOMAIN mino = Sessions,
         NEW s \in Sessions, NodeSendPacket(s)
  PROVE  Streams'
<1>1. /\ sent' = [sent EXCEPT ![s] = @ + 1] /\ got' = got
      /\ mino' = [mino EXCEPT ![s] = Append(@, sent'[s])]
  BY DEF NodeSendPacket
<1>2. sent'[s] = sent[s] + 1 /\ mino'[s] = Append(mino[s], sent[s] + 1)
  BY <1>1
<1>3. Split(sent'[s], got'[s], mino'[s])
  BY <1>1, <1>2, SplitSend DEF Streams
<1>4. \A t \in Sessions \ {s} : sent'[t] = sent[t] /\ mino'[t] = mino[t] /\ got'[t] = got[t]
  BY <1>1
<1>. QED  BY <1>3, <1>4 DEF Streams

LEMMA PopStep ==
  ASSUME Streams, DOMAIN got = Sessions, DOMAIN mino = Sessions,
         Here \in Sessions, PopPacket
  PROVE  Streams'
<1>1. PICK s \in Sessions : s = Here
  OBVIOUS
<1>2. /\ mino[s] # <<>> /\ sent' = sent
      /\ got' = [got EXCEPT ![s] = Append(@, Head(mino[s]))]
      /\ mino' = [mino EXCEPT ![s] = Tail(@)]
  BY <1>1 DEF PopPacket
<1>3. got'[s] = Append(got[s], Head(mino[s])) /\ mino'[s] = Tail(mino[s])
  BY <1>2
<1>4. Split(sent'[s], got'[s], mino'[s])
  BY <1>2, <1>3, SplitPop DEF Streams
<1>5. \A t \in Sessions \ {s} : mino'[t] = mino[t] /\ got'[t] = got[t]
  BY <1>2
<1>. QED  BY <1>2, <1>4, <1>5 DEF Streams

LEMMA EmptyPopStep ==
  ASSUME Streams, DOMAIN got = Sessions, Here \in Sessions, EmptyPopIsTrue = TRUE, PopNothing
  PROVE  Streams'
<1>1. PICK s \in Sessions : s = Here
  OBVIOUS
<1>2. sent' = sent /\ mino' = mino /\ got' = [got EXCEPT ![s] = Append(@, 0)]
  BY <1>1 DEF PopNothing
<1>3. Split(sent'[s], got'[s], mino'[s])
  BY <1>2, SplitEmpty DEF Streams
<1>4. \A t \in Sessions \ {s} : got'[t] = got[t]
  BY <1>2
<1>. QED  BY <1>2, <1>3, <1>4 DEF Streams

(* The history and the rings are functions over the sessions.              *)
Kept == DOMAIN sent = Sessions /\ DOMAIN mino = Sessions /\ DOMAIN got = Sessions

(* The streams stay as they are in every other step.                       *)
LEMMA StreamsInductive ==
  ASSUME IInv, Streams, Kept, [Next]_vars
  PROVE  Streams' /\ Kept'
<1>1. CASE UNCHANGED <<mino, sent, got>>
  BY <1>1, StreamsKept DEF Kept
<1>2. CASE \E s \in Sessions : NodeSendPacket(s)
  BY <1>2, SendStep DEF Kept, NodeSendPacket
<1>3. CASE PopPacket
  <2>1. Here \in Sessions
    BY <1>3 DEF PopPacket, At, IInv, Shape, Slots, Here
  <2>. QED  BY <1>3, <2>1, PopStep DEF Kept, PopPacket
<1>4. CASE UNCHANGED vars
  BY <1>1, <1>4 DEF vars, ioVars
<1>5. CASE \E s \in Sessions : Watch(s) \/ Tick(s)
  BY <1>1, <1>5 DEF Watch, Fork, WaitedFor, Ended, Tick, ioVars
<1>6. CASE \E s \in Sessions : Node(s)
  BY <1>1, <1>2, <1>6 DEF Node, Dial, NodeMap, NodeExit, NodeSendSignal, NodeUpdate, ioVars
<1>7. CASE Join \/ SpawnCheck \/ SpawnReturn
  BY <1>1, <1>7 DEF Join, SpawnCheck, SpawnReturn, ioVars
<1>8. ASSUME NEW n, NEW next, Shutdown(n, next) PROVE UNCHANGED <<mino, sent, got>>
  BY <1>8 DEF Shutdown, ioVars
<1>9. CASE UpdateSteps
  <2>1. CASE OnPacket \/ OnSignal
    BY <1>1, <1>8, <2>1 DEF OnPacket, OnSignal, ioVars
  <2>2. CASE PopNothing
    <3>1. Here \in Sessions
      BY <2>2 DEF PopNothing, At, IInv, Shape, Slots, Here
    <3>2. CASE EmptyPopIsTrue = TRUE
      BY <2>2, <3>1, <3>2, EmptyPopStep DEF Kept, PopNothing
    <3>3. CASE EmptyPopIsTrue = FALSE
      BY <1>1, <2>2, <3>3 DEF PopNothing
    <3>. QED  BY <3>2, <3>3, IpcAssumption
  <2>3. CASE \/ PendDone \/ NotYet \/ Register \/ Visit \/ RecvSignal \/ RecvNothing
             \/ Disconnect \/ UpdateDone \/ Scan \/ \E s \in Sessions : Expire(s) \/ Accept(s)
    BY <1>1, <2>3 DEF PendDone, NotYet, Register, Visit, RecvSignal, RecvNothing, Disconnect,
      UpdateDone, Scan, Expire, Accept, ioVars
  <2>. QED  BY <1>3, <1>9, <2>1, <2>2, <2>3 DEF UpdateSteps
<1>10. CASE Calls
  <2>1. CASE \E n \in Ids : ShutdownNode(n)
    BY <1>1, <1>8, <2>1 DEF ShutdownNode
  <2>2. CASE \/ SpawnNode \/ SpawnFails \/ Update \/ Destroy
             \/ \E n \in Ids : SendPacket(n) \/ SendSignal(n) \/ WaitOnline(n)
    BY <1>1, <2>2 DEF SpawnNode, SpawnFails, Update, Destroy, SendPacket, SendSignal, WaitOnline,
      ioVars
  <2>. QED  BY <1>10, <2>1, <2>2 DEF Calls
<1>. QED  BY <1>4, <1>5, <1>6, <1>7, <1>9, <1>10 DEF Next, Manager

(* Every node's packets are delivered in order and once, for as long as    *)
(* they were in its ring and nothing else is but the calls without packet  *)
(* that an empty pop makes where it passes for a full one.                 *)
THEOREM PacketsArriveInOrder == Spec => []DeliveredInOrder
<1>1. Init => Streams /\ Kept
  <2>1. ASSUME Init PROVE Streams /\ Kept
    <3>1. \A s \in Sessions : sent[s] = 0 /\ got[s] = <<>> /\ mino[s] = <<>>
      BY <2>1 DEF Init
    <3>2. Split(0, <<>>, <<>>)
      BY DEF Split
    <3>. QED  BY <2>1, <3>1, <3>2 DEF Init, Streams, Kept
  <2>. QED  BY <2>1
<1>2. IInv /\ (Streams /\ Kept) /\ [Next]_vars => (Streams /\ Kept)'
  BY StreamsInductive
<1>3. Streams /\ Kept => DeliveredInOrder
  BY DEF Streams, Split, DeliveredInOrder
<1>. QED  BY <1>1, <1>2, <1>3, Invariance, PTL DEF Spec

=============================================================================
