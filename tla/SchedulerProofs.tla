--------------------------- MODULE SchedulerProofs ---------------------------
(***************************************************************************)
(* Proofs about Scheduler, for any number of workers, clients, tasks,      *)
(* schedules and tags.                                                     *)
(***************************************************************************)
EXTENDS Scheduler, FiniteSetTheorems, SequenceTheorems, WellFoundedInduction, TLAPS

(* The points at which a thread has a task in its hands, holds the mutex,  *)
(* or waits for a schedule; and those of a worker outside of any task.     *)
HandPoints == {"push", "run", "finish"}
LockPoints == {"block", "cancel"}
WaitPoints == {"check", "take", "reload", "park", "parked"}
LoopPoints == {"loop", "acquire", "block", "asleep"}
(* The points a call is made from.                                         *)
CallPoints == {"idle", "run", "loop", "check", "cancel"}

(* What a frame is about, and where in a stack it can be.                  *)
FrameOK(th, i, f) ==
  /\ f \in Frames
  /\ f.at \in LoopPoints <=> i = 1 /\ th \in Workers
  /\ f.at = "idle" <=> i = 1 /\ th \in Clients
  /\ f.at \in HandPoints \cup {"notify"} => f.of \in Tasks
  /\ f.at \in WaitPoints => f.of \in Schedules
  /\ f.at = "cancel" => f.of \in Tags

Framed ==
  /\ stack \in [Threads -> Seq(Frames)]
  /\ \A th \in Threads : \A i \in DOMAIN stack[th] :
       /\ FrameOK(th, i, stack[th][i])
       /\ i < Len(stack[th]) => stack[th][i].at \in CallPoints

(* Workers exist while they are registered.                                *)
Crewed == /\ registered \in {{}, Workers}
          /\ registered = {} => \A w \in Workers : stack[w] = <<>>

Stage(at) == CASE at = "push" -> "counted"
               [] at = "run" -> "running"
               [] at = "finish" -> "ran"

(* A task is in the hands of one thread, at the point its status speaks    *)
(* of, or of none.                                                         *)
Hand(th, i, at, t) == /\ i \in DOMAIN stack[th]
                      /\ stack[th][i].at = at
                      /\ stack[th][i].of = t
InHand(t) ==
  IF status[t] \in {"counted", "running", "ran"}
    THEN \E th \in Threads, i \in Nat, at \in HandPoints :
           /\ status[t] = Stage(at)
           /\ \A u \in Threads, j \in Nat, x \in HandPoints :
                Hand(u, j, x, t) <=> u = th /\ j = i /\ x = at
    ELSE \A u \in Threads, j \in Nat, x \in HandPoints : ~Hand(u, j, x, t)
Handed == \A t \in Tasks : InHand(t)

(* A queue has the tasks of S that are queued according to st, each once.  *)
QueueOf(q, S, st) ==
  /\ q \in Seq(Tasks)
  /\ \A i \in DOMAIN q : q[i] \in S /\ st[q[i]] = "queued"
  /\ \A i, j \in DOMAIN q : q[i] = q[j] => i = j
  /\ \A t \in S : st[t] = "queued" => \E i \in DOMAIN q : q[i] = t
Queues == QueueOf(high, High, status) /\ QueueOf(normal, Tasks \ High, status)

(* At most one frame holds the mutex, and a worker about to block has seen *)
(* both queues empty since.                                                *)
Locks ==
  /\ \A th \in Threads : \A i \in DOMAIN stack[th] :
       /\ stack[th][i].at \in LockPoints => mutex = th
       /\ stack[th][i].at = "block" => QueueEmpty
  /\ \A th \in Threads : \A i, j \in DOMAIN stack[th] :
       stack[th][i].at \in LockPoints /\ stack[th][j].at \in LockPoints => i = j

(* While a worker sleeps, every queued task has a thread that is about to  *)
(* wake one or to look at the queues.                                      *)
Rousing == {th \in Threads : At(th, "wake") \/ At(th, "acquire")}
Budget == Asleep # {} => Len(high) + Len(normal) <= Cardinality(Rousing)

(* A wait stands on the code of the schedule's owner, who needs it still.  *)
Waits ==
  \A th \in Threads : \A i \in DOMAIN stack[th] :
    stack[th][i].at \in WaitPoints =>
      /\ i > 1
      /\ lifetime[stack[th][i].of] = "open"
      /\ LET f == stack[th][i - 1]
         IN  \/ f.at = "idle" /\ th = Owner[stack[th][i].of]
             \/ f.at = "run" /\ f.of = Owner[stack[th][i].of]

Values ==
  /\ mutex \in Threads \cup {None}
  /\ counter \in [Schedules -> Int]
  /\ stop \subseteq Workers
  /\ status \in [Tasks -> {"new", "counted", "queued", "running", "ran",
                           "done", "cancelled"}]
  /\ lifetime \in [Schedules -> {"open", "waited", "destroyed"}]
  /\ lives \in 0 .. Lives /\ cancels \in 0 .. Cancels

IInv == /\ Values /\ Framed /\ Crewed
        /\ Handed /\ Queues
        /\ Accounting /\ WaitMeansDone
        /\ Locks /\ Budget /\ Waits

-----------------------------------------------------------------------------
(* How the stacks change.                                                  *)

(* In a step of thread th its stack keeps the first k frames and has m in  *)
(* the end, and no other stack changes.                                    *)
Keeps(th, k, m) ==
  /\ stack' \in [Threads -> Seq(Frames)]
  /\ \A u \in Threads : u # th => stack'[u] = stack[u]
  /\ Len(stack'[th]) = m
  /\ \A i \in 1 .. k : stack'[th][i] = stack[th][i]

(* The frames below the top one are a stack.                               *)
LEMMA BelowIsStack ==
  ASSUME stack \in [Threads -> Seq(Frames)], NEW th \in Threads, stack[th] # <<>>
  PROVE  /\ Len(stack[th]) \in Nat /\ Len(stack[th]) > 0
         /\ Top(th) \in Frames
         /\ Below(th) \in Seq(Frames) /\ Len(Below(th)) = Len(stack[th]) - 1
         /\ \A i \in 1 .. (Len(stack[th]) - 1) : Below(th)[i] = stack[th][i]
<1>1. stack[th] \in Seq(Frames) /\ Len(stack[th]) \in Nat /\ Len(stack[th]) > 0
  OBVIOUS
<1>2. Top(th) \in Frames /\ \A i \in 1 .. (Len(stack[th]) - 1) : stack[th][i] \in Frames
  BY <1>1 DEF Top
<1>3. /\ Below(th) \in Seq(Frames) /\ Len(Below(th)) = Len(stack[th]) - 1
      /\ \A i \in 1 .. (Len(stack[th]) - 1) : Below(th)[i] = stack[th][i]
  <2>. DEFINE n == Len(stack[th]) - 1
              b == SubSeq(stack[th], 1, n)
  <2>1. n \in Int /\ n >= 0 /\ 1 \in Int
    BY <1>1
  <2>2. /\ b \in Seq(Frames)
        /\ Len(b) = IF 1 <= n THEN n - 1 + 1 ELSE 0
        /\ \A i \in 1 .. n - 1 + 1 : b[i] = stack[th][1 + i - 1]
    BY <1>2, <2>1, SubSeqProperties
  <2>3. Below(th) = b
    BY DEF Below
  <2>. HIDE DEF n, b
  <2>4. /\ b \in Seq(Frames) /\ Len(b) = n
        /\ \A i \in 1 .. n : b[i] = stack[th][i]
    BY <2>1, <2>2
  <2>. QED  BY <2>3, <2>4 DEF n
<1>. QED  BY <1>1, <1>2, <1>3

(* The top frame is replaced.                                              *)
Replace(th, f) == [stack EXCEPT ![th] = Append(Below(th), f)]

(* What the replacement leaves and what it puts on top.                    *)
LEMMA ReplaceStack ==
  ASSUME stack \in [Threads -> Seq(Frames)], NEW th \in Threads, stack[th] # <<>>,
         NEW f \in Frames, stack' = Replace(th, f)
  PROVE  /\ Keeps(th, Len(stack[th]) - 1, Len(stack[th]))
         /\ stack'[th][Len(stack[th])] = f
<1>1. stack'[th] = Append(Below(th), f)
  BY DEF Replace
<1>. QED  BY <1>1, BelowIsStack DEF Replace, Keeps

(* The top frame is moved to another point.                                *)
LEMMA GotoStack ==
  ASSUME stack \in [Threads -> Seq(Frames)], NEW th \in Threads, stack[th] # <<>>,
         NEW at \in Points, stack' = Goto(th, at)
  PROVE  /\ Keeps(th, Len(stack[th]) - 1, Len(stack[th]))
         /\ stack'[th][Len(stack[th])] = [Top(th) EXCEPT !.at = at]
<1>. DEFINE f == [Top(th) EXCEPT !.at = at]
<1>1. f \in Frames
  BY BelowIsStack DEF Frames
<1>. QED  BY <1>1, ReplaceStack DEF Goto, Replace

(* The top frame is left.                                                  *)
LEMMA ReturnStack ==
  ASSUME stack \in [Threads -> Seq(Frames)], NEW th \in Threads, stack[th] # <<>>,
         stack' = Return(th)
  PROVE  Keeps(th, Len(stack[th]) - 1, Len(stack[th]) - 1)
BY BelowIsStack DEF Return, Keeps

(* A frame is put on top.                                                  *)
LEMMA CallStack ==
  ASSUME stack \in [Threads -> Seq(Frames)], NEW th \in Threads,
         NEW f \in Frames, stack' = Call(th, f)
  PROVE  /\ Keeps(th, Len(stack[th]), Len(stack[th]) + 1)
         /\ stack'[th][Len(stack[th]) + 1] = f
<1>1. stack'[th] = Append(stack[th], f)
  BY DEF Call
<1>2. stack[th] \in Seq(Frames)
  OBVIOUS
<1>. QED  BY <1>1, <1>2 DEF Call, Keeps

(* The top frame is moved to another point, from which it calls.           *)
LEMMA GotoCallStack ==
  ASSUME stack \in [Threads -> Seq(Frames)], NEW th \in Threads, stack[th] # <<>>,
         NEW at \in Points, NEW f \in Frames, stack' = GotoCall(th, at, f)
  PROVE  /\ Keeps(th, Len(stack[th]) - 1, Len(stack[th]) + 1)
         /\ stack'[th][Len(stack[th])] = [Top(th) EXCEPT !.at = at]
         /\ stack'[th][Len(stack[th]) + 1] = f
<1>. DEFINE g == [Top(th) EXCEPT !.at = at]
<1>1. g \in Frames
  BY BelowIsStack DEF Frames
<1>2. Append(Below(th), g) \in Seq(Frames)
  BY <1>1, BelowIsStack
<1>3. stack'[th] = Append(Append(Below(th), g), f)
  BY DEF GotoCall
<1>. QED  BY <1>1, <1>2, <1>3, BelowIsStack DEF GotoCall, Keeps

(* A thread that is at a point has a top frame.                            *)
LEMMA TopFrame ==
  ASSUME Framed, NEW th \in Threads, NEW at, At(th, at)
  PROVE  /\ stack \in [Threads -> Seq(Frames)] /\ stack[th] # <<>>
         /\ Len(stack[th]) \in Nat \ {0} /\ Len(stack[th]) \in DOMAIN stack[th]
         /\ DOMAIN stack[th] = 1 .. Len(stack[th])
         /\ Top(th) = stack[th][Len(stack[th])] /\ Top(th).at = at
         /\ Top(th) \in Frames
         /\ FrameOK(th, Len(stack[th]), Top(th))
<1>1. stack \in [Threads -> Seq(Frames)] /\ stack[th] # <<>>
  BY DEF Framed, At
<1>2. Len(stack[th]) \in Nat /\ Len(stack[th]) > 0 /\ Top(th) \in Frames
  BY <1>1, BelowIsStack
<1>3. DOMAIN stack[th] = 1 .. Len(stack[th])
  BY <1>1
<1>4. Len(stack[th]) \in DOMAIN stack[th]
  BY <1>2, <1>3
<1>. QED  BY <1>1, <1>2, <1>3, <1>4 DEF Framed, At, Top

(* What a step keeps that keeps k frames of one stack.                     *)
LEMMA FramedKept ==
  ASSUME Framed, NEW th \in Threads, NEW k \in Nat, NEW m \in Nat,
         k <= Len(stack[th]), Keeps(th, k, m), k <= m,
         \A i \in (k + 1) .. m : /\ FrameOK(th, i, stack'[th][i])
                                 /\ i < m => stack'[th][i].at \in CallPoints,
         k = 0 \/ k = m \/ stack[th][k].at \in CallPoints
  PROVE  Framed'
<1>1. stack \in [Threads -> Seq(Frames)] /\ stack' \in [Threads -> Seq(Frames)]
  BY DEF Framed, Keeps
<1>2. ASSUME NEW u \in Threads, NEW i \in DOMAIN stack'[u]
      PROVE  /\ FrameOK(u, i, stack'[u][i])
             /\ i < Len(stack'[u]) => stack'[u][i].at \in CallPoints
  <2>1. CASE u # th
    BY <2>1, <1>2 DEF Framed, Keeps
  <2>2. CASE u = th /\ i <= k
    <3>1. i \in DOMAIN stack[u] /\ stack'[u][i] = stack[u][i] /\ i \in Nat
      BY <1>1, <1>2, <2>2 DEF Keeps
    <3>2. i < Len(stack[th]) \/ i = k
      BY <1>1, <2>2, <3>1
    <3>. QED  BY <1>1, <2>2, <3>1, <3>2 DEF Framed, Keeps
  <2>3. CASE u = th /\ i > k
    BY <1>1, <1>2, <2>3 DEF Keeps
  <2>. QED  BY <1>1, <1>2, <2>1, <2>2, <2>3
<1>. QED  BY <1>1, <1>2 DEF Framed

SameHands(t) == \A u \in Threads, j \in Nat, x \in HandPoints :
                  Hand(u, j, x, t)' <=> Hand(u, j, x, t)

(* A step that touches no frame with t in it leaves t where it is.         *)
LEMMA HandsKept ==
  ASSUME Framed, NEW th \in Threads, NEW k \in Nat, NEW m \in Nat,
         k <= Len(stack[th]), Keeps(th, k, m), k <= m, NEW t \in Tasks,
         \A i \in (k + 1) .. Len(stack[th]) :
           ~(stack[th][i].at \in HandPoints /\ stack[th][i].of = t),
         \A i \in (k + 1) .. m :
           ~(stack'[th][i].at \in HandPoints /\ stack'[th][i].of = t)
  PROVE  SameHands(t)
<1>1. /\ stack[th] \in Seq(Frames) /\ stack'[th] \in Seq(Frames)
      /\ DOMAIN stack[th] = 1 .. Len(stack[th]) /\ DOMAIN stack'[th] = 1 .. m
      /\ Len(stack[th]) \in Nat
  BY DEF Framed, Keeps
<1>2. SUFFICES ASSUME NEW u \in Threads, NEW j \in Nat, NEW x \in HandPoints
               PROVE  Hand(u, j, x, t)' <=> Hand(u, j, x, t)
  BY DEF SameHands
<1>3. CASE u # th
  BY <1>3 DEF Keeps, Hand
<1>4. CASE u = th /\ j <= k
  BY <1>1, <1>4 DEF Keeps, Hand
<1>5. CASE u = th /\ j > k
  <2>1. ~Hand(u, j, x, t)
    BY <1>1, <1>5 DEF Hand
  <2>2. ~Hand(u, j, x, t)'
    BY <1>1, <1>5 DEF Hand
  <2>. QED  BY <2>1, <2>2
<1>. QED  BY <1>3, <1>4, <1>5

(* Such a step keeps what is said of t, if its status stays too.           *)
LEMMA InHandKept ==
  ASSUME NEW t \in Tasks, InHand(t), SameHands(t), status'[t] = status[t]
  PROVE  InHand(t)'
BY DEF InHand, SameHands

(* A step that takes no lock keeps what is said of those who hold it.      *)
LEMMA LocksKept ==
  ASSUME Framed, Locks, NEW th \in Threads, NEW k \in Nat, NEW m \in Nat,
         k <= Len(stack[th]), Keeps(th, k, m), k <= m,
         UNCHANGED mutex, None \notin Threads,
         mutex = None \/ (QueueEmpty => QueueEmpty'),
         \A i \in (k + 1) .. m : stack'[th][i].at \notin LockPoints
  PROVE  Locks'
<1>1. /\ stack[th] \in Seq(Frames) /\ stack'[th] \in Seq(Frames)
      /\ DOMAIN stack[th] = 1 .. Len(stack[th]) /\ DOMAIN stack'[th] = 1 .. m
      /\ Len(stack[th]) \in Nat
  BY DEF Framed, Keeps
<1>2. ASSUME NEW u \in Threads, NEW i \in DOMAIN stack'[u],
             stack'[u][i].at \in LockPoints
      PROVE  i \in DOMAIN stack[u] /\ stack[u][i] = stack'[u][i]
  <2>1. CASE u # th
    BY <1>2, <2>1 DEF Keeps
  <2>2. CASE u = th /\ i <= k
    BY <1>1, <1>2, <2>2 DEF Keeps
  <2>3. CASE u = th /\ i > k
    BY <1>1, <1>2, <2>3
  <2>. QED  BY <1>1, <1>2, <2>1, <2>2, <2>3
<1>3. ASSUME NEW u \in Threads, NEW i \in DOMAIN stack'[u],
             stack'[u][i].at \in LockPoints
      PROVE  /\ mutex' = u
             /\ stack'[u][i].at = "block" => QueueEmpty'
  BY <1>2, <1>3 DEF Locks
<1>4. ASSUME NEW u \in Threads, NEW i \in DOMAIN stack'[u],
             NEW j \in DOMAIN stack'[u],
             stack'[u][i].at \in LockPoints, stack'[u][j].at \in LockPoints
      PROVE  i = j
  BY <1>2, <1>4 DEF Locks
<1>. QED  BY <1>3, <1>4 DEF Locks, LockPoints

(* A step may leave a wait, or move it to another of its points.           *)
LEMMA WaitsKept ==
  ASSUME Framed, Waits, NEW th \in Threads, NEW k \in Nat, NEW m \in Nat,
         k <= Len(stack[th]), Keeps(th, k, m), k <= m,
         \A s \in Schedules : lifetime[s] = "open" => lifetime'[s] = "open",
         \A i \in (k + 1) .. m : stack'[th][i].at \in WaitPoints =>
           /\ i = k + 1 /\ i <= Len(stack[th])
           /\ stack[th][i].at \in WaitPoints /\ stack'[th][i].of = stack[th][i].of
  PROVE  Waits'
<1>1. /\ stack[th] \in Seq(Frames) /\ stack'[th] \in Seq(Frames)
      /\ DOMAIN stack[th] = 1 .. Len(stack[th]) /\ DOMAIN stack'[th] = 1 .. m
      /\ Len(stack[th]) \in Nat
      /\ stack \in [Threads -> Seq(Frames)]
  BY DEF Framed, Keeps
<1>2. ASSUME NEW u \in Threads, NEW i \in DOMAIN stack'[u],
             stack'[u][i].at \in WaitPoints
      PROVE  /\ i \in DOMAIN stack[u] /\ stack[u][i].at \in WaitPoints
             /\ stack'[u][i].of = stack[u][i].of
             /\ i > 1 => stack'[u][i - 1] = stack[u][i - 1]
  <2>1. CASE u # th
    BY <1>2, <2>1 DEF Keeps
  <2>2. CASE u = th /\ i <= k
    <3>1. i \in DOMAIN stack[u] /\ stack'[u][i] = stack[u][i]
      BY <1>1, <1>2, <2>2 DEF Keeps
    <3>2. i > 1 => i - 1 \in 1 .. k
      BY <1>1, <1>2, <2>2
    <3>. QED  BY <1>1, <1>2, <2>2, <3>1, <3>2 DEF Keeps
  <2>3. CASE u = th /\ i > k
    <3>1. i = k + 1 /\ i \in 1 .. Len(stack[th])
      BY <1>1, <1>2, <2>3
    <3>2. i > 1 => i - 1 \in 1 .. k
      BY <3>1
    <3>. QED  BY <1>1, <1>2, <2>3, <3>1, <3>2 DEF Keeps
  <2>. QED  BY <1>1, <1>2, <2>1, <2>2, <2>3
<1>3. ASSUME NEW u \in Threads, NEW i \in DOMAIN stack'[u],
             stack'[u][i].at \in WaitPoints
      PROVE  stack[u][i].of \in Schedules
  BY <1>2, <1>3 DEF Framed, FrameOK
<1>. QED  BY <1>2, <1>3 DEF Waits

(* Queues have lengths.                                                    *)
LEMMA QueueLengths ==
  ASSUME Queues
  PROVE  Len(high) \in Nat /\ Len(normal) \in Nat
BY DEF Queues, QueueOf

(* Those who rouse workers can be counted.                                 *)
LEMMA RousingFinite ==
  /\ IsFiniteSet(Threads) /\ IsFiniteSet(Rousing) /\ IsFiniteSet(Rousing')
  /\ Cardinality(Rousing) \in Nat /\ Cardinality(Rousing') \in Nat
<1>1. IsFiniteSet(Threads)
  BY ThreadAssumption, FS_Union DEF Threads
<1>2. Rousing \subseteq Threads /\ Rousing' \subseteq Threads
  BY DEF Rousing
<1>. QED  BY <1>1, <1>2, FS_Subset, FS_CardinalityType

(* Sleepers may only become fewer, and those who rouse them more.          *)
LEMMA BudgetKept ==
  ASSUME Budget, Queues, Asleep' \subseteq Asleep, Rousing \subseteq Rousing',
         UNCHANGED <<high, normal>>
  PROVE  Budget'
<1>1. Cardinality(Rousing) <= Cardinality(Rousing')
  BY RousingFinite, FS_Subset
<1>. QED  BY <1>1, RousingFinite, QueueLengths DEF Budget

(* A step of a thread that is not on its way to a queue or to wake one.    *)
LEMMA SleepersKept ==
  ASSUME NEW th \in Threads, NEW k, NEW m, Keeps(th, k, m),
         ~At(th, "asleep")', th \notin Rousing
  PROVE  Asleep' \subseteq Asleep /\ Rousing \subseteq Rousing'
<1>1. ASSUME NEW u \in Threads, u # th, NEW at
      PROVE  At(u, at)' <=> At(u, at)
  BY <1>1 DEF Keeps, At, Top
<1>. QED  BY <1>1 DEF Asleep, Rousing, Threads

-----------------------------------------------------------------------------
(* Steps that move no task.                                                *)

(* Whatever thread th does above its first k frames, as long as no task is *)
(* in its hands there before or after.                                     *)
LEMMA QuietMove ==
  ASSUME IInv, NEW th \in Threads, NEW k \in Nat, NEW m \in Nat,
         k <= Len(stack[th]), Keeps(th, k, m), k <= m,
         \A i \in (k + 1) .. m : /\ FrameOK(th, i, stack'[th][i])
                                 /\ i < m => stack'[th][i].at \in CallPoints
                                 /\ stack'[th][i].at \notin HandPoints,
         k = 0 \/ k = m \/ stack[th][k].at \in CallPoints,
         \A i \in (k + 1) .. Len(stack[th]) : stack[th][i].at \notin HandPoints,
         UNCHANGED <<high, normal, counter, status>>
  PROVE  Framed' /\ Handed' /\ Queues' /\ Accounting'
<1>1. Framed'
  BY FramedKept DEF IInv
<1>2. ASSUME NEW t \in Tasks PROVE InHand(t)'
  BY HandsKept, InHandKept DEF IInv, Handed
<1>3. Queues'
  BY DEF IInv, Queues, QueueOf
<1>4. Accounting'
  BY DEF IInv, Accounting, Outstanding
<1>. QED  BY <1>1, <1>2, <1>3, <1>4 DEF Handed

(* The top frame moves within the loop, a wait or the termination.         *)
LEMMA QuietReplace ==
  ASSUME IInv, NEW th \in Threads, NEW at, At(th, at), NEW to \in Points,
         NEW f \in Frames, f.at = to, f.of = Top(th).of, stack' = Replace(th, f),
         \/ at \in LoopPoints /\ to \in LoopPoints
         \/ at \in WaitPoints /\ to \in WaitPoints
         \/ at = "stop" /\ to = "join",
         UNCHANGED <<high, normal, counter, status, registered, lifetime>>
  PROVE  /\ Framed' /\ Handed' /\ Queues' /\ Accounting' /\ Crewed' /\ Waits'
         /\ to \notin LockPoints /\ UNCHANGED mutex => Locks'
         /\ at # "acquire" /\ to # "asleep" => Budget'
<1>. DEFINE n == Len(stack[th])
            k == n - 1
<1>1. /\ stack \in [Threads -> Seq(Frames)] /\ stack[th] # <<>>
      /\ n \in Nat \ {0} /\ DOMAIN stack[th] = 1 .. n
      /\ Top(th) = stack[th][n] /\ Top(th).at = at /\ Top(th) \in Frames
      /\ FrameOK(th, n, Top(th))
  BY TopFrame DEF IInv
<1>2. Keeps(th, k, n) /\ stack'[th][n] = f
  BY <1>1, ReplaceStack
<1>3. stack'[th][n].at = to /\ stack'[th][n].of = stack[th][n].of
  BY <1>1, <1>2 DEF Frames
<1>4. FrameOK(th, n, stack'[th][n]) /\ to \notin HandPoints /\ at \notin HandPoints
  BY <1>1, <1>2, <1>3 DEF FrameOK, Frames, HandPoints, WaitPoints, LoopPoints
<1>5. k = 0 \/ stack[th][k].at \in CallPoints
  BY <1>1 DEF IInv, Framed
<1>6. k \in Nat /\ n \in Nat /\ k <= n
  BY <1>1
<1>. HIDE DEF k
<1>7. ASSUME NEW i \in (k + 1) .. n
      PROVE  /\ FrameOK(th, i, stack'[th][i]) /\ i = k + 1
             /\ i < n => stack'[th][i].at \in CallPoints
             /\ stack'[th][i].at \notin HandPoints
             /\ stack[th][i].at \notin HandPoints
             /\ stack'[th][i].at = to /\ stack[th][i].at = at
             /\ stack'[th][i].of = stack[th][i].of
  <2>1. i = n /\ n = k + 1 /\ ~(i < n)
    BY <1>6 DEF k
  <2>. QED  BY <1>1, <1>3, <1>4, <2>1
<1>. HIDE DEF n
<1>8. k <= Len(stack[th])
  BY <1>6 DEF n
<1>9. \A i \in (k + 1) .. Len(stack[th]) : i <= n /\ stack[th][i].at \notin HandPoints
  BY <1>7 DEF n
<1>10. Framed' /\ Handed' /\ Queues' /\ Accounting'
  BY <1>2, <1>5, <1>6, <1>8, <1>9, <1>7, QuietMove
<1>11. Crewed'
  BY <1>1, <1>2 DEF IInv, Crewed, Keeps, Threads
<1>12. ASSUME NEW i \in (k + 1) .. n, stack'[th][i].at \in WaitPoints
       PROVE  i <= Len(stack[th]) /\ stack[th][i].at \in WaitPoints
  BY <1>7, <1>6, <1>12 DEF WaitPoints, LoopPoints, n
<1>13. Waits'
  BY <1>2, <1>6, <1>8, <1>7, <1>12, WaitsKept DEF IInv
<1>14. ASSUME to \notin LockPoints, UNCHANGED mutex
       PROVE  Locks'
  BY <1>2, <1>6, <1>8, <1>7, <1>14, LocksKept, ThreadAssumption
     DEF IInv, QueueEmpty
<1>15. ASSUME at # "acquire", to # "asleep"
       PROVE  Budget'
  <2>1. th \notin Rousing
    BY <1>1, <1>15 DEF Rousing, At, WaitPoints, LoopPoints
  <2>2. ~At(th, "asleep")'
    BY <1>2, <1>3, <1>15 DEF At, Top, Keeps
  <2>. QED  BY <1>2, <2>1, <2>2, SleepersKept, BudgetKept DEF IInv
<1>. QED  BY <1>10, <1>11, <1>13, <1>14, <1>15

(* The same, in the words of the model.                                    *)
LEMMA QuietGoto ==
  ASSUME IInv, NEW th \in Threads, NEW at, At(th, at), NEW to \in Points,
         stack' = Goto(th, to),
         \/ at \in LoopPoints /\ to \in LoopPoints
         \/ at \in WaitPoints /\ to \in WaitPoints
         \/ at = "stop" /\ to = "join",
         UNCHANGED <<high, normal, counter, status, registered, lifetime>>
  PROVE  /\ Framed' /\ Handed' /\ Queues' /\ Accounting' /\ Crewed' /\ Waits'
         /\ to \notin LockPoints /\ UNCHANGED mutex => Locks'
         /\ at # "acquire" /\ to # "asleep" => Budget'
<1>. DEFINE f == [Top(th) EXCEPT !.at = to]
<1>0. Top(th) \in Frames
  BY TopFrame DEF IInv
<1>1. f \in Frames /\ f.at = to /\ f.of = Top(th).of
  BY <1>0 DEF Frames
<1>2. stack' = Replace(th, f)
  BY DEF Goto, Replace
<1>. HIDE DEF f
<1>. QED  BY <1>1, <1>2, QuietReplace

(* The top frame is left, and no task was in it.                           *)
LEMMA QuietReturn ==
  ASSUME IInv, NEW th \in Threads, NEW at, At(th, at),
         stack' = Return(th), at \notin HandPoints,
         UNCHANGED <<high, normal, counter, status>>
  PROVE  /\ Framed' /\ Handed' /\ Queues' /\ Accounting'
         /\ UNCHANGED registered => Crewed'
         /\ UNCHANGED lifetime => Waits'
         /\ UNCHANGED mutex => Locks'
         /\ at \notin {"acquire", "wake"} => Budget'
<1>. DEFINE n == Len(stack[th])
            k == n - 1
<1>1. /\ stack \in [Threads -> Seq(Frames)] /\ stack[th] # <<>>
      /\ n \in Nat \ {0} /\ DOMAIN stack[th] = 1 .. n
      /\ Top(th) = stack[th][n] /\ Top(th).at = at /\ Top(th) \in Frames
  BY TopFrame DEF IInv
<1>2. Keeps(th, k, k)
  BY <1>1, ReturnStack
<1>3. /\ k \in Nat /\ n \in Nat /\ k < n /\ k <= n /\ n = Len(stack[th])
      /\ \A i \in (k + 1) .. n : i = n
  BY <1>1
<1>4. \A i \in (k + 1) .. k : FALSE
  BY <1>1
<1>5. k = 0 \/ stack[th][k].at \in CallPoints
  <2>1. k # 0 => k \in DOMAIN stack[th] /\ k < Len(stack[th])
    BY <1>1
  <2>. QED  BY <2>1 DEF IInv, Framed
<1>6. k \in Nat /\ k <= Len(stack[th])
  BY <1>1
<1>7. \A i \in (k + 1) .. Len(stack[th]) : stack[th][i].at \notin HandPoints
  BY <1>1, <1>3
<1>. HIDE DEF n, k
<1>8. Framed' /\ Handed' /\ Queues' /\ Accounting'
  BY <1>2, <1>4, <1>5, <1>6, <1>7, QuietMove
<1>9. ASSUME UNCHANGED registered PROVE Crewed'
  BY <1>1, <1>2, <1>9 DEF IInv, Crewed, Keeps, Threads
<1>10. ASSUME UNCHANGED lifetime PROVE Waits'
  BY <1>2, <1>4, <1>6, <1>10, WaitsKept DEF IInv
<1>11. ASSUME UNCHANGED mutex PROVE Locks'
  BY <1>2, <1>4, <1>6, <1>11, LocksKept, ThreadAssumption
     DEF IInv, QueueEmpty
<1>12. ASSUME at \notin {"acquire", "wake"} PROVE Budget'
  <2>1. th \notin Rousing
    BY <1>1, <1>12 DEF Rousing, At
  <2>2. ~At(th, "asleep")'
    <3>1. Len(stack'[th]) = k
      BY <1>2 DEF Keeps
    <3>2. k > 0 => stack'[th][k] = stack[th][k]
      BY <1>2, <1>3 DEF Keeps
    <3>3. stack'[th] # <<>> => k > 0
      BY <1>2, <1>3, <3>1 DEF Keeps
    <3>. QED  BY <1>5, <3>1, <3>2, <3>3 DEF At, Top, CallPoints
  <2>. QED  BY <1>2, <2>1, <2>2, SleepersKept, BudgetKept DEF IInv
<1>. QED  BY <1>8, <1>9, <1>10, <1>11, <1>12

(* A call that takes no task in its hands.                                 *)
LEMMA QuietCall ==
  ASSUME IInv, NEW th \in Threads, NEW at, At(th, at), NEW f \in Frames,
         stack' = Call(th, f), at \in CallPoints,
         FrameOK(th, Len(stack[th]) + 1, f), f.at \notin HandPoints,
         UNCHANGED <<high, normal, counter, status, registered, lifetime>>
  PROVE  /\ Framed' /\ Handed' /\ Queues' /\ Accounting' /\ Crewed' /\ Budget'
         /\ f.at \notin WaitPoints => Waits'
         /\ UNCHANGED mutex /\ f.at \notin LockPoints => Locks'
<1>. DEFINE n == Len(stack[th])
<1>1. /\ stack \in [Threads -> Seq(Frames)] /\ stack[th] # <<>>
      /\ n \in Nat \ {0} /\ DOMAIN stack[th] = 1 .. n
      /\ Top(th) = stack[th][n] /\ Top(th).at = at /\ Top(th) \in Frames
  BY TopFrame DEF IInv
<1>2. Keeps(th, n, n + 1) /\ stack'[th][n + 1] = f
  BY <1>1, CallStack
<1>3. n + 1 \in Nat /\ n \in Nat /\ \A i \in (n + 1) .. (n + 1) : i = n + 1
  BY <1>1
<1>4. \A i \in (n + 1) .. n : FALSE
  BY <1>1
<1>. HIDE DEF n
<1>5. Framed' /\ Handed' /\ Queues' /\ Accounting'
  BY <1>1, <1>2, <1>3, <1>4, QuietMove DEF n
<1>6. Crewed'
  BY <1>1, <1>2 DEF IInv, Crewed, Keeps, Threads, n
<1>7. ASSUME f.at \notin WaitPoints PROVE Waits'
  BY <1>1, <1>2, <1>3, <1>7, WaitsKept DEF IInv, n
<1>8. ASSUME UNCHANGED mutex, f.at \notin LockPoints PROVE Locks'
  BY <1>1, <1>2, <1>3, <1>8, LocksKept, ThreadAssumption
     DEF IInv, n, QueueEmpty
<1>9. Budget'
  <2>1. th \notin Rousing
    BY <1>1 DEF Rousing, At, CallPoints
  <2>2. ~At(th, "asleep")'
    BY <1>1, <1>2, <1>3 DEF At, Top, Keeps, FrameOK, LoopPoints, n
  <2>. QED  BY <1>2, <2>1, <2>2, SleepersKept, BudgetKept DEF IInv
<1>. QED  BY <1>5, <1>6, <1>7, <1>8, <1>9

(* The rest of the invariant, where the variables it is about do not change. *)
LEMMA RestKept ==
  ASSUME IInv, UNCHANGED <<status, lifetime, counter, stop, lives, cancels>>,
         mutex' \in Threads \cup {None}
  PROVE  Values' /\ WaitMeansDone'
BY DEF IInv, Values, WaitMeansDone, Outstanding

(* The steps of a wait that neither end it nor take a task.                *)
LEMMA WaitSteps ==
  ASSUME IInv, NEW th \in Threads,
         \/ WaitCheck(th) \/ WaitNothing(th) \/ WaitReload(th) \/ WaitPark(th)
  PROVE  IInv'
<1>1. UNCHANGED <<high, normal, mutex, counter, stop, registered, status,
                  lifetime, lives, cancels>>
  BY DEF WaitCheck, WaitNothing, WaitReload, WaitPark
<1>2. Values' /\ WaitMeansDone'
  BY <1>1, RestKept DEF IInv, Values
<1>. USE DEF WaitPoints, LockPoints, Points
<1>3. CASE WaitCheck(th)
  BY <1>1, <1>2, <1>3, QuietGoto DEF WaitCheck, IInv
<1>4. CASE WaitNothing(th)
  BY <1>1, <1>2, <1>4, QuietGoto DEF WaitNothing, IInv
<1>5. CASE WaitPark(th)
  BY <1>1, <1>2, <1>5, QuietGoto DEF WaitPark, IInv
<1>6. CASE WaitReload(th)
  <2>. DEFINE v == counter[Top(th).of]
              f == [at |-> "park", of |-> Top(th).of, val |-> v]
  <2>1. CASE ~(v > 0)
    BY <1>1, <1>2, <1>6, <2>1, QuietGoto DEF WaitReload, IInv
  <2>2. CASE v > 0
    <3>1. At(th, "reload")
      BY <1>6 DEF WaitReload
    <3>2. Top(th) \in Frames /\ Top(th).of \in Schedules
      BY <3>1, TopFrame DEF IInv, FrameOK
    <3>3. f \in Frames /\ f.at = "park" /\ f.of = Top(th).of
      BY <3>2 DEF Frames, IInv, Values
    <3>4. stack' = Replace(th, f)
      BY <1>6, <2>2 DEF WaitReload, Replace
    <3>. HIDE DEF f
    <3>. QED  BY <1>1, <1>2, <3>1, <3>3, <3>4, QuietReplace DEF IInv
  <2>. QED  BY <2>1, <2>2
<1>. QED  BY <1>3, <1>4, <1>5, <1>6

(* The steps of schedule_worker_loop that take no task.                    *)
LEMMA LoopSteps ==
  ASSUME IInv, NEW w \in Workers,
         \/ WorkerLoop(w) \/ WorkerExit(w) \/ WorkerDecide(w) \/ WorkerBlock(w)
  PROVE  IInv'
<1>1. UNCHANGED <<high, normal, counter, stop, registered, status,
                  lifetime, lives, cancels>>
  BY DEF WorkerLoop, WorkerExit, WorkerDecide, WorkerBlock
<1>2. w \in Threads
  BY DEF Threads
<1>3. mutex' \in Threads \cup {None}
  BY <1>2 DEF WorkerLoop, WorkerExit, WorkerDecide, WorkerBlock, IInv, Values
<1>4. Values' /\ WaitMeansDone'
  BY <1>1, <1>3, RestKept
<1>. USE DEF LoopPoints, Points
<1>5. CASE WorkerLoop(w)
  <2>1. CASE w \in stop
    BY <1>1, <1>2, <1>4, <1>5, <2>1, QuietReturn DEF WorkerLoop, IInv, HandPoints
  <2>2. CASE w \notin stop
    BY <1>1, <1>2, <1>4, <1>5, <2>2, QuietGoto DEF WorkerLoop, IInv, LockPoints
  <2>. QED  BY <2>1, <2>2
<1>6. CASE WorkerExit(w)
  <2>1. high' = <<>> /\ normal' = <<>> /\ Len(high') + Len(normal') = 0
    BY <1>1, <1>6 DEF WorkerExit, QueueEmpty
  <2>2. Budget'
    BY <2>1, RousingFinite DEF Budget
  <2>. QED
    BY <1>1, <1>2, <1>4, <1>6, <2>2, QuietReturn DEF WorkerExit, IInv, HandPoints
<1>7. CASE WorkerDecide(w)
  <2>1. high' = <<>> /\ normal' = <<>> /\ Len(high') + Len(normal') = 0
    BY <1>1, <1>7 DEF WorkerDecide, QueueEmpty
  <2>2. Budget'
    BY <2>1, RousingFinite DEF Budget
  <2>3. Locks'
    <3>1. At(w, "acquire") /\ mutex = None /\ stack' = Goto(w, "block") /\ mutex' = w
      BY <1>7 DEF WorkerDecide
    <3>2. \A u \in Threads : \A i \in DOMAIN stack[u] : stack[u][i].at \notin LockPoints
      BY <3>1, ThreadAssumption DEF IInv, Locks
    <3>3. /\ Keeps(w, Len(stack[w]) - 1, Len(stack[w]))
          /\ Len(stack[w]) \in Nat \ {0}
          /\ stack \in [Threads -> Seq(Frames)]
      BY <1>2, <3>1, TopFrame, GotoStack DEF IInv
    <3>4. ASSUME NEW u \in Threads, NEW i \in DOMAIN stack'[u],
                 stack'[u][i].at \in LockPoints
          PROVE  u = w /\ i = Len(stack[w])
      <4>1. CASE u # w
        BY <3>2, <3>3, <3>4, <4>1 DEF Keeps
      <4>2. CASE u = w /\ i # Len(stack[w])
        <5>1. i \in 1 .. (Len(stack[w]) - 1) /\ i \in DOMAIN stack[w]
          BY <1>2, <3>3, <3>4, <4>2 DEF Keeps
        <5>. QED  BY <3>2, <3>3, <3>4, <4>2, <5>1 DEF Keeps
      <4>. QED  BY <4>1, <4>2
    <3>. QED  BY <2>1, <3>1, <3>4 DEF Locks, QueueEmpty
  <2>. QED
    BY <1>1, <1>2, <1>4, <1>7, <2>2, <2>3, QuietGoto DEF WorkerDecide, IInv
<1>8. CASE WorkerBlock(w)
  <2>1. At(w, "block") /\ mutex' = None /\ stack' = Goto(w, "asleep")
    BY <1>8 DEF WorkerBlock
  <2>2. /\ Keeps(w, Len(stack[w]) - 1, Len(stack[w]))
        /\ stack'[w][Len(stack[w])].at = "asleep"
        /\ Len(stack[w]) \in Nat \ {0} /\ Len(stack[w]) \in DOMAIN stack[w]
        /\ stack[w][Len(stack[w])].at = "block"
        /\ stack \in [Threads -> Seq(Frames)]
    <3>1. /\ Len(stack[w]) \in Nat \ {0} /\ Len(stack[w]) \in DOMAIN stack[w]
          /\ stack[w][Len(stack[w])].at = "block" /\ stack[w] # <<>>
          /\ stack \in [Threads -> Seq(Frames)] /\ Top(w) \in Frames
      BY <1>2, <2>1, TopFrame DEF IInv
    <3>2. /\ Keeps(w, Len(stack[w]) - 1, Len(stack[w]))
          /\ stack'[w][Len(stack[w])] = [Top(w) EXCEPT !.at = "asleep"]
      BY <1>2, <2>1, <3>1, GotoStack
    <3>3. [Top(w) EXCEPT !.at = "asleep"].at = "asleep"
      BY <3>1 DEF Frames
    <3>. QED  BY <3>1, <3>2, <3>3
  <2>3. QueueEmpty /\ mutex = w
    BY <1>2, <2>2 DEF IInv, Locks, LockPoints
  <2>4. Len(high') + Len(normal') = 0
    BY <1>1, <2>3 DEF QueueEmpty
  <2>5. Budget'
    BY <2>4, RousingFinite DEF Budget
  <2>6. Locks'
    <3>1. ASSUME NEW u \in Threads, NEW i \in DOMAIN stack'[u],
                 stack'[u][i].at \in LockPoints
          PROVE  FALSE
      <4>1. CASE u # w
        BY <2>2, <2>3, <3>1, <4>1 DEF Keeps, IInv, Locks
      <4>2. CASE u = w /\ i # Len(stack[w])
        <5>1. i \in 1 .. (Len(stack[w]) - 1) /\ i \in DOMAIN stack[w]
          BY <1>2, <2>2, <3>1, <4>2 DEF Keeps
        <5>. QED  BY <1>2, <2>2, <3>1, <4>2, <5>1 DEF Keeps, IInv, Locks, LockPoints
      <4>3. CASE u = w /\ i = Len(stack[w])
        BY <2>2, <3>1, <4>3 DEF LockPoints
      <4>. QED  BY <4>1, <4>2, <4>3
    <3>. QED  BY <3>1 DEF Locks, LockPoints
  <2>. QED
    BY <1>1, <1>2, <1>4, <2>1, <2>5, <2>6, QuietGoto DEF IInv
<1>. QED  BY <1>5, <1>6, <1>7, <1>8

(* A call that takes the mutex, and one that gives it back.                *)
LEMMA CancelEnds ==
  ASSUME IInv, NEW th \in Threads,
         (\E tag \in Tags : CancelTag(th, tag)) \/ CancelReturn(th)
  PROVE  IInv'
<1>1. UNCHANGED <<high, normal, counter, stop, registered, status, lifetime, lives>>
  BY DEF CancelTag, CancelReturn
<1>2. Values' /\ WaitMeansDone'
  BY <1>1, BoundAssumption
     DEF CancelTag, CancelReturn, IInv, Values, WaitMeansDone, Outstanding
<1>3. ASSUME NEW tag \in Tags, CancelTag(th, tag) PROVE IInv'
  <2>. DEFINE f == Frame("cancel", tag)
  <2>1. /\ mutex = None /\ mutex' = th /\ stack' = Call(th, f)
        /\ At(th, "idle") \/ At(th, "run")
    BY <1>3 DEF CancelTag
  <2>2. f \in Frames /\ f.at = "cancel" /\ f.of = tag
    BY DEF Frame, Frames, Points
  <2>. HIDE DEF f
  <2>3. stack \in [Threads -> Seq(Frames)] /\ Len(stack[th]) \in Nat \ {0}
    BY <2>1, TopFrame DEF IInv
  <2>4. FrameOK(th, Len(stack[th]) + 1, f)
    BY <2>2, <2>3 DEF FrameOK, LoopPoints, WaitPoints, HandPoints
  <2>5. Locks'
    <3>1. \A u \in Threads : \A i \in DOMAIN stack[u] : stack[u][i].at \notin LockPoints
      BY <2>1, ThreadAssumption DEF IInv, Locks
    <3>2. Keeps(th, Len(stack[th]), Len(stack[th]) + 1)
          /\ stack'[th][Len(stack[th]) + 1] = f
      BY <2>1, <2>2, <2>3, CallStack
    <3>3. ASSUME NEW u \in Threads, NEW i \in DOMAIN stack'[u],
                 stack'[u][i].at \in LockPoints
          PROVE  u = th /\ i = Len(stack[th]) + 1
      <4>1. CASE u # th
        BY <3>1, <3>2, <3>3, <4>1 DEF Keeps
      <4>2. CASE u = th /\ i # Len(stack[th]) + 1
        <5>1. i \in 1 .. Len(stack[th]) /\ i \in DOMAIN stack[th]
          BY <2>3, <3>2, <3>3, <4>2 DEF Keeps
        <5>. QED  BY <2>3, <3>1, <3>2, <3>3, <4>2, <5>1 DEF Keeps
      <4>. QED  BY <4>1, <4>2
    <3>. QED  BY <2>1, <2>2, <3>2, <3>3 DEF Locks, LockPoints
  <2>. QED
    BY <1>1, <1>2, <2>1, <2>2, <2>4, <2>5, QuietCall
       DEF IInv, CallPoints, WaitPoints, HandPoints
<1>4. CASE CancelReturn(th)
  <2>1. At(th, "cancel") /\ mutex' = None /\ stack' = Return(th)
    BY <1>4 DEF CancelReturn
  <2>2. /\ Len(stack[th]) \in Nat \ {0} /\ Len(stack[th]) \in DOMAIN stack[th]
        /\ stack[th][Len(stack[th])].at = "cancel" /\ stack[th] # <<>>
        /\ stack \in [Threads -> Seq(Frames)]
    BY <2>1, TopFrame DEF IInv
  <2>3. mutex = th
    BY <2>2 DEF IInv, Locks, LockPoints
  <2>4. Keeps(th, Len(stack[th]) - 1, Len(stack[th]) - 1)
    BY <2>1, <2>2, ReturnStack
  <2>5. Locks'
    <3>1. ASSUME NEW u \in Threads, NEW i \in DOMAIN stack'[u],
                 stack'[u][i].at \in LockPoints
          PROVE  FALSE
      <4>1. CASE u # th
        BY <2>3, <2>4, <3>1, <4>1 DEF Keeps, IInv, Locks
      <4>2. CASE u = th
        <5>1. i \in 1 .. (Len(stack[th]) - 1) /\ i \in DOMAIN stack[th]
          BY <2>2, <2>4, <3>1, <4>2 DEF Keeps
        <5>. QED  BY <2>2, <2>4, <3>1, <4>2, <5>1 DEF Keeps, IInv, Locks, LockPoints
      <4>. QED  BY <4>1, <4>2
    <3>. QED  BY <3>1 DEF Locks, LockPoints
  <2>. QED
    BY <1>1, <1>2, <2>1, <2>5, QuietReturn DEF IInv, HandPoints
<1>. QED  BY <1>3, <1>4

(* No schedule is waited for twice at a time.                              *)
LEMMA OneWait ==
  ASSUME IInv, NEW th \in Threads, NEW u \in Threads,
         NEW i \in DOMAIN stack[th], NEW j \in DOMAIN stack[u],
         stack[th][i].at \in WaitPoints, stack[u][j].at \in WaitPoints,
         stack[th][i].of = stack[u][j].of
  PROVE  th = u /\ i = j
<1>. DEFINE s == stack[th][i].of
            f == stack[th][i - 1]
            g == stack[u][j - 1]
<1>1. /\ \/ f.at = "idle" /\ th = Owner[s]
         \/ f.at = "run" /\ f.of = Owner[s]
      /\ \/ g.at = "idle" /\ u = Owner[s]
         \/ g.at = "run" /\ g.of = Owner[s]
      /\ i > 1 /\ j > 1
  BY DEF IInv, Waits
<1>2. stack[th] \in Seq(Frames) /\ stack[u] \in Seq(Frames)
  BY DEF IInv, Framed
<1>3. /\ i - 1 \in DOMAIN stack[th] /\ j - 1 \in DOMAIN stack[u]
      /\ i - 1 \in Nat /\ j - 1 \in Nat /\ i \in Nat /\ j \in Nat
  BY <1>1, <1>2
<1>4. /\ FrameOK(th, i - 1, f) /\ FrameOK(u, j - 1, g)
  BY <1>3 DEF IInv, Framed
<1>5. CASE f.at = "idle" /\ g.at = "idle"
  <2>1. i - 1 = 1 /\ j - 1 = 1 /\ th = u
    BY <1>1, <1>4, <1>5 DEF FrameOK
  <2>. QED  BY <2>1, <1>3
<1>6. CASE ~(f.at = "idle" <=> g.at = "idle")
  <2>1. Owner[s] \in Clients /\ Owner[s] \in Tasks
    BY <1>1, <1>4, <1>6 DEF FrameOK, HandPoints
  <2>. QED  BY <2>1, TaskAssumption
<1>7. CASE f.at # "idle" /\ g.at # "idle"
  <2>1. f.at = "run" /\ g.at = "run" /\ f.of = Owner[s] /\ g.of = Owner[s]
    BY <1>1, <1>7
  <2>2. Owner[s] \in Tasks
    BY <1>4, <2>1 DEF FrameOK, HandPoints
  <2>3. Hand(th, i - 1, "run", Owner[s]) /\ Hand(u, j - 1, "run", Owner[s])
    BY <1>3, <2>1 DEF Hand
  <2>4. InHand(Owner[s])
    BY <2>2 DEF IInv, Handed
  <2>5. th = u /\ i - 1 = j - 1
    BY <1>3, <2>3, <2>4 DEF InHand, HandPoints
  <2>. QED  BY <2>5, <1>3
<1>. QED  BY <1>5, <1>6, <1>7

(* The outstanding tasks of a schedule can be counted.                     *)
LEMMA OutstandingFinite ==
  \A s : IsFiniteSet(Outstanding(s)) /\ Cardinality(Outstanding(s)) \in Nat
<1>1. ASSUME NEW s PROVE Outstanding(s) \subseteq Tasks
  BY DEF Outstanding
<1>. QED  BY <1>1, TaskAssumption, FS_Subset, FS_CardinalityType

(* wait_for_schedule_completion is called, and returns.                    *)
LEMMA WaitEnds ==
  ASSUME IInv, NEW th \in Threads,
         (\E s \in Schedules : WaitCall(th, s)) \/ WaitReturn(th)
  PROVE  IInv'
<1>1. UNCHANGED <<high, normal, mutex, counter, stop, registered, status,
                  lives, cancels>>
  BY DEF WaitCall, WaitReturn
<1>2. ASSUME NEW s \in Schedules, WaitCall(th, s) PROVE IInv'
  <2>. DEFINE f == Frame("check", s)
  <2>1. /\ Runs(th, Owner[s]) /\ lifetime[s] = "open" /\ stack' = Call(th, f)
        /\ UNCHANGED lifetime
    BY <1>2 DEF WaitCall
  <2>2. f \in Frames /\ f.at = "check" /\ f.of = s
    BY DEF Frame, Frames, Points
  <2>. HIDE DEF f
  <2>3. PICK at \in {"idle", "run"} : At(th, at)
    BY <2>1 DEF Runs
  <2>4. /\ stack \in [Threads -> Seq(Frames)] /\ Len(stack[th]) \in Nat \ {0}
        /\ Top(th) = stack[th][Len(stack[th])]
    BY <2>3, TopFrame DEF IInv
  <2>5. FrameOK(th, Len(stack[th]) + 1, f)
    BY <2>2, <2>4 DEF FrameOK, LoopPoints, WaitPoints, HandPoints
  <2>6. Values' /\ WaitMeansDone'
    BY <1>1, <2>1, RestKept DEF IInv, Values
  <2>7. Keeps(th, Len(stack[th]), Len(stack[th]) + 1)
        /\ stack'[th][Len(stack[th]) + 1] = f
    BY <2>1, <2>2, <2>4, CallStack
  <2>8. Waits'
    <3>. DEFINE n == Len(stack[th])
    <3>0. n \in 1 .. n /\ n \in Nat /\ n + 1 > 1 /\ n + 1 - 1 = n
      BY <2>4
    <3>1. stack'[th][n] = Top(th)
      BY <2>4, <2>7, <3>0 DEF Keeps
    <3>2. \/ Top(th).at = "idle" /\ th = Owner[s]
          \/ Top(th).at = "run" /\ Top(th).of = Owner[s]
      BY <2>1 DEF Runs, At
    <3>3. ASSUME NEW u \in Threads, NEW i \in DOMAIN stack'[u],
                 u # th \/ i # n + 1
          PROVE  /\ i \in DOMAIN stack[u] /\ stack'[u][i] = stack[u][i]
                 /\ i > 1 => stack'[u][i - 1] = stack[u][i - 1]
      <4>1. CASE u # th
        BY <2>7, <3>3, <4>1 DEF Keeps
      <4>2. CASE u = th /\ i # n + 1
        <5>1. i \in 1 .. n /\ i \in DOMAIN stack[th]
          BY <2>4, <2>7, <3>3, <4>2 DEF Keeps
        <5>2. i > 1 => i - 1 \in 1 .. n
          BY <5>1, <2>4
        <5>. QED  BY <2>7, <4>2, <5>1, <5>2 DEF Keeps
      <4>. QED  BY <3>3, <4>1, <4>2
    <3>. HIDE DEF n
    <3>4. stack'[th][n + 1] = f
      BY <2>7 DEF n
    <3>5. ASSUME NEW u \in Threads, NEW i \in DOMAIN stack'[u],
                 stack'[u][i].at \in WaitPoints
          PROVE  /\ i > 1
                 /\ lifetime'[stack'[u][i].of] = "open"
                 /\ LET g == stack'[u][i - 1]
                    IN  \/ g.at = "idle" /\ u = Owner[stack'[u][i].of]
                        \/ g.at = "run" /\ g.of = Owner[stack'[u][i].of]
      <4>1. CASE u = th /\ i = n + 1
        BY <2>1, <2>2, <3>0, <3>1, <3>2, <3>4, <4>1
      <4>2. CASE u # th \/ i # n + 1
        BY <2>1, <3>3, <3>5, <4>2 DEF IInv, Waits
      <4>. QED  BY <4>1, <4>2
    <3>. QED  BY <3>5 DEF Waits
  <2>. QED
    BY <1>1, <2>1, <2>2, <2>3, <2>5, <2>6, <2>8, QuietCall
       DEF IInv, CallPoints, HandPoints, LockPoints
<1>3. CASE WaitReturn(th)
  <2>. DEFINE s == Top(th).of
              n == Len(stack[th])
  <2>1. /\ At(th, "check") /\ counter[s] = 0 /\ stack' = Return(th)
        /\ lifetime' = [lifetime EXCEPT ![s] = "waited"]
    BY <1>3 DEF WaitReturn
  <2>2. /\ stack \in [Threads -> Seq(Frames)] /\ n \in Nat \ {0}
        /\ DOMAIN stack[th] = 1 .. n /\ n \in DOMAIN stack[th]
        /\ Top(th) = stack[th][n] /\ Top(th).at = "check"
        /\ FrameOK(th, n, Top(th)) /\ stack[th] # <<>>
    BY <2>1, TopFrame DEF IInv
  <2>3. s \in Schedules
    BY <2>2 DEF FrameOK, WaitPoints
  <2>4. Keeps(th, n - 1, n - 1)
    BY <2>1, <2>2, ReturnStack
  <2>5. Outstanding(s) = {}
    <3>1. Cardinality(Outstanding(s)) = 0
      BY <2>1, <2>3 DEF IInv, Accounting
    <3>. QED  BY <3>1, OutstandingFinite, FS_EmptySet
  <2>6. WaitMeansDone'
    <3>1. \A x \in Schedules : Outstanding(x)' = Outstanding(x)
      BY <1>1 DEF Outstanding
    <3>. QED  BY <2>1, <2>3, <2>5, <3>1 DEF IInv, WaitMeansDone, Values
  <2>7. Values'
    BY <1>1, <2>1, <2>3 DEF IInv, Values
  <2>8. Waits'
    <3>. SUFFICES ASSUME NEW u \in Threads, NEW i \in DOMAIN stack'[u],
                         stack'[u][i].at \in WaitPoints
                  PROVE  /\ i > 1
                         /\ lifetime'[stack'[u][i].of] = "open"
                         /\ LET g == stack'[u][i - 1]
                            IN  \/ g.at = "idle" /\ u = Owner[stack'[u][i].of]
                                \/ g.at = "run" /\ g.of = Owner[stack'[u][i].of]
      BY DEF Waits
    <3>1. /\ i \in DOMAIN stack[u] /\ stack'[u][i] = stack[u][i]
          /\ u = th => i # n
          /\ i > 1 => stack'[u][i - 1] = stack[u][i - 1]
      <4>1. CASE u # th
        BY <2>4, <4>1 DEF Keeps
      <4>2. CASE u = th
        <5>1. i \in 1 .. (n - 1) /\ i \in DOMAIN stack[th] /\ i # n
          BY <2>2, <2>4, <4>2 DEF Keeps
        <5>2. i > 1 => i - 1 \in 1 .. (n - 1)
          BY <5>1, <2>2
        <5>. QED  BY <2>4, <4>2, <5>1, <5>2 DEF Keeps
      <4>. QED  BY <4>1, <4>2
    <3>2. stack[u][i].of # s
      BY <2>2, <3>1, OneWait DEF WaitPoints
    <3>3. stack[u][i].of \in Schedules
      BY <3>1 DEF IInv, Framed, FrameOK
    <3>4. lifetime'[stack[u][i].of] = lifetime[stack[u][i].of]
      BY <2>1, <3>2, <3>3 DEF IInv, Values
    <3>. QED  BY <3>1, <3>4 DEF IInv, Waits
  <2>. QED
    BY <1>1, <2>1, <2>6, <2>7, <2>8, QuietReturn DEF IInv, HandPoints
<1>. QED  BY <1>2, <1>3

-----------------------------------------------------------------------------
(* Steps of several stacks.  What they have in common: each stack may lose *)
(* a top frame that is about no task, and what is left stays as it is or   *)
(* is moved: from one point of a wait to another, by one who wakes it, or  *)
(* on to the join.                                                         *)
Shifted(th, i) ==
  /\ i \in DOMAIN stack[th]
  /\ \/ stack'[th][i] = stack[th][i]
     \/ /\ stack[th][i].at \in WaitPoints /\ stack'[th][i].at \in WaitPoints
        /\ stack'[th][i].of = stack[th][i].of
        /\ i = Len(stack[th])
     \/ stack[th][i].at = "asleep" /\ stack'[th][i].at = "acquire"
     \/ stack[th][i].at = "stop" /\ stack'[th][i].at = "join"
Shift ==
  /\ stack' \in [Threads -> Seq(Frames)]
  /\ \A th \in Threads :
       /\ Len(stack'[th]) <= Len(stack[th])
       /\ \A i \in DOMAIN stack'[th] : Shifted(th, i)
       /\ \A i \in DOMAIN stack[th] : i \notin DOMAIN stack'[th] =>
            stack[th][i].at \notin HandPoints

(* What such a step of several stacks keeps.                               *)
LEMMA ShiftStep ==
  ASSUME IInv, Shift,
         UNCHANGED <<high, normal, mutex, counter, registered, status, lifetime>>
  PROVE  Framed' /\ Handed' /\ Queues' /\ Accounting' /\ Crewed' /\ Locks' /\ Waits'
<1>1. ASSUME NEW u \in Threads
      PROVE  /\ stack[u] \in Seq(Frames) /\ stack'[u] \in Seq(Frames)
             /\ DOMAIN stack[u] = 1 .. Len(stack[u]) /\ Len(stack[u]) \in Nat
             /\ DOMAIN stack'[u] = 1 .. Len(stack'[u]) /\ Len(stack'[u]) \in Nat
             /\ Len(stack'[u]) <= Len(stack[u])
  BY DEF Shift, IInv, Framed
<1>2. ASSUME NEW u \in Threads, NEW i \in DOMAIN stack'[u]
      PROVE  /\ Shifted(u, i) /\ i \in Nat
             /\ i \in DOMAIN stack[u] /\ FrameOK(u, i, stack[u][i])
             /\ i < Len(stack[u]) => stack[u][i].at \in CallPoints
             /\ stack'[u][i] \in Frames
  <2>1. Shifted(u, i) /\ i \in DOMAIN stack[u] /\ stack'[u][i] \in Frames /\ i \in Nat
    BY <1>1 DEF Shift, Shifted
  <2>. QED  BY <2>1 DEF IInv, Framed
<1>3. ASSUME NEW u \in Threads, NEW i \in DOMAIN stack'[u], i < Len(stack[u])
      PROVE  stack'[u][i] = stack[u][i] /\ stack[u][i].at \in CallPoints
  BY <1>2, <1>3 DEF Shifted, CallPoints
<1>4. Framed'
  <2>1. ASSUME NEW u \in Threads, NEW i \in DOMAIN stack'[u]
        PROVE  /\ FrameOK(u, i, stack'[u][i])
               /\ i < Len(stack'[u]) => stack'[u][i].at \in CallPoints
    <3>1. FrameOK(u, i, stack'[u][i])
      BY <1>2 DEF FrameOK, Shifted, LoopPoints, WaitPoints, HandPoints
    <3>2. i < Len(stack'[u]) => i < Len(stack[u])
      BY <1>1, <1>2
    <3>. QED  BY <1>3, <3>1, <3>2
  <2>. QED  BY <2>1 DEF Framed, Shift
<1>5. ASSUME NEW t \in Tasks PROVE SameHands(t)
  <2>1. \A u \in Threads, i \in Nat, x \in HandPoints : Hand(u, i, x, t)' <=> Hand(u, i, x, t)
    BY <1>1, <1>2, SMTT(30) DEF Hand, Shift, Shifted, HandPoints, WaitPoints
  <2>. QED  BY <2>1 DEF SameHands
<1>6. Handed'
  BY <1>5, InHandKept DEF IInv, Handed
<1>7. Queues' /\ Accounting'
  BY DEF IInv, Queues, QueueOf, Accounting, Outstanding
<1>8. Crewed'
  <2>1. ASSUME NEW w \in Workers, stack[w] = <<>> PROVE stack'[w] = <<>>
    BY <2>1, <1>1 DEF Threads
  <2>. QED  BY <2>1 DEF IInv, Crewed
<1>9. Locks'
  <2>1. ASSUME NEW u \in Threads, NEW i \in DOMAIN stack'[u],
               stack'[u][i].at \in LockPoints
        PROVE  i \in DOMAIN stack[u] /\ stack'[u][i] = stack[u][i]
    BY <1>2, <2>1 DEF Shifted, LockPoints, WaitPoints
  <2>2. ASSUME NEW u \in Threads, NEW i \in DOMAIN stack'[u],
               stack'[u][i].at \in LockPoints
        PROVE  mutex' = u /\ (stack'[u][i].at = "block" => QueueEmpty')
    BY <2>1, <2>2 DEF IInv, Locks, QueueEmpty
  <2>3. ASSUME NEW u \in Threads, NEW i \in DOMAIN stack'[u],
               NEW j \in DOMAIN stack'[u],
               stack'[u][i].at \in LockPoints, stack'[u][j].at \in LockPoints
        PROVE  i = j
    BY <2>1, <2>3 DEF IInv, Locks
  <2>. QED  BY <2>2, <2>3 DEF Locks, LockPoints
<1>10. Waits'
  <2>. SUFFICES ASSUME NEW u \in Threads, NEW i \in DOMAIN stack'[u],
                       stack'[u][i].at \in WaitPoints
                PROVE  /\ i > 1
                       /\ lifetime'[stack'[u][i].of] = "open"
                       /\ LET g == stack'[u][i - 1]
                          IN  \/ g.at = "idle" /\ u = Owner[stack'[u][i].of]
                              \/ g.at = "run" /\ g.of = Owner[stack'[u][i].of]
    BY DEF Waits
  <2>1. /\ i \in DOMAIN stack[u] /\ stack[u][i].at \in WaitPoints
        /\ stack'[u][i].of = stack[u][i].of
    BY <1>2 DEF Shifted, WaitPoints
  <2>2. i > 1 => i - 1 \in DOMAIN stack'[u] /\ i - 1 < Len(stack[u])
    BY <1>1, <1>2
  <2>3. i > 1 => stack'[u][i - 1] = stack[u][i - 1]
    BY <1>3, <2>2
  <2>. QED  BY <2>1, <2>3 DEF IInv, Waits
<1>. QED  BY <1>4, <1>6, <1>7, <1>8, <1>9, <1>10

(* notify_one after a push, and notify_all of a counter.                   *)
LEMMA NotifySteps ==
  ASSUME IInv, NEW th \in Threads, ScheduleNotify(th) \/ CounterNotify(th)
  PROVE  IInv'
<1>. DEFINE n == Len(stack[th])
<1>1. UNCHANGED <<high, normal, mutex, counter, stop, registered, status,
                  lifetime, lives, cancels>>
  BY DEF ScheduleNotify, CounterNotify
<1>2. Values' /\ WaitMeansDone'
  BY <1>1, RestKept DEF IInv, Values
<1>3. PICK at \in {"wake", "notify"} : At(th, at)
  BY DEF ScheduleNotify, CounterNotify
<1>4. /\ stack \in [Threads -> Seq(Frames)] /\ stack[th] # <<>>
      /\ n \in Nat \ {0} /\ DOMAIN stack[th] = 1 .. n
      /\ Top(th) = stack[th][n] /\ Top(th).at = at
  BY <1>3, TopFrame DEF IInv
<1>5. /\ Below(th) \in Seq(Frames) /\ Len(Below(th)) = n - 1
      /\ DOMAIN Below(th) = 1 .. (n - 1)
      /\ \A i \in 1 .. (n - 1) : Below(th)[i] = stack[th][i]
      /\ \A i \in DOMAIN Below(th) : i \in DOMAIN stack[th]
      /\ \A i \in DOMAIN stack[th] : i \notin DOMAIN Below(th) => i = n
  <2>1. /\ Below(th) \in Seq(Frames) /\ Len(Below(th)) = n - 1
        /\ \A i \in 1 .. (n - 1) : Below(th)[i] = stack[th][i]
    BY <1>4, BelowIsStack
  <2>2. DOMAIN Below(th) = 1 .. (n - 1)
    BY <2>1
  <2>. HIDE DEF n
  <2>3. \A i \in 1 .. n : i \in 1 .. (n - 1) \/ i = n
    BY <1>4
  <2>4. \A i \in 1 .. (n - 1) : i \in 1 .. n
    BY <1>4
  <2>. QED  BY <1>4, <2>1, <2>2, <2>3, <2>4
<1>. HIDE DEF n
<1>6. ASSUME Below(th) # <<>>
      PROVE  Below(th)[Len(Below(th))].at \in CallPoints
  <2>1. n - 1 \in 1 .. (n - 1)
    BY <1>4, <1>5, <1>6
  <2>2. stack[th][n - 1].at \in CallPoints
    BY <1>4, <2>1 DEF IInv, Framed
  <2>. QED  BY <1>5, <2>1, <2>2
<1>7. CASE stack' = Return(th) /\ ScheduleNotify(th) /\ Asleep = {}
  <2>1. stack'[th] = Below(th) /\ \A u \in Threads : u # th => stack'[u] = stack[u]
    BY <1>4, <1>7 DEF Return
  <2>2. ASSUME NEW u \in Asleep' PROVE FALSE
    <3>1. CASE u = th
      BY <1>6, <2>1, <2>2, <3>1 DEF Asleep, At, Top, CallPoints
    <3>2. CASE u # th
      BY <1>7, <2>1, <2>2, <3>2 DEF Asleep, At, Top, Threads
    <3>. QED  BY <3>1, <3>2
  <2>3. Budget'
    BY <2>2 DEF Budget
  <2>. QED
    BY <1>1, <1>2, <1>3, <1>7, <2>3, QuietReturn DEF IInv, HandPoints
<1>8. ASSUME NEW w \in Asleep, ScheduleNotify(th), stack' = Woken({w}, Return(th))
      PROVE  IInv'
  <2>. DEFINE a == Frame("acquire", None)
  <2>1. /\ At(w, "asleep") /\ w \in Workers /\ w \in Threads
        /\ At(th, "wake")
    BY <1>8 DEF Asleep, Threads, ScheduleNotify
  <2>2. w # th
    BY <2>1 DEF At
  <2>3. a \in Frames /\ a.at = "acquire"
    BY DEF Frame, Frames, Points
  <2>. HIDE DEF a
  <2>4. /\ stack'[th] = Below(th) /\ stack'[w] = <<a>>
        /\ \A u \in Threads : u # th /\ u # w => stack'[u] = stack[u]
        /\ DOMAIN stack' = Threads /\ stack' = [u \in Threads |-> stack'[u]]
    BY <1>4, <1>8, <2>1, <2>2 DEF Woken, Return, a
  <2>5. Len(stack[w]) = 1 /\ DOMAIN stack[w] = {1} /\ stack[w][1].at = "asleep"
    <3>1. /\ Len(stack[w]) \in Nat /\ DOMAIN stack[w] = 1 .. Len(stack[w])
          /\ Top(w) = stack[w][Len(stack[w])] /\ Top(w).at = "asleep"
          /\ FrameOK(w, Len(stack[w]), Top(w))
      BY <2>1, TopFrame DEF IInv
    <3>2. Len(stack[w]) = 1
      BY <3>1 DEF FrameOK, LoopPoints
    <3>. QED  BY <3>1, <3>2
  <2>6. /\ <<a>> \in Seq(Frames) /\ Len(<<a>>) = 1
        /\ DOMAIN <<a>> = {1} /\ <<a>>[1] = a
    BY <2>3
  <2>7. Shift
    <3>1. ASSUME NEW u \in Threads
          PROVE  /\ stack'[u] \in Seq(Frames)
                 /\ Len(stack'[u]) <= Len(stack[u])
                 /\ \A i \in DOMAIN stack'[u] : Shifted(u, i)
                 /\ \A i \in DOMAIN stack[u] : i \notin DOMAIN stack'[u] =>
                      stack[u][i].at \notin HandPoints
      <4>1. CASE u = th
        BY <1>3, <1>4, <1>5, <2>4, <4>1 DEF n, Shifted, HandPoints
      <4>2. CASE u = w
        <5>1. stack'[w] \in Seq(Frames) /\ Len(stack'[w]) = 1
          BY <2>4, <2>6
        <5>2. DOMAIN stack'[w] = {1} /\ stack'[w][1] = a
          BY <2>4, <2>6
        <5>3. Shifted(w, 1)
          BY <2>3, <2>5, <5>2 DEF Shifted
        <5>. QED  BY <2>5, <4>2, <5>1, <5>2, <5>3
      <4>3. CASE u # th /\ u # w
        BY <1>4, <2>4, <4>3 DEF Shifted
      <4>. QED  BY <4>1, <4>2, <4>3
    <3>. QED  BY <2>4, <3>1 DEF Shift
  <2>8. Budget'
    <3>1. Rousing' = (Rousing \ {th}) \cup {w} /\ th \in Rousing /\ w \notin Rousing
      <4>1. At(w, "acquire")'
        BY <2>3, <2>4, <2>6 DEF At, Top
      <4>2. ~At(th, "wake")' /\ ~At(th, "acquire")'
        BY <1>6, <2>4 DEF At, Top, CallPoints
      <4>3. ASSUME NEW u \in Threads, u # th, u # w, NEW x
            PROVE  At(u, x)' <=> At(u, x)
        BY <2>4, <4>3 DEF At, Top
      <4>4. th \in Rousing /\ w \notin Rousing
        BY <2>1 DEF Rousing, At
      <4>. QED  BY <2>1, <2>2, <4>1, <4>2, <4>3, <4>4 DEF Rousing
    <3>2. /\ IsFiniteSet(Rousing \ {th})
          /\ Cardinality(Rousing \ {th}) = Cardinality(Rousing) - 1
      BY <3>1, RousingFinite, FS_RemoveElement
    <3>3. Cardinality(Rousing') = Cardinality(Rousing \ {th}) + 1
      BY <3>1, <3>2, FS_AddElement
    <3>4. Cardinality(Rousing') = Cardinality(Rousing)
      BY <3>2, <3>3, RousingFinite
    <3>. QED  BY <1>1, <3>4 DEF IInv, Budget
  <2>. QED  BY <1>1, <1>2, <2>7, <2>8, ShiftStep DEF IInv
<1>9. CASE CounterNotify(th)
  <2>. DEFINE s == SchedOf[Top(th).of]
              P(u) == u # th /\ At(u, "parked") /\ Top(u).of = s
  <2>1. /\ stack'[th] = Below(th)
        /\ \A u \in Threads : u # th /\ ~P(u) => stack'[u] = stack[u]
        /\ \A u \in Threads : P(u) => stack'[u] = Goto(u, "park")[u]
        /\ stack' = [u \in Threads |-> stack'[u]]
    BY <1>9 DEF CounterNotify
  <2>2. ASSUME NEW u \in Threads, P(u)
        PROVE  /\ stack'[u] \in Seq(Frames) /\ Len(stack'[u]) = Len(stack[u])
               /\ Len(stack[u]) \in Nat \ {0}
               /\ \A i \in 1 .. (Len(stack[u]) - 1) : stack'[u][i] = stack[u][i]
               /\ stack[u][Len(stack[u])].at = "parked"
               /\ stack'[u][Len(stack[u])].at = "park"
               /\ stack'[u][Len(stack[u])].of = stack[u][Len(stack[u])].of
    <3>. DEFINE f == [Top(u) EXCEPT !.at = "park"]
    <3>1. /\ stack[u] # <<>> /\ Top(u) \in Frames /\ Top(u).at = "parked"
          /\ Len(stack[u]) \in Nat \ {0} /\ Top(u) = stack[u][Len(stack[u])]
      BY <2>2, TopFrame DEF IInv
    <3>2. f \in Frames /\ f.at = "park" /\ f.of = Top(u).of
      BY <3>1 DEF Frames, Points
    <3>3. stack'[u] = Append(Below(u), f)
      BY <1>4, <2>1, <2>2 DEF Goto
    <3>4. /\ Below(u) \in Seq(Frames) /\ Len(Below(u)) = Len(stack[u]) - 1
          /\ \A i \in 1 .. (Len(stack[u]) - 1) : Below(u)[i] = stack[u][i]
      BY <1>4, <3>1, BelowIsStack
    <3>. HIDE DEF f
    <3>. QED  BY <3>1, <3>2, <3>3, <3>4
  <2>. HIDE DEF P
  <2>3. Shift
    <3>1. ASSUME NEW u \in Threads
          PROVE  /\ stack'[u] \in Seq(Frames)
                 /\ Len(stack'[u]) <= Len(stack[u])
                 /\ \A i \in DOMAIN stack'[u] : Shifted(u, i)
                 /\ \A i \in DOMAIN stack[u] : i \notin DOMAIN stack'[u] =>
                      stack[u][i].at \notin HandPoints
      <4>1. CASE u = th
        BY <1>3, <1>4, <1>5, <2>1, <4>1 DEF n, Shifted, HandPoints
      <4>2. CASE P(u)
        <5>1. stack[u] \in Seq(Frames)
          BY <1>4
        <5>2. \A i \in DOMAIN stack'[u] : i \in 1 .. Len(stack[u])
          BY <2>2, <4>2
        <5>3. ASSUME NEW i \in DOMAIN stack'[u] PROVE Shifted(u, i)
          <6>1. CASE i = Len(stack[u])
            BY <2>2, <4>2, <5>1, <5>2, <6>1 DEF Shifted, WaitPoints
          <6>2. CASE i # Len(stack[u])
            BY <2>2, <4>2, <5>1, <5>2, <6>2 DEF Shifted
          <6>. QED  BY <6>1, <6>2
        <5>. QED  BY <2>2, <4>2, <5>1, <5>3
      <4>3. CASE u # th /\ ~P(u)
        BY <1>4, <2>1, <4>3 DEF Shifted
      <4>. QED  BY <4>1, <4>2, <4>3 DEF P
    <3>. QED  BY <2>1, <3>1 DEF Shift
  <2>4. Budget'
    <3>1. At(th, "notify") /\ th \notin Rousing
      BY <1>9 DEF CounterNotify, Rousing, At
    <3>2. ~At(th, "asleep")'
      BY <1>6, <2>1 DEF At, Top, CallPoints
    <3>3. ASSUME NEW u \in Threads, u # th, NEW x \in {"asleep", "wake", "acquire"}
          PROVE  At(u, x)' <=> At(u, x)
      <4>1. CASE P(u)
        <5>1. ~At(u, x)
          BY <4>1 DEF P, At
        <5>2. ~At(u, x)'
          BY <2>2, <4>1 DEF At, Top
        <5>. QED  BY <5>1, <5>2
      <4>2. CASE ~P(u)
        BY <2>1, <3>3, <4>2 DEF At, Top
      <4>. QED  BY <4>1, <4>2
    <3>4. Asleep' \subseteq Asleep /\ Rousing \subseteq Rousing'
      BY <3>1, <3>2, <3>3 DEF Asleep, Rousing, Threads
    <3>. QED  BY <1>1, <3>4, BudgetKept DEF IInv
  <2>. QED  BY <1>1, <1>2, <2>3, <2>4, ShiftStep DEF IInv
<1>. QED  BY <1>7, <1>8, <1>9 DEF ScheduleNotify

(* A thread wakes that nobody notified.                                    *)
LEMMA SpuriousStep ==
  ASSUME IInv, NEW th \in Threads, SpuriousWake(th)
  PROVE  IInv'
<1>1. UNCHANGED <<high, normal, mutex, counter, stop, registered, status,
                  lifetime, lives, cancels>>
  BY DEF SpuriousWake
<1>2. Values' /\ WaitMeansDone'
  BY <1>1, RestKept DEF IInv, Values
<1>. USE DEF LoopPoints, WaitPoints, LockPoints, Points
<1>3. CASE At(th, "asleep") /\ stack' = Goto(th, "acquire")
  BY <1>1, <1>2, <1>3, QuietGoto DEF IInv
<1>4. CASE At(th, "parked") /\ stack' = Goto(th, "park")
  BY <1>1, <1>2, <1>4, QuietGoto DEF IInv
<1>. QED  BY <1>3, <1>4 DEF SpuriousWake

(* A schedule is destroyed that no wait stands on.                         *)
LEMMA DestroyStep ==
  ASSUME IInv, NEW th \in Threads, NEW s \in Schedules, Destroy(th, s)
  PROVE  IInv'
<1>1. /\ UNCHANGED <<high, normal, mutex, counter, stop, registered, stack, status,
                     lives, cancels>>
      /\ lifetime[s] = "waited" /\ lifetime' = [lifetime EXCEPT ![s] = "destroyed"]
  BY DEF Destroy
<1>2. Values' /\ Framed' /\ Crewed' /\ Queues' /\ Locks' /\ Accounting'
  BY <1>1 DEF IInv, Values, Framed, Crewed, Queues, QueueOf, Locks, QueueEmpty,
              Accounting, Outstanding
<1>3. Handed'
  <2>1. ASSUME NEW t \in Tasks PROVE SameHands(t)
    BY <1>1 DEF SameHands, Hand
  <2>. QED  BY <1>1, <2>1, InHandKept DEF IInv, Handed
<1>4. Budget'
  BY <1>1 DEF IInv, Budget, Asleep, Rousing, At, Top
<1>5. WaitMeansDone'
  BY <1>1 DEF IInv, Values, WaitMeansDone, Outstanding
<1>6. Waits'
  <2>1. ASSUME NEW u \in Threads, NEW i \in DOMAIN stack[u],
               stack[u][i].at \in WaitPoints
        PROVE  lifetime'[stack[u][i].of] = lifetime[stack[u][i].of]
    <3>1. stack[u][i].of \in Schedules
      BY <2>1 DEF IInv, Framed, FrameOK
    <3>2. stack[u][i].of # s
      BY <1>1, <2>1 DEF IInv, Waits
    <3>. QED  BY <1>1, <3>1, <3>2 DEF IInv, Values
  <2>. QED  BY <1>1, <2>1 DEF IInv, Waits
<1>. QED  BY <1>2, <1>3, <1>4, <1>5, <1>6 DEF IInv

(* terminate_scheduler, step by step.                                      *)
LEMMA TerminateAll ==
  ASSUME IInv, Terminate \/ TerminateSteps
  PROVE  IInv'
<1>1. UNCHANGED <<high, normal, mutex, counter, status, lifetime, lives, cancels>>
  BY DEF Terminate, TerminateSteps, TerminateStop, TerminateNotify, TerminateJoin
<1>2. Main \in Threads /\ Main \in Clients
  BY ThreadAssumption DEF Threads
<1>3. Values'
  <2>1. stop' \subseteq Workers
    <3>1. stop \subseteq Workers /\ registered \subseteq Workers
      BY DEF IInv, Values, Crewed
    <3>. QED  BY <3>1 DEF Terminate, TerminateSteps, TerminateStop, TerminateNotify,
                          TerminateJoin
  <2>. QED  BY <1>1, <2>1 DEF IInv, Values
<1>4. WaitMeansDone'
  BY <1>1 DEF IInv, WaitMeansDone, Outstanding
<1>5. CASE Terminate
  <2>. DEFINE f == Frame("stop", None)
  <2>1. At(Main, "idle") /\ stack' = Call(Main, f) /\ UNCHANGED <<registered, stop>>
    BY <1>5 DEF Terminate
  <2>2. f \in Frames /\ f.at = "stop"
    BY DEF Frame, Frames, Points
  <2>. HIDE DEF f
  <2>3. Len(stack[Main]) \in Nat \ {0}
    BY <1>2, <2>1, TopFrame DEF IInv
  <2>4. FrameOK(Main, Len(stack[Main]) + 1, f)
    BY <2>2, <2>3 DEF FrameOK, LoopPoints, WaitPoints, HandPoints
  <2>. QED
    BY <1>1, <1>2, <1>3, <1>4, <2>1, <2>2, <2>4, QuietCall
       DEF IInv, CallPoints, WaitPoints, HandPoints, LockPoints
<1>6. CASE TerminateStop
  <2>1. UNCHANGED <<registered, stack>>
    BY <1>6 DEF TerminateStop
  <2>2. Framed' /\ Crewed' /\ Queues' /\ Locks' /\ Accounting'
    BY <1>1, <2>1 DEF IInv, Framed, Crewed, Queues, QueueOf, Locks, QueueEmpty,
                Accounting, Outstanding
  <2>3. Handed'
    <3>1. ASSUME NEW t \in Tasks PROVE SameHands(t)
      BY <2>1 DEF SameHands, Hand
    <3>. QED  BY <1>1, <3>1, InHandKept DEF IInv, Handed
  <2>4. Budget'
    BY <1>1, <2>1 DEF IInv, Budget, Asleep, Rousing, At, Top
  <2>5. Waits'
    BY <1>1, <2>1 DEF IInv, Waits
  <2>. QED  BY <1>3, <1>4, <2>2, <2>3, <2>4, <2>5 DEF IInv
<1>7. CASE TerminateJoin
  <2>1. /\ At(Main, "join") /\ stack' = Return(Main) /\ registered' = {}
        /\ \A w \in registered : stack[w] = <<>>
    BY <1>7 DEF TerminateJoin
  <2>2. stack \in [Threads -> Seq(Frames)] /\ stack[Main] # <<>>
    BY <1>2, <2>1, TopFrame DEF IInv
  <2>3. \A u \in Threads : u # Main => stack'[u] = stack[u]
    BY <2>1, <2>2 DEF Return
  <2>4. registered = {} \/ registered = Workers
    BY DEF IInv, Crewed
  <2>5. Crewed'
    <3>1. \A w \in Workers : stack[w] = <<>> /\ w # Main /\ w \in Threads
      BY <1>2, <2>1, <2>4, ThreadAssumption DEF IInv, Crewed, Threads
    <3>. QED  BY <2>1, <2>3, <3>1 DEF Crewed
  <2>6. UNCHANGED lifetime /\ UNCHANGED mutex
    BY <1>1
  <2>. QED
    BY <1>1, <1>2, <1>3, <1>4, <2>1, <2>5, <2>6, QuietReturn DEF IInv, HandPoints
<1>8. CASE TerminateNotify
  <2>. DEFINE a == Frame("acquire", None)
              n == Len(stack[Main])
              f == [Top(Main) EXCEPT !.at = "join"]
  <2>1. /\ At(Main, "stop") /\ stack' = Woken(Asleep, Goto(Main, "join"))
        /\ UNCHANGED <<registered, stop>>
    BY <1>8 DEF TerminateNotify
  <2>2. /\ stack \in [Threads -> Seq(Frames)] /\ stack[Main] # <<>>
        /\ n \in Nat \ {0} /\ DOMAIN stack[Main] = 1 .. n
        /\ Top(Main) = stack[Main][n] /\ Top(Main).at = "stop" /\ Top(Main) \in Frames
    BY <1>2, <2>1, TopFrame DEF IInv
  <2>3. a \in Frames /\ a.at = "acquire"
    BY DEF Frame, Frames, Points
  <2>4. f \in Frames /\ f.at = "join"
    BY <2>2 DEF Frames, Points
  <2>5. Main \notin Asleep
    BY <2>2 DEF Asleep, At
  <2>6. /\ stack'[Main] = Append(Below(Main), f)
        /\ \A u \in Asleep : stack'[u] = <<a>>
        /\ \A u \in Threads : u # Main /\ u \notin Asleep => stack'[u] = stack[u]
        /\ stack' = [u \in Threads |-> stack'[u]]
    BY <1>2, <2>1, <2>2, <2>5 DEF Woken, Goto, Asleep, Threads
  <2>. HIDE DEF a, f
  <2>7. /\ stack'[Main] \in Seq(Frames) /\ Len(stack'[Main]) = n
        /\ \A i \in 1 .. (n - 1) : stack'[Main][i] = stack[Main][i]
        /\ stack'[Main][n] = f /\ stack[Main][n].at = "stop"
    <3>1. /\ Below(Main) \in Seq(Frames) /\ Len(Below(Main)) = n - 1
          /\ \A i \in 1 .. (n - 1) : Below(Main)[i] = stack[Main][i]
      BY <1>2, <2>2, BelowIsStack
    <3>. HIDE DEF n
    <3>. QED  BY <2>2, <2>4, <2>6, <3>1
  <2>8. Shift
    <3>1. ASSUME NEW u \in Threads
          PROVE  /\ stack'[u] \in Seq(Frames)
                 /\ Len(stack'[u]) <= Len(stack[u])
                 /\ \A i \in DOMAIN stack'[u] : Shifted(u, i)
                 /\ \A i \in DOMAIN stack[u] : i \notin DOMAIN stack'[u] =>
                      stack[u][i].at \notin HandPoints
      <4>1. CASE u = Main
        <5>1. DOMAIN stack'[u] = 1 .. n /\ DOMAIN stack[u] = 1 .. n
          BY <2>2, <2>7, <4>1
        <5>2. ASSUME NEW i \in 1 .. n PROVE Shifted(u, i)
          <6>1. CASE i = n
            BY <2>4, <2>7, <4>1, <5>1, <6>1 DEF Shifted
          <6>2. CASE i # n
            <7>1. i \in 1 .. (n - 1)
              BY <2>2, <6>2
            <7>. QED  BY <2>2, <2>7, <4>1, <7>1 DEF Shifted
          <6>. QED  BY <6>1, <6>2
        <5>. QED  BY <2>2, <2>7, <4>1, <5>1, <5>2
      <4>2. CASE u \in Asleep
        <5>1. /\ Len(stack[u]) \in Nat /\ DOMAIN stack[u] = 1 .. Len(stack[u])
              /\ Top(u) = stack[u][Len(stack[u])] /\ Top(u).at = "asleep"
              /\ FrameOK(u, Len(stack[u]), Top(u))
          BY <4>2, TopFrame DEF IInv, Asleep
        <5>2. Len(stack[u]) = 1
          BY <5>1 DEF FrameOK, LoopPoints
        <5>3. DOMAIN stack[u] = {1} /\ stack[u][1].at = "asleep"
          BY <5>1, <5>2
        <5>4. <<a>> \in Seq(Frames) /\ Len(<<a>>) = 1
          BY <2>3
        <5>5. DOMAIN stack'[u] = {1} /\ stack'[u][1] = a
          BY <2>3, <2>6, <4>2
        <5>6. Shifted(u, 1)
          BY <2>3, <5>3, <5>5 DEF Shifted
        <5>7. stack'[u] \in Seq(Frames) /\ Len(stack'[u]) <= Len(stack[u])
          <6>1. stack'[u] = <<a>>
            BY <2>6, <4>2
          <6>2. stack'[u] \in Seq(Frames)
            BY <5>4, <6>1
          <6>3. Len(stack'[u]) = 1
            BY <5>4, <6>1
          <6>. QED  BY <5>2, <6>2, <6>3
        <5>. QED  BY <5>3, <5>5, <5>6, <5>7
      <4>3. CASE u # Main /\ u \notin Asleep
        BY <2>2, <2>6, <4>3 DEF Shifted
      <4>. QED  BY <4>1, <4>2, <4>3
    <3>. QED  BY <2>6, <3>1 DEF Shift
  <2>9. Budget'
    <3>1. ASSUME NEW u \in Asleep' PROVE FALSE
      <4>1. CASE u = Main
        BY <2>4, <2>7, <3>1, <4>1 DEF Asleep, At, Top
      <4>2. CASE u \in Asleep
        BY <2>3, <2>6, <3>1, <4>2 DEF Asleep, At, Top
      <4>3. CASE u # Main /\ u \notin Asleep
        BY <2>6, <3>1, <4>3 DEF Asleep, At, Top, Threads
      <4>. QED  BY <4>1, <4>2, <4>3
    <3>. QED  BY <3>1 DEF Budget
  <2>. QED  BY <1>1, <1>3, <1>4, <2>1, <2>8, <2>9, ShiftStep DEF IInv
<1>. QED  BY <1>5, <1>6, <1>7, <1>8 DEF TerminateSteps

(* initialize_scheduler.                                                   *)
LEMMA InitializeStep ==
  ASSUME IInv, Initialize
  PROVE  IInv'
<1>. DEFINE f == Frame("loop", None)
<1>1. /\ registered = {} /\ registered' = Workers /\ stop' = {} /\ lives < Lives
      /\ lives' = lives + 1
      /\ UNCHANGED <<high, normal, mutex, counter, status, lifetime, cancels>>
      /\ stack' = [th \in Threads |-> IF th \in Workers THEN <<f>> ELSE stack[th]]
  BY DEF Initialize
<1>2. f \in Frames /\ f.at = "loop"
  BY DEF Frame, Frames, Points
<1>. HIDE DEF f
<1>3. /\ stack \in [Threads -> Seq(Frames)]
      /\ \A w \in Workers : w \in Threads /\ stack[w] = <<>>
      /\ \A w \in Workers : stack'[w] = <<f>>
      /\ \A u \in Threads : u \notin Workers => stack'[u] = stack[u]
  BY <1>1 DEF IInv, Crewed, Framed, Threads
<1>4. /\ <<f>> \in Seq(Frames) /\ Len(<<f>>) = 1
      /\ DOMAIN <<f>> = {1} /\ <<f>>[1] = f
  BY <1>2
<1>5. ASSUME NEW u \in Threads, NEW i \in DOMAIN stack'[u]
      PROVE  \/ u \in Workers /\ i = 1 /\ stack'[u] = <<f>> /\ stack'[u][i] = f
             \/ u \notin Workers /\ i \in DOMAIN stack[u] /\ stack'[u] = stack[u]
  BY <1>3, <1>4
<1>6. Values' /\ WaitMeansDone' /\ Queues' /\ Accounting' /\ Crewed'
  BY <1>1, BoundAssumption DEF IInv, Values, WaitMeansDone, Queues, QueueOf,
                               Accounting, Outstanding, Crewed
<1>7. Framed'
  <2>1. stack' \in [Threads -> Seq(Frames)]
    BY <1>1, <1>3, <1>4
  <2>2. ASSUME NEW u \in Threads, NEW i \in DOMAIN stack'[u]
        PROVE  /\ FrameOK(u, i, stack'[u][i])
               /\ i < Len(stack'[u]) => stack'[u][i].at \in CallPoints
    <3>1. CASE u \in Workers /\ i = 1 /\ stack'[u] = <<f>> /\ stack'[u][i] = f
      <4>1. FrameOK(u, 1, f)
        BY <1>2, <3>1, ThreadAssumption
           DEF FrameOK, LoopPoints, WaitPoints, HandPoints, Threads
      <4>. QED  BY <1>4, <3>1, <4>1
    <3>2. CASE u \notin Workers /\ i \in DOMAIN stack[u] /\ stack'[u] = stack[u]
      BY <3>2 DEF IInv, Framed
    <3>. QED  BY <1>5, <2>2, <3>1, <3>2
  <2>. QED  BY <2>1, <2>2 DEF Framed
<1>8. ASSUME NEW t \in Tasks PROVE SameHands(t)
  <2>1. ASSUME NEW u \in Threads, NEW j \in Nat, NEW x \in HandPoints
        PROVE  Hand(u, j, x, t)' <=> Hand(u, j, x, t)
    <3>1. CASE u \in Workers
      <4>1. stack'[u] = <<f>> /\ stack[u] = <<>> /\ f.at # x
        BY <1>2, <1>3, <3>1 DEF HandPoints
      <4>2. ~Hand(u, j, x, t)'
        BY <1>4, <4>1 DEF Hand
      <4>3. ~Hand(u, j, x, t)
        BY <4>1 DEF Hand
      <4>. QED  BY <4>2, <4>3
    <3>2. CASE u \notin Workers
      BY <1>3, <3>2 DEF Hand
    <3>. QED  BY <3>1, <3>2
  <2>. QED  BY <2>1 DEF SameHands
<1>9. Handed'
  BY <1>1, <1>8, InHandKept DEF IInv, Handed
<1>10. Locks'
  <2>1. ASSUME NEW u \in Threads, NEW i \in DOMAIN stack'[u],
               stack'[u][i].at \in LockPoints
        PROVE  u \notin Workers /\ i \in DOMAIN stack[u] /\ stack'[u] = stack[u]
    BY <1>2, <1>5, <2>1 DEF LockPoints
  <2>2. ASSUME NEW u \in Threads, NEW i \in DOMAIN stack'[u],
               stack'[u][i].at \in LockPoints
        PROVE  mutex' = u /\ (stack'[u][i].at = "block" => QueueEmpty')
    BY <1>1, <2>1, <2>2 DEF IInv, Locks, QueueEmpty
  <2>3. ASSUME NEW u \in Threads, NEW i \in DOMAIN stack'[u],
               NEW j \in DOMAIN stack'[u],
               stack'[u][i].at \in LockPoints, stack'[u][j].at \in LockPoints
        PROVE  i = j
    BY <2>1, <2>3 DEF IInv, Locks
  <2>. QED  BY <2>2, <2>3 DEF Locks, LockPoints
<1>11. Budget'
  <2>1. ASSUME NEW u \in Asleep' PROVE FALSE
    BY <1>2, <1>3, <1>4, <2>1 DEF Asleep, At, Top
  <2>. QED  BY <2>1 DEF Budget
<1>12. Waits'
  <2>1. ASSUME NEW u \in Threads, NEW i \in DOMAIN stack'[u],
               stack'[u][i].at \in WaitPoints
        PROVE  i \in DOMAIN stack[u] /\ stack'[u] = stack[u]
    BY <1>2, <1>5, <2>1 DEF WaitPoints
  <2>. QED  BY <1>1, <2>1 DEF IInv, Waits
<1>. QED  BY <1>6, <1>7, <1>9, <1>10, <1>11, <1>12 DEF IInv

-----------------------------------------------------------------------------
(* Queues that a task joins or leaves.                                     *)

(* A task joins the queue at its end.                                      *)
LEMMA QueueAppend ==
  ASSUME NEW q, NEW S \in SUBSET Tasks, NEW st, QueueOf(q, S, st),
         NEW t \in S, st[t] # "queued", DOMAIN st = Tasks
  PROVE  QueueOf(Append(q, t), S, [st EXCEPT ![t] = "queued"])
<1>. DEFINE r  == Append(q, t)
            nt == [st EXCEPT ![t] = "queued"]
            n  == Len(q)
<1>1. /\ q \in Seq(Tasks) /\ n \in Nat /\ DOMAIN q = 1 .. n
      /\ r \in Seq(Tasks) /\ DOMAIN r = 1 .. (n + 1) /\ n + 1 \in 1 .. (n + 1)
      /\ \A i \in 1 .. n : r[i] = q[i] /\ i \in 1 .. (n + 1)
      /\ r[n + 1] = t
  BY DEF QueueOf
<1>2. nt[t] = "queued" /\ \A u \in Tasks : u # t => nt[u] = st[u]
  OBVIOUS
<1>3. \A i \in 1 .. (n + 1) : i = n + 1 \/ i \in 1 .. n
  BY <1>1
<1>. HIDE DEF r, nt, n
<1>4. \A i \in 1 .. n : q[i] \in S /\ st[q[i]] = "queued" /\ q[i] # t
  BY <1>1 DEF QueueOf
<1>5. \A i \in DOMAIN r : r[i] \in S /\ nt[r[i]] = "queued"
  BY <1>1, <1>2, <1>3, <1>4
<1>6. \A i, j \in DOMAIN r : r[i] = r[j] => i = j
  BY <1>1, <1>3, <1>4 DEF QueueOf
<1>7. ASSUME NEW u \in S, nt[u] = "queued"
      PROVE  \E i \in DOMAIN r : r[i] = u
  <2>1. CASE u = t
    BY <1>1, <2>1
  <2>2. CASE u # t
    <3>1. st[u] = "queued"
      BY <1>2, <1>7, <2>2
    <3>2. PICK i \in DOMAIN q : q[i] = u
      BY <3>1 DEF QueueOf
    <3>. QED  BY <1>1, <3>2
  <2>. QED  BY <2>1, <2>2
<1>8. QueueOf(r, S, nt)
  BY <1>1, <1>5, <1>6, <1>7 DEF QueueOf
<1>. QED  BY <1>8 DEF r, nt

(* A task that is queued neither before nor after.                         *)
LEMMA QueueOther ==
  ASSUME NEW q, NEW S \in SUBSET Tasks, NEW st, QueueOf(q, S, st),
         NEW t \in Tasks, NEW x, st[t] # "queued", x # "queued", DOMAIN st = Tasks
  PROVE  QueueOf(q, S, [st EXCEPT ![t] = x])
<1>. DEFINE nt == [st EXCEPT ![t] = x]
<1>1. nt[t] = x /\ \A u \in Tasks : u # t => nt[u] = st[u]
  OBVIOUS
<1>. HIDE DEF nt
<1>2. \A i \in DOMAIN q : q[i] # t
  BY DEF QueueOf
<1>3. QueueOf(q, S, nt)
  BY <1>1, <1>2 DEF QueueOf
<1>. QED  BY <1>3 DEF nt

(* A task that belongs in the other queue.                                 *)
LEMMA QueueElsewhere ==
  ASSUME NEW q, NEW S \in SUBSET Tasks, NEW st, QueueOf(q, S, st),
         NEW t \in Tasks, NEW x, t \notin S, DOMAIN st = Tasks
  PROVE  QueueOf(q, S, [st EXCEPT ![t] = x])
<1>. DEFINE nt == [st EXCEPT ![t] = x]
<1>1. \A u \in Tasks : u # t => nt[u] = st[u]
  OBVIOUS
<1>. HIDE DEF nt
<1>2. \A i \in DOMAIN q : q[i] # t
  BY DEF QueueOf
<1>3. QueueOf(q, S, nt)
  BY <1>1, <1>2 DEF QueueOf
<1>. QED  BY <1>3 DEF nt

(* The i-th task leaves the queue, and those behind it move up.            *)
LEMMA QueueRemove ==
  ASSUME NEW q, NEW S \in SUBSET Tasks, NEW st, QueueOf(q, S, st),
         NEW i \in DOMAIN q, NEW x, x # "queued", DOMAIN st = Tasks,
         NEW e \in Seq(Tasks), Len(e) = Len(q) - 1,
         \A j \in 1 .. Len(e) : e[j] = IF j < i THEN q[j] ELSE q[j + 1]
  PROVE  QueueOf(e, S, [st EXCEPT ![q[i]] = x])
<1>. DEFINE nt == [st EXCEPT ![q[i]] = x]
            n  == Len(e)
            at(j) == IF j < i THEN j ELSE j + 1
<1>1. /\ q \in Seq(Tasks) /\ n \in Nat /\ DOMAIN q = 1 .. (n + 1)
      /\ DOMAIN e = 1 .. n /\ i \in 1 .. (n + 1) /\ q[i] \in Tasks
  BY DEF QueueOf
<1>2. nt[q[i]] = x /\ \A u \in Tasks : u # q[i] => nt[u] = st[u]
  BY <1>1
<1>3. ASSUME NEW j \in 1 .. n
      PROVE  at(j) \in 1 .. (n + 1) /\ at(j) # i /\ e[j] = q[at(j)]
  BY <1>1
<1>4. ASSUME NEW j \in 1 .. n, NEW k \in 1 .. n, at(j) = at(k)
      PROVE  j = k
  BY <1>1, <1>4
<1>5. ASSUME NEW k \in 1 .. (n + 1), k # i
      PROVE  \E j \in 1 .. n : at(j) = k
  <2>1. CASE k < i
    BY <1>1, <2>1
  <2>2. CASE k > i
    <3>1. k - 1 \in 1 .. n /\ at(k - 1) = k
      BY <1>1, <2>2
    <3>. QED  BY <3>1
  <2>. QED  BY <1>1, <1>5, <2>1, <2>2
<1>. HIDE DEF nt, n, at
<1>6. \A j \in DOMAIN e : e[j] \in S /\ nt[e[j]] = "queued"
  BY <1>1, <1>2, <1>3 DEF QueueOf
<1>7. \A j, k \in DOMAIN e : e[j] = e[k] => j = k
  BY <1>1, <1>3, <1>4 DEF QueueOf
<1>8. ASSUME NEW u \in S, nt[u] = "queued"
      PROVE  \E j \in DOMAIN e : e[j] = u
  <2>1. u # q[i] /\ st[u] = "queued"
    BY <1>2, <1>8
  <2>2. PICK k \in DOMAIN q : q[k] = u
    BY <2>1 DEF QueueOf
  <2>3. PICK j \in 1 .. n : at(j) = k
    BY <1>1, <1>5, <2>1, <2>2
  <2>. QED  BY <1>1, <1>3, <2>2, <2>3
<1>9. QueueOf(e, S, nt)
  BY <1>6, <1>7, <1>8 DEF QueueOf
<1>. QED  BY <1>9 DEF nt

(* The first task of the queue is popped to be run.                        *)
LEMMA QueueTail ==
  ASSUME NEW q, NEW S \in SUBSET Tasks, NEW st, QueueOf(q, S, st), q # <<>>,
         DOMAIN st = Tasks
  PROVE  /\ QueueOf(Tail(q), S, [st EXCEPT ![Head(q)] = "running"])
         /\ Head(q) \in S /\ st[Head(q)] = "queued"
         /\ Len(Tail(q)) = Len(q) - 1
<1>1. /\ q \in Seq(Tasks) /\ 1 \in DOMAIN q /\ Head(q) = q[1]
      /\ Tail(q) \in Seq(Tasks) /\ Len(Tail(q)) = Len(q) - 1
      /\ \A j \in 1 .. Len(Tail(q)) : Tail(q)[j] = q[j + 1]
  BY DEF QueueOf
<1>2. \A j \in 1 .. Len(Tail(q)) : Tail(q)[j] = IF j < 1 THEN q[j] ELSE q[j + 1]
  BY <1>1
<1>. HIDE DEF QueueOf
<1>3. QueueOf(Tail(q), S, [st EXCEPT ![q[1]] = "running"])
  BY <1>1, <1>2, QueueRemove
<1>. QED  BY <1>1, <1>3 DEF QueueOf

(* The i-th task of the queue is cancelled.                                *)
LEMMA QueueErase ==
  ASSUME NEW q, NEW S \in SUBSET Tasks, NEW st, QueueOf(q, S, st),
         NEW i \in DOMAIN q, DOMAIN st = Tasks
  PROVE  /\ QueueOf(Erase(q, i), S, [st EXCEPT ![q[i]] = "cancelled"])
         /\ Len(Erase(q, i)) = Len(q) - 1
<1>. DEFINE n == Len(q)
            a == SubSeq(q, 1, i - 1)
            b == SubSeq(q, i + 1, n)
<1>1. q \in Seq(Tasks) /\ n \in Nat /\ i \in 1 .. n /\ \A j \in 1 .. n : q[j] \in Tasks
  BY DEF QueueOf
<1>2. /\ 1 \in Int /\ i - 1 \in Int /\ i + 1 \in Int /\ n \in Int
      /\ \A j \in 1 .. (i - 1) : q[j] \in Tasks
      /\ \A j \in (i + 1) .. n : q[j] \in Tasks
  BY <1>1
<1>3. /\ a \in Seq(Tasks)
      /\ Len(a) = IF 1 <= i - 1 THEN i - 1 - 1 + 1 ELSE 0
      /\ \A j \in 1 .. i - 1 - 1 + 1 : a[j] = q[1 + j - 1]
  BY <1>2, SubSeqProperties
<1>4. /\ b \in Seq(Tasks)
      /\ Len(b) = IF i + 1 <= n THEN n - (i + 1) + 1 ELSE 0
      /\ \A j \in 1 .. n - (i + 1) + 1 : b[j] = q[i + 1 + j - 1]
  BY <1>2, SubSeqProperties, SMTT(30)
<1>5. Erase(q, i) = a \o b
  BY DEF Erase
<1>. HIDE DEF n, a, b
<1>6. Len(a) = i - 1 /\ \A j \in 1 .. (i - 1) : a[j] = q[j]
  BY <1>1, <1>3
<1>7. Len(b) = n - i /\ \A j \in 1 .. (n - i) : b[j] = q[i + j]
  BY <1>1, <1>4
<1>8. /\ a \o b \in Seq(Tasks) /\ Len(a \o b) = n - 1
      /\ \A j \in 1 .. (n - 1) : (a \o b)[j] = IF j < i THEN q[j] ELSE q[j + 1]
  <2>1. a \o b \in Seq(Tasks) /\ Len(a \o b) = Len(a) + Len(b)
    BY <1>3, <1>4, ConcatProperties
  <2>2. \A j \in 1 .. Len(a) + Len(b) :
          (a \o b)[j] = IF j <= Len(a) THEN a[j] ELSE b[j - Len(a)]
    BY <1>3, <1>4, ConcatProperties
  <2>3. Len(a) + Len(b) = n - 1
    BY <1>1, <1>6, <1>7
  <2>4. ASSUME NEW j \in 1 .. (n - 1)
        PROVE  (a \o b)[j] = IF j < i THEN q[j] ELSE q[j + 1]
    <3>. DEFINE c == (a \o b)[j]
    <3>1. c = IF j <= i - 1 THEN a[j] ELSE b[j - (i - 1)]
      BY <1>6, <2>2, <2>3
    <3>. HIDE DEF c
    <3>2. ASSUME j < i PROVE c = q[j]
      BY <1>1, <1>6, <3>1, <3>2
    <3>3. ASSUME ~(j < i) PROVE c = q[j + 1]
      <4>1. j - (i - 1) \in 1 .. (n - i) /\ i + (j - (i - 1)) = j + 1 /\ ~(j <= i - 1)
        BY <1>1, <3>3
      <4>2. b[j - (i - 1)] = q[i + (j - (i - 1))]
        BY <1>7, <4>1
      <4>3. q[i + (j - (i - 1))] = q[j + 1]
        BY <4>1
      <4>4. c = b[j - (i - 1)]
        BY <3>1, <4>1
      <4>. QED  BY <4>2, <4>3, <4>4
    <3>4. c = IF j < i THEN q[j] ELSE q[j + 1]
      BY <3>2, <3>3
    <3>. QED  BY <3>4 DEF c
  <2>. QED  BY <2>1, <2>3, <2>4
<1>. QED  BY <1>1, <1>5, <1>8, QueueRemove DEF n

-----------------------------------------------------------------------------
(* What a step does to the counts and to the hands that moves the task t.  *)
Live == {"counted", "queued", "running", "ran"}

(* A task moves on and stays outstanding.                                  *)
LEMMA CountKept ==
  ASSUME IInv, NEW t \in Tasks, NEW x \in Live, status[t] \in Live,
         status' = [status EXCEPT ![t] = x], UNCHANGED <<counter, lifetime>>
  PROVE  Accounting' /\ WaitMeansDone'
<1>1. \A u \in Tasks : status'[u] \in Live <=> status[u] \in Live
  BY DEF IInv, Values
<1>2. \A s : Outstanding(s)' = Outstanding(s)
  BY <1>1 DEF Outstanding, Live
<1>. QED  BY <1>2 DEF IInv, Accounting, WaitMeansDone

(* A task is counted out: its schedule was not waited for yet.             *)
LEMMA CountOut ==
  ASSUME IInv, NEW t \in Tasks, NEW x, x \notin Live, status[t] \in Live,
         status' = [status EXCEPT ![t] = x],
         counter' = [counter EXCEPT ![SchedOf[t]] = @ - 1], UNCHANGED lifetime
  PROVE  /\ Accounting' /\ WaitMeansDone' /\ counter' \in [Schedules -> Int]
         /\ lifetime[SchedOf[t]] = "open"
<1>1. SchedOf[t] \in Schedules
  BY TaskAssumption
<1>2. ASSUME NEW s \in Schedules, s # SchedOf[t]
      PROVE  Outstanding(s)' = Outstanding(s) /\ counter'[s] = counter[s]
  BY <1>2 DEF Outstanding, IInv, Values
<1>3. /\ Outstanding(SchedOf[t])' = Outstanding(SchedOf[t]) \ {t}
      /\ t \in Outstanding(SchedOf[t])
  BY DEF Outstanding, IInv, Values, Live
<1>4. Cardinality(Outstanding(SchedOf[t])') = Cardinality(Outstanding(SchedOf[t])) - 1
  BY <1>3, OutstandingFinite, FS_RemoveElement
<1>5. counter'[SchedOf[t]] = counter[SchedOf[t]] - 1
  BY <1>1 DEF IInv, Values
<1>6. Accounting'
  <2>1. ASSUME NEW s \in Schedules PROVE counter'[s] = Cardinality(Outstanding(s)')
    BY <1>1, <1>2, <1>4, <1>5 DEF IInv, Accounting
  <2>. QED  BY <2>1 DEF Accounting
<1>7. lifetime[SchedOf[t]] = "open"
  BY <1>1, <1>3 DEF IInv, WaitMeansDone
<1>8. WaitMeansDone'
  BY <1>2, <1>7 DEF IInv, WaitMeansDone
<1>9. counter' \in [Schedules -> Int]
  BY <1>1 DEF IInv, Values
<1>. QED  BY <1>6, <1>7, <1>8, <1>9

(* A task is counted in, which opens its schedule.                         *)
LEMMA CountIn ==
  ASSUME IInv, NEW t \in Tasks, NEW x \in Live, status[t] \notin Live,
         status' = [status EXCEPT ![t] = x],
         counter' = [counter EXCEPT ![SchedOf[t]] = @ + 1],
         lifetime' = [lifetime EXCEPT ![SchedOf[t]] = "open"]
  PROVE  Accounting' /\ WaitMeansDone' /\ counter' \in [Schedules -> Int]
<1>1. SchedOf[t] \in Schedules
  BY TaskAssumption
<1>2. ASSUME NEW s \in Schedules, s # SchedOf[t]
      PROVE  /\ Outstanding(s)' = Outstanding(s) /\ counter'[s] = counter[s]
             /\ lifetime'[s] = lifetime[s]
  BY <1>2 DEF Outstanding, IInv, Values
<1>3. /\ Outstanding(SchedOf[t])' = Outstanding(SchedOf[t]) \cup {t}
      /\ t \notin Outstanding(SchedOf[t])
  BY DEF Outstanding, IInv, Values, Live
<1>4. Cardinality(Outstanding(SchedOf[t])') = Cardinality(Outstanding(SchedOf[t])) + 1
  BY <1>3, OutstandingFinite, FS_AddElement
<1>5. /\ counter'[SchedOf[t]] = counter[SchedOf[t]] + 1
      /\ lifetime'[SchedOf[t]] = "open"
  BY <1>1 DEF IInv, Values
<1>6. Accounting'
  <2>1. ASSUME NEW s \in Schedules PROVE counter'[s] = Cardinality(Outstanding(s)')
    BY <1>1, <1>2, <1>4, <1>5 DEF IInv, Accounting
  <2>. QED  BY <2>1 DEF Accounting
<1>7. WaitMeansDone'
  BY <1>2, <1>5 DEF IInv, WaitMeansDone
<1>8. counter' \in [Schedules -> Int]
  BY <1>1 DEF IInv, Values
<1>. QED  BY <1>6, <1>7, <1>8

(* The task t leaves the frames of thread th above the first k, or is put  *)
(* in the last one of the new ones.                                        *)
LEMMA HandsMove ==
  ASSUME IInv, NEW t \in Tasks, NEW x, status' = [status EXCEPT ![t] = x],
         NEW th \in Threads, NEW k \in Nat, NEW m \in Nat,
         k <= Len(stack[th]), Keeps(th, k, m), k <= m,
         \A i \in (k + 1) .. Len(stack[th]) :
           stack[th][i].at \in HandPoints => stack[th][i].of = t,
         \A i \in (k + 1) .. m :
           stack'[th][i].at \in HandPoints => stack'[th][i].of = t,
         \/ status[t] \notin {"counted", "running", "ran"}
         \/ \E i \in (k + 1) .. Len(stack[th]) :
              stack[th][i].at \in HandPoints /\ stack[th][i].of = t,
         \/ /\ x \notin {"counted", "running", "ran"}
            /\ \A i \in (k + 1) .. m : stack'[th][i].at \notin HandPoints
         \/ /\ k < m /\ x \in {"counted", "running", "ran"}
            /\ stack'[th][m].at \in HandPoints /\ stack'[th][m].of = t
            /\ x = Stage(stack'[th][m].at)
            /\ \A i \in (k + 1) .. m : stack'[th][i].at \in HandPoints => i = m
  PROVE  Handed'
<1>1. status'[t] = x /\ \A u \in Tasks : u # t => status'[u] = status[u]
  BY DEF IInv, Values
<1>2. ASSUME NEW u \in Tasks, u # t PROVE InHand(u)'
  <2>1. SameHands(u)
    BY <1>2, HandsKept DEF IInv
  <2>. QED  BY <1>1, <1>2, <2>1, InHandKept DEF IInv, Handed
<1>3. /\ stack[th] \in Seq(Frames) /\ stack'[th] \in Seq(Frames)
      /\ DOMAIN stack[th] = 1 .. Len(stack[th]) /\ DOMAIN stack'[th] = 1 .. m
      /\ Len(stack[th]) \in Nat
  BY DEF Keeps, IInv, Framed
<1>4. ASSUME NEW u \in Threads, NEW j \in Nat, NEW a \in HandPoints,
             u # th \/ j <= k
      PROVE  ~Hand(u, j, a, t)
  <2>1. InHand(t)
    BY DEF IInv, Handed
  <2>2. CASE status[t] \notin {"counted", "running", "ran"}
    BY <2>1, <2>2 DEF InHand
  <2>3. ASSUME NEW i \in (k + 1) .. Len(stack[th]),
               stack[th][i].at \in HandPoints /\ stack[th][i].of = t
        PROVE  ~Hand(u, j, a, t)
    <3>1. Hand(th, i, stack[th][i].at, t) /\ i \in Nat
      BY <1>3, <2>3 DEF Hand
    <3>2. u # th \/ j # i
      BY <1>4
    <3>. QED  BY <2>1, <2>3, <3>1, <3>2 DEF InHand
  <2>. QED  BY <2>2, <2>3
<1>5. ASSUME NEW u \in Threads, NEW j \in Nat, NEW a \in HandPoints,
             Hand(u, j, a, t)'
      PROVE  u = th /\ j \in (k + 1) .. m /\ stack'[th][j].at = a
  <2>1. CASE u # th
    <3>1. Hand(u, j, a, t)
      BY <1>5, <2>1 DEF Hand, Keeps
    <3>. QED  BY <1>4, <2>1, <3>1
  <2>2. CASE u = th /\ j <= k
    <3>1. j \in 1 .. k /\ j \in DOMAIN stack[th]
      BY <1>3, <1>5, <2>2 DEF Hand
    <3>2. Hand(u, j, a, t)
      BY <1>5, <2>2, <3>1 DEF Hand, Keeps
    <3>. QED  BY <1>4, <2>2, <3>2
  <2>3. CASE u = th /\ j > k
    BY <1>3, <1>5, <2>3 DEF Hand
  <2>. QED  BY <2>1, <2>2, <2>3
<1>6. InHand(t)'
  <2>1. CASE /\ x \notin {"counted", "running", "ran"}
             /\ \A i \in (k + 1) .. m : stack'[th][i].at \notin HandPoints
    BY <1>1, <1>5, <2>1 DEF InHand
  <2>2. CASE /\ k < m /\ x \in {"counted", "running", "ran"}
             /\ stack'[th][m].at \in HandPoints /\ stack'[th][m].of = t
             /\ x = Stage(stack'[th][m].at)
             /\ \A i \in (k + 1) .. m : stack'[th][i].at \in HandPoints => i = m
    <3>. PICK a \in HandPoints : a = stack'[th][m].at
      BY <2>2
    <3>1. Hand(th, m, a, t)'
      BY <1>3, <2>2 DEF Hand
    <3>2. ASSUME NEW u \in Threads, NEW j \in Nat, NEW b \in HandPoints
          PROVE  Hand(u, j, b, t)' <=> u = th /\ j = m /\ b = a
      <4>1. ASSUME Hand(u, j, b, t)' PROVE u = th /\ j = m /\ b = a
        BY <1>5, <2>2, <4>1
      <4>. QED  BY <3>1, <4>1
    <3>3. status'[t] = Stage(a) /\ status'[t] \in {"counted", "running", "ran"}
      BY <1>1, <2>2
    <3>4. /\ status'[t] = Stage(a)
          /\ \A u \in Threads, j \in Nat, b \in HandPoints :
               Hand(u, j, b, t)' <=> u = th /\ j = m /\ b = a
      BY <3>2, <3>3
    <3>5. \E v \in Threads, i \in Nat, c \in HandPoints :
            /\ status'[t] = Stage(c)
            /\ \A u \in Threads, j \in Nat, b \in HandPoints :
                 Hand(u, j, b, t)' <=> u = v /\ j = i /\ b = c
      BY <3>4
    <3>. QED  BY <3>3, <3>5 DEF InHand
  <2>. QED  BY <2>1, <2>2
<1>. QED  BY <1>2, <1>6 DEF Handed

(* The task t leaves the hands of thread th.                               *)
LEMMA HandsDropped ==
  ASSUME IInv, NEW t \in Tasks, NEW x, x \notin {"counted", "running", "ran"},
         status' = [status EXCEPT ![t] = x],
         NEW th \in Threads, NEW k \in Nat, NEW m \in Nat,
         k <= Len(stack[th]), Keeps(th, k, m), k <= m,
         \A i \in (k + 1) .. Len(stack[th]) :
           stack[th][i].at \in HandPoints => stack[th][i].of = t,
         \A i \in (k + 1) .. m : stack'[th][i].at \notin HandPoints,
         \E i \in (k + 1) .. Len(stack[th]) :
              stack[th][i].at \in HandPoints /\ stack[th][i].of = t
  PROVE  Handed'
BY HandsMove

(* A task that is in no thread's hands stays out of them.                  *)
LEMMA HandsFree ==
  ASSUME IInv, NEW t \in Tasks, NEW x, x \notin {"counted", "running", "ran"},
         status[t] \notin {"counted", "running", "ran"},
         status' = [status EXCEPT ![t] = x],
         NEW th \in Threads, NEW k \in Nat, NEW m \in Nat,
         k <= Len(stack[th]), Keeps(th, k, m), k <= m,
         \A i \in (k + 1) .. Len(stack[th]) :
           stack[th][i].at \in HandPoints => stack[th][i].of = t,
         \A i \in (k + 1) .. m : stack'[th][i].at \notin HandPoints
  PROVE  Handed'
BY HandsMove

(* The task t comes to be in the hands of thread th, in its top frame.     *)
LEMMA HandsTaken ==
  ASSUME IInv, NEW t \in Tasks, NEW x, x \in {"counted", "running", "ran"},
         status' = [status EXCEPT ![t] = x],
         NEW th \in Threads, NEW k \in Nat, NEW m \in Nat,
         k <= Len(stack[th]), Keeps(th, k, m), k < m,
         \A i \in (k + 1) .. Len(stack[th]) :
           stack[th][i].at \in HandPoints => stack[th][i].of = t,
         \A i \in (k + 1) .. m : stack'[th][i].at \in HandPoints => i = m,
         stack'[th][m].at \in HandPoints, stack'[th][m].of = t,
         x = Stage(stack'[th][m].at),
         \/ status[t] \notin {"counted", "running", "ran"}
         \/ \E i \in (k + 1) .. Len(stack[th]) :
              stack[th][i].at \in HandPoints /\ stack[th][i].of = t
  PROVE  Handed'
<1>1. k <= m
  OBVIOUS
<1>2. \A i \in (k + 1) .. m :
        stack'[th][i].at \in HandPoints => stack'[th][i].of = t
  OBVIOUS
<1>. QED  BY <1>1, <1>2, HandsMove

(* What else a step keeps that moves a task.                               *)
LEMMA MoveKept ==
  ASSUME IInv, NEW th \in Threads, NEW k \in Nat, NEW m \in Nat, stack[th] # <<>>,
         k <= Len(stack[th]), Keeps(th, k, m), k <= m,
         \A i \in (k + 1) .. m :
           /\ FrameOK(th, i, stack'[th][i])
           /\ i < m => stack'[th][i].at \in CallPoints
           /\ stack'[th][i].at \notin LockPoints
           /\ stack'[th][i].at \in WaitPoints =>
                /\ i = k + 1 /\ i <= Len(stack[th])
                /\ stack[th][i].at \in WaitPoints
                /\ stack'[th][i].of = stack[th][i].of,
         k = 0 \/ k = m \/ stack[th][k].at \in CallPoints,
         UNCHANGED <<mutex, registered>>,
         mutex = None \/ (QueueEmpty => QueueEmpty'),
         \A s \in Schedules : lifetime[s] = "open" => lifetime'[s] = "open"
  PROVE  Framed' /\ Crewed' /\ Locks' /\ Waits'
<1>1. Framed'
  BY FramedKept DEF IInv
<1>2. Crewed'
  BY DEF IInv, Crewed, Keeps, Threads
<1>3. Locks'
  BY LocksKept, ThreadAssumption DEF IInv
<1>4. Waits'
  BY WaitsKept DEF IInv
<1>. QED  BY <1>1, <1>2, <1>3, <1>4

(* How many rouse workers after a step of thread th.                       *)
LEMMA RousingMoved ==
  ASSUME NEW th \in Threads, NEW k, NEW m, Keeps(th, k, m), ~At(th, "asleep")'
  PROVE  /\ Asleep' \subseteq Asleep
         /\ Cardinality(Rousing) \in Nat /\ Cardinality(Rousing') \in Nat
         /\ th \notin Rousing /\ th \in Rousing'
              => Cardinality(Rousing') = Cardinality(Rousing) + 1
         /\ th \in Rousing /\ th \notin Rousing'
              => Cardinality(Rousing') = Cardinality(Rousing) - 1
         /\ (th \in Rousing <=> th \in Rousing')
              => Cardinality(Rousing') = Cardinality(Rousing)
<1>1. ASSUME NEW u \in Threads, u # th, NEW at
      PROVE  At(u, at)' <=> At(u, at)
  BY <1>1 DEF Keeps, At, Top
<1>2. Asleep' \subseteq Asleep
  BY <1>1 DEF Asleep, Threads
<1>3. \A u \in Threads : u # th => (u \in Rousing' <=> u \in Rousing)
  BY <1>1 DEF Rousing
<1>4. Rousing \subseteq Threads /\ Rousing' \subseteq Threads
  BY DEF Rousing
<1>5. ASSUME th \notin Rousing, th \in Rousing'
      PROVE  Cardinality(Rousing') = Cardinality(Rousing) + 1
  <2>1. Rousing' = Rousing \cup {th}
    BY <1>3, <1>4, <1>5
  <2>. QED  BY <1>5, <2>1, RousingFinite, FS_AddElement
<1>6. ASSUME th \in Rousing, th \notin Rousing'
      PROVE  Cardinality(Rousing') = Cardinality(Rousing) - 1
  <2>1. Rousing' = Rousing \ {th}
    BY <1>3, <1>4, <1>6
  <2>. QED  BY <1>6, <2>1, RousingFinite, FS_RemoveElement
<1>7. ASSUME th \in Rousing <=> th \in Rousing'
      PROVE  Cardinality(Rousing') = Cardinality(Rousing)
  <2>1. Rousing' = Rousing
    BY <1>3, <1>4, <1>7
  <2>. QED  BY <2>1
<1>. QED  BY <1>2, <1>5, <1>6, <1>7, RousingFinite

-----------------------------------------------------------------------------
(* The steps that move a task.                                             *)

(* schedule_task counts the task in.                                       *)
LEMMA ScheduleTaskStep ==
  ASSUME IInv, NEW th \in Threads, NEW t \in Tasks, ScheduleTask(th, t)
  PROVE  IInv'
<1>. DEFINE f == Frame("push", t)
            n == Len(stack[th])
<1>1. /\ Runs(th, Spawner[t]) /\ status[t] = "new" /\ stack' = Call(th, f)
      /\ counter' = [counter EXCEPT ![SchedOf[t]] = @ + 1]
      /\ status' = [status EXCEPT ![t] = "counted"]
      /\ lifetime' = [lifetime EXCEPT ![SchedOf[t]] = "open"]
      /\ UNCHANGED <<high, normal, mutex, stop, registered, lives, cancels>>
  BY DEF ScheduleTask
<1>2. PICK at \in {"idle", "run"} : At(th, at)
  BY <1>1 DEF Runs
<1>3. /\ stack \in [Threads -> Seq(Frames)] /\ stack[th] # <<>>
      /\ n \in Nat \ {0} /\ DOMAIN stack[th] = 1 .. n
      /\ Top(th) = stack[th][n] /\ Top(th).at = at
  BY <1>2, TopFrame DEF IInv
<1>4. f \in Frames /\ f.at = "push" /\ f.of = t
  BY DEF Frame, Frames, Points
<1>. HIDE DEF f
<1>5. Keeps(th, n, n + 1) /\ stack'[th][n + 1] = f
  BY <1>1, <1>3, <1>4, CallStack
<1>6. /\ n \in Nat /\ n + 1 \in Nat /\ n <= n + 1 /\ n < n + 1
      /\ \A i \in (n + 1) .. n : FALSE
      /\ \A i \in (n + 1) .. (n + 1) : i = n + 1
  BY <1>3
<1>7. n <= Len(stack[th]) /\ \A i \in (n + 1) .. Len(stack[th]) : FALSE
  BY <1>6
<1>8. FrameOK(th, n + 1, f)
  BY <1>3, <1>4 DEF FrameOK, LoopPoints, WaitPoints, HandPoints
<1>. HIDE DEF n
<1>9. Accounting' /\ WaitMeansDone' /\ counter' \in [Schedules -> Int]
  BY <1>1, CountIn DEF Live
<1>10. Values'
  BY <1>1, <1>9, TaskAssumption DEF IInv, Values
<1>11. Handed'
  <2>1. "counted" = Stage("push") /\ "push" \in HandPoints
    BY DEF Stage, HandPoints
  <2>. DEFINE m == n + 1
  <2>2. /\ \A i \in (n + 1) .. m : stack'[th][i].at \in HandPoints => stack'[th][i].of = t
        /\ stack'[th][m].at \in HandPoints /\ stack'[th][m].of = t
        /\ "counted" = Stage(stack'[th][m].at)
        /\ \A i \in (n + 1) .. m : stack'[th][i].at \in HandPoints => i = m
        /\ n \in Nat /\ m \in Nat /\ n <= m /\ n < m /\ Keeps(th, n, m)
    BY <1>4, <1>5, <1>6, <2>1
  <2>3. \A i \in (n + 1) .. Len(stack[th]) :
           stack[th][i].at \in HandPoints => stack[th][i].of = t
    BY <1>7
  <2>. HIDE DEF m
  <2>. QED  BY <1>1, <1>7, <2>2, <2>3, HandsMove
<1>12. Queues'
  <2>1. /\ DOMAIN status = Tasks /\ status[t] # "queued" /\ "counted" # "queued"
        /\ status' = [status EXCEPT ![t] = "counted"]
        /\ High \in SUBSET Tasks /\ Tasks \ High \in SUBSET Tasks
        /\ high' = high /\ normal' = normal
    BY <1>1, TaskAssumption DEF IInv, Values
  <2>2. QueueOf(high, High, status) /\ QueueOf(normal, Tasks \ High, status)
    BY DEF IInv, Queues
  <2>3. QueueOf(high', High, status') /\ QueueOf(normal', Tasks \ High, status')
    BY <2>1, <2>2, QueueOther
  <2>. QED  BY <2>3 DEF Queues
<1>13. Framed' /\ Crewed' /\ Locks' /\ Waits'
  <2>1. stack[th][n].at \in CallPoints
    BY <1>3 DEF CallPoints
  <2>2. f.at \notin LockPoints /\ f.at \notin WaitPoints
    BY <1>4 DEF LockPoints, WaitPoints
  <2>3. \A s \in Schedules : lifetime[s] = "open" => lifetime'[s] = "open"
    BY <1>1 DEF IInv, Values
  <2>4. QueueEmpty => QueueEmpty'
    BY <1>1 DEF QueueEmpty
  <2>. QED  BY <1>1, <1>3, <1>5, <1>6, <1>7, <1>8, <2>1, <2>2, <2>3, <2>4, MoveKept
<1>14. Budget'
  <2>1. th \notin Rousing
    BY <1>3 DEF Rousing, At
  <2>2. ~At(th, "asleep")' /\ th \notin Rousing'
    BY <1>4, <1>5 DEF At, Top, Keeps, Rousing
  <2>3. Asleep' \subseteq Asleep /\ Rousing \subseteq Rousing'
    BY <1>5, <2>1, <2>2, SleepersKept
  <2>. QED  BY <1>1, <2>3, BudgetKept DEF IInv
<1>. QED  BY <1>9, <1>10, <1>11, <1>12, <1>13, <1>14 DEF IInv

(* A thread's top frame moved to another point, counted from below.        *)
LEMMA TopMoves ==
  ASSUME IInv, NEW th \in Threads, NEW at, At(th, at), NEW to \in Points,
         stack' = Goto(th, to)
  PROVE  \E k, n \in Nat :
           /\ n = k + 1 /\ k <= n /\ k < n /\ n = Len(stack[th])
           /\ k <= Len(stack[th]) /\ stack[th] # <<>>
           /\ stack \in [Threads -> Seq(Frames)]
           /\ Keeps(th, k, n)
           /\ stack[th][n] = Top(th) /\ stack[th][n].at = at
           /\ FrameOK(th, n, stack[th][n])
           /\ stack'[th][n].at = to /\ stack'[th][n].of = Top(th).of
           /\ stack'[th][n] \in Frames
           /\ \A i \in (k + 1) .. n : i = n
           /\ \A i \in (k + 1) .. Len(stack[th]) : i = n
           /\ k = 0 \/ stack[th][k].at \in CallPoints
           /\ \A x : At(th, x)' <=> x = to
<1>. DEFINE n == Len(stack[th])
            k == n - 1
<1>1. /\ stack \in [Threads -> Seq(Frames)] /\ stack[th] # <<>>
      /\ n \in Nat \ {0} /\ DOMAIN stack[th] = 1 .. n
      /\ Top(th) = stack[th][n] /\ Top(th).at = at /\ Top(th) \in Frames
      /\ FrameOK(th, n, Top(th))
  BY TopFrame DEF IInv
<1>2. Keeps(th, k, n) /\ stack'[th][n] = [Top(th) EXCEPT !.at = to]
  BY <1>1, GotoStack
<1>3. stack'[th][n].at = to /\ stack'[th][n].of = Top(th).of /\ stack'[th][n] \in Frames
  BY <1>1, <1>2 DEF Frames
<1>4. k = 0 \/ stack[th][k].at \in CallPoints
  BY <1>1 DEF IInv, Framed
<1>5. /\ k \in Nat /\ n \in Nat /\ n = k + 1 /\ k <= n /\ k < n
      /\ \A i \in (k + 1) .. n : i = n
  BY <1>1
<1>6. \A x : At(th, x)' <=> x = to
  BY <1>1, <1>2, <1>3 DEF At, Top, Keeps
<1>7. n = Len(stack[th]) /\ \A i \in (k + 1) .. Len(stack[th]) : i = n
  BY <1>5
<1>. HIDE DEF n, k
<1>8. k <= Len(stack[th])
  BY <1>5, <1>7
<1>. QED  BY <1>1, <1>2, <1>3, <1>4, <1>5, <1>6, <1>7, <1>8

(* schedule_task puts the task in its queue.                               *)
LEMMA SchedulePushStep ==
  ASSUME IInv, NEW th \in Threads, SchedulePush(th)
  PROVE  IInv'
<1>. DEFINE t == Top(th).of
<1>1. /\ At(th, "push") /\ mutex = None /\ stack' = Goto(th, "wake")
      /\ IF t \in High THEN high' = Append(high, t) /\ UNCHANGED normal
                       ELSE normal' = Append(normal, t) /\ UNCHANGED high
      /\ status' = [status EXCEPT ![t] = "queued"]
      /\ UNCHANGED <<mutex, counter, stop, registered, lifetime, lives, cancels>>
  BY DEF SchedulePush
<1>2. PICK k, n \in Nat :
           /\ n = k + 1 /\ k <= n /\ k < n /\ n = Len(stack[th])
           /\ k <= Len(stack[th]) /\ stack[th] # <<>>
           /\ stack \in [Threads -> Seq(Frames)]
           /\ Keeps(th, k, n)
           /\ stack[th][n] = Top(th) /\ stack[th][n].at = "push"
           /\ FrameOK(th, n, stack[th][n])
           /\ stack'[th][n].at = "wake" /\ stack'[th][n].of = Top(th).of
           /\ stack'[th][n] \in Frames
           /\ \A i \in (k + 1) .. n : i = n
           /\ \A i \in (k + 1) .. Len(stack[th]) : i = n
           /\ k = 0 \/ stack[th][k].at \in CallPoints
           /\ \A x : At(th, x)' <=> x = "wake"
  BY <1>1, TopMoves DEF Points
<1>3. t \in Tasks /\ status[t] = "counted"
  <2>1. t \in Tasks
    BY <1>2 DEF FrameOK, HandPoints
  <2>2. Hand(th, n, "push", t) /\ "push" \in HandPoints
    BY <1>2 DEF Hand, HandPoints
  <2>3. status[t] = Stage("push")
    BY <2>1, <2>2 DEF IInv, Handed, InHand
  <2>. QED  BY <2>1, <2>3 DEF Stage
<1>. HIDE DEF t
<1>4. Accounting' /\ WaitMeansDone'
  BY <1>1, <1>3, CountKept DEF Live
<1>5. Values'
  BY <1>1, <1>3 DEF IInv, Values
<1>6. Handed'
  <2>1. k <= Len(stack[th]) /\ Keeps(th, k, n) /\ k <= n
    BY <1>2
  <2>2. \A i \in (k + 1) .. Len(stack[th]) :
          stack[th][i].at \in HandPoints => stack[th][i].of = t
    BY <1>2 DEF t
  <2>3. \A i \in (k + 1) .. n : stack'[th][i].at \notin HandPoints
    BY <1>2 DEF HandPoints
  <2>4. \E i \in (k + 1) .. Len(stack[th]) :
          stack[th][i].at \in HandPoints /\ stack[th][i].of = t
    BY <1>2 DEF HandPoints, t
  <2>5. status' = [status EXCEPT ![t] = "queued"]
    BY <1>1
  <2>6. "queued" \notin {"counted", "running", "ran"}
    OBVIOUS
  <2>. QED  BY <1>3, <2>1, <2>2, <2>3, <2>4, <2>5, <2>6, HandsDropped
<1>7. Queues' /\ Len(high') + Len(normal') = Len(high) + Len(normal) + 1
  <2>1. /\ DOMAIN status = Tasks /\ t \in Tasks /\ status[t] # "queued"
        /\ status' = [status EXCEPT ![t] = "queued"]
        /\ High \in SUBSET Tasks /\ Tasks \ High \in SUBSET Tasks
    BY <1>1, <1>3, TaskAssumption DEF IInv, Values
  <2>2. QueueOf(high, High, status) /\ QueueOf(normal, Tasks \ High, status)
    BY DEF IInv, Queues
  <2>3. high \in Seq(Tasks) /\ normal \in Seq(Tasks)
    BY <2>2 DEF QueueOf
  <2>4. CASE t \in High
    <3>1. high' = Append(high, t) /\ normal' = normal /\ t \notin Tasks \ High
      BY <1>1, <2>4
    <3>2. QueueOf(high', High, status')
      BY <2>1, <2>2, <2>4, <3>1, QueueAppend
    <3>3. QueueOf(normal', Tasks \ High, status')
      BY <2>1, <2>2, <3>1, QueueElsewhere
    <3>4. Len(high') = Len(high) + 1
      BY <2>1, <2>3, <3>1
    <3>. QED  BY <2>3, <3>1, <3>2, <3>3, <3>4 DEF Queues
  <2>5. CASE t \notin High
    <3>1. normal' = Append(normal, t) /\ high' = high /\ t \in Tasks \ High
      BY <1>1, <2>1, <2>5
    <3>2. QueueOf(normal', Tasks \ High, status')
      BY <2>1, <2>2, <3>1, QueueAppend
    <3>3. QueueOf(high', High, status')
      BY <2>1, <2>2, <2>5, <3>1, QueueElsewhere
    <3>4. Len(normal') = Len(normal) + 1
      BY <2>1, <2>3, <3>1
    <3>. QED  BY <2>3, <3>1, <3>2, <3>3, <3>4 DEF Queues
  <2>. QED  BY <2>4, <2>5
<1>8. Framed' /\ Crewed' /\ Locks' /\ Waits'
  <2>1. FrameOK(th, n, stack'[th][n])
    BY <1>2 DEF FrameOK, LoopPoints, WaitPoints, HandPoints
  <2>2. "wake" \notin LockPoints /\ "wake" \notin WaitPoints
    BY DEF LockPoints, WaitPoints
  <2>3. \A i \in (k + 1) .. n :
           /\ FrameOK(th, i, stack'[th][i])
           /\ i < n => stack'[th][i].at \in CallPoints
           /\ stack'[th][i].at \notin LockPoints
           /\ stack'[th][i].at \notin WaitPoints
    BY <1>2, <2>1, <2>2
  <2>. QED  BY <1>1, <1>2, <2>3, MoveKept
<1>9. Budget'
  <2>1. ~At(th, "asleep")' /\ th \in Rousing' /\ th \notin Rousing
    BY <1>1, <1>2 DEF Rousing, At
  <2>2. /\ Asleep' \subseteq Asleep
        /\ Cardinality(Rousing') = Cardinality(Rousing) + 1
        /\ Cardinality(Rousing) \in Nat
    BY <1>2, <2>1, RousingMoved
  <2>. QED  BY <1>7, <2>2, QueueLengths DEF IInv, Budget
<1>. QED  BY <1>4, <1>5, <1>6, <1>7, <1>8, <1>9 DEF IInv

(* The queue the next task is popped from, and what is left of both.       *)
LEMMA PopSteps ==
  ASSUME IInv, ~QueueEmpty, PopFront, status' = [status EXCEPT ![NextTask] = "running"]
  PROVE  /\ Queues' /\ NextTask \in Tasks /\ status[NextTask] = "queued"
         /\ Len(high') + Len(normal') = Len(high) + Len(normal) - 1
         /\ Len(high') \in Nat /\ Len(normal') \in Nat
<1>1. /\ DOMAIN status = Tasks /\ High \in SUBSET Tasks /\ Tasks \ High \in SUBSET Tasks
  BY TaskAssumption DEF IInv, Values
<1>2. QueueOf(high, High, status) /\ QueueOf(normal, Tasks \ High, status)
  BY DEF IInv, Queues
<1>3. Len(high) \in Nat /\ Len(normal) \in Nat
  BY QueueLengths DEF IInv
<1>4. CASE high # <<>>
  <2>1. NextTask = Head(high) /\ high' = Tail(high) /\ normal' = normal
    BY <1>4 DEF PopFront, NextTask
  <2>2. /\ QueueOf(Tail(high), High, [status EXCEPT ![Head(high)] = "running"])
        /\ Head(high) \in High /\ status[Head(high)] = "queued"
        /\ Len(Tail(high)) = Len(high) - 1
    <3>1. /\ QueueOf(high, High, status) /\ High \in SUBSET Tasks /\ high # <<>>
          /\ DOMAIN status = Tasks
      BY <1>1, <1>2, <1>4
    <3>. QED  BY <3>1, QueueTail
  <2>3. Head(high) \in Tasks /\ Head(high) \notin Tasks \ High
    BY <1>1, <2>2
  <2>4. QueueOf(normal, Tasks \ High, [status EXCEPT ![Head(high)] = "running"])
    BY <1>1, <1>2, <2>3, QueueElsewhere
  <2>5. Queues'
    BY <2>1, <2>2, <2>4 DEF Queues
  <2>. QED  BY <1>3, <2>1, <2>2, <2>3, <2>5, QueueLengths
<1>5. CASE high = <<>>
  <2>1. NextTask = Head(normal) /\ normal' = Tail(normal) /\ high' = high /\ normal # <<>>
    BY <1>5 DEF PopFront, NextTask, QueueEmpty
  <2>2. /\ QueueOf(Tail(normal), Tasks \ High, [status EXCEPT ![Head(normal)] = "running"])
        /\ Head(normal) \in Tasks \ High /\ status[Head(normal)] = "queued"
        /\ Len(Tail(normal)) = Len(normal) - 1
    <3>1. /\ QueueOf(normal, Tasks \ High, status) /\ Tasks \ High \in SUBSET Tasks
          /\ DOMAIN status = Tasks /\ normal # <<>>
      BY <1>1, <1>2, <2>1
    <3>. QED  BY <3>1, QueueTail
  <2>3. Head(normal) \in Tasks /\ Head(normal) \notin High
    BY <1>1, <2>2
  <2>4. QueueOf(high, High, [status EXCEPT ![Head(normal)] = "running"])
    BY <1>1, <1>2, <2>3, QueueElsewhere
  <2>5. Queues'
    BY <2>1, <2>2, <2>4 DEF Queues
  <2>. QED  BY <1>3, <2>1, <2>2, <2>3, <2>5, QueueLengths
<1>. QED  BY <1>4, <1>5

(* A worker or a thread that waits takes the next task.                    *)
LEMMA TakeStep ==
  ASSUME IInv, NEW th \in Threads,
         WaitTake(th) \/ (th \in Workers /\ WorkerTake(th))
  PROVE  IInv'
<1>. DEFINE t == NextTask
            f == Frame("run", t)
            n == Len(stack[th])
            k == n - 1
            m == n + 1
<1>1. PICK at, to \in Points :
        /\ (at = "take" /\ to = "check") \/ (at = "acquire" /\ to = "loop")
        /\ At(th, at) /\ stack' = GotoCall(th, to, f)
  BY DEF WaitTake, WorkerTake, Points
<1>2. /\ mutex = None /\ ~QueueEmpty /\ PopFront
      /\ status' = [status EXCEPT ![t] = "running"]
      /\ UNCHANGED <<mutex, counter, stop, registered, lifetime, lives, cancels>>
  BY DEF WaitTake, WorkerTake
<1>3. /\ Queues' /\ t \in Tasks /\ status[t] = "queued"
      /\ Len(high') + Len(normal') = Len(high) + Len(normal) - 1
      /\ Len(high') \in Nat /\ Len(normal') \in Nat
  BY <1>2, PopSteps
<1>. HIDE DEF t
<1>4. f \in Frames /\ f.at = "run" /\ f.of = t
  BY <1>3 DEF Frame, Frames, Points
<1>. HIDE DEF f
<1>5. /\ stack \in [Threads -> Seq(Frames)] /\ stack[th] # <<>>
      /\ n \in Nat \ {0} /\ DOMAIN stack[th] = 1 .. n
      /\ Top(th) = stack[th][n] /\ Top(th).at = at /\ Top(th) \in Frames
      /\ FrameOK(th, n, Top(th))
  BY <1>1, TopFrame DEF IInv
<1>6. /\ Keeps(th, k, m) /\ stack'[th][n] = [Top(th) EXCEPT !.at = to]
      /\ stack'[th][m] = f
  BY <1>1, <1>4, <1>5, GotoCallStack
<1>7. /\ stack'[th][n].at = to /\ stack'[th][n].of = stack[th][n].of
      /\ stack'[th][n] \in Frames
  BY <1>5, <1>6 DEF Frames
<1>8. k = 0 \/ stack[th][k].at \in CallPoints
  BY <1>5 DEF IInv, Framed
<1>9. FrameOK(th, n, stack'[th][n]) /\ FrameOK(th, m, f)
  BY <1>1, <1>3, <1>4, <1>5, <1>7 DEF FrameOK, HandPoints, WaitPoints, LoopPoints
<1>10. /\ k \in Nat /\ n \in Nat /\ m \in Nat /\ k <= m /\ k < m
       /\ n = Len(stack[th]) /\ k <= Len(stack[th]) /\ n = k + 1 /\ n < m
       /\ \A i \in (k + 1) .. Len(stack[th]) : i = n
       /\ \A i \in (k + 1) .. m : (i = n /\ i < m) \/ (i = m /\ ~(i < m))
  <2>1. n \in Nat /\ n > 0 /\ n = Len(stack[th])
    BY <1>5
  <2>2. k = n - 1 /\ m = n + 1
    OBVIOUS
  <2>3. k \in Nat /\ m \in Nat /\ k <= m /\ k < m /\ n = k + 1 /\ n < m /\ k <= n
    BY <2>1, <2>2
  <2>4. \A i \in (k + 1) .. m : (i = n /\ i < m) \/ (i = m /\ ~(i < m))
    BY <2>1, <2>2
  <2>5. \A i \in (k + 1) .. Len(stack[th]) : i = n
    BY <2>1, <2>2
  <2>. QED  BY <2>1, <2>3, <2>4, <2>5
<1>. HIDE DEF n, k, m
<1>11. Accounting' /\ WaitMeansDone'
  BY <1>2, <1>3, CountKept DEF Live
<1>12. Values'
  BY <1>2, <1>3 DEF IInv, Values
<1>13. Handed'
  <2>1. k <= Len(stack[th]) /\ Keeps(th, k, m) /\ k < m
    BY <1>6, <1>10
  <2>2. \A i \in (k + 1) .. Len(stack[th]) :
          stack[th][i].at \in HandPoints => stack[th][i].of = t
    BY <1>1, <1>5, <1>10 DEF HandPoints
  <2>3. \A i \in (k + 1) .. m : stack'[th][i].at \in HandPoints => i = m
    BY <1>1, <1>7, <1>10 DEF HandPoints
  <2>4. /\ stack'[th][m].at \in HandPoints /\ stack'[th][m].of = t
        /\ "running" = Stage(stack'[th][m].at)
    BY <1>4, <1>6 DEF HandPoints, Stage
  <2>5. status' = [status EXCEPT ![t] = "running"] /\ "running" \in {"counted", "running", "ran"}
    BY <1>2
  <2>6. status[t] \notin {"counted", "running", "ran"}
    BY <1>3
  <2>. QED  BY <1>3, <1>10, <2>1, <2>2, <2>3, <2>4, <2>5, <2>6, HandsTaken
<1>14. Framed' /\ Crewed' /\ Locks' /\ Waits'
  <2>1. ASSUME NEW i \in (k + 1) .. m
        PROVE  /\ FrameOK(th, i, stack'[th][i])
               /\ i < m => stack'[th][i].at \in CallPoints
               /\ stack'[th][i].at \notin LockPoints
               /\ stack'[th][i].at \in WaitPoints =>
                    /\ i = k + 1 /\ i <= Len(stack[th])
                    /\ stack[th][i].at \in WaitPoints
                    /\ stack'[th][i].of = stack[th][i].of
    <3>1. CASE i = n /\ i < m
      BY <1>1, <1>5, <1>7, <1>9, <1>10, <3>1 DEF CallPoints, LockPoints, WaitPoints
    <3>2. CASE i = m /\ ~(i < m)
      BY <1>4, <1>6, <1>9, <1>10, <3>2 DEF LockPoints, WaitPoints
    <3>. QED  BY <1>10, <3>1, <3>2
  <2>2. UNCHANGED <<mutex, registered>> /\ mutex = None /\ UNCHANGED lifetime
    BY <1>2
  <2>3. stack[th] # <<>> /\ k <= Len(stack[th]) /\ Keeps(th, k, m) /\ k <= m
    BY <1>5, <1>6, <1>10
  <2>. QED  BY <1>8, <1>10, <2>1, <2>2, <2>3, MoveKept
<1>15. Budget'
  <2>1. \A x : At(th, x)' <=> x = "run"
    BY <1>4, <1>6, <1>10 DEF At, Top, Keeps
  <2>2. ~At(th, "asleep")' /\ th \notin Rousing'
    BY <2>1 DEF Rousing
  <2>3. /\ Asleep' \subseteq Asleep
        /\ Cardinality(Rousing) \in Nat /\ Cardinality(Rousing') \in Nat
        /\ \/ Cardinality(Rousing') = Cardinality(Rousing) - 1
           \/ Cardinality(Rousing') = Cardinality(Rousing)
    BY <1>6, <2>2, RousingMoved
  <2>4. Len(high) \in Nat /\ Len(normal) \in Nat /\ Budget
    BY QueueLengths DEF IInv
  <2>. QED  BY <1>3, <2>3, <2>4 DEF Budget
<1>. QED  BY <1>3, <1>11, <1>12, <1>13, <1>14, <1>15 DEF IInv

(* The task in a thread's hands has the status of the point it is at.      *)
LEMMA TopHand ==
  ASSUME IInv, NEW th \in Threads, NEW at \in HandPoints, At(th, at)
  PROVE  /\ Top(th).of \in Tasks
         /\ status[Top(th).of] = Stage(at)
<1>. DEFINE t == Top(th).of
            n == Len(stack[th])
<1>1. /\ n \in Nat /\ n \in DOMAIN stack[th] /\ Top(th) = stack[th][n]
      /\ Top(th).at = at /\ FrameOK(th, n, Top(th))
  BY TopFrame DEF IInv
<1>2. t \in Tasks
  BY <1>1 DEF FrameOK
<1>3. Hand(th, n, at, t)
  BY <1>1 DEF Hand
<1>4. InHand(t)
  BY <1>2 DEF IInv, Handed
<1>. HIDE DEF t, n
<1>5. status[t] = Stage(at)
  BY <1>1, <1>3, <1>4 DEF InHand
<1>. QED  BY <1>2, <1>5 DEF t

(* The body of a task returns.                                             *)
LEMMA TaskReturnStep ==
  ASSUME IInv, NEW th \in Threads, TaskReturn(th)
  PROVE  IInv'
<1>. DEFINE t == Top(th).of
<1>1. /\ At(th, "run") /\ stack' = Goto(th, "finish")
      /\ status' = [status EXCEPT ![t] = "ran"]
      /\ UNCHANGED <<high, normal, mutex, counter, stop, registered, lifetime,
                     lives, cancels>>
  BY DEF TaskReturn
<1>2. PICK k, n \in Nat :
           /\ n = k + 1 /\ k <= n /\ k < n /\ n = Len(stack[th])
           /\ k <= Len(stack[th]) /\ stack[th] # <<>>
           /\ stack \in [Threads -> Seq(Frames)]
           /\ Keeps(th, k, n)
           /\ stack[th][n] = Top(th) /\ stack[th][n].at = "run"
           /\ FrameOK(th, n, stack[th][n])
           /\ stack'[th][n].at = "finish" /\ stack'[th][n].of = Top(th).of
           /\ stack'[th][n] \in Frames
           /\ \A i \in (k + 1) .. n : i = n
           /\ \A i \in (k + 1) .. Len(stack[th]) : i = n
           /\ k = 0 \/ stack[th][k].at \in CallPoints
           /\ \A x : At(th, x)' <=> x = "finish"
  BY <1>1, TopMoves DEF Points
<1>3. t \in Tasks /\ status[t] = "running"
  BY <1>1, TopHand DEF HandPoints, Stage
<1>. HIDE DEF t
<1>4. Accounting' /\ WaitMeansDone'
  BY <1>1, <1>3, CountKept DEF Live
<1>5. Values'
  BY <1>1, <1>3 DEF IInv, Values
<1>6. Handed'
  <2>1. k <= Len(stack[th]) /\ Keeps(th, k, n) /\ k < n
    BY <1>2
  <2>2. \A i \in (k + 1) .. Len(stack[th]) :
          stack[th][i].at \in HandPoints => stack[th][i].of = t
    BY <1>2 DEF t
  <2>3. \A i \in (k + 1) .. n : stack'[th][i].at \in HandPoints => i = n
    BY <1>2
  <2>4. \E i \in (k + 1) .. Len(stack[th]) :
          stack[th][i].at \in HandPoints /\ stack[th][i].of = t
    BY <1>2 DEF HandPoints, t
  <2>5. /\ stack'[th][n].at \in HandPoints /\ stack'[th][n].of = t
        /\ "ran" = Stage(stack'[th][n].at)
    BY <1>2 DEF HandPoints, Stage, t
  <2>6. status' = [status EXCEPT ![t] = "ran"] /\ "ran" \in {"counted", "running", "ran"}
    BY <1>1
  <2>. QED  BY <1>3, <2>1, <2>2, <2>3, <2>4, <2>5, <2>6, HandsTaken
<1>7. Queues'
  <2>1. /\ DOMAIN status = Tasks /\ status[t] # "queued" /\ "ran" # "queued"
        /\ status' = [status EXCEPT ![t] = "ran"]
        /\ High \in SUBSET Tasks /\ Tasks \ High \in SUBSET Tasks
        /\ high' = high /\ normal' = normal
    BY <1>1, <1>3, TaskAssumption DEF IInv, Values
  <2>2. QueueOf(high, High, status) /\ QueueOf(normal, Tasks \ High, status)
    BY DEF IInv, Queues
  <2>3. QueueOf(high', High, status') /\ QueueOf(normal', Tasks \ High, status')
    BY <1>3, <2>1, <2>2, QueueOther
  <2>. QED  BY <2>3 DEF Queues
<1>8. Framed' /\ Crewed' /\ Locks' /\ Waits'
  <2>1. FrameOK(th, n, stack'[th][n])
    BY <1>2 DEF FrameOK, LoopPoints, WaitPoints, HandPoints
  <2>2. "finish" \notin LockPoints /\ "finish" \notin WaitPoints
    BY DEF LockPoints, WaitPoints
  <2>3. \A i \in (k + 1) .. n :
           /\ FrameOK(th, i, stack'[th][i])
           /\ i < n => stack'[th][i].at \in CallPoints
           /\ stack'[th][i].at \notin LockPoints
           /\ stack'[th][i].at \notin WaitPoints
    BY <1>2, <2>1, <2>2
  <2>4. UNCHANGED <<mutex, registered, lifetime>> /\ (QueueEmpty => QueueEmpty')
    BY <1>1 DEF QueueEmpty
  <2>. QED  BY <1>2, <2>3, <2>4, MoveKept
<1>9. Budget'
  <2>1. ~At(th, "asleep")' /\ th \notin Rousing
    BY <1>1, <1>2 DEF Rousing, At
  <2>. QED  BY <1>1, <1>2, <2>1, SleepersKept, BudgetKept DEF IInv
<1>. QED  BY <1>1, <1>4, <1>5, <1>6, <1>7, <1>8, <1>9 DEF IInv

(* A task is counted out after its body.                                   *)
LEMMA TaskFinishStep ==
  ASSUME IInv, NEW th \in Threads, TaskFinish(th)
  PROVE  IInv'
<1>. DEFINE t == Top(th).of
            n == Len(stack[th])
            k == n - 1
<1>1. /\ At(th, "finish")
      /\ stack' = Goto(th, "notify") \/ stack' = Return(th)
      /\ counter' = [counter EXCEPT ![SchedOf[t]] = @ - 1]
      /\ status' = [status EXCEPT ![t] = "done"]
      /\ UNCHANGED <<high, normal, mutex, stop, registered, lifetime, lives, cancels>>
  BY DEF TaskFinish
<1>2. /\ stack \in [Threads -> Seq(Frames)] /\ stack[th] # <<>>
      /\ n \in Nat \ {0} /\ DOMAIN stack[th] = 1 .. n
      /\ Top(th) = stack[th][n] /\ Top(th).at = "finish" /\ Top(th) \in Frames
      /\ FrameOK(th, n, Top(th))
  BY <1>1, TopFrame DEF IInv
<1>3. /\ k \in Nat /\ n = Len(stack[th]) /\ k <= n /\ n = k + 1
      /\ \A i \in (k + 1) .. n : i = n
      /\ \A i \in (k + 1) .. k : FALSE
  BY <1>2
<1>4. k = 0 \/ stack[th][k].at \in CallPoints
  BY <1>2 DEF IInv, Framed
<1>5. t \in Tasks /\ status[t] = "ran"
  BY <1>1, TopHand DEF HandPoints, Stage
<1>. HIDE DEF t
<1>6. /\ Accounting' /\ WaitMeansDone' /\ counter' \in [Schedules -> Int]
  BY <1>1, <1>5, CountOut DEF Live
<1>7. Values'
  BY <1>1, <1>6 DEF IInv, Values
<1>8. PICK m \in Nat :
        /\ k <= m /\ Keeps(th, k, m)
        /\ k = m \/ m = n
        /\ \A i \in (k + 1) .. m : i = n /\ stack'[th][i].at = "notify"
                                   /\ FrameOK(th, i, stack'[th][i])
  <2>1. CASE stack' = Return(th)
    <3>1. Keeps(th, k, k)
      BY <1>2, <2>1, ReturnStack
    <3>. HIDE DEF n, k
    <3>. QED  BY <1>3, <3>1
  <2>2. CASE stack' = Goto(th, "notify")
    <3>1. Keeps(th, k, n) /\ stack'[th][n] = [Top(th) EXCEPT !.at = "notify"]
      BY <1>2, <2>2, GotoStack DEF Points
    <3>2. /\ stack'[th][n].at = "notify" /\ stack'[th][n].of = Top(th).of
          /\ stack'[th][n] \in Frames
      BY <1>2, <3>1 DEF Frames, Points
    <3>3. FrameOK(th, n, stack'[th][n])
      BY <1>2, <3>2 DEF FrameOK, LoopPoints, WaitPoints, HandPoints
    <3>. QED  BY <1>2, <1>3, <3>1, <3>2, <3>3
  <2>. QED  BY <1>1, <2>1, <2>2
<1>9. k <= Len(stack[th]) /\ \A i \in (k + 1) .. Len(stack[th]) : i = n
  BY <1>3
<1>10. /\ stack[th][n].at = "finish" /\ stack[th][n].of = t
       /\ n \in (k + 1) .. Len(stack[th])
  <2>1. stack[th][n].at = "finish" /\ stack[th][n].of = t
    BY <1>2 DEF t
  <2>2. n \in Nat
    BY <1>2
  <2>. HIDE DEF n, k
  <2>3. n \in (k + 1) .. Len(stack[th])
    BY <1>3, <2>2
  <2>. QED  BY <2>1, <2>3
<1>. HIDE DEF n, k
<1>11. Handed'
  <2>1. \A i \in (k + 1) .. Len(stack[th]) :
          stack[th][i].at \in HandPoints => stack[th][i].of = t
    BY <1>9, <1>10
  <2>2. \A i \in (k + 1) .. m : stack'[th][i].at \notin HandPoints
    BY <1>8 DEF HandPoints
  <2>3. \E i \in (k + 1) .. Len(stack[th]) :
          stack[th][i].at \in HandPoints /\ stack[th][i].of = t
    BY <1>10 DEF HandPoints
  <2>4. status' = [status EXCEPT ![t] = "done"] /\ "done" \notin {"counted", "running", "ran"}
    BY <1>1
  <2>5. k <= Len(stack[th]) /\ Keeps(th, k, m) /\ k <= m /\ k \in Nat
    BY <1>3, <1>8, <1>9
  <2>. QED  BY <1>5, <2>1, <2>2, <2>3, <2>4, <2>5, HandsDropped
<1>12. Queues'
  <2>1. /\ DOMAIN status = Tasks /\ status[t] # "queued" /\ "done" # "queued"
        /\ status' = [status EXCEPT ![t] = "done"]
        /\ High \in SUBSET Tasks /\ Tasks \ High \in SUBSET Tasks
        /\ high' = high /\ normal' = normal
    BY <1>1, <1>5, TaskAssumption DEF IInv, Values
  <2>2. QueueOf(high, High, status) /\ QueueOf(normal, Tasks \ High, status)
    BY DEF IInv, Queues
  <2>3. QueueOf(high', High, status') /\ QueueOf(normal', Tasks \ High, status')
    BY <1>5, <2>1, <2>2, QueueOther
  <2>. QED  BY <2>3 DEF Queues
<1>13. Framed' /\ Crewed' /\ Locks' /\ Waits'
  <2>1. "notify" \notin LockPoints /\ "notify" \notin WaitPoints /\ "notify" \notin CallPoints
    BY DEF LockPoints, WaitPoints, CallPoints
  <2>2. \A i \in (k + 1) .. m :
           /\ FrameOK(th, i, stack'[th][i])
           /\ i < m => stack'[th][i].at \in CallPoints
           /\ stack'[th][i].at \notin LockPoints
           /\ stack'[th][i].at \notin WaitPoints
    BY <1>3, <1>8, <2>1
  <2>3. UNCHANGED <<mutex, registered, lifetime>> /\ (QueueEmpty => QueueEmpty')
    BY <1>1 DEF QueueEmpty
  <2>4. k <= Len(stack[th]) /\ Keeps(th, k, m) /\ k <= m /\ k \in Nat /\ stack[th] # <<>>
    BY <1>2, <1>3, <1>8, <1>9
  <2>. QED  BY <1>4, <2>2, <2>3, <2>4, MoveKept
<1>14. Budget'
  <2>1. th \notin Rousing
    BY <1>2 DEF Rousing, At
  <2>2. ~At(th, "asleep")'
    <3>1. Len(stack'[th]) = m /\ stack' \in [Threads -> Seq(Frames)]
      BY <1>8 DEF Keeps
    <3>2. CASE m = n
      BY <1>3, <1>8, <3>1, <3>2 DEF At, Top
    <3>3. CASE m = k /\ k # 0
      <4>1. stack'[th][k] = stack[th][k]
        BY <1>3, <1>8, <3>3 DEF Keeps
      <4>. QED  BY <1>4, <3>1, <3>3, <4>1 DEF At, Top, CallPoints
    <3>4. CASE m = 0
      BY <3>1, <3>4 DEF At
    <3>. QED  BY <1>8, <3>2, <3>3, <3>4
  <2>. QED  BY <1>1, <1>8, <2>1, <2>2, SleepersKept, BudgetKept DEF IInv
<1>. QED  BY <1>1, <1>6, <1>7, <1>11, <1>12, <1>13, <1>14 DEF IInv

(* The first of some places is one of them.                                *)
LEMMA FirstOfIn ==
  ASSUME NEW S \in SUBSET Nat, S # {}
  PROVE  FirstOf(S) \in S
<1>. DEFINE R == OpToRel(<, Nat)
<1>1. R = {ss \in Nat \X Nat : ss[1] < ss[2]}
  BY DEF OpToRel
<1>2. PICK x \in S : \A y \in S : <<y, x>> \notin R
  <2>1. IsWellFoundedOn(R, Nat)
    BY NatLessThanWellFounded
  <2>. HIDE DEF R
  <2>. QED  BY <2>1, WFMin
<1>. HIDE DEF R
<1>3. \A y \in S : x <= y
  <2>1. ASSUME NEW y \in S, y < x PROVE FALSE
    <3>1. <<y, x>> \in Nat \X Nat /\ <<y, x>>[1] < <<y, x>>[2]
      BY <2>1
    <3>. QED  BY <1>1, <1>2, <3>1
  <2>. QED  BY <2>1
<1>. QED  BY <1>3 DEF FirstOf

(* The task that cancel_tasks_of_tag finds next, and the queue it leaves.  *)
LEMMA CancelPops ==
  ASSUME IInv, NEW th \in Threads, CancelTask(th)
  PROVE  \E t \in Tasks :
           /\ status[t] = "queued" /\ status' = [status EXCEPT ![t] = "cancelled"]
           /\ counter' = [counter EXCEPT ![SchedOf[t]] = @ - 1]
           /\ stack' = Call(th, Frame("notify", t)) \/ stack' = stack
           /\ Queues' /\ ~QueueEmpty
           /\ Len(high') + Len(normal') = Len(high) + Len(normal) - 1
           /\ TagOf[t] = Top(th).of
           /\ \/ /\ \E i \in DOMAIN high : high[i] = t /\ high' = Erase(high, i)
                 /\ UNCHANGED normal
              \/ /\ \E i \in DOMAIN normal : normal[i] = t /\ normal' = Erase(normal, i)
                 /\ UNCHANGED high
<1>. DEFINE tag == Top(th).of
            inHigh == Tagged(high, tag)
            inNormal == Tagged(normal, tag)
            i == IF inHigh # {} THEN FirstOf(inHigh) ELSE FirstOf(inNormal)
            q == IF inHigh # {} THEN high ELSE normal
            S == IF inHigh # {} THEN High ELSE Tasks \ High
            t == q[i]
<1>1. /\ status' = [status EXCEPT ![t] = "cancelled"]
      /\ counter' = [counter EXCEPT ![SchedOf[t]] = @ - 1]
      /\ stack' = Call(th, Frame("notify", t)) \/ stack' = stack
      /\ inHigh \cup inNormal # {}
      /\ IF inHigh # {} THEN high' = Erase(high, i) /\ UNCHANGED normal
                        ELSE normal' = Erase(normal, i) /\ UNCHANGED high
  BY DEF CancelTask
<1>2. QueueOf(high, High, status) /\ QueueOf(normal, Tasks \ High, status)
  BY DEF IInv, Queues
<1>3. inHigh \in SUBSET Nat /\ inNormal \in SUBSET Nat
  <2>1. high \in Seq(Tasks) /\ normal \in Seq(Tasks)
    BY <1>2 DEF QueueOf
  <2>. QED  BY <2>1 DEF Tagged
<1>4. i \in DOMAIN q /\ TagOf[t] = tag
  <2>1. CASE inHigh # {}
    <3>1. FirstOf(inHigh) \in inHigh
      BY <1>3, <2>1, FirstOfIn
    <3>. QED  BY <2>1, <3>1 DEF Tagged
  <2>2. CASE inHigh = {}
    <3>1. FirstOf(inNormal) \in inNormal
      BY <1>1, <1>3, <2>2, FirstOfIn
    <3>. QED  BY <2>2, <3>1 DEF Tagged
  <2>. QED  BY <2>1, <2>2
<1>5. /\ DOMAIN status = Tasks /\ S \in SUBSET Tasks
      /\ High \in SUBSET Tasks /\ Tasks \ High \in SUBSET Tasks
      /\ QueueOf(q, S, status)
  BY <1>2, TaskAssumption DEF IInv, Values
<1>6. /\ high' = IF inHigh # {} THEN Erase(high, i) ELSE high
      /\ normal' = IF inHigh # {} THEN normal ELSE Erase(normal, i)
  BY <1>1
<1>7. inHigh # {} => q = high /\ S = High
  OBVIOUS
<1>8. inHigh = {} => q = normal /\ S = Tasks \ High
  OBVIOUS
<1>. DEFINE some == inHigh # {}
<1>. HIDE DEF i, q, S, inHigh, inNormal
<1>9. q[i] \in S /\ status[q[i]] = "queued" /\ q[i] \in Tasks /\ q # <<>>
  BY <1>4, <1>5 DEF QueueOf
<1>10. /\ QueueOf(Erase(q, i), S, [status EXCEPT ![q[i]] = "cancelled"])
       /\ Len(Erase(q, i)) = Len(q) - 1
  BY <1>4, <1>5, QueueErase
<1>. HIDE DEF t
<1>11. Queues' /\ Len(high') + Len(normal') = Len(high) + Len(normal) - 1
  <2>1. Len(high) \in Nat /\ Len(normal) \in Nat
    BY QueueLengths DEF IInv
  <2>2. t \in Tasks /\ t \in S /\ t = q[i]
    BY <1>9 DEF t
  <2>3. CASE inHigh # {}
    <3>1. t \notin Tasks \ High
      BY <1>7, <2>2, <2>3
    <3>2. QueueOf(normal, Tasks \ High, [status EXCEPT ![t] = "cancelled"])
      BY <1>2, <1>5, <2>2, <3>1, QueueElsewhere
    <3>. QED  BY <1>1, <1>6, <1>7, <1>10, <2>1, <2>2, <2>3, <3>2 DEF Queues
  <2>4. CASE inHigh = {}
    <3>1. t \notin High
      BY <1>8, <2>2, <2>4
    <3>2. QueueOf(high, High, [status EXCEPT ![t] = "cancelled"])
      BY <1>2, <1>5, <2>2, <3>1, QueueElsewhere
    <3>. QED  BY <1>1, <1>6, <1>8, <1>10, <2>1, <2>2, <2>4, <3>2 DEF Queues
  <2>. QED  BY <2>3, <2>4
<1>12. ~QueueEmpty
  BY <1>7, <1>8, <1>9 DEF QueueEmpty
<1>13. \/ /\ \E j \in DOMAIN high : high[j] = t /\ high' = Erase(high, j)
          /\ UNCHANGED normal
       \/ /\ \E j \in DOMAIN normal : normal[j] = t /\ normal' = Erase(normal, j)
          /\ UNCHANGED high
  BY <1>4, <1>6, <1>7, <1>8 DEF t
<1>14. t \in Tasks /\ status[t] = "queued"
  BY <1>9 DEF t
<1>. QED  BY <1>1, <1>4, <1>11, <1>12, <1>13, <1>14

(* A task of the tag is cancelled.                                         *)
LEMMA CancelTaskStep ==
  ASSUME IInv, NEW th \in Threads, CancelTask(th)
  PROVE  IInv'
<1>. DEFINE n == Len(stack[th])
<1>1. /\ At(th, "cancel")
      /\ UNCHANGED <<mutex, stop, registered, lifetime, lives, cancels>>
  BY DEF CancelTask
<1>2. PICK t \in Tasks :
        /\ status[t] = "queued" /\ status' = [status EXCEPT ![t] = "cancelled"]
        /\ counter' = [counter EXCEPT ![SchedOf[t]] = @ - 1]
        /\ stack' = Call(th, Frame("notify", t)) \/ stack' = stack
        /\ Queues' /\ ~QueueEmpty
        /\ Len(high') + Len(normal') = Len(high) + Len(normal) - 1
  BY CancelPops
<1>3. /\ stack \in [Threads -> Seq(Frames)] /\ stack[th] # <<>>
      /\ n \in Nat \ {0} /\ DOMAIN stack[th] = 1 .. n
      /\ Top(th) = stack[th][n] /\ Top(th).at = "cancel"
  BY <1>1, TopFrame DEF IInv
<1>4. PICK m \in Nat :
        /\ n <= m /\ Keeps(th, n, m)
        /\ n = m \/ m = n + 1
        /\ \A i \in (n + 1) .. m : i = m /\ stack'[th][i].at = "notify"
                                   /\ FrameOK(th, i, stack'[th][i])
  <2>1. CASE stack' = stack
    <3>1. Keeps(th, n, n) /\ n \in Nat /\ n <= n /\ \A i \in (n + 1) .. n : FALSE
      BY <1>3, <2>1 DEF Keeps
    <3>. HIDE DEF n
    <3>. QED  BY <3>1
  <2>2. CASE stack' = Call(th, Frame("notify", t))
    <3>. DEFINE f == Frame("notify", t)
    <3>1. f \in Frames /\ f.at = "notify" /\ f.of = t
      BY DEF Frame, Frames, Points
    <3>. HIDE DEF f
    <3>2. Keeps(th, n, n + 1) /\ stack'[th][n + 1] = f
      BY <1>3, <2>2, <3>1, CallStack DEF f
    <3>3. FrameOK(th, n + 1, f)
      BY <1>3, <3>1 DEF FrameOK, LoopPoints, WaitPoints, HandPoints
    <3>4. n + 1 \in Nat /\ n <= n + 1 /\ \A i \in (n + 1) .. (n + 1) : i = n + 1
      BY <1>3
    <3>. HIDE DEF n
    <3>. QED  BY <3>1, <3>2, <3>3, <3>4
  <2>. QED  BY <1>2, <2>1, <2>2
<1>5. /\ n \in Nat /\ n > 0 /\ n <= Len(stack[th])
      /\ \A i \in (n + 1) .. Len(stack[th]) : FALSE
  BY <1>3
<1>. HIDE DEF n
<1>6. /\ Accounting' /\ WaitMeansDone' /\ counter' \in [Schedules -> Int]
  BY <1>1, <1>2, CountOut DEF Live
<1>7. Values'
  BY <1>1, <1>2, <1>6 DEF IInv, Values
<1>8. Handed'
  <2>1. /\ \A i \in (n + 1) .. Len(stack[th]) :
             stack[th][i].at \in HandPoints => stack[th][i].of = t
        /\ \A i \in (n + 1) .. m : stack'[th][i].at \notin HandPoints
    BY <1>4, <1>5 DEF HandPoints
  <2>2. /\ "cancelled" \notin {"counted", "running", "ran"}
        /\ status[t] \notin {"counted", "running", "ran"}
        /\ status' = [status EXCEPT ![t] = "cancelled"]
    BY <1>2
  <2>3. n <= Len(stack[th]) /\ Keeps(th, n, m) /\ n <= m /\ n \in Nat
    BY <1>4, <1>5
  <2>. QED  BY <2>1, <2>2, <2>3, HandsFree
<1>9. Framed' /\ Crewed' /\ Locks' /\ Waits'
  <2>1. "notify" \notin LockPoints /\ "notify" \notin WaitPoints /\ "notify" \notin CallPoints
    BY DEF LockPoints, WaitPoints, CallPoints
  <2>2. \A i \in (n + 1) .. m :
           /\ FrameOK(th, i, stack'[th][i])
           /\ i < m => stack'[th][i].at \in CallPoints
           /\ stack'[th][i].at \notin LockPoints
           /\ stack'[th][i].at \notin WaitPoints
    BY <1>4, <1>5, <2>1
  <2>3. UNCHANGED <<mutex, registered, lifetime>> /\ (QueueEmpty => QueueEmpty')
    BY <1>1, <1>2
  <2>4. n <= Len(stack[th]) /\ Keeps(th, n, m) /\ n <= m /\ n \in Nat /\ stack[th] # <<>>
    BY <1>3, <1>4, <1>5
  <2>5. stack[th][n].at \in CallPoints
    BY <1>3 DEF CallPoints
  <2>. QED  BY <2>2, <2>3, <2>4, <2>5, MoveKept
<1>10. Budget'
  <2>1. th \notin Rousing
    BY <1>3 DEF Rousing, At
  <2>2. ~At(th, "asleep")'
    <3>1. Len(stack'[th]) = m /\ stack'[th][n] = stack[th][n]
      BY <1>4, <1>5 DEF Keeps
    <3>. QED  BY <1>3, <1>4, <1>5, <3>1 DEF At, Top
  <2>3. /\ Asleep' \subseteq Asleep
        /\ Cardinality(Rousing) \in Nat /\ Cardinality(Rousing') \in Nat
        /\ Cardinality(Rousing) <= Cardinality(Rousing')
    <3>1. Asleep' \subseteq Asleep /\ Rousing \subseteq Rousing'
      BY <1>4, <2>1, <2>2, SleepersKept
    <3>. QED  BY <3>1, RousingFinite, FS_Subset
  <2>4. Len(high) \in Nat /\ Len(normal) \in Nat /\ Len(high') \in Nat /\ Len(normal') \in Nat
    BY <1>2, QueueLengths DEF IInv
  <2>. QED  BY <1>2, <2>3, <2>4 DEF Budget, IInv
<1>. QED  BY <1>2, <1>6, <1>7, <1>8, <1>9, <1>10 DEF IInv

-----------------------------------------------------------------------------
(* The invariant holds at first and after every step.                      *)
LEMMA InitIInv == Init => IInv
<1>. SUFFICES ASSUME Init PROVE IInv
  OBVIOUS
<1>. DEFINE f == Frame("idle", None)
<1>1. f \in Frames /\ f.at = "idle"
  BY DEF Frame, Frames, Points
<1>. HIDE DEF f
<1>2. /\ stack = [th \in Threads |-> IF th \in Clients THEN <<f>> ELSE <<>>]
      /\ high = <<>> /\ normal = <<>> /\ mutex = None
      /\ counter = [s \in Schedules |-> 0]
      /\ stop = {} /\ registered = {}
      /\ status = [t \in Tasks |-> "new"]
      /\ lifetime = [s \in Schedules |-> "open"]
      /\ lives = 0 /\ cancels = 0
  BY DEF Init, f
<1>3. /\ stack \in [Threads -> Seq(Frames)]
      /\ \A th \in Threads : \A i \in DOMAIN stack[th] :
           /\ th \in Clients /\ i = 1 /\ i = Len(stack[th]) /\ stack[th][i] = f
  BY <1>1, <1>2
<1>4. Values
  BY <1>2, BoundAssumption DEF Values
<1>5. Framed
  <2>1. \A th \in Threads : \A i \in DOMAIN stack[th] : FrameOK(th, i, stack[th][i])
    BY <1>1, <1>3, ThreadAssumption DEF FrameOK, LoopPoints, HandPoints, WaitPoints
  <2>. QED  BY <1>3, <2>1 DEF Framed
<1>6. Crewed
  BY <1>2, ThreadAssumption DEF Crewed, Threads
<1>7. \A t \in Tasks : status[t] = "new"
  BY <1>2
<1>8. Handed
  <2>1. ASSUME NEW t \in Tasks, NEW u \in Threads, NEW j \in Nat, NEW x \in HandPoints
        PROVE  ~Hand(u, j, x, t)
    BY <1>1, <1>3 DEF Hand, HandPoints
  <2>. QED  BY <1>7, <2>1 DEF Handed, InHand
<1>9. Queues
  BY <1>2, <1>7, TaskAssumption DEF Queues, QueueOf
<1>10. \A s \in Schedules : Outstanding(s) = {}
  BY <1>7 DEF Outstanding
<1>11. Accounting
  BY <1>2, <1>10, FS_EmptySet DEF Accounting
<1>12. WaitMeansDone
  BY <1>10 DEF WaitMeansDone
<1>13. Locks
  BY <1>1, <1>3 DEF Locks, LockPoints
<1>14. Budget
  BY <1>2, ThreadAssumption DEF Budget, Asleep, At, Threads
<1>15. Waits
  BY <1>1, <1>3 DEF Waits, WaitPoints
<1>. QED  BY <1>4, <1>5, <1>6, <1>8, <1>9, <1>11, <1>12, <1>13, <1>14, <1>15 DEF IInv

(* Every step keeps the invariant.                                         *)
LEMMA NextIInv == IInv /\ [Next]_vars => IInv'
<1>. SUFFICES ASSUME IInv, [Next]_vars PROVE IInv'
  OBVIOUS
<1>1. CASE Initialize
  BY <1>1, InitializeStep
<1>2. CASE Terminate \/ TerminateSteps
  BY <1>2, TerminateAll
<1>3. ASSUME NEW th \in Threads, Calls(th) PROVE IInv'
  <2>1. CASE \E t \in Tasks : ScheduleTask(th, t)
    BY <2>1, ScheduleTaskStep
  <2>2. CASE \E s \in Schedules : WaitCall(th, s)
    BY <2>2, WaitEnds
  <2>3. CASE \E s \in Schedules : Destroy(th, s)
    BY <2>3, DestroyStep
  <2>4. CASE \E tag \in Tags : CancelTag(th, tag)
    BY <2>4, CancelEnds
  <2>. QED  BY <1>3, <2>1, <2>2, <2>3, <2>4 DEF Calls
<1>4. ASSUME NEW th \in Threads, LockSteps(th) PROVE IInv'
  <2>1. CASE SchedulePush(th)
    BY <2>1, SchedulePushStep
  <2>2. CASE WaitTake(th) \/ (th \in Workers /\ WorkerTake(th))
    BY <2>2, TakeStep
  <2>3. CASE WaitNothing(th)
    BY <2>3, WaitSteps
  <2>4. CASE th \in Workers /\ (WorkerExit(th) \/ WorkerDecide(th))
    BY <2>4, LoopSteps
  <2>. QED  BY <1>4, <2>1, <2>2, <2>3, <2>4 DEF LockSteps
<1>5. ASSUME NEW th \in Threads, FreeSteps(th) PROVE IInv'
  <2>1. CASE ScheduleNotify(th) \/ CounterNotify(th)
    BY <2>1, NotifySteps
  <2>2. CASE TaskReturn(th)
    BY <2>2, TaskReturnStep
  <2>3. CASE TaskFinish(th)
    BY <2>3, TaskFinishStep
  <2>4. CASE WaitCheck(th) \/ WaitReload(th) \/ WaitPark(th)
    BY <2>4, WaitSteps
  <2>5. CASE WaitReturn(th)
    BY <2>5, WaitEnds
  <2>6. CASE CancelTask(th)
    BY <2>6, CancelTaskStep
  <2>7. CASE CancelReturn(th)
    BY <2>7, CancelEnds
  <2>8. CASE th \in Workers /\ (WorkerLoop(th) \/ WorkerBlock(th))
    BY <2>8, LoopSteps
  <2>. QED  BY <1>5, <2>1, <2>2, <2>3, <2>4, <2>5, <2>6, <2>7, <2>8 DEF FreeSteps
<1>6. ASSUME NEW th \in Threads, SpuriousWake(th) PROVE IInv'
  BY <1>6, SpuriousStep
<1>7. CASE UNCHANGED vars
  <2>1. /\ high' = high /\ normal' = normal /\ mutex' = mutex /\ counter' = counter
        /\ stop' = stop /\ registered' = registered /\ stack' = stack
        /\ status' = status /\ lifetime' = lifetime /\ lives' = lives
        /\ cancels' = cancels
    BY <1>7 DEF vars
  <2>2. Values' /\ Framed' /\ Crewed'
    BY <2>1 DEF IInv, Values, Framed, Crewed
  <2>3. Handed'
    <3>1. \A t \in Tasks : SameHands(t)
      BY <2>1 DEF SameHands, Hand
    <3>. QED  BY <2>1, <3>1, InHandKept DEF IInv, Handed
  <2>4. Queues' /\ Accounting' /\ WaitMeansDone'
    BY <2>1 DEF IInv, Queues, QueueOf, Accounting, WaitMeansDone, Outstanding
  <2>5. Locks' /\ Waits'
    BY <2>1 DEF IInv, Locks, Waits, QueueEmpty
  <2>6. Budget'
    BY <2>1 DEF IInv, Budget, Asleep, Rousing, At, Top
  <2>. QED  BY <2>2, <2>3, <2>4, <2>5, <2>6 DEF IInv
<1>. QED  BY <1>1, <1>2, <1>3, <1>4, <1>5, <1>6, <1>7 DEF Next

(* The inductive invariant of the scheduler.                               *)
THEOREM Invariance == Spec => []IInv
<1>1. Init => IInv
  BY InitIInv
<1>2. IInv /\ [Next]_vars => IInv'
  BY NextIInv
<1>. QED  BY <1>1, <1>2, PTL DEF Spec

(* Every variable of the scheduler keeps to its values; no counter of a    *)
(* Schedule, which a fetch_sub brings down, goes below zero.               *)
THEOREM Typing == Spec => []TypeOK
<1>1. IInv => TypeOK
  <2>. SUFFICES ASSUME IInv PROVE TypeOK
    OBVIOUS
  <2>1. counter \in [Schedules -> Nat]
    BY OutstandingFinite DEF IInv, Values, Accounting
  <2>2. high \in Seq(Tasks) /\ normal \in Seq(Tasks)
    BY DEF IInv, Queues, QueueOf
  <2>3. registered \subseteq Workers
    BY DEF IInv, Crewed
  <2>4. stack \in [Threads -> Seq(Frames)]
    BY DEF IInv, Framed
  <2>. QED  BY <2>1, <2>2, <2>3, <2>4 DEF IInv, Values, TypeOK
<1>. QED  BY <1>1, Invariance, PTL

(* The counter of every Schedule is the number of its outstanding tasks,   *)
(* whoever adds to it, runs, cancels, notifies or waits.                   *)
THEOREM CounterIsExact == Spec => []Accounting
<1>1. IInv => Accounting
  BY DEF IInv
<1>. QED  BY <1>1, Invariance, PTL

(* When wait_for_schedule_completion has returned, every task of the       *)
(* schedule is done or cancelled, and stays so unless more are scheduled.  *)
THEOREM WaitIsComplete == Spec => []WaitMeansDone
<1>1. IInv => WaitMeansDone
  BY DEF IInv
<1>. QED  BY <1>1, Invariance, PTL

(* No task is in two places, none is lost: one place from schedule_task to *)
(* the end of the task, and no place before or after.                      *)
THEOREM OnePlace == Spec => []Placement
<1>1. IInv => Placement
  <2>. SUFFICES ASSUME IInv, NEW t \in Tasks
                PROVE  Cardinality(Places(t)) =
                         IF status[t] \in {"counted", "queued", "running", "ran"}
                           THEN 1 ELSE 0
    BY DEF Placement
  <2>. DEFINE H == Indices(high, t)
              N == Indices(normal, t)
              U == UNION {{th} \X Hands(th, t) : th \in Threads}
  <2>1. QueueOf(high, High, status) /\ QueueOf(normal, Tasks \ High, status) /\ InHand(t)
    BY DEF IInv, Queues, Handed
  <2>2. \A th \in Threads : stack[th] \in Seq(Frames) /\ DOMAIN stack[th] \subseteq Nat
    BY DEF IInv, Framed
  <2>3. ASSUME NEW th \in Threads, NEW i
        PROVE  i \in Hands(th, t) <=> i \in Nat /\ \E x \in HandPoints : Hand(th, i, x, t)
    BY <2>2 DEF Hands, Hand, HandPoints
  <2>4. (\A th \in Threads : Hands(th, t) = {}) => U = {}
    OBVIOUS
  <2>5. status[t] # "queued" => H = {} /\ N = {}
    BY <2>1 DEF QueueOf, Indices
  <2>6. CASE status[t] \in {"counted", "running", "ran"}
    <3>1. PICK th \in Threads, i \in Nat, at \in HandPoints :
            \A u \in Threads, j \in Nat, x \in HandPoints :
              Hand(u, j, x, t) <=> u = th /\ j = i /\ x = at
      BY <2>1, <2>6 DEF InHand
    <3>2. Hands(th, t) = {i}
      BY <2>3, <3>1
    <3>3. \A u \in Threads : u # th => Hands(u, t) = {}
      BY <2>3, <3>1
    <3>4. U = {<<th, i>>}
      BY <3>2, <3>3
    <3>5. Places(t) = {<<th, i>>}
      BY <2>5, <2>6, <3>4 DEF Places
    <3>. QED  BY <2>6, <3>5, FS_Singleton
  <2>7. CASE status[t] \notin {"counted", "running", "ran"}
    <3>1. U = {}
      BY <2>1, <2>3, <2>4, <2>7 DEF InHand
    <3>2. CASE status[t] # "queued"
      <4>1. Places(t) = {}
        BY <2>5, <3>1, <3>2 DEF Places
      <4>. QED  BY <2>7, <3>2, <4>1, FS_EmptySet
    <3>3. CASE status[t] = "queued" /\ t \in High
      <4>1. N = {}
        BY <2>1, <3>3 DEF QueueOf, Indices
      <4>2. PICK i \in DOMAIN high : H = {i}
        BY <2>1, <3>3 DEF QueueOf, Indices
      <4>3. Places(t) = {<<"high", i>>}
        BY <3>1, <4>1, <4>2 DEF Places
      <4>. QED  BY <3>3, <4>3, FS_Singleton
    <3>4. CASE status[t] = "queued" /\ t \notin High
      <4>1. H = {}
        BY <2>1, <3>4 DEF QueueOf, Indices
      <4>2. PICK i \in DOMAIN normal : N = {i}
        BY <2>1, <3>4 DEF QueueOf, Indices
      <4>3. Places(t) = {<<"normal", i>>}
        BY <3>1, <4>1, <4>2 DEF Places
      <4>. QED  BY <3>4, <4>3, FS_Singleton
    <3>. QED  BY <3>2, <3>3, <3>4
  <2>. QED  BY <2>6, <2>7
<1>. QED  BY <1>1, Invariance, PTL

(* No wake-up is lost: while tasks are queued and a worker sleeps that was *)
(* not asked to stop, a thread is about to notify, cancels the tasks, or   *)
(* is a worker on its way to the queues.                                   *)
THEOREM NoLostWakeup == Spec => []NobodySleepsOnWork
<1>1. IInv => NobodySleepsOnWork
  <2>. SUFFICES ASSUME IInv, ~QueueEmpty, Asleep \ stop # {}
                PROVE  \/ \E th \in Threads : At(th, "wake") \/ At(th, "cancel")
                       \/ \E w \in Workers : At(w, "loop") \/ At(w, "acquire")
    BY DEF NobodySleepsOnWork
  <2>1. Len(high) + Len(normal) > 0
    BY DEF IInv, Queues, QueueOf, QueueEmpty
  <2>2. Cardinality(Rousing) > 0
    BY <2>1, RousingFinite, QueueLengths DEF IInv, Budget
  <2>3. PICK th \in Threads : At(th, "wake") \/ At(th, "acquire")
    BY <2>2, FS_EmptySet DEF Rousing
  <2>4. At(th, "acquire") => th \in Workers
    BY TopFrame DEF IInv, FrameOK, LoopPoints
  <2>. QED  BY <2>3, <2>4
<1>. QED  BY <1>1, Invariance, PTL
=============================================================================
