---------------------------- MODULE TaskPoolProofs ----------------------------
(***************************************************************************)
(* Proof that the scheduler implements TaskPool: that to those who         *)
(* schedule, cancel and wait, its threads, lock, counters and              *)
(* notifications are two queues whose cancellations are atomic.            *)
(***************************************************************************)
EXTENDS SchedulerProofs

(* What the pool's status is, and its steps in terms of it.                *)
Mapped == [t \in Tasks |-> Outcome(t)]

(* The outcome of every task but t stays, and that of t becomes x.         *)
Only(t, x) == \A u \in Tasks : Outcome(u)' = IF u = t THEN x ELSE Outcome(u)
Nobody == \A u \in Tasks : Outcome(u)' = Outcome(u)

(* A change of one task's outcome is one in the pool.                      *)
LEMMA Becoming ==
  ASSUME NEW t \in Tasks, NEW from, NEW to, Outcome(t) = from, Only(t, to)
  PROVE  Pool!Becomes(t, from, to)
<1>1. Mapped[t] = from
  BY DEF Mapped
<1>2. Mapped' = [Mapped EXCEPT ![t] = to]
  BY DEF Mapped, Only
<1>. QED  BY <1>1, <1>2 DEF Mapped, Pool!Becomes

(* A step that changes nothing the pool speaks of.                         *)
LEMMA Stuttering ==
  ASSUME Nobody, UNCHANGED <<high, normal, lifetime>>
  PROVE  UNCHANGED Pool!vars
<1>1. Mapped' = Mapped
  BY DEF Mapped, Nobody
<1>. QED  BY <1>1 DEF Mapped, Pool!vars

-----------------------------------------------------------------------------
(* The tags that are being cancelled.                                      *)

(* A tag is being cancelled if there is a frame that does.                 *)
LEMMA CancellingFrames ==
  /\ \A tag : tag \in Cancelling <=>
                \E th \in Threads : \E i \in DOMAIN stack[th] :
                  stack[th][i].at = "cancel" /\ stack[th][i].of = tag
  /\ \A tag : tag \in Cancelling' <=>
                \E th \in Threads : \E i \in DOMAIN stack'[th] :
                  stack'[th][i].at = "cancel" /\ stack'[th][i].of = tag
BY DEF Cancelling

(* None is while the mutex is free, and one that is holds it.              *)
Exclusive == /\ mutex = None => Cancelling = {}
             /\ \A th \in Threads : At(th, "cancel") => Cancelling = {Top(th).of}
             /\ \A th \in Threads : At(th, "block") => Cancelling = {}

(* This follows from who may hold the mutex.                               *)
LEMMA CancelHolds == IInv => Exclusive
<1>. SUFFICES ASSUME Framed, Locks PROVE Exclusive
  BY DEF IInv
<1>1. ASSUME mutex = None PROVE Cancelling = {}
  BY <1>1, CancellingFrames, ThreadAssumption DEF Locks, LockPoints
<1>2. ASSUME NEW th \in Threads, At(th, "cancel")
      PROVE  Cancelling = {Top(th).of}
  <2>1. /\ Len(stack[th]) \in DOMAIN stack[th] /\ Top(th) = stack[th][Len(stack[th])]
        /\ Top(th).at = "cancel"
    BY <1>2, TopFrame
  <2>2. mutex = th
    BY <2>1 DEF Locks, LockPoints
  <2>3. ASSUME NEW u \in Threads, NEW i \in DOMAIN stack[u], stack[u][i].at = "cancel"
        PROVE  u = th /\ stack[u][i] = Top(th)
    BY <2>1, <2>2, <2>3 DEF Locks, LockPoints
  <2>. QED  BY <2>1, <2>3, CancellingFrames
<1>3. ASSUME NEW th \in Threads, At(th, "block")
      PROVE  Cancelling = {}
  <2>1. /\ Len(stack[th]) \in DOMAIN stack[th] /\ Top(th) = stack[th][Len(stack[th])]
        /\ Top(th).at = "block"
    BY <1>3, TopFrame
  <2>2. mutex = th
    BY <2>1 DEF Locks, LockPoints
  <2>3. ASSUME NEW u \in Threads, NEW i \in DOMAIN stack[u], stack[u][i].at = "cancel"
        PROVE  FALSE
    BY <2>1, <2>2, <2>3 DEF Locks, LockPoints
  <2>. QED  BY <2>3, CancellingFrames
<1>. QED  BY <1>1, <1>2, <1>3 DEF Exclusive

(* The frames of thread u that cancel a tag stay the same ones.            *)
SameCancels(u) ==
  \A tag : (\E i \in DOMAIN stack'[u] : stack'[u][i].at = "cancel" /\ stack'[u][i].of = tag)
       <=> (\E i \in DOMAIN stack[u] : stack[u][i].at = "cancel" /\ stack[u][i].of = tag)

(* A stack whose cancellation is among the frames it keeps.                *)
LEMMA CancelsKept ==
  ASSUME Framed, NEW u \in Threads, NEW k \in Nat, NEW m \in Nat,
         stack'[u] \in Seq(Frames), Len(stack'[u]) = m,
         k <= Len(stack[u]), k <= m,
         \A i \in 1 .. k : stack'[u][i] = stack[u][i],
         \A i \in (k + 1) .. Len(stack[u]) : stack[u][i].at # "cancel",
         \A i \in (k + 1) .. m : stack'[u][i].at # "cancel"
  PROVE  SameCancels(u)
<1>1. /\ stack[u] \in Seq(Frames) /\ Len(stack[u]) \in Nat
      /\ DOMAIN stack[u] = 1 .. Len(stack[u]) /\ DOMAIN stack'[u] = 1 .. m
  BY DEF Framed
<1>2. ASSUME NEW i \in DOMAIN stack'[u], stack'[u][i].at = "cancel"
      PROVE  i \in DOMAIN stack[u] /\ stack[u][i] = stack'[u][i]
  BY <1>1, <1>2
<1>3. ASSUME NEW i \in DOMAIN stack[u], stack[u][i].at = "cancel"
      PROVE  i \in DOMAIN stack'[u] /\ stack[u][i] = stack'[u][i]
  BY <1>1, <1>3
<1>. QED  BY <1>2, <1>3 DEF SameCancels

(* When no stack begins or ends a cancellation.                            *)
LEMMA CancellingKept ==
  ASSUME \A u \in Threads : stack'[u] = stack[u] \/ SameCancels(u)
  PROVE  Cancelling' = Cancelling
<1>1. ASSUME NEW u \in Threads PROVE SameCancels(u)
  BY DEF SameCancels
<1>2. ASSUME NEW tag PROVE tag \in Cancelling' <=> tag \in Cancelling
  <2>1. (\E th \in Threads : \E i \in DOMAIN stack'[th] :
            stack'[th][i].at = "cancel" /\ stack'[th][i].of = tag)
        <=> (\E th \in Threads : \E i \in DOMAIN stack[th] :
               stack[th][i].at = "cancel" /\ stack[th][i].of = tag)
    BY <1>1 DEF SameCancels
  <2>. QED  BY <2>1, CancellingFrames
<1>. QED  BY <1>2

(* A step of one thread above the frame that cancels, if any.              *)
LEMMA CancellingPast ==
  ASSUME Framed, NEW th \in Threads, NEW k \in Nat, NEW m \in Nat,
         Keeps(th, k, m), k <= Len(stack[th]), k <= m,
         \A i \in (k + 1) .. Len(stack[th]) : stack[th][i].at # "cancel",
         \A i \in (k + 1) .. m : stack'[th][i].at # "cancel"
  PROVE  Cancelling' = Cancelling
<1>1. SameCancels(th)
  <2>1. /\ stack'[th] \in Seq(Frames) /\ Len(stack'[th]) = m
        /\ \A i \in 1 .. k : stack'[th][i] = stack[th][i]
    BY DEF Keeps
  <2>. QED  BY <2>1, CancelsKept
<1>2. \A u \in Threads : stack'[u] = stack[u] \/ SameCancels(u)
  BY <1>1 DEF Keeps
<1>. QED  BY <1>2, CancellingKept

(* A thread's steps that neither begin nor end a cancellation.             *)
LEMMA CancellingMoves ==
  ASSUME Framed, NEW th \in Threads, NEW at, At(th, at),
         \/ /\ at # "cancel"
            /\ \/ \E to \in Points : to # "cancel" /\ stack' = Goto(th, to)
               \/ \E f \in Frames : f.at # "cancel" /\ stack' = Replace(th, f)
               \/ stack' = Return(th)
         \/ \E f \in Frames : f.at # "cancel" /\ stack' = Call(th, f)
  PROVE  Cancelling' = Cancelling
<1>. DEFINE n == Len(stack[th])
            k == n - 1
<1>1. /\ stack \in [Threads -> Seq(Frames)] /\ stack[th] # <<>>
      /\ n \in Nat \ {0} /\ Top(th) = stack[th][n] /\ Top(th).at = at
      /\ Top(th) \in Frames
  BY TopFrame
<1>2. /\ n \in Nat /\ k \in Nat /\ k <= n /\ n = Len(stack[th]) /\ n + 1 \in Nat
      /\ n <= n + 1 /\ k <= k /\ n <= n
  BY <1>1
<1>3. /\ \A i \in (k + 1) .. n : i = n
      /\ \A i \in (k + 1) .. k : FALSE
      /\ \A i \in (n + 1) .. n : FALSE
      /\ \A i \in (n + 1) .. (n + 1) : i = n + 1
  BY <1>1
<1>4. ASSUME NEW f \in Frames, f.at # "cancel", stack' = Replace(th, f), at # "cancel"
      PROVE  Cancelling' = Cancelling
  <2>1. Keeps(th, k, n) /\ stack'[th][n] = f
    BY <1>1, <1>4, ReplaceStack
  <2>. HIDE DEF n, k
  <2>. QED  BY <1>1, <1>2, <1>3, <1>4, <2>1, CancellingPast
<1>5. ASSUME NEW to \in Points, to # "cancel", stack' = Goto(th, to), at # "cancel"
      PROVE  Cancelling' = Cancelling
  <2>. DEFINE f == [Top(th) EXCEPT !.at = to]
  <2>1. f \in Frames /\ f.at = to /\ stack' = Replace(th, f)
    BY <1>1, <1>5 DEF Frames, Goto, Replace
  <2>. QED  BY <1>4, <1>5, <2>1
<1>6. ASSUME stack' = Return(th), at # "cancel"
      PROVE  Cancelling' = Cancelling
  <2>1. Keeps(th, k, k)
    BY <1>1, <1>6, ReturnStack
  <2>. HIDE DEF n, k
  <2>. QED  BY <1>1, <1>2, <1>3, <1>6, <2>1, CancellingPast
<1>7. ASSUME NEW f \in Frames, f.at # "cancel", stack' = Call(th, f)
      PROVE  Cancelling' = Cancelling
  <2>1. Keeps(th, n, n + 1) /\ stack'[th][n + 1] = f
    BY <1>1, <1>7, CallStack
  <2>. DEFINE m == n + 1
  <2>2. /\ m \in Nat /\ n <= m /\ Keeps(th, n, m) /\ n <= Len(stack[th])
        /\ \A i \in (n + 1) .. Len(stack[th]) : stack[th][i].at # "cancel"
        /\ \A i \in (n + 1) .. m : stack'[th][i].at # "cancel"
    BY <1>2, <1>3, <1>7, <2>1
  <2>. HIDE DEF n, m
  <2>. QED  BY <1>2, <2>2, CancellingPast
<1>. QED  BY <1>4, <1>5, <1>6, <1>7

(* What steps of several stacks do to one of them.                         *)
LEMMA CancelsTop ==
  ASSUME Framed, NEW u \in Threads, NEW at, At(u, at), at # "cancel",
         \/ stack'[u] = Below(u)
         \/ \E f \in Frames : f.at # "cancel" /\ stack'[u] = Append(Below(u), f)
  PROVE  SameCancels(u)
<1>. DEFINE n == Len(stack[u])
            k == n - 1
<1>1. /\ stack \in [Threads -> Seq(Frames)] /\ stack[u] # <<>>
      /\ n \in Nat \ {0} /\ Top(u) = stack[u][n] /\ Top(u).at = at
  BY TopFrame
<1>2. /\ Below(u) \in Seq(Frames) /\ Len(Below(u)) = k
      /\ \A i \in 1 .. k : Below(u)[i] = stack[u][i]
  BY <1>1, BelowIsStack
<1>3. /\ k \in Nat /\ n \in Nat /\ k <= n /\ n = Len(stack[u]) /\ n = k + 1
      /\ k <= Len(stack[u]) /\ k <= k
      /\ \A i \in (k + 1) .. Len(stack[u]) : i = n
      /\ \A i \in (k + 1) .. n : i = n
      /\ \A i \in (k + 1) .. k : FALSE
  BY <1>1
<1>. HIDE DEF n, k
<1>4. \A i \in (k + 1) .. Len(stack[u]) : stack[u][i].at # "cancel"
  BY <1>1, <1>3
<1>5. CASE stack'[u] = Below(u)
  BY <1>2, <1>3, <1>4, <1>5, CancelsKept
<1>6. ASSUME NEW f \in Frames, f.at # "cancel", stack'[u] = Append(Below(u), f)
      PROVE  SameCancels(u)
  <2>1. /\ stack'[u] \in Seq(Frames) /\ Len(stack'[u]) = n /\ stack'[u][n] = f
        /\ \A i \in 1 .. k : stack'[u][i] = stack[u][i]
    BY <1>2, <1>3, <1>6
  <2>2. \A i \in (k + 1) .. n : stack'[u][i].at # "cancel"
    BY <1>3, <1>6, <2>1
  <2>. QED  BY <1>3, <1>4, <2>1, <2>2, CancelsKept
<1>. QED  BY <1>5, <1>6

(* A worker wakes, or starts: it was cancelling nothing.                   *)
LEMMA CancelsBottom ==
  ASSUME Framed, NEW u \in Threads, stack[u] = <<>> \/ At(u, "asleep"),
         NEW f \in Frames, f.at # "cancel", stack'[u] = <<f>>
  PROVE  SameCancels(u)
<1>1. \A i \in DOMAIN stack[u] : stack[u][i].at # "cancel"
  <2>1. CASE stack[u] = <<>>
    BY <2>1
  <2>2. CASE At(u, "asleep")
    <3>1. /\ Len(stack[u]) \in Nat /\ DOMAIN stack[u] = 1 .. Len(stack[u])
          /\ Top(u) = stack[u][Len(stack[u])] /\ Top(u).at = "asleep"
          /\ FrameOK(u, Len(stack[u]), Top(u))
      BY <2>2, TopFrame
    <3>2. Len(stack[u]) = 1
      BY <3>1 DEF FrameOK, LoopPoints
    <3>. QED  BY <3>1, <3>2
  <2>. QED  BY <2>1, <2>2
<1>2. \A i \in DOMAIN stack'[u] : stack'[u][i].at # "cancel"
  <2>1. \A i \in DOMAIN <<f>> : <<f>>[i] = f
    OBVIOUS
  <2>. QED  BY <2>1
<1>. QED  BY <1>1, <1>2 DEF SameCancels

(* The steps of several stacks.                                            *)
LEMMA CancellingNotified ==
  ASSUME IInv,
         \/ \E th \in Threads : ScheduleNotify(th) \/ CounterNotify(th)
         \/ TerminateNotify \/ Initialize
  PROVE  Cancelling' = Cancelling
<1>1. Framed /\ stack \in [Threads -> Seq(Frames)] /\ Main \in Threads
  BY ThreadAssumption DEF IInv, Framed, Threads
<1>2. ASSUME NEW f \in Frames, f.at # "cancel", NEW u \in Threads,
             stack[u] = <<>> \/ At(u, "asleep"), stack'[u] = <<f>>
      PROVE  SameCancels(u)
  BY <1>1, <1>2, CancelsBottom
<1>. DEFINE a == Frame("acquire", None)
            l == Frame("loop", None)
<1>3. a \in Frames /\ a.at # "cancel" /\ l \in Frames /\ l.at # "cancel"
  BY DEF Frame, Frames, Points
<1>4. ASSUME NEW th \in Threads, ScheduleNotify(th)
      PROVE  Cancelling' = Cancelling
  <2>1. At(th, "wake")
    BY <1>4 DEF ScheduleNotify
  <2>2. CASE stack' = Return(th)
    BY <1>1, <2>1, <2>2, CancellingMoves
  <2>3. ASSUME NEW w \in Asleep, stack' = Woken({w}, Return(th))
        PROVE  Cancelling' = Cancelling
    <3>1. At(w, "asleep") /\ w \in Threads /\ w # th
      BY <2>1, <2>3 DEF Asleep, At, Threads
    <3>2. /\ stack'[th] = Below(th) /\ stack'[w] = <<a>>
          /\ \A u \in Threads : u # th /\ u # w => stack'[u] = stack[u]
      BY <1>1, <2>3, <3>1 DEF Woken, Return
    <3>. HIDE DEF a
    <3>3. SameCancels(th)
      BY <1>1, <2>1, <3>2, CancelsTop
    <3>4. SameCancels(w)
      BY <1>2, <1>3, <3>1, <3>2
    <3>. QED  BY <3>2, <3>3, <3>4, CancellingKept
  <2>. QED  BY <1>4, <2>2, <2>3 DEF ScheduleNotify
<1>5. ASSUME NEW th \in Threads, CounterNotify(th)
      PROVE  Cancelling' = Cancelling
  <2>1. /\ At(th, "notify") /\ stack'[th] = Below(th)
        /\ \A u \in Threads :
             \/ u = th \/ stack'[u] = stack[u]
             \/ At(u, "parked") /\ stack'[u] = Goto(u, "park")[u]
    BY <1>5 DEF CounterNotify
  <2>2. SameCancels(th)
    BY <1>1, <2>1, CancelsTop
  <2>3. ASSUME NEW u \in Threads, At(u, "parked"), stack'[u] = Goto(u, "park")[u]
        PROVE  SameCancels(u)
    <3>. DEFINE f == [Top(u) EXCEPT !.at = "park"]
    <3>1. Top(u) \in Frames
      BY <1>1, <2>3, TopFrame
    <3>2. f \in Frames /\ f.at # "cancel"
      BY <3>1 DEF Frames, Points
    <3>3. stack'[u] = Append(Below(u), f)
      BY <1>1, <2>3 DEF Goto
    <3>. HIDE DEF f
    <3>. QED  BY <1>1, <2>3, <3>2, <3>3, CancelsTop
  <2>. QED  BY <2>1, <2>2, <2>3, CancellingKept
<1>6. CASE TerminateNotify
  <2>1. At(Main, "stop") /\ stack' = Woken(Asleep, Goto(Main, "join"))
    BY <1>6 DEF TerminateNotify
  <2>. DEFINE f == [Top(Main) EXCEPT !.at = "join"]
  <2>2. Top(Main) \in Frames
    BY <1>1, <2>1, TopFrame
  <2>3. f \in Frames /\ f.at # "cancel"
    BY <2>2 DEF Frames, Points
  <2>4. Main \notin Asleep
    BY <2>1 DEF Asleep, At
  <2>5. /\ stack'[Main] = Append(Below(Main), f)
        /\ \A u \in Asleep : stack'[u] = <<a>>
        /\ \A u \in Threads : u # Main /\ u \notin Asleep => stack'[u] = stack[u]
    BY <1>1, <2>1, <2>4 DEF Woken, Goto, Asleep, Threads
  <2>. HIDE DEF f, a
  <2>6. SameCancels(Main)
    BY <1>1, <2>1, <2>3, <2>5, CancelsTop
  <2>7. \A u \in Asleep : u \in Threads /\ SameCancels(u)
    BY <1>2, <1>3, <2>5 DEF Asleep, Threads
  <2>. QED  BY <2>5, <2>6, <2>7, CancellingKept
<1>7. CASE Initialize
  <2>1. /\ \A u \in Workers : stack'[u] = <<l>> /\ u \in Threads
        /\ \A u \in Threads : u \notin Workers => stack'[u] = stack[u]
        /\ registered = {}
    BY <1>7 DEF Initialize, Threads
  <2>. HIDE DEF l
  <2>2. \A u \in Workers : SameCancels(u)
    BY <1>2, <1>3, <2>1 DEF IInv, Crewed
  <2>. QED  BY <2>1, <2>2, CancellingKept
<1>. QED  BY <1>4, <1>5, <1>6, <1>7

-----------------------------------------------------------------------------
(* Steps that the pool does not see.                                       *)

(* Outcomes depend on the statuses and on the cancellations.               *)
LEMMA NobodyMoves ==
  ASSUME UNCHANGED status, Cancelling' = Cancelling
  PROVE  Nobody
BY DEF Nobody, Outcome

(* A thread moves on in a wait or in the loop of a worker.                 *)
LEMMA UnseenMoves ==
  ASSUME IInv, NEW th \in Threads,
         \/ (\E s \in Schedules : WaitCall(th, s))
         \/ WaitNothing(th) \/ WaitCheck(th) \/ WaitReload(th) \/ WaitPark(th)
         \/ SpuriousWake(th)
         \/ WorkerLoop(th) \/ WorkerExit(th) \/ WorkerDecide(th) \/ WorkerBlock(th)
  PROVE  UNCHANGED Pool!vars
<1>1. UNCHANGED <<high, normal, lifetime, status>>
  BY DEF WaitCall, WaitNothing, WaitCheck, WaitReload, WaitPark, SpuriousWake,
         WorkerLoop, WorkerExit, WorkerDecide, WorkerBlock
<1>2. ASSUME NEW at \in Points, At(th, at), at # "cancel",
             NEW to \in Points, to # "cancel", stack' = Goto(th, to)
      PROVE  Cancelling' = Cancelling
  BY <1>2, CancellingMoves DEF IInv
<1>3. ASSUME NEW at \in Points, At(th, at), at # "cancel", stack' = Return(th)
      PROVE  Cancelling' = Cancelling
  BY <1>3, CancellingMoves DEF IInv
<1>4. ASSUME NEW s \in Schedules, WaitCall(th, s) PROVE Cancelling' = Cancelling
  <2>1. PICK at : At(th, at)
    BY <1>4 DEF WaitCall, Runs
  <2>. DEFINE f == Frame("check", s)
  <2>2. f \in Frames /\ f.at # "cancel" /\ stack' = Call(th, f)
    BY <1>4 DEF WaitCall, Frame, Frames, Points
  <2>. HIDE DEF f
  <2>. QED  BY <2>1, <2>2, CancellingMoves DEF IInv
<1>5. ASSUME WaitReload(th) PROVE Cancelling' = Cancelling
  <2>1. At(th, "reload") /\ "reload" \in Points /\ Top(th) \in Frames /\ Top(th).of \in Schedules
    BY <1>5, TopFrame DEF IInv, WaitReload, FrameOK, WaitPoints, Points
  <2>. DEFINE f == [at |-> "park", of |-> Top(th).of, val |-> counter[Top(th).of]]
  <2>2. f \in Frames /\ f.at # "cancel"
    BY <2>1 DEF Frames, Points, IInv, Values
  <2>3. stack' = Replace(th, f) \/ stack' = Goto(th, "check")
    BY <1>5 DEF WaitReload, Replace
  <2>4. CASE stack' = Goto(th, "check")
    BY <1>2, <2>1, <2>4 DEF Points
  <2>5. CASE stack' = Replace(th, f)
    <3>. HIDE DEF f
    <3>. QED  BY <2>1, <2>2, <2>5, CancellingMoves DEF IInv
  <2>. QED  BY <2>3, <2>4, <2>5
<1>6. ASSUME WaitNothing(th) \/ WaitCheck(th) \/ WaitPark(th) \/ SpuriousWake(th)
      PROVE  Cancelling' = Cancelling
  <2>1. /\ \E at \in Points : At(th, at) /\ at # "cancel"
        /\ \E to \in Points : to # "cancel" /\ stack' = Goto(th, to)
    BY <1>6 DEF WaitNothing, WaitCheck, WaitPark, SpuriousWake, Points
  <2>. QED  BY <1>2, <2>1
<1>7. ASSUME WorkerLoop(th) \/ WorkerExit(th) \/ WorkerDecide(th) \/ WorkerBlock(th)
      PROVE  Cancelling' = Cancelling
  <2>1. /\ \E at \in Points : At(th, at) /\ at # "cancel"
        /\ \/ \E to \in Points : to # "cancel" /\ stack' = Goto(th, to)
           \/ stack' = Return(th)
    BY <1>7 DEF WorkerLoop, WorkerExit, WorkerDecide, WorkerBlock, Points
  <2>. QED  BY <1>2, <1>3, <2>1
<1>8. Cancelling' = Cancelling
  BY <1>4, <1>5, <1>6, <1>7
<1>. QED  BY <1>1, <1>8, NobodyMoves, Stuttering

(* Notifications, the start and the end of the scheduler.                  *)
LEMMA UnseenByAll ==
  ASSUME IInv,
         \/ Initialize \/ Terminate \/ TerminateSteps \/ UNCHANGED vars
         \/ \E th \in Threads : ScheduleNotify(th) \/ CounterNotify(th)
  PROVE  UNCHANGED Pool!vars
<1>1. UNCHANGED <<high, normal, lifetime, status>>
  BY DEF Initialize, Terminate, TerminateSteps, TerminateStop, TerminateNotify,
         TerminateJoin, ScheduleNotify, CounterNotify, vars
<1>2. Main \in Threads
  BY ThreadAssumption DEF Threads
<1>3. CASE Terminate
  <2>. DEFINE f == Frame("stop", None)
  <2>1. At(Main, "idle") /\ f \in Frames /\ f.at # "cancel" /\ stack' = Call(Main, f)
    BY <1>3 DEF Terminate, Frame, Frames, Points
  <2>. HIDE DEF f
  <2>2. Cancelling' = Cancelling
    BY <1>2, <2>1, CancellingMoves DEF IInv
  <2>. QED  BY <1>1, <2>2, NobodyMoves, Stuttering
<1>4. CASE TerminateJoin
  <2>1. At(Main, "join") /\ stack' = Return(Main)
    BY <1>4 DEF TerminateJoin
  <2>2. Cancelling' = Cancelling
    BY <1>2, <2>1, CancellingMoves DEF IInv
  <2>. QED  BY <1>1, <2>2, NobodyMoves, Stuttering
<1>5. CASE TerminateStop \/ UNCHANGED vars
  <2>1. Cancelling' = Cancelling
    BY <1>5 DEF TerminateStop, vars, Cancelling
  <2>. QED  BY <1>1, <2>1, NobodyMoves, Stuttering
<1>6. CASE \/ \E th \in Threads : ScheduleNotify(th) \/ CounterNotify(th)
           \/ TerminateNotify \/ Initialize
  BY <1>1, <1>6, CancellingNotified, NobodyMoves, Stuttering
<1>. QED  BY <1>3, <1>4, <1>5, <1>6 DEF TerminateSteps

(* The end of a task's body: its count and its hand are still to come.     *)
LEMMA UnseenReturn ==
  ASSUME IInv, NEW th \in Threads, TaskReturn(th)
  PROVE  UNCHANGED Pool!vars
<1>2. PICK t \in Tasks : t = Top(th).of /\ status[t] = "running"
  BY TopHand DEF TaskReturn, HandPoints, Stage
<1>1. /\ At(th, "run") /\ stack' = Goto(th, "finish")
      /\ status' = [status EXCEPT ![t] = "ran"]
      /\ UNCHANGED <<high, normal, lifetime>>
  BY <1>2 DEF TaskReturn
<1>3. Cancelling' = Cancelling
  BY <1>1, CancellingMoves DEF IInv, Points
<1>4. status'[t] = "ran" /\ \A u \in Tasks : u # t => status'[u] = status[u]
  BY <1>1 DEF IInv, Values
<1>5. Outcome(t) = "running" /\ Outcome(t)' = "running"
  BY <1>2, <1>4 DEF Outcome
<1>6. \A u \in Tasks : u # t => Outcome(u)' = Outcome(u)
  BY <1>3, <1>4 DEF Outcome
<1>. QED  BY <1>1, <1>5, <1>6, Stuttering DEF Nobody

(* The end of a cancellation: by now no task of the tag is queued.         *)
LEMMA UnseenCancelled ==
  ASSUME IInv, IInv', NEW th \in Threads, CancelReturn(th)
  PROVE  UNCHANGED Pool!vars
<1>. DEFINE tag == Top(th).of
<1>1. /\ At(th, "cancel") /\ mutex' = None
      /\ Tagged(high, tag) \cup Tagged(normal, tag) = {}
      /\ UNCHANGED <<high, normal, lifetime, status>>
  BY DEF CancelReturn
<1>2. Cancelling = {tag}
  BY <1>1, CancelHolds DEF Exclusive
<1>3. Cancelling' = {}
  <2>1. IInv' => Exclusive'
    BY CancelHolds, PTL
  <2>. QED  BY <1>1, <2>1 DEF Exclusive
<1>. HIDE DEF tag
<1>4. ASSUME NEW t \in Tasks, status[t] = "queued" PROVE TagOf[t] # tag
  <2>1. \/ \E i \in DOMAIN high : high[i] = t
        \/ \E i \in DOMAIN normal : normal[i] = t
    BY <1>4 DEF IInv, Queues, QueueOf
  <2>. QED  BY <1>1, <2>1 DEF Tagged
<1>5. Nobody
  BY <1>1, <1>2, <1>3, <1>4 DEF Nobody, Outcome
<1>. QED  BY <1>1, <1>5, Stuttering

-----------------------------------------------------------------------------
(* Steps of the pool.                                                      *)

(* One task gets another status, and no cancellation begins or ends.       *)
LEMMA OnlyOne ==
  ASSUME IInv, NEW t \in Tasks, NEW y, status' = [status EXCEPT ![t] = y],
         Cancelling' = Cancelling
  PROVE  Only(t, Outcome(t)')
<1>1. \A u \in Tasks : u # t => status'[u] = status[u]
  OBVIOUS
<1>2. \A u \in Tasks : u # t => Outcome(u)' = Outcome(u)
  BY <1>1 DEF Outcome
<1>. QED  BY <1>2 DEF Only

(* schedule_task submits the task as it is counted in.                     *)
LEMMA Submits ==
  ASSUME IInv, NEW th \in Threads, NEW t \in Tasks, ScheduleTask(th, t)
  PROVE  Pool!Submit(t)
<1>1. /\ Runs(th, Spawner[t]) /\ status[t] = "new"
      /\ lifetime[SchedOf[t]] # "destroyed"
      /\ status' = [status EXCEPT ![t] = "counted"]
      /\ lifetime' = [lifetime EXCEPT ![SchedOf[t]] = "open"]
      /\ stack' = Call(th, Frame("push", t))
      /\ UNCHANGED <<high, normal>>
  BY DEF ScheduleTask
<1>2. Cancelling' = Cancelling
  <2>. DEFINE f == Frame("push", t)
  <2>1. f \in Frames /\ f.at # "cancel" /\ stack' = Call(th, f)
    BY <1>1 DEF Frame, Frames, Points
  <2>. HIDE DEF f
  <2>2. PICK at : At(th, at)
    BY <1>1 DEF Runs
  <2>. QED  BY <2>1, <2>2, CancellingMoves DEF IInv
<1>3. status'[t] = "counted"
  BY <1>1 DEF IInv, Values
<1>4. Outcome(t) = "new" /\ Outcome(t)' = "submitted"
  BY <1>1, <1>3 DEF Outcome
<1>5. Pool!Becomes(t, "new", "submitted")
  BY <1>1, <1>2, <1>4, OnlyOne, Becoming
<1>. QED  BY <1>1, <1>5 DEF Pool!Submit

(* The task is in its queue: the mutex is free, so nobody cancels.         *)
LEMMA Enqueues ==
  ASSUME IInv, IInv', NEW th \in Threads, SchedulePush(th)
  PROVE  \E t \in Tasks : Pool!Enqueue(t)
<1>1. PICK t \in Tasks : t = Top(th).of /\ status[t] = "counted"
  BY TopHand DEF SchedulePush, HandPoints, Stage
<1>2. /\ mutex = None /\ mutex' = None
      /\ IF t \in High THEN high' = Append(high, t) /\ UNCHANGED normal
                       ELSE normal' = Append(normal, t) /\ UNCHANGED high
      /\ status' = [status EXCEPT ![t] = "queued"]
      /\ UNCHANGED lifetime
  BY <1>1 DEF SchedulePush
<1>3. Cancelling = {} /\ Cancelling' = {}
  <2>1. IInv' => Exclusive'
    BY CancelHolds, PTL
  <2>. QED  BY <1>2, <2>1, CancelHolds DEF Exclusive
<1>4. status'[t] = "queued"
  BY <1>2 DEF IInv, Values
<1>5. Outcome(t) = "submitted" /\ Outcome(t)' = "queued"
  BY <1>1, <1>3, <1>4 DEF Outcome
<1>6. Pool!Becomes(t, "submitted", "queued")
  BY <1>2, <1>3, <1>5, OnlyOne, Becoming
<1>. QED  BY <1>2, <1>6 DEF Pool!Enqueue

(* Who takes a task starts the first of the high queue, or else of the other. *)
LEMMA Starts ==
  ASSUME IInv, IInv', NEW th \in Threads, WaitTake(th) \/ WorkerTake(th)
  PROVE  Pool!StartHigh \/ Pool!StartNormal
<1>1. /\ mutex = None /\ mutex' = None /\ ~QueueEmpty /\ PopFront
      /\ status' = [status EXCEPT ![NextTask] = "running"]
      /\ UNCHANGED lifetime
  BY DEF WaitTake, WorkerTake
<1>2. PICK t \in Tasks : t = NextTask /\ status[t] = "queued"
  BY <1>1, PopSteps
<1>3. Cancelling = {} /\ Cancelling' = {}
  <2>1. IInv' => Exclusive'
    BY CancelHolds, PTL
  <2>. QED  BY <1>1, <2>1, CancelHolds DEF Exclusive
<1>4. status'[t] = "running" /\ status' = [status EXCEPT ![t] = "running"]
  BY <1>1, <1>2 DEF IInv, Values
<1>5. Outcome(t) = "queued" /\ Outcome(t)' = "running"
  BY <1>2, <1>3, <1>4 DEF Outcome
<1>6. Pool!Becomes(t, "queued", "running")
  BY <1>3, <1>4, <1>5, OnlyOne, Becoming
<1>7. CASE high # <<>>
  <2>1. t = Head(high) /\ high' = Tail(high) /\ UNCHANGED normal
    BY <1>1, <1>2, <1>7 DEF PopFront, NextTask
  <2>2. Pool!Becomes(Head(high), "queued", "running")
    BY <1>6, <2>1
  <2>. QED  BY <1>1, <1>7, <2>1, <2>2 DEF Pool!StartHigh
<1>8. CASE high = <<>>
  <2>1. t = Head(normal) /\ normal' = Tail(normal) /\ UNCHANGED high /\ normal # <<>>
    BY <1>1, <1>2, <1>8 DEF PopFront, NextTask, QueueEmpty
  <2>2. Pool!Becomes(Head(normal), "queued", "running")
    BY <1>6, <2>1
  <2>. QED  BY <1>1, <1>8, <2>1, <2>2 DEF Pool!StartNormal
<1>. QED  BY <1>7, <1>8

(* A task ends as it is counted out.                                       *)
LEMMA Ends ==
  ASSUME IInv, NEW th \in Threads, TaskFinish(th)
  PROVE  \E t \in Tasks : Pool!End(t)
<1>1. PICK t \in Tasks : t = Top(th).of /\ status[t] = "ran"
  BY TopHand DEF TaskFinish, HandPoints, Stage
<1>2. /\ At(th, "finish")
      /\ stack' = Goto(th, "notify") \/ stack' = Return(th)
      /\ status' = [status EXCEPT ![t] = "done"]
      /\ UNCHANGED <<high, normal, lifetime>>
  BY <1>1 DEF TaskFinish
<1>3. Cancelling' = Cancelling
  <2>1. "finish" # "cancel" /\ "notify" # "cancel" /\ "notify" \in Points
    BY DEF Points
  <2>. QED  BY <1>2, <2>1, CancellingMoves DEF IInv
<1>4. status'[t] = "done"
  BY <1>2 DEF IInv, Values
<1>5. Outcome(t) = "running" /\ Outcome(t)' = "done"
  BY <1>1, <1>4 DEF Outcome
<1>6. Pool!Becomes(t, "running", "done")
  BY <1>2, <1>3, <1>5, OnlyOne, Becoming
<1>. QED  BY <1>2, <1>6 DEF Pool!End

(* All queued tasks of the tag are ended for the pool as the mutex is got. *)
LEMMA Cancellings ==
  ASSUME IInv, IInv', NEW th \in Threads, NEW tag \in Tags, CancelTag(th, tag)
  PROVE  Pool!Cancel(tag)
<1>. DEFINE f == Frame("cancel", tag)
<1>1. /\ mutex = None /\ stack' = Call(th, f)
      /\ UNCHANGED <<high, normal, lifetime, status>>
  BY DEF CancelTag
<1>2. f \in Frames /\ f.at = "cancel" /\ f.of = tag
  BY DEF Frame, Frames, Points
<1>. HIDE DEF f
<1>3. At(th, "cancel")' /\ Top(th)' = f
  <2>1. stack \in [Threads -> Seq(Frames)]
    BY DEF IInv, Framed
  <2>2. /\ Keeps(th, Len(stack[th]), Len(stack[th]) + 1)
        /\ stack'[th][Len(stack[th]) + 1] = f
    BY <1>1, <1>2, <2>1, CallStack
  <2>3. Len(stack[th]) \in Nat
    BY <2>1
  <2>. QED  BY <1>2, <2>2, <2>3 DEF At, Top, Keeps
<1>4. Cancelling = {} /\ Cancelling' = {tag}
  <2>1. IInv' => Exclusive'
    BY CancelHolds, PTL
  <2>. QED  BY <1>1, <1>2, <1>3, <2>1, CancelHolds DEF Exclusive
<1>5. ASSUME NEW t \in Tasks
      PROVE  Outcome(t)' = IF Outcome(t) = "queued" /\ TagOf[t] = tag
                             THEN "cancelled" ELSE Outcome(t)
  BY <1>1, <1>4 DEF Outcome
<1>6. Mapped' = [t \in Tasks |-> IF Mapped[t] = "queued" /\ TagOf[t] = tag
                                   THEN "cancelled" ELSE Mapped[t]]
  BY <1>5 DEF Mapped
<1>. QED  BY <1>1, <1>6 DEF Mapped, Pool!Cancel

(* The cancelled task that is erased had ended already.                    *)
LEMMA Clears ==
  ASSUME IInv, NEW th \in Threads, CancelTask(th)
  PROVE  Pool!Clear
<1>1. PICK t \in Tasks :
        /\ status[t] = "queued" /\ status' = [status EXCEPT ![t] = "cancelled"]
        /\ stack' = Call(th, Frame("notify", t)) \/ stack' = stack
        /\ TagOf[t] = Top(th).of
        /\ \/ /\ \E i \in DOMAIN high : high[i] = t /\ high' = Erase(high, i)
              /\ UNCHANGED normal
           \/ /\ \E i \in DOMAIN normal : normal[i] = t /\ normal' = Erase(normal, i)
              /\ UNCHANGED high
  BY CancelPops
<1>2. At(th, "cancel") /\ UNCHANGED lifetime
  BY DEF CancelTask
<1>3. TagOf[t] \in Cancelling
  BY <1>1, <1>2, CancelHolds DEF Exclusive
<1>4. Cancelling' = Cancelling
  <2>1. CASE stack' = stack
    BY <2>1 DEF Cancelling
  <2>2. CASE stack' = Call(th, Frame("notify", t))
    <3>. DEFINE f == Frame("notify", t)
    <3>1. f \in Frames /\ f.at # "cancel" /\ stack' = Call(th, f)
      BY <2>2 DEF Frame, Frames, Points
    <3>. HIDE DEF f
    <3>. QED  BY <1>2, <3>1, CancellingMoves DEF IInv
  <2>. QED  BY <1>1, <2>1, <2>2
<1>5. status'[t] = "cancelled"
  BY <1>1 DEF IInv, Values
<1>6. Outcome(t) = "cancelled" /\ Outcome(t)' = "cancelled"
  BY <1>1, <1>3, <1>5 DEF Outcome
<1>7. Nobody
  BY <1>1, <1>4, <1>6, OnlyOne DEF Only, Nobody
<1>8. Mapped' = Mapped /\ Mapped[t] = "cancelled"
  BY <1>6, <1>7 DEF Mapped, Nobody
<1>9. \A q, i : Erase(q, i) = Pool!Erase(q, i)
  BY DEF Erase, Pool!Erase
<1>10. CASE /\ \E i \in DOMAIN high : high[i] = t /\ high' = Erase(high, i)
            /\ UNCHANGED normal
  BY <1>2, <1>8, <1>9, <1>10 DEF Mapped, Pool!Clear
<1>11. CASE /\ \E i \in DOMAIN normal : normal[i] = t /\ normal' = Erase(normal, i)
            /\ UNCHANGED high
  BY <1>2, <1>8, <1>9, <1>11 DEF Mapped, Pool!Clear
<1>. QED  BY <1>1, <1>10, <1>11

(* A wait returns when nothing of its schedule is outstanding.             *)
LEMMA Completes ==
  ASSUME IInv, NEW th \in Threads, WaitReturn(th)
  PROVE  \E s \in Schedules : Pool!Complete(s)
<1>. DEFINE n == Len(stack[th])
<1>1. /\ At(th, "check") /\ counter[Top(th).of] = 0 /\ stack' = Return(th)
      /\ lifetime' = [lifetime EXCEPT ![Top(th).of] = "waited"]
      /\ UNCHANGED <<high, normal, status>>
  BY DEF WaitReturn
<1>2. /\ n \in DOMAIN stack[th] /\ Top(th) = stack[th][n] /\ Top(th).at = "check"
      /\ FrameOK(th, n, Top(th))
  BY <1>1, TopFrame DEF IInv
<1>3. PICK s \in Schedules : s = Top(th).of
  BY <1>2 DEF FrameOK, WaitPoints
<1>4. lifetime[s] = "open"
  BY <1>2, <1>3 DEF IInv, Waits, WaitPoints
<1>5. Outstanding(s) = {}
  BY <1>1, <1>3, OutstandingFinite, FS_EmptySet DEF IInv, Accounting
<1>6. \A t \in Tasks : SchedOf[t] = s => Outcome(t) \in {"new", "done", "cancelled"}
  <2>1. ASSUME NEW t \in Tasks, SchedOf[t] = s
        PROVE  status[t] \in {"new", "done", "cancelled"}
    BY <1>5, <2>1 DEF Outstanding, IInv, Values
  <2>. QED  BY <2>1 DEF Outcome
<1>7. \A t \in Tasks : SchedOf[t] = s => Mapped[t] \in {"new", "done", "cancelled"}
  BY <1>6 DEF Mapped
<1>8. Mapped' = Mapped
  <2>1. Cancelling' = Cancelling
    BY <1>1, CancellingMoves DEF IInv
  <2>. QED  BY <1>1, <2>1, NobodyMoves DEF Nobody, Mapped
<1>. QED  BY <1>1, <1>3, <1>4, <1>7, <1>8 DEF Mapped, Pool!Complete

(* The owner lets go of a schedule that it has waited for.                 *)
LEMMA Destroys ==
  ASSUME IInv, NEW th \in Threads, NEW s \in Schedules, Destroy(th, s)
  PROVE  Pool!Destroy(s)
<1>1. /\ lifetime[s] = "waited" /\ lifetime' = [lifetime EXCEPT ![s] = "destroyed"]
      /\ UNCHANGED <<high, normal, status, stack>>
  BY DEF Destroy
<1>2. Mapped' = Mapped
  <2>1. Cancelling' = Cancelling
    BY <1>1 DEF Cancelling
  <2>. QED  BY <1>1, <2>1, NobodyMoves DEF Nobody, Mapped
<1>. QED  BY <1>1, <1>2 DEF Mapped, Pool!Destroy

-----------------------------------------------------------------------------
(* The scheduler begins as the pool does.                                  *)
LEMMA InitRefines == Init => Pool!Init
<1>. SUFFICES ASSUME Init PROVE Pool!Init
  OBVIOUS
<1>1. \A t \in Tasks : Outcome(t) = "new"
  BY DEF Init, Outcome
<1>2. Mapped = [t \in Tasks |-> "new"]
  BY <1>1 DEF Mapped
<1>. QED  BY <1>2 DEF Init, Mapped, Pool!Init

(* Every step of the scheduler is one of the pool's, or none.              *)
LEMMA NextRefines == IInv /\ IInv' /\ [Next]_vars => [Pool!Next]_(Pool!vars)
<1>. SUFFICES ASSUME IInv, IInv', [Next]_vars
              PROVE  Pool!Next \/ UNCHANGED Pool!vars
  OBVIOUS
<1>1. CASE Initialize \/ Terminate \/ TerminateSteps \/ UNCHANGED vars
  BY <1>1, UnseenByAll
<1>2. ASSUME NEW th \in Threads, Calls(th)
      PROVE  Pool!Next \/ UNCHANGED Pool!vars
  <2>1. ASSUME NEW t \in Tasks, ScheduleTask(th, t) PROVE Pool!Next
    BY <2>1, Submits DEF Pool!Next
  <2>2. ASSUME NEW s \in Schedules, WaitCall(th, s) PROVE UNCHANGED Pool!vars
    BY <2>2, UnseenMoves
  <2>3. ASSUME NEW s \in Schedules, Destroy(th, s) PROVE Pool!Next
    BY <2>3, Destroys DEF Pool!Next
  <2>4. ASSUME NEW tag \in Tags, CancelTag(th, tag) PROVE Pool!Next
    BY <2>4, Cancellings DEF Pool!Next
  <2>. QED  BY <1>2, <2>1, <2>2, <2>3, <2>4 DEF Calls
<1>3. ASSUME NEW th \in Threads, LockSteps(th)
      PROVE  Pool!Next \/ UNCHANGED Pool!vars
  <2>1. CASE SchedulePush(th)
    BY <2>1, Enqueues DEF Pool!Next
  <2>2. CASE WaitTake(th) \/ WorkerTake(th)
    BY <2>2, Starts DEF Pool!Next
  <2>3. CASE WaitNothing(th) \/ WorkerExit(th) \/ WorkerDecide(th)
    BY <2>3, UnseenMoves
  <2>. QED  BY <1>3, <2>1, <2>2, <2>3 DEF LockSteps
<1>4. ASSUME NEW th \in Threads, FreeSteps(th)
      PROVE  Pool!Next \/ UNCHANGED Pool!vars
  <2>1. CASE ScheduleNotify(th) \/ CounterNotify(th)
    BY <2>1, UnseenByAll
  <2>2. CASE TaskReturn(th)
    BY <2>2, UnseenReturn
  <2>3. CASE TaskFinish(th)
    BY <2>3, Ends DEF Pool!Next
  <2>4. CASE WaitCheck(th) \/ WaitReload(th) \/ WaitPark(th)
    BY <2>4, UnseenMoves
  <2>5. CASE WaitReturn(th)
    BY <2>5, Completes DEF Pool!Next
  <2>6. CASE CancelTask(th)
    BY <2>6, Clears DEF Pool!Next
  <2>7. CASE CancelReturn(th)
    BY <2>7, UnseenCancelled
  <2>8. CASE WorkerLoop(th) \/ WorkerBlock(th)
    BY <2>8, UnseenMoves
  <2>. QED  BY <1>4, <2>1, <2>2, <2>3, <2>4, <2>5, <2>6, <2>7, <2>8 DEF FreeSteps
<1>5. ASSUME NEW th \in Threads, SpuriousWake(th)
      PROVE  UNCHANGED Pool!vars
  BY <1>5, UnseenMoves
<1>. QED  BY <1>1, <1>2, <1>3, <1>4, <1>5 DEF Next

(* AsyncOps is such a pool: queues are served in order and the high one    *)
(* first, a cancellation is atomic for all but those who wait, a task ends *)
(* once, and a wait ends only when its schedule is done.                   *)
THEOREM Refinement == Spec => RefinesTaskPool
<1>1. Init => Pool!Init
  BY InitRefines
<1>2. IInv /\ IInv' /\ [Next]_vars => [Pool!Next]_(Pool!vars)
  BY NextRefines
<1>. QED  BY <1>1, <1>2, Invariance, PTL DEF Spec, RefinesTaskPool, Pool!Spec
=============================================================================
