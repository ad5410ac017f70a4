------------------------------ MODULE Scheduler ------------------------------
(***************************************************************************)
(* AsyncOps (IACore/AsyncOps.hpp, AsyncOps.cpp): a pool of worker threads  *)
(* that serve a high and a normal queue under one mutex and one condition  *)
(* variable.  A Schedule counts its outstanding tasks; a thread that waits *)
(* for it helps: it runs queued tasks itself and blocks on the counter     *)
(* only when both queues are empty.                                        *)
(*                                                                         *)
(* Because a wait runs tasks, and tasks may schedule and wait, calls nest. *)
(* Each thread has a stack of frames [at, of, val]: the point of the code  *)
(* it is at, the task, schedule or tag it is about, and for a blocked wait *)
(* the counter value it read.  One access to an atomic, one critical       *)
(* section or one notification is one step; a critical section takes more  *)
(* steps, holding mutex, where something outside it can be seen in between.*)
(*                                                                         *)
(* The definitions marked "Fault" are plausible mistakes in the one that   *)
(* follows: with any of them in its place a property below fails.          *)
(***************************************************************************)
EXTENDS Integers, Sequences, FiniteSets

CONSTANTS
  Workers,               \* the threads that initialize_scheduler creates
  Clients,               \* the other threads of the program
  Main,                  \* the client that initializes and terminates
  Tasks, Schedules, Tags,
  None,                  \* no thread, and a frame about nothing
  High,                  \* the tasks scheduled with Priority::High
  SchedOf, TagOf,        \* the schedule and the tag of each task
  Spawner,               \* who schedules a task: a client or another task
  Owner,                 \* who waits for a schedule: a client or a task
  Lives,                 \* bound of the model: calls of initialize_scheduler
  Cancels                \* bound of the model: calls of cancel_tasks_of_tag

Threads == Workers \cup Clients

ASSUME ThreadAssumption ==
  /\ IsFiniteSet(Workers) /\ IsFiniteSet(Clients)
  /\ Workers \cap Clients = {} /\ Main \in Clients /\ None \notin Threads
ASSUME TaskAssumption ==
  /\ IsFiniteSet(Tasks) /\ High \subseteq Tasks
  /\ Tasks \cap Clients = {}
  /\ SchedOf \in [Tasks -> Schedules] /\ TagOf \in [Tasks -> Tags]
(* Fork and join: whoever waits for a schedule also puts tasks on it, and  *)
(* so may its tasks while they run; nobody else does.                      *)
ASSUME ForkJoinAssumption ==
  /\ Spawner \in [Tasks -> Clients \cup Tasks]
  /\ Owner \in [Schedules -> Clients \cup Tasks]
  /\ \A t \in Tasks :
       \/ Spawner[t] = Owner[SchedOf[t]]
       \/ Spawner[t] \in Tasks /\ SchedOf[Spawner[t]] = SchedOf[t]
ASSUME BoundAssumption == Lives \in Nat /\ Cancels \in Nat

VARIABLES
  high, normal,          \* s_high_priority_queue, s_normal_priority_queue
  mutex,                 \* the thread that holds s_queue_mutex, or None
  counter,               \* Schedule::counter
  stop,                  \* the workers whose stop_token was signalled
  registered,            \* s_schedule_workers
  stack,                 \* the calls each thread is in
  status,                \* history: what has become of each task
  lifetime,              \* whether a schedule's owner still needs it
  lives, cancels         \* calls made so far

vars == <<high, normal, mutex, counter, stop, registered, stack, status,
          lifetime, lives, cancels>>

Frame(at, of) == [at |-> at, of |-> of, val |-> 0]

Top(th) == stack[th][Len(stack[th])]
At(th, at) == stack[th] # <<>> /\ Top(th).at = at

(* A thread's stack when its top frame is replaced, left, or called from.  *)
Below(th) == SubSeq(stack[th], 1, Len(stack[th]) - 1)
Goto(th, at)      == [stack EXCEPT ![th] = Append(Below(th),
                                             [Top(th) EXCEPT !.at = at])]
Return(th)        == [stack EXCEPT ![th] = Below(th)]
Call(th, f)       == [stack EXCEPT ![th] = Append(@, f)]
GotoCall(th, at, f) == [stack EXCEPT ![th] =
                          Append(Append(Below(th), [Top(th) EXCEPT !.at = at]), f)]

(* Whose code a thread is running: its own, or the body of a task.         *)
Runs(th, c) == \/ At(th, "idle") /\ c = th
               \/ At(th, "run") /\ c = Top(th).of

QueueEmpty == high = <<>> /\ normal = <<>>
NextTask   == IF high # <<>> THEN Head(high) ELSE Head(normal)

(* The two pops both kinds of takers make: the high queue goes first.      *)
PopFront == IF high # <<>>
              THEN high' = Tail(high) /\ UNCHANGED normal
              ELSE normal' = Tail(normal) /\ UNCHANGED high

Asleep == {w \in Workers : At(w, "asleep")}
(* The frames after every worker of ws has been notified.                  *)
Woken(ws, st) == [th \in Threads |->
                    IF th \in ws THEN <<Frame("acquire", None)>> ELSE st[th]]

Init == /\ high = <<>> /\ normal = <<>> /\ mutex = None
        /\ counter = [s \in Schedules |-> 0]
        /\ stop = {} /\ registered = {}
        /\ stack = [th \in Threads |-> IF th \in Clients
                                         THEN <<Frame("idle", None)>> ELSE <<>>]
        /\ status = [t \in Tasks |-> "new"]
        /\ lifetime = [s \in Schedules |-> "open"]
        /\ lives = 0 /\ cancels = 0

-----------------------------------------------------------------------------
(* initialize_scheduler(worker_count)                                      *)
Initialize == /\ At(Main, "idle")
              /\ registered = {} /\ lives < Lives
              /\ registered' = Workers
              /\ stop' = {}
              /\ stack' = [th \in Threads |->
                             IF th \in Workers THEN <<Frame("loop", None)>>
                             ELSE stack[th]]
              /\ lives' = lives + 1
              /\ UNCHANGED <<high, normal, mutex, counter, status, lifetime,
                             cancels>>

(* terminate_scheduler(): ask each worker to stop, notify, join, clear.    *)
Terminate == /\ At(Main, "idle")
             /\ stack' = Call(Main, Frame("stop", None))
             /\ UNCHANGED <<high, normal, mutex, counter, stop, registered,
                            status, lifetime, lives, cancels>>

TerminateStop == /\ At(Main, "stop")
                 /\ \E w \in registered \ stop : stop' = stop \cup {w}
                 /\ UNCHANGED <<high, normal, mutex, counter, registered, stack,
                                status, lifetime, lives, cancels>>

TerminateNotify == /\ At(Main, "stop")
                   /\ registered \subseteq stop
                   /\ stack' = Woken(Asleep, Goto(Main, "join"))
                   /\ UNCHANGED <<high, normal, mutex, counter, stop, registered,
                                  status, lifetime, lives, cancels>>

TerminateJoin == /\ At(Main, "join")
                 /\ \A w \in registered : stack[w] = <<>>
                 /\ registered' = {}
                 /\ stack' = Return(Main)
                 /\ UNCHANGED <<high, normal, mutex, counter, stop, status,
                                lifetime, lives, cancels>>

-----------------------------------------------------------------------------
(* Fault: the task is not counted in.                                      *)
ScheduleTask_uncounted(th, t) ==
  /\ Runs(th, Spawner[t]) /\ status[t] = "new"
  /\ registered # {}
  /\ lifetime[SchedOf[t]] # "destroyed"
  /\ status' = [status EXCEPT ![t] = "counted"]
  /\ lifetime' = [lifetime EXCEPT ![SchedOf[t]] = "open"]
  /\ stack' = Call(th, Frame("push", t))
  /\ UNCHANGED <<high, normal, mutex, counter, stop, registered, lives, cancels>>

(* schedule_task(task, tag, schedule, priority)                            *)
ScheduleTask(th, t) ==
  /\ Runs(th, Spawner[t]) /\ status[t] = "new"
  /\ registered # {}
  /\ lifetime[SchedOf[t]] # "destroyed"
  /\ counter' = [counter EXCEPT ![SchedOf[t]] = @ + 1]
  /\ status' = [status EXCEPT ![t] = "counted"]
  /\ lifetime' = [lifetime EXCEPT ![SchedOf[t]] = "open"]
  /\ stack' = Call(th, Frame("push", t))
  /\ UNCHANGED <<high, normal, mutex, stop, registered, lives, cancels>>

SchedulePush(th) ==
  /\ At(th, "push") /\ mutex = None
  /\ LET t == Top(th).of
     IN  /\ IF t \in High
              THEN high' = Append(high, t) /\ UNCHANGED normal
              ELSE normal' = Append(normal, t) /\ UNCHANGED high
         /\ status' = [status EXCEPT ![t] = "queued"]
  /\ stack' = Goto(th, "wake")
  /\ UNCHANGED <<mutex, counter, stop, registered, lifetime, lives, cancels>>

(* Fault: no worker is woken.                                              *)
ScheduleNotify_nobody(th) ==
  /\ At(th, "wake")
  /\ stack' = Return(th)
  /\ UNCHANGED <<high, normal, mutex, counter, stop, registered, status,
                 lifetime, lives, cancels>>

ScheduleNotify(th) ==
  /\ At(th, "wake")
  /\ \/ \E w \in Asleep : stack' = Woken({w}, Return(th))
     \/ Asleep = {} /\ stack' = Return(th)
  /\ UNCHANGED <<high, normal, mutex, counter, stop, registered, status,
                 lifetime, lives, cancels>>

-----------------------------------------------------------------------------
(* schedule_worker_loop(stop_token, worker_id)                             *)
WorkerLoop(w) ==
  /\ At(w, "loop")
  /\ stack' = IF w \in stop THEN Return(w) ELSE Goto(w, "acquire")
  /\ UNCHANGED <<high, normal, mutex, counter, stop, registered, status,
                 lifetime, lives, cancels>>

(* With the mutex, the predicate of the wait holds: a task is taken, even  *)
(* by a worker that was asked to stop.                                     *)
WorkerTake(w) ==
  /\ At(w, "acquire") /\ mutex = None
  /\ ~QueueEmpty
  /\ PopFront
  /\ status' = [status EXCEPT ![NextTask] = "running"]
  /\ stack' = GotoCall(w, "loop", Frame("run", NextTask))
  /\ UNCHANGED <<mutex, counter, stop, registered, lifetime, lives, cancels>>

WorkerExit(w) ==
  /\ At(w, "acquire") /\ mutex = None
  /\ QueueEmpty /\ w \in stop
  /\ stack' = Return(w)
  /\ UNCHANGED <<high, normal, mutex, counter, stop, registered, status,
                 lifetime, lives, cancels>>

(* Fault: the mutex is released before the worker blocks.                  *)
WorkerDecide_unlocked(w) ==
  /\ At(w, "acquire") /\ mutex = None
  /\ QueueEmpty /\ w \notin stop
  /\ stack' = Goto(w, "block")
  /\ UNCHANGED <<high, normal, mutex, counter, stop, registered, status,
                 lifetime, lives, cancels>>

(* The predicate is false: the worker is going to block, and holds the     *)
(* mutex until it does.                                                    *)
WorkerDecide(w) ==
  /\ At(w, "acquire") /\ mutex = None
  /\ QueueEmpty /\ w \notin stop
  /\ mutex' = w
  /\ stack' = Goto(w, "block")
  /\ UNCHANGED <<high, normal, counter, stop, registered, status, lifetime,
                 lives, cancels>>

WorkerBlock(w) ==
  /\ At(w, "block")
  /\ mutex' = None
  /\ stack' = Goto(w, "asleep")
  /\ UNCHANGED <<high, normal, counter, stop, registered, status, lifetime,
                 lives, cancels>>

(* A condition variable, and a wait on an atomic, may wake a thread that   *)
(* nobody notified; it looks again at what it waits for.                   *)
SpuriousWake(th) ==
  /\ \/ At(th, "asleep") /\ stack' = Goto(th, "acquire")
     \/ At(th, "parked") /\ stack' = Goto(th, "park")
  /\ UNCHANGED <<high, normal, mutex, counter, stop, registered, status,
                 lifetime, lives, cancels>>

-----------------------------------------------------------------------------
(* Running a task, by a worker or by a thread that waits.                  *)

(* The body returns.  It has waited for the schedules it put tasks on.     *)
TaskReturn(th) ==
  /\ At(th, "run")
  /\ \A s \in Schedules :
       Owner[s] = Top(th).of /\ lifetime[s] = "open"
         => \A t \in Tasks : SchedOf[t] = s => status[t] = "new"
  /\ status' = [status EXCEPT ![Top(th).of] = "ran"]
  /\ stack' = Goto(th, "finish")
  /\ UNCHANGED <<high, normal, mutex, counter, stop, registered, lifetime,
                 lives, cancels>>

(* Fault: the last task tells nobody.                                      *)
TaskFinish_silent(th) ==
  /\ At(th, "finish")
  /\ LET t == Top(th).of
     IN  /\ counter' = [counter EXCEPT ![SchedOf[t]] = @ - 1]
         /\ status' = [status EXCEPT ![t] = "done"]
  /\ stack' = Return(th)
  /\ UNCHANGED <<high, normal, mutex, stop, registered, lifetime, lives, cancels>>

(* counter.fetch_sub(1), which tells whether it was the last one.          *)
TaskFinish(th) ==
  /\ At(th, "finish")
  /\ LET t == Top(th).of
     IN  /\ counter' = [counter EXCEPT ![SchedOf[t]] = @ - 1]
         /\ status' = [status EXCEPT ![t] = "done"]
         /\ stack' = IF counter[SchedOf[t]] = 1 THEN Goto(th, "notify")
                                                ELSE Return(th)
  /\ UNCHANGED <<high, normal, mutex, stop, registered, lifetime, lives, cancels>>

(* counter.notify_all(): whoever is blocked on it looks at it again.       *)
CounterNotify(th) ==
  /\ At(th, "notify")
  /\ LET s == SchedOf[Top(th).of]
     IN  stack' = [u \in Threads |->
                     IF u = th THEN Below(th)
                     ELSE IF At(u, "parked") /\ Top(u).of = s
                       THEN Goto(u, "park")[u]
                     ELSE stack[u]]
  /\ UNCHANGED <<high, normal, mutex, counter, stop, registered, status,
                 lifetime, lives, cancels>>

-----------------------------------------------------------------------------
(* wait_for_schedule_completion(schedule)                                  *)
WaitCall(th, s) ==
  /\ Runs(th, Owner[s]) /\ lifetime[s] = "open"
  /\ registered # {}
  /\ stack' = Call(th, Frame("check", s))
  /\ UNCHANGED <<high, normal, mutex, counter, stop, registered, status,
                 lifetime, lives, cancels>>

WaitCheck(th) ==
  /\ At(th, "check")
  /\ counter[Top(th).of] > 0
  /\ stack' = Goto(th, "take")
  /\ UNCHANGED <<high, normal, mutex, counter, stop, registered, status,
                 lifetime, lives, cancels>>

(* Fault: a wait returns while the last task is still running.             *)
WaitReturn_early(th) ==
  /\ At(th, "check")
  /\ counter[Top(th).of] <= 1
  /\ lifetime' = [lifetime EXCEPT ![Top(th).of] = "waited"]
  /\ stack' = Return(th)
  /\ UNCHANGED <<high, normal, mutex, counter, stop, registered, status,
                 lives, cancels>>

WaitReturn(th) ==
  /\ At(th, "check")
  /\ counter[Top(th).of] = 0
  /\ lifetime' = [lifetime EXCEPT ![Top(th).of] = "waited"]
  /\ stack' = Return(th)
  /\ UNCHANGED <<high, normal, mutex, counter, stop, registered, status,
                 lives, cancels>>

(* Fault: the task taken stays in its queue.                               *)
WaitTake_unpopped(th) ==
  /\ At(th, "take") /\ mutex = None
  /\ ~QueueEmpty
  /\ status' = [status EXCEPT ![NextTask] = "running"]
  /\ stack' = GotoCall(th, "check", Frame("run", NextTask))
  /\ UNCHANGED <<high, normal, mutex, counter, stop, registered, lifetime,
                 lives, cancels>>

WaitTake(th) ==
  /\ At(th, "take") /\ mutex = None
  /\ ~QueueEmpty
  /\ PopFront
  /\ status' = [status EXCEPT ![NextTask] = "running"]
  /\ stack' = GotoCall(th, "check", Frame("run", NextTask))
  /\ UNCHANGED <<mutex, counter, stop, registered, lifetime, lives, cancels>>

WaitNothing(th) ==
  /\ At(th, "take") /\ mutex = None
  /\ QueueEmpty
  /\ stack' = Goto(th, "reload")
  /\ UNCHANGED <<high, normal, mutex, counter, stop, registered, status,
                 lifetime, lives, cancels>>

(* current_val = counter.load()                                            *)
WaitReload(th) ==
  /\ At(th, "reload")
  /\ LET v == counter[Top(th).of]
     IN  stack' = IF v > 0
                    THEN [stack EXCEPT ![th] =
                            Append(Below(th), [at  |-> "park", of |-> Top(th).of,
                                               val |-> v])]
                    ELSE Goto(th, "check")
  /\ UNCHANGED <<high, normal, mutex, counter, stop, registered, status,
                 lifetime, lives, cancels>>

(* counter.wait(current_val) blocks while the counter has that value.      *)
WaitPark(th) ==
  /\ At(th, "park")
  /\ stack' = IF counter[Top(th).of] = Top(th).val THEN Goto(th, "parked")
                                                   ELSE Goto(th, "check")
  /\ UNCHANGED <<high, normal, mutex, counter, stop, registered, status,
                 lifetime, lives, cancels>>

(* The owner of a schedule that it has waited for lets go of it: every     *)
(* test of AsyncOps has its Schedule on the stack.                         *)
Destroy(th, s) ==
  /\ Runs(th, Owner[s]) /\ lifetime[s] = "waited"
  /\ lifetime' = [lifetime EXCEPT ![s] = "destroyed"]
  /\ UNCHANGED <<high, normal, mutex, counter, stop, registered, stack, status,
                 lives, cancels>>

-----------------------------------------------------------------------------
(* cancel_tasks_of_tag(tag), which holds the mutex from end to end.        *)
Tagged(q, tag) == {i \in DOMAIN q : TagOf[q[i]] = tag}
FirstOf(is)    == CHOOSE i \in is : \A j \in is : i <= j
Erase(q, i)    == SubSeq(q, 1, i - 1) \o SubSeq(q, i + 1, Len(q))

(* Fault: the queues are searched without the mutex.                       *)
CancelTag_unlocked(th, tag) ==
  /\ At(th, "idle") \/ At(th, "run")
  /\ mutex = None /\ cancels < Cancels
  /\ cancels' = cancels + 1
  /\ stack' = Call(th, Frame("cancel", tag))
  /\ UNCHANGED <<high, normal, mutex, counter, stop, registered, status,
                 lifetime, lives>>

CancelTag(th, tag) ==
  /\ At(th, "idle") \/ At(th, "run")
  /\ mutex = None /\ cancels < Cancels
  /\ mutex' = th
  /\ cancels' = cancels + 1
  /\ stack' = Call(th, Frame("cancel", tag))
  /\ UNCHANGED <<high, normal, counter, stop, registered, status, lifetime,
                 lives>>

(* Fault: a task that is cancelled is not counted out.                     *)
CancelTask_uncounted(th) ==
  /\ At(th, "cancel")
  /\ LET inHigh   == Tagged(high, Top(th).of)
         inNormal == Tagged(normal, Top(th).of)
         t == IF inHigh # {} THEN high[FirstOf(inHigh)]
                             ELSE normal[FirstOf(inNormal)]
     IN  /\ inHigh \cup inNormal # {}
         /\ IF inHigh # {}
              THEN high' = Erase(high, FirstOf(inHigh)) /\ UNCHANGED normal
              ELSE normal' = Erase(normal, FirstOf(inNormal)) /\ UNCHANGED high
         /\ status' = [status EXCEPT ![t] = "cancelled"]
  /\ UNCHANGED <<mutex, counter, stop, registered, stack, lifetime, lives, cancels>>

(* One task of the tag, the high queue's first.  Its erasure, which comes  *)
(* after the notification, cannot be told from one before it.              *)
CancelTask(th) ==
  /\ At(th, "cancel")
  /\ LET inHigh   == Tagged(high, Top(th).of)
         inNormal == Tagged(normal, Top(th).of)
         t == IF inHigh # {} THEN high[FirstOf(inHigh)]
                             ELSE normal[FirstOf(inNormal)]
     IN  /\ inHigh \cup inNormal # {}
         /\ IF inHigh # {}
              THEN high' = Erase(high, FirstOf(inHigh)) /\ UNCHANGED normal
              ELSE normal' = Erase(normal, FirstOf(inNormal)) /\ UNCHANGED high
         /\ counter' = [counter EXCEPT ![SchedOf[t]] = @ - 1]
         /\ status' = [status EXCEPT ![t] = "cancelled"]
         /\ stack' = IF counter[SchedOf[t]] = 1
                       THEN Call(th, Frame("notify", t)) ELSE stack
  /\ UNCHANGED <<mutex, stop, registered, lifetime, lives, cancels>>

CancelReturn(th) ==
  /\ At(th, "cancel")
  /\ Tagged(high, Top(th).of) \cup Tagged(normal, Top(th).of) = {}
  /\ mutex' = None
  /\ stack' = Return(th)
  /\ UNCHANGED <<high, normal, counter, stop, registered, status, lifetime,
                 lives, cancels>>

-----------------------------------------------------------------------------
(* The steps of a thread by what makes it take them.  Calls are up to the  *)
(* program; the rest of a call follows by itself.                          *)
Calls(th) == \/ \E t \in Tasks : ScheduleTask(th, t)
             \/ \E s \in Schedules : WaitCall(th, s) \/ Destroy(th, s)
             \/ \E tag \in Tags : CancelTag(th, tag)

LockSteps(th) == \/ SchedulePush(th)
                 \/ WaitTake(th) \/ WaitNothing(th)
                 \/ th \in Workers /\ \/ WorkerTake(th) \/ WorkerExit(th)
                                      \/ WorkerDecide(th)

FreeSteps(th) == \/ ScheduleNotify(th)
                 \/ TaskReturn(th) \/ TaskFinish(th) \/ CounterNotify(th)
                 \/ WaitCheck(th) \/ WaitReturn(th)
                 \/ WaitReload(th) \/ WaitPark(th)
                 \/ CancelTask(th) \/ CancelReturn(th)
                 \/ th \in Workers /\ (WorkerLoop(th) \/ WorkerBlock(th))

TerminateSteps == TerminateStop \/ TerminateNotify \/ TerminateJoin

Next == \/ Initialize \/ Terminate \/ TerminateSteps
        \/ \E th \in Threads : \/ Calls(th) \/ LockSteps(th) \/ FreeSteps(th)
                               \/ SpuriousWake(th)

Spec == Init /\ [][Next]_vars

(* Threads that can run do.  A thread that wants the mutex gets it if the  *)
(* mutex is free again and again.  A task's body does not keep its worker  *)
(* forever: it returns, or first waits for the schedules it put tasks on.  *)
(* Nothing makes a client call anything, nor a blocked thread wake unasked.*)
FairSpec == /\ Spec
            /\ WF_vars(TerminateSteps)
            /\ \A th \in Threads :
                 /\ WF_vars(FreeSteps(th))
                 /\ SF_vars(LockSteps(th))
                 /\ WF_vars(At(th, "run") /\ \E s \in Schedules : WaitCall(th, s))

-----------------------------------------------------------------------------
Points == {"idle", "stop", "join", "push", "wake", "loop", "acquire", "block",
           "asleep", "run", "finish", "notify", "check", "take", "reload",
           "park", "parked", "cancel"}

Frames == [at  : Points,
           of  : Tasks \cup Schedules \cup Tags \cup {None},
           val : Int]

(* Values of the variables.                                                *)
TypeOK ==
  /\ high \in Seq(Tasks) /\ normal \in Seq(Tasks)
  /\ mutex \in Threads \cup {None}
  /\ counter \in [Schedules -> Nat]
  /\ stop \subseteq Workers /\ registered \subseteq Workers
  /\ stack \in [Threads -> Seq(Frames)]
  /\ status \in [Tasks -> {"new", "counted", "queued", "running", "ran",
                           "done", "cancelled"}]
  /\ lifetime \in [Schedules -> {"open", "waited", "destroyed"}]
  /\ lives \in 0 .. Lives /\ cancels \in 0 .. Cancels

(* The tasks of schedule s that have been counted in and not yet out.      *)
Outstanding(s) ==
  {t \in Tasks : SchedOf[t] = s
                  /\ status[t] \in {"counted", "queued", "running", "ran"}}

(* The counter of a schedule is the number of its outstanding tasks, with  *)
(* no critical section around the two.                                     *)
Accounting == \A s \in Schedules : counter[s] = Cardinality(Outstanding(s))

Indices(q, t) == {i \in DOMAIN q : q[i] = t}
Hands(th, t)  == {i \in DOMAIN stack[th] :
                    /\ stack[th][i].at \in {"push", "run", "finish"}
                    /\ stack[th][i].of = t}
Places(t) ==      ({"high"} \X Indices(high, t))
             \cup ({"normal"} \X Indices(normal, t))
             \cup UNION {{th} \X Hands(th, t) : th \in Threads}

(* A task that has been scheduled is in one place until it is done: in one *)
(* queue, or in the hands of one thread.  So it is run or cancelled, never *)
(* both, once, and never lost.                                             *)
Placement ==
  \A t \in Tasks :
    Cardinality(Places(t)) =
      IF status[t] \in {"counted", "queued", "running", "ran"} THEN 1 ELSE 0

(* A wait returns only when every task of the schedule is done or          *)
(* cancelled, and so a schedule that its owner has destroyed is in no      *)
(* queue and no thread will count it down.                                 *)
WaitMeansDone ==
  \A s \in Schedules : lifetime[s] # "open" => Outstanding(s) = {}

(* While workers sleep and tasks are queued, a worker is on its way to the *)
(* queues, or a thread is about to wake one.                               *)
NobodySleepsOnWork ==
  ~QueueEmpty /\ Asleep \ stop # {}
    => \/ \E th \in Threads : At(th, "wake") \/ At(th, "cancel")
       \/ \E w \in Workers : At(w, "loop") \/ At(w, "acquire")

(* The tags whose cancellation holds the mutex.                            *)
Cancelling == UNION {{stack[th][i].of : i \in {j \in DOMAIN stack[th] :
                                     stack[th][j].at = "cancel"}} : th \in Threads}
Outcome(t) ==
  CASE status[t] = "counted" -> "submitted"
    [] status[t] = "ran" -> "running"
    [] status[t] = "queued" /\ TagOf[t] \in Cancelling -> "cancelled"
    [] OTHER -> status[t]

(* What is promised of the pool.  A cancellation is done there as soon as  *)
(* it holds the mutex: what it has yet to find has ended already.          *)
Pool == INSTANCE TaskPool WITH
  status <- [t \in Tasks |-> Outcome(t)]

(* The scheduler implements that pool: queues are served in order and the  *)
(* high one first by whoever takes a task; cancel_tasks_of_tag is atomic   *)
(* for takers and those who schedule, though waiters see it half done; a   *)
(* task ends once; and a wait ends only when its schedule is done.         *)
RefinesTaskPool == Pool!Spec

InWait(c) == Len(stack[c]) > 1 /\ stack[c][2].at \in {"check", "take", "reload",
                                                      "park", "parked"}
(* A client's wait for a schedule returns.                                 *)
WaitsReturn == \A c \in Clients : InWait(c) ~> At(c, "idle")

(* The same, as long as nobody terminates the scheduler.                   *)
WaitsReturnWhileUp ==
  \A c \in Clients : InWait(c) ~> At(c, "idle") \/ stop # {}

(* A queued task is run or cancelled, unless the workers are told to stop. *)
QueuedTasksEnd ==
  \A t \in Tasks : status[t] = "queued"
                     ~> status[t] \in {"done", "cancelled"} \/ stop # {}

(* terminate_scheduler returns.                                            *)
TerminateReturns == At(Main, "stop") ~> At(Main, "idle")

(* A schedule that is being notified still exists.                         *)
NotifiedIsAlive ==
  \A th \in Threads :
    At(th, "notify") => lifetime[SchedOf[Top(th).of]] # "destroyed"

=============================================================================
