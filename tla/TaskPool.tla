------------------------------ MODULE TaskPool ------------------------------
(***************************************************************************)
(* What AsyncOps (AsyncOps.hpp) promises to those who schedule tasks: two  *)
(* queues, served in order and the high one first; a cancellation ends all *)
(* queued tasks of its tag at once, and touches none that runs; a wait     *)
(* ends when nothing of its schedule is outstanding.  Nothing is said of   *)
(* threads, locks, counters or notifications, and nothing of when the      *)
(* entry that a cancelled task leaves in its queue is cleared away, except *)
(* that nobody is handed a task past it.                                   *)
(***************************************************************************)
EXTENDS Integers, Sequences

CONSTANTS Tasks, Schedules, Tags, High, SchedOf, TagOf

VARIABLES
  high, normal,          \* the tasks that wait to be run, and cancelled ones
  status,                \* what has become of each task
  lifetime               \* of each schedule: "open", "waited", "destroyed"

vars == <<high, normal, status, lifetime>>

Init ==
  /\ high = <<>> /\ normal = <<>>
  /\ status = [t \in Tasks |-> "new"]
  /\ lifetime = [s \in Schedules |-> "open"]

Becomes(t, from, to) == status[t] = from /\ status' = [status EXCEPT ![t] = to]

(* From its submission on a task keeps its schedule open.                  *)
Submit(t) ==
  /\ lifetime[SchedOf[t]] # "destroyed"
  /\ Becomes(t, "new", "submitted")
  /\ lifetime' = [lifetime EXCEPT ![SchedOf[t]] = "open"]
  /\ UNCHANGED <<high, normal>>

Enqueue(t) ==
  /\ Becomes(t, "submitted", "queued")
  /\ IF t \in High THEN high' = Append(high, t) /\ UNCHANGED normal
                   ELSE normal' = Append(normal, t) /\ UNCHANGED high
  /\ UNCHANGED lifetime

StartHigh ==
  /\ high # <<>> /\ Becomes(Head(high), "queued", "running")
  /\ high' = Tail(high)
  /\ UNCHANGED <<normal, lifetime>>
StartNormal ==
  /\ high = <<>> /\ normal # <<>> /\ Becomes(Head(normal), "queued", "running")
  /\ normal' = Tail(normal)
  /\ UNCHANGED <<high, lifetime>>

End(t) ==
  /\ Becomes(t, "running", "done")
  /\ UNCHANGED <<high, normal, lifetime>>

(* All of the tag, of both queues, in one step.                            *)
Cancel(tag) ==
  /\ status' = [t \in Tasks |-> IF status[t] = "queued" /\ TagOf[t] = tag
                                  THEN "cancelled" ELSE status[t]]
  /\ UNCHANGED <<high, normal, lifetime>>

Erase(q, i) == SubSeq(q, 1, i - 1) \o SubSeq(q, i + 1, Len(q))
Clear ==
  /\ \/ \E i \in DOMAIN high : /\ status[high[i]] = "cancelled"
                               /\ high' = Erase(high, i) /\ UNCHANGED normal
     \/ \E i \in DOMAIN normal : /\ status[normal[i]] = "cancelled"
                                 /\ normal' = Erase(normal, i) /\ UNCHANGED high
  /\ UNCHANGED <<status, lifetime>>

Complete(s) ==
  /\ \A t \in Tasks : SchedOf[t] = s => status[t] \in {"new", "done", "cancelled"}
  /\ lifetime[s] # "destroyed" /\ lifetime' = [lifetime EXCEPT ![s] = "waited"]
  /\ UNCHANGED <<high, normal, status>>
Destroy(s) ==
  /\ lifetime[s] = "waited" /\ lifetime' = [lifetime EXCEPT ![s] = "destroyed"]
  /\ UNCHANGED <<high, normal, status>>

Next ==
  \/ \E t \in Tasks : Submit(t) \/ Enqueue(t) \/ End(t)
  \/ StartHigh \/ StartNormal
  \/ (\E tag \in Tags : Cancel(tag)) \/ Clear
  \/ \E s \in Schedules : Complete(s) \/ Destroy(s)

Spec == Init /\ [][Next]_vars
=============================================================================
