----------------------------- MODULE MCScheduler -----------------------------
(***************************************************************************)
(* Instances of Scheduler for TLC.                                         *)
(***************************************************************************)
EXTENDS Scheduler, TLC

CONSTANTS w1, w2, main, other, s1, s2, s3, a, b, t1, t2, t3, t4

(* Two clients; the task t1 puts a third one on its own schedule.          *)
FlatSchedOf == t1 :> s1 @@ t2 :> s1 @@ t3 :> s2
FlatTagOf   == t1 :> a @@ t2 :> b @@ t3 :> a
FlatSpawner == t1 :> main @@ t2 :> t1 @@ t3 :> other
FlatOwner   == s1 :> main @@ s2 :> other

(* A task t1 that forks onto s2 and joins; the task t3 of s2 puts another  *)
(* one, t4, on the same schedule and does not wait for it.                 *)
NestedSchedOf == t1 :> s1 @@ t3 :> s2 @@ t4 :> s2
NestedTagOf   == t1 :> a @@ t3 :> a @@ t4 :> a
NestedSpawner == t1 :> main @@ t3 :> t1 @@ t4 :> t3
NestedOwner   == s1 :> main @@ s2 :> t1

(* The same, beside a client that waits for a task t2 of its own.          *)
CrossSchedOf == t1 :> s1 @@ t2 :> s3 @@ t3 :> s2 @@ t4 :> s2
CrossTagOf   == t1 :> a @@ t2 :> a @@ t3 :> a @@ t4 :> a
CrossSpawner == t1 :> main @@ t2 :> other @@ t3 :> t1 @@ t4 :> t3
CrossOwner   == s1 :> main @@ s2 :> t1 @@ s3 :> other

(* The README's example: one task, and a wait for it.                      *)
OneSchedOf == t1 :> s1
OneTagOf   == t1 :> a
OneSpawner == t1 :> main
OneOwner   == s1 :> main

Symmetry == Permutations({w1, w2})

=============================================================================
