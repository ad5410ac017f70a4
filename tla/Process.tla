------------------------------- MODULE Process -------------------------------
(***************************************************************************)
(* ProcessOps::spawn_process_async, spawn_process_posix, terminate_process *)
(* and ProcessHandle (ProcessOps.cpp, ProcessOps.hpp): each handle has a   *)
(* thread that forks the child, reads its output to the end, waits for it  *)
(* and reports; the owner may kill the child and destroy the handle, which *)
(* joins the thread.                                                       *)
(*                                                                         *)
(* fork copies the descriptors of the parent: a child forked while another *)
(* handle's pipe is open for writing keeps that pipe open.  The end of a   *)
(* pipe is seen when no process holds its writing end.  Process ids are    *)
(* used again once their process is waited for.                            *)
(***************************************************************************)
EXTENDS Integers, FiniteSets

CONSTANTS
  Handles,
  Pids,                  \* bound of the model: the ids the system hands out
  Parent                 \* this process

ProcessAssumption ==
  /\ IsFiniteSet(Handles) /\ Parent \notin Handles
  /\ Pids \subseteq Nat \ {0} /\ IsFiniteSet(Pids)

VARIABLES
  watcher,               \* where the thread of a handle is
  id, is_running,        \* ProcessHandle
  child, pid,            \* the system: what became of the child, and its id
  fds,                   \* the ends of pipes that each process holds
  result,                \* what on_finish_callback is given
  owner, loaded          \* where the owner is, and the id it is about to kill

vars == <<watcher, id, is_running, child, pid, fds, result, owner, loaded>>
osVars == <<child, pid, fds>>
ownerVars == <<owner, loaded>>

End(h, side) == <<h, side>>
Alive(h) == child[h] \in {"forked", "up"}
TakenPids == {pid[h] : h \in {g \in Handles : Alive(g) \/ child[g] = "zombie"}}

Init ==
  /\ watcher = [h \in Handles |-> "none"] /\ child = [h \in Handles |-> "none"]
  /\ id = [h \in Handles |-> 0] /\ pid = [h \in Handles |-> 0]
  /\ loaded = [h \in Handles |-> 0] /\ is_running = [h \in Handles |-> FALSE]
  /\ fds = [p \in Handles \cup {Parent} |-> {}]
  /\ result = [h \in Handles |-> "none"] /\ owner = [h \in Handles |-> "idle"]

-----------------------------------------------------------------------------
(* The thread of a handle.                                                 *)

Step(h, from, to) == watcher[h] = from /\ watcher' = [watcher EXCEPT ![h] = to]

(* spawn_process_async: the flag is set before the thread runs.            *)
SpawnAsync(h) ==
  /\ Step(h, "none", "pipe") /\ owner[h] = "idle"
  /\ is_running' = [is_running EXCEPT ![h] = TRUE]
  /\ owner' = [owner EXCEPT ![h] = "owns"]
  /\ UNCHANGED <<id, osVars, result, loaded>>

OpenPipe(h) ==
  /\ Step(h, "pipe", "fork")
  /\ fds' = [fds EXCEPT ![Parent] = @ \cup {End(h, "r"), End(h, "w")}]
  /\ UNCHANGED <<id, is_running, child, pid, result, ownerVars>>

(* pipe() or fork() failed: the call returns; after a failed fork the two  *)
(* ends of the pipe stay open.                                             *)
SpawnFails(h) ==
  /\ Step(h, "pipe", "flag") \/ Step(h, "fork", "flag")
  /\ result' = [result EXCEPT ![h] = "fail"]
  /\ UNCHANGED <<id, is_running, osVars, ownerVars>>

Fork(h) ==
  /\ Step(h, "fork", "store")
  /\ child' = [child EXCEPT ![h] = "forked"]
  /\ \E p \in Pids \ TakenPids : pid' = [pid EXCEPT ![h] = p]
  /\ fds' = [fds EXCEPT ![h] = fds[Parent]]
  /\ UNCHANGED <<id, is_running, result, ownerVars>>

\* Fault: the parent keeps its copy of the writing end
StoreId_keeps_end(h) ==
  /\ Step(h, "store", "read")
  /\ id' = [id EXCEPT ![h] = pid[h]]
  /\ UNCHANGED <<is_running, osVars, result, ownerVars>>
StoreId(h) ==
  /\ Step(h, "store", "read")
  /\ id' = [id EXCEPT ![h] = pid[h]]
  /\ fds' = [fds EXCEPT ![Parent] = @ \ {End(h, "w")}]
  /\ UNCHANGED <<is_running, child, pid, result, ownerVars>>

(* read() returns 0: everything written has been read, and nobody is left  *)
(* to write more.                                                          *)
ReadEnd(h) ==
  /\ Step(h, "read", "wait")
  /\ \A p \in DOMAIN fds : End(h, "w") \notin fds[p]
  /\ fds' = [fds EXCEPT ![Parent] = @ \ {End(h, "r")}]
  /\ UNCHANGED <<id, is_running, child, pid, result, ownerVars>>

\* Fault: the end of the output is taken for the end of the process
WaitPid_skipped(h) ==
  /\ Step(h, "wait", "clear")
  /\ UNCHANGED <<id, is_running, osVars, result, ownerVars>>
WaitPid(h) ==
  /\ Step(h, "wait", "clear") /\ child[h] = "zombie"
  /\ child' = [child EXCEPT ![h] = "reaped"]
  /\ UNCHANGED <<id, is_running, pid, fds, result, ownerVars>>

\* Fault: the id stays when the process has gone
ClearId_kept(h) ==
  /\ Step(h, "clear", "flag")
  /\ UNCHANGED <<id, is_running, osVars, result, ownerVars>>
ClearId(h) ==
  /\ Step(h, "clear", "flag")
  /\ id' = [id EXCEPT ![h] = 0]
  /\ UNCHANGED <<is_running, osVars, result, ownerVars>>

ClearFlag(h) ==
  /\ Step(h, "flag", "report")
  /\ is_running' = [is_running EXCEPT ![h] = FALSE]
  /\ UNCHANGED <<id, osVars, result, ownerVars>>
(* on_finish_callback, on this thread, with the handle still there.        *)
Report(h) ==
  /\ Step(h, "report", "done")
  /\ UNCHANGED <<id, is_running, osVars, result, ownerVars>>

Watch(h) ==
  \/ OpenPipe(h) \/ SpawnFails(h) \/ Fork(h) \/ StoreId(h) \/ ReadEnd(h)
  \/ WaitPid(h) \/ ClearId(h) \/ ClearFlag(h) \/ Report(h)

-----------------------------------------------------------------------------
(* The child.  Until execvp it runs the code of the fork; it closes its    *)
(* own pipe's ends but those it inherited from other handles stay.         *)

Dies(h, how) ==
  /\ Alive(h)
  /\ child' = [child EXCEPT ![h] = "zombie"] /\ fds' = [fds EXCEPT ![h] = {}]
  /\ result' = [result EXCEPT ![h] = how]

Exec(h) ==
  /\ child[h] = "forked"
  /\ child' = [child EXCEPT ![h] = "up"]
  /\ fds' = [fds EXCEPT ![h] = @ \ {End(h, "r")}]
  /\ UNCHANGED <<watcher, id, is_running, pid, result, ownerVars>>
ExecFails(h) ==
  /\ child[h] = "forked" /\ Dies(h, "127")
  /\ UNCHANGED <<watcher, id, is_running, pid, ownerVars>>
Exit(h) ==
  /\ child[h] = "up" /\ Dies(h, "exit")
  /\ UNCHANGED <<watcher, id, is_running, pid, ownerVars>>

-----------------------------------------------------------------------------
(* The owner.                                                              *)

is_active(h) == is_running[h] /\ id[h] # 0

\* Fault: the handle is not asked whether its process is still there
Terminate_unasked(h) ==
  /\ owner[h] = "owns"
  /\ owner' = [owner EXCEPT ![h] = "kill"]
  /\ loaded' = [loaded EXCEPT ![h] = pid[h]]
  /\ UNCHANGED <<watcher, id, is_running, osVars, result>>
(* terminate_process up to the load of the id; it does nothing for a       *)
(* handle that is starting or done.                                        *)
Terminate(h) ==
  /\ owner[h] = "owns" /\ is_active(h)
  /\ owner' = [owner EXCEPT ![h] = "kill"]
  /\ loaded' = [loaded EXCEPT ![h] = id[h]]
  /\ UNCHANGED <<watcher, id, is_running, osVars, result>>

(* kill(pid, SIGKILL): whichever process has that id by now.               *)
Kill(h) ==
  /\ owner[h] = "kill"
  /\ owner' = [owner EXCEPT ![h] = "owns"] /\ loaded' = [loaded EXCEPT ![h] = 0]
  /\ \/ \E v \in Handles : pid[v] = loaded[h] /\ Dies(v, "killed")
     \/ /\ \A v \in Handles : pid[v] = loaded[h] => ~Alive(v)
        /\ UNCHANGED <<child, fds, result>>
  /\ UNCHANGED <<watcher, id, is_running, pid>>

(* ~ProcessHandle: the jthread is joined.                                  *)
Destroy(h) ==
  /\ owner[h] = "owns" /\ owner' = [owner EXCEPT ![h] = "join"]
  /\ UNCHANGED <<watcher, id, is_running, osVars, result, loaded>>
Joined(h) ==
  /\ owner[h] = "join" /\ watcher[h] = "done"
  /\ owner' = [owner EXCEPT ![h] = "gone"]
  /\ UNCHANGED <<watcher, id, is_running, osVars, result, loaded>>

Next == \E h \in Handles :
  \/ SpawnAsync(h) \/ Watch(h) \/ Exec(h) \/ ExecFails(h) \/ Exit(h)
  \/ Terminate(h) \/ Kill(h) \/ Destroy(h) \/ Joined(h)

(* Threads and a child's own exec run; nothing makes a child exit.         *)
Spec ==
  /\ Init /\ [][Next]_vars
  /\ \A h \in Handles :
       WF_vars(Watch(h)) /\ WF_vars(Exec(h) \/ ExecFails(h)) /\ WF_vars(Kill(h))
       /\ WF_vars(Joined(h))

-----------------------------------------------------------------------------
(* The id of a handle is that of its own child, and no other process has   *)
(* it; only between waitpid and the store of 0 may it be another's.        *)
IdIsOwn == \A h \in Handles : id[h] # 0 /\ watcher[h] # "clear" =>
  /\ id[h] = pid[h] /\ child[h] # "reaped"
  /\ \A g \in Handles \ {h} : (Alive(g) \/ child[g] = "zombie") => pid[g] # id[h]

(* A handle is reported, and may be destroyed, only when its child has     *)
(* been waited for: no zombie is left behind, and no child runs unwatched. *)
ReportedIsReaped == \A h \in Handles :
  watcher[h] = "done" => child[h] \in {"none", "reaped"}

(* A call of terminate_process made after the thread recorded the end of   *)
(* the child strikes nobody, whoever has the id by then; one made before   *)
(* may strike late.                                                        *)
NoKillAfterEnd == [][\A h \in Handles :
  owner[h] = "owns" /\ owner'[h] = "kill" => watcher[h] \in {"read", "wait", "clear"}]_vars

(* When a child has ended, or been killed, its thread reports, though other*)
(* children never end: unless one of these was forked while this handle's  *)
(* pipe was open for writing, and so holds that end as long as it lives.   *)
Holds(g, h) == g # h /\ Alive(g) /\ End(h, "w") \in fds[g]
ChildGoneIsReported == \A h \in Handles :
  (child[h] = "zombie") ~> (watcher[h] = "done" \/ \E g \in Handles : Holds(g, h))
=============================================================================
