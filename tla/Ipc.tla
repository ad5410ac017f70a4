--------------------------------- MODULE Ipc ---------------------------------
(***************************************************************************)
(* IpcManager and IpcNode (IPC.cpp, IPC.hpp): one manager process and the  *)
(* nodes it spawns.  A session is pending until its node has connected,    *)
(* then active; a table maps process ids to active sessions.  The manager  *)
(* runs on one thread; nodes, the threads that watch them (module Process) *)
(* and the clock run beside it.                                            *)
(*                                                                         *)
(* A session is named by its number sid; so is the process of its node     *)
(* (ids are not used again here; Process is about that).  0 is no process  *)
(* and the id of a handle whose process was waited for.  The two rings of  *)
(* a session are the queues that RingBuffer implements.  Destroying a      *)
(* session joins its watching thread: `doomed' are those being joined.     *)
(***************************************************************************)
EXTENDS Integers, Sequences, FiniteSets, SequencesExt

CONSTANTS
  NumSessions,           \* bound of the model: calls of spawn_node
  MaxPackets,            \* bound of the model: packets a node sends
  MaxSignals,            \* bound of the model: a node's signals in a socket
  MaxReplies,            \* bound of the model: packets, signals to a node
  EmptyPopIsTrue,        \* external: is a Result that holds nullopt true
  CallbacksShutDown      \* do on_packet and on_signal call shutdown_node

Sessions == 1..NumSessions
Ids == 0..NumSessions
Resources == {"listener", "path", "data", "mapping", "shm"}   \* path: the socket's file

ASSUME IpcAssumption ==
  /\ {NumSessions, MaxPackets, MaxSignals, MaxReplies} \subseteq Nat
  /\ {EmptyPopIsTrue, CallbacksShutDown} \subseteq BOOLEAN

VARIABLES
  m,                     \* the manager's thread: at which step, and its locals: the
                         \* index i, the session `of' it is about, the id it loaded,
                         \* the limits passed by `now', the id it waits for, `more',
                         \* and history: has a callback of this visit moved the slot
  pending, active, map,  \* m_pending_sessions, m_active_sessions, m_active_session_map
  doomed,                \* sessions destroyed, whose threads are being joined
  late,                  \* the sessions that have been pending for 5 s
  held,                  \* what the manager holds for a session
  proc, hid,             \* the node's process, and ProcessHandle::id
  dialled,               \* the nodes that have connected to the listener
  mino, moni,            \* the rings: from the node, to the node
  signals, bells,        \* bytes in the socket: from the node, to the node
  sent, got              \* history: packets pushed by a node and delivered

mVars == <<pending, active, map, doomed, held>>
nVars == <<proc, hid, dialled>>
ioVars == <<mino, moni, signals, bells, sent, got>>
vars == <<m, late, mVars, nVars, ioVars>>

Init ==
  /\ m = [at |-> "idle", i |-> 0, id |-> 0, of |-> 0, now |-> {}, wait |-> 0, more |-> FALSE,
          moved |-> FALSE]
  /\ pending = <<>> /\ active = <<>> /\ map = [n \in Ids |-> 0]
  /\ doomed = {} /\ late = {} /\ dialled = {}
  /\ held = [s \in Sessions |-> {}] /\ proc = [s \in Sessions |-> "none"]
  /\ hid = [s \in Sessions |-> 0]
  /\ mino = [s \in Sessions |-> <<>>] /\ got = [s \in Sessions |-> <<>>]
  /\ moni = [s \in Sessions |-> 0] /\ sent = [s \in Sessions |-> 0]
  /\ signals = [s \in Sessions |-> 0] /\ bells = [s \in Sessions |-> 0]

-----------------------------------------------------------------------------
(* The watching thread and the node.                                       *)

Running(s) == proc[s] \in {"up", "joined"}
Became(s, state) == proc' = [proc EXCEPT ![s] = state]
HandleActive(s) == proc[s] \notin {"none", "ended"} /\ hid[s] # 0

Fork(s) ==
  /\ proc[s] = "starting" /\ Became(s, "up") /\ hid' = [hid EXCEPT ![s] = s]
  /\ UNCHANGED <<m, late, mVars, dialled, ioVars>>
WaitedFor(s) ==
  /\ proc[s] = "exited" /\ Became(s, "waited") /\ hid' = [hid EXCEPT ![s] = 0]
  /\ UNCHANGED <<m, late, mVars, dialled, ioVars>>
Ended(s) ==
  /\ proc[s] = "waited" /\ Became(s, "ended")
  /\ UNCHANGED <<m, late, mVars, hid, dialled, ioVars>>
Watch(s) == Fork(s) \/ WaitedFor(s) \/ Ended(s)

(* IpcNode::connect: the socket, then the shared memory by its name; when  *)
(* either is not there the node gives up (NodeExit).                       *)
Dial(s) ==
  /\ proc[s] = "up" /\ s \notin dialled /\ "listener" \in held[s]
  /\ dialled' = dialled \cup {s}
  /\ UNCHANGED <<m, late, mVars, proc, hid, ioVars>>
NodeMap(s) ==
  /\ proc[s] = "up" /\ s \in dialled /\ "shm" \in held[s] /\ Became(s, "joined")
  /\ UNCHANGED <<m, late, mVars, hid, dialled, ioVars>>
NodeExit(s) ==
  /\ Running(s) /\ Became(s, "exited")
  /\ UNCHANGED <<m, late, mVars, hid, dialled, ioVars>>

NodeSendPacket(s) ==
  /\ proc[s] = "joined" /\ sent[s] < MaxPackets
  /\ sent' = [sent EXCEPT ![s] = @ + 1] /\ mino' = [mino EXCEPT ![s] = Append(@, sent'[s])]
  /\ UNCHANGED <<m, late, mVars, nVars, moni, signals, bells, got>>
NodeSendSignal(s) ==
  /\ proc[s] = "joined" /\ signals[s] < MaxSignals
  /\ signals' = [signals EXCEPT ![s] = @ + 1]
  /\ UNCHANGED <<m, late, mVars, nVars, mino, moni, bells, sent, got>>

(* IpcNode::update: all packets, one signal; when the manager has closed   *)
(* the socket, the node unlinks the shared memory and exits.               *)
NodeUpdate(s) ==
  /\ proc[s] = "joined" /\ ~EmptyPopIsTrue
  /\ moni' = [moni EXCEPT ![s] = 0]
  /\ \/ /\ bells[s] > 0 /\ bells' = [bells EXCEPT ![s] = @ - 1]
        /\ UNCHANGED <<held, proc>>
     \/ /\ bells[s] = 0 /\ {"listener", "data"} \cap held[s] = {}
        /\ held' = [held EXCEPT ![s] = @ \ {"shm"}] /\ Became(s, "exited")
        /\ UNCHANGED bells
     \/ /\ bells[s] = 0 /\ {"listener", "data"} \cap held[s] # {} /\ moni[s] > 0
        /\ UNCHANGED <<held, proc, bells>>
  /\ UNCHANGED <<m, late, pending, active, map, doomed, hid, dialled, mino, signals, sent, got>>

Node(s) ==
  Dial(s) \/ NodeMap(s) \/ NodeExit(s) \/ NodeSendPacket(s) \/ NodeSendSignal(s) \/ NodeUpdate(s)

Tick(s) ==
  /\ s \in ToSet(pending) \ late /\ late' = late \cup {s}
  /\ UNCHANGED <<m, mVars, nVars, ioVars>>

-----------------------------------------------------------------------------
(* The manager.                                                            *)

NextNode == [m EXCEPT !.at = "act", !.i = @ - 1, !.of = 0, !.id = 0, !.moved = FALSE]
Here == active[m.i]
At(phase) == m.at = phase /\ doomed = {}
Go(phase) == m' = [m EXCEPT !.at = phase]

Join ==
  /\ doomed # {} /\ \A s \in doomed : proc[s] = "ended"
  /\ doomed' = {}
  /\ UNCHANGED <<m, late, pending, active, map, held, nVars, ioVars>>

(* terminate_process (a handle without an id is left alone), then the      *)
(* mapping, the shared memory's name and the socket; the session goes.  The*)
(* file that the listener was bound to stays.                              *)
Struck(S) == [s \in Sessions |->
  IF s \in S /\ Running(s) /\ HandleActive(s) THEN "exited" ELSE proc[s]]
Free(S) ==
  /\ proc' = Struck(S)
  /\ held' = [s \in Sessions |-> IF s \in S THEN held[s] \cap {"path"} ELSE held[s]]
  /\ doomed' = doomed \cup S

(* spawn_node.  The steps before the process starts may fail; what they    *)
(* had made stays.                                                         *)
Next_sid == Cardinality({s \in Sessions : proc[s] # "none" \/ held[s] # {}}) + 1
SpawnNode ==
  /\ At("idle") /\ Next_sid \in Sessions
  /\ held' = [held EXCEPT ![Next_sid] = {"listener", "path", "mapping", "shm"}]
  /\ Became(Next_sid, "starting")
  /\ m' = [m EXCEPT !.at = "sleep", !.of = Next_sid]
  /\ UNCHANGED <<late, pending, active, map, doomed, hid, dialled, ioVars>>
SpawnFails ==
  /\ At("idle") /\ Next_sid \in Sessions
  /\ \E left \in {{}, {"path"}, {"path", "shm"}, {"path", "mapping", "shm"}} :
       held' = [held EXCEPT ![Next_sid] = left \cup {"listener"}]
  /\ UNCHANGED <<m, late, pending, active, map, doomed, nVars, ioVars>>
(* After a second the process must be there; if not, the session is        *)
(* destroyed as it is.                                                     *)
SpawnCheck ==
  /\ At("sleep")
  /\ IF HandleActive(m.of) THEN Go("return") /\ UNCHANGED doomed
     ELSE m' = [m EXCEPT !.at = "idle", !.of = 0] /\ doomed' = {m.of}
  /\ UNCHANGED <<late, pending, active, map, held, nVars, ioVars>>
SpawnReturn ==
  /\ At("return") /\ m' = [m EXCEPT !.at = "idle", !.of = 0]
  /\ pending' = Append(pending, m.of)
  /\ UNCHANGED <<late, active, map, doomed, held, nVars, ioVars>>

(* update: the time is read once.  The loops go from the back.             *)
Update ==
  /\ At("idle")
  /\ m' = [m EXCEPT !.at = "pend", !.i = Len(pending), !.now = late, !.more = FALSE]
  /\ UNCHANGED <<late, mVars, nVars, ioVars>>

PendDone ==
  /\ At("pend") /\ m.i = 0
  /\ m' = [m EXCEPT !.at = "act", !.i = Len(active), !.now = {}]
  /\ UNCHANGED <<late, mVars, nVars, ioVars>>

\* Fault: the limit is forgotten while the node's process runs
Expire_spares_running(s) ==
  /\ At("pend") /\ m.i > 0 /\ s = pending[m.i] /\ s \in m.now /\ ~Running(s)
  /\ Free({s}) /\ pending' = RemoveAt(pending, m.i)
  /\ m' = [m EXCEPT !.i = @ - 1] /\ late' = late \ {s}
  /\ UNCHANGED <<active, map, hid, dialled, ioVars>>
Expire(s) ==
  /\ At("pend") /\ m.i > 0 /\ s = pending[m.i] /\ s \in m.now
  /\ Free({s}) /\ pending' = RemoveAt(pending, m.i)
  /\ m' = [m EXCEPT !.i = @ - 1] /\ late' = late \ {s}
  /\ UNCHANGED <<active, map, hid, dialled, ioVars>>

NotYet ==
  /\ At("pend") /\ m.i > 0 /\ pending[m.i] \notin m.now \cup dialled
  /\ m' = [m EXCEPT !.i = @ - 1]
  /\ UNCHANGED <<late, mVars, nVars, ioVars>>

(* accept; the id is loaded afterwards, and may be 0 by then.              *)
Accept(s) ==
  /\ At("pend") /\ m.i > 0 /\ s = pending[m.i] /\ s \in dialled \ m.now
  /\ held' = [held EXCEPT ![s] = (@ \cup {"data"}) \ {"listener"}]
  /\ m' = [m EXCEPT !.at = "register", !.of = s]
  /\ UNCHANGED <<late, pending, active, map, doomed, nVars, ioVars>>
Register ==
  /\ At("register")
  /\ active' = Append(active, m.of) /\ pending' = RemoveAt(pending, m.i)
  /\ map' = [map EXCEPT ![hid[m.of]] = m.of]
  /\ m' = [m EXCEPT !.at = "pend", !.i = @ - 1, !.of = 0] /\ late' = late \ {m.of}
  /\ UNCHANGED <<doomed, held, nVars, ioVars>>

(* A node: its id is loaded, then its packets drained, then one signal.    *)
(* `node' is a reference to the place in the vector: what it says is what  *)
(* is Here when it is used, `of' what was there when the visit began.      *)
Visit ==
  /\ At("act") /\ m.i > 0
  /\ m' = [m EXCEPT !.at = "drain", !.of = Here, !.id = hid[Here], !.moved = FALSE]
  /\ UNCHANGED <<late, mVars, nVars, ioVars>>

\* Fault: the packet stays in the ring
PopPacket_kept ==
  /\ At("drain") /\ mino[Here] # <<>>
  /\ got' = [got EXCEPT ![Here] = Append(@, Head(mino[Here]))]
  /\ UNCHANGED mino /\ Go("packet")
  /\ UNCHANGED <<late, mVars, nVars, moni, signals, bells, sent>>
PopPacket ==
  /\ At("drain") /\ mino[Here] # <<>>
  /\ got' = [got EXCEPT ![Here] = Append(@, Head(mino[Here]))]
  /\ mino' = [mino EXCEPT ![Here] = Tail(@)] /\ Go("packet")
  /\ UNCHANGED <<late, mVars, nVars, moni, signals, bells, sent>>
(* An empty pop is a Result without a packet: where that is true, on_packet*)
(* is called with what header and buffer held before, which is no packet   *)
(* (0 in the history).                                                     *)
PopNothing ==
  /\ At("drain") /\ mino[Here] = <<>>
  /\ IF EmptyPopIsTrue
     THEN Go("packet") /\ got' = [got EXCEPT ![Here] = Append(@, 0)]
     ELSE Go("recv") /\ UNCHANGED got
  /\ UNCHANGED <<late, mVars, nVars, mino, moni, signals, bells, sent>>

RecvSignal ==
  /\ At("recv") /\ signals[Here] > 0
  /\ signals' = [signals EXCEPT ![Here] = @ - 1] /\ Go("signal")
  /\ UNCHANGED <<late, mVars, nVars, mino, moni, bells, sent, got>>
RecvNothing ==
  /\ At("recv") /\ signals[Here] = 0 /\ Running(Here)
  /\ m' = NextNode
  /\ UNCHANGED <<late, mVars, nVars, ioVars>>

\* Fault: the end of the connection is taken for "nothing to read"
Disconnect_ignored ==
  /\ At("recv") /\ signals[Here] = 0 /\ ~Running(Here)
  /\ m' = NextNode
  /\ UNCHANGED <<late, mVars, nVars, ioVars>>
Disconnect ==
  /\ At("recv") /\ signals[Here] = 0 /\ ~Running(Here)
  /\ Free({Here}) /\ active' = RemoveAt(active, m.i)
  /\ map' = [map EXCEPT ![m.id] = 0]
  /\ m' = NextNode
  /\ UNCHANGED <<late, pending, hid, dialled, ioVars>>

UpdateDone ==
  /\ At("act") /\ m.i = 0
  /\ m' = [m EXCEPT !.at = IF m.more THEN "scan" ELSE "idle", !.of = 0, !.id = 0,
             !.wait = IF m.more THEN @ ELSE 0, !.moved = FALSE]
  /\ UNCHANGED <<late, mVars, nVars, ioVars>>

(* Calls that find their session in the table by id.  A session that is    *)
(* no longer there leaves an entry behind when its id had changed: the     *)
(* call then uses freed memory, of which a crash is one outcome.           *)
Found(n) == map[n] # 0
Freed(n) == Found(n) /\ map[n] \notin ToSet(active)

(* erase_if: a session is in the list once.                                *)
Place(s) == CHOOSE i \in DOMAIN active : active[i] = s

\* Fault: the name of the shared memory is not unlinked
Shutdown_named(n, next) ==
  /\ IF ~Found(n) THEN m' = next /\ UNCHANGED <<mVars, proc>>
     ELSE IF Freed(n) THEN Go("crashed") /\ UNCHANGED <<mVars, proc>>
     ELSE /\ proc' = Struck({map[n]}) /\ doomed' = {map[n]}
          /\ held' = [held EXCEPT ![map[n]] = @ \cap {"path", "shm"}]
          /\ active' = RemoveAt(active, Place(map[n])) /\ map' = [map EXCEPT ![n] = 0]
          /\ m' = next /\ UNCHANGED pending
  /\ UNCHANGED <<late, hid, dialled, ioVars>>
Shutdown(n, next) ==
  /\ IF ~Found(n) THEN m' = next /\ UNCHANGED <<mVars, proc>>
     ELSE IF Freed(n) THEN Go("crashed") /\ UNCHANGED <<mVars, proc>>
     ELSE /\ Free({map[n]}) /\ active' = RemoveAt(active, Place(map[n]))
          /\ map' = [map EXCEPT ![n] = 0] /\ m' = next /\ UNCHANGED pending
  /\ UNCHANGED <<late, hid, dialled, ioVars>>

ShutdownNode(n) == At("idle") /\ Shutdown(n, m)

SendPacket(n) ==
  /\ At("idle") /\ Found(n) /\ (Freed(n) \/ moni[map[n]] < MaxReplies)
  /\ IF Freed(n) THEN Go("crashed") /\ UNCHANGED moni
     ELSE moni' = [moni EXCEPT ![map[n]] = @ + 1] /\ UNCHANGED m
  /\ UNCHANGED <<late, mVars, nVars, mino, signals, bells, sent, got>>
SendSignal(n) ==
  /\ At("idle") /\ Found(n) /\ (Freed(n) \/ bells[map[n]] < MaxReplies)
  /\ IF Freed(n) THEN Go("crashed") /\ UNCHANGED bells
     ELSE bells' = [bells EXCEPT ![map[n]] = @ + 1] /\ UNCHANGED m
  /\ UNCHANGED <<late, mVars, nVars, mino, moni, signals, sent, got>>

(* on_packet may shut down any node, its own too.  The vector closes up    *)
(* under the reference that the loop holds: when a session at the loop's   *)
(* place or before it goes, the place holds the next one, and where there  *)
(* is none a destroyed Box (its use: a crash is one outcome).              *)
OnPacket ==
  /\ At("packet")
  /\ \/ Go("drain") /\ UNCHANGED <<late, mVars, nVars, ioVars>>
     \/ \E n \in Ids : /\ CallbacksShutDown /\ Found(n)
                       /\ Shutdown(n, [m EXCEPT
                            !.at = IF m.i < Len(active) THEN "drain" ELSE "crashed",
                            !.moved = @ \/ Place(map[n]) <= m.i])

\* Fault: the loop looks at the same place once more
OnSignal_stays ==
  /\ At("signal")
  /\ LET next == [m EXCEPT !.at = "act"]
     IN \/ m' = next /\ UNCHANGED <<late, mVars, nVars, ioVars>>
        \/ \E n \in Ids : CallbacksShutDown /\ Found(n) /\ Shutdown(n, next)
OnSignal ==
  /\ At("signal")
  /\ LET next == NextNode
     IN \/ m' = next /\ UNCHANGED <<late, mVars, nVars, ioVars>>
        \/ \E n \in Ids : CallbacksShutDown /\ Found(n) /\ Shutdown(n, next)

(* wait_till_node_is_online: look for the id among the pending, update,    *)
(* and so on while it was there.                                           *)
WaitOnline(n) ==
  /\ At("idle") /\ n # 0 /\ m' = [m EXCEPT !.at = "scan", !.wait = n]
  /\ UNCHANGED <<late, mVars, nVars, ioVars>>
Scan ==
  /\ At("scan")
  /\ m' = [m EXCEPT !.at = "pend", !.i = Len(pending), !.now = late,
             !.more = \E s \in ToSet(pending) : hid[s] = m.wait]
  /\ UNCHANGED <<late, mVars, nVars, ioVars>>

(* ~IpcManager.                                                            *)
Destroy ==
  /\ At("idle") /\ Go("gone")
  /\ Free(ToSet(active) \cup ToSet(pending)) /\ active' = <<>> /\ pending' = <<>>
  /\ UNCHANGED <<late, map, hid, dialled, ioVars>>

UpdateSteps ==
  \/ PendDone \/ NotYet \/ Register \/ Visit \/ PopPacket \/ PopNothing \/ RecvSignal
  \/ RecvNothing \/ Disconnect \/ UpdateDone \/ OnPacket \/ OnSignal \/ Scan
  \/ \E s \in Sessions : Expire(s) \/ Accept(s)
Calls ==
  \/ SpawnNode \/ SpawnFails \/ Update \/ Destroy
  \/ \E n \in Ids : ShutdownNode(n) \/ SendPacket(n) \/ SendSignal(n) \/ WaitOnline(n)
Manager == Join \/ SpawnCheck \/ SpawnReturn \/ UpdateSteps

Next == Manager \/ Calls \/ \E s \in Sessions : Watch(s) \/ Node(s) \/ Tick(s)

Fairness ==
  /\ WF_vars(Manager) /\ \A s \in Sessions : WF_vars(Watch(s)) /\ WF_vars(Tick(s))
Spec == Init /\ [][Next]_vars /\ Fairness
(* A program that updates again and again, as the README's does.           *)
UpdatingSpec == Spec /\ SF_vars(Update)

-----------------------------------------------------------------------------
(* A session that was listed and no longer is has left no socket, no       *)
(* mapping, no shared memory's name, no process and no thread, by whichever*)
(* of the four ways (limit, end of the connection, shutdown, destruction)  *)
(* it went.  Only the file of its listener stays in /tmp, each time.       *)
Listed == ToSet(pending) \cup ToSet(active)
OnlyPathIsLeft == [][\A s \in Listed : s \notin Listed' =>
  held'[s] \subseteq {"path"} /\ ~Running(s)' /\ s \in doomed']_vars

(* The index stays inside the list, whatever callbacks shut down; and the  *)
(* session that update drains, reads a signal from and drops is the one    *)
(* whose id it loaded, unless an on_packet of this very visit shut down    *)
(* that session or one before it (the next one is drained then, and its    *)
(* packets delivered, under the first one's id).                           *)
LoopSlotValid ==
  /\ m.at = "act" => m.i <= Len(active)
  /\ m.at \in {"drain", "packet", "recv", "signal"} =>
       m.i \in DOMAIN active /\ (Here = m.of \/ m.moved)

(* A node's packets are delivered in order, once, and nothing else is.     *)
GotIsSent == \A s \in Sessions :
  /\ got[s] = [k \in 1..Len(got[s]) |-> k]
  /\ Len(got[s]) + Len(mino[s]) = sent[s]
(* The packets that left a node's ring, and they only, were delivered, in  *)
(* the order in which they were sent and once.  Between them there are     *)
(* calls without a packet (0) where an empty pop passes for a full one.    *)
DeliveredInOrder == \A s \in Sessions :
  LET n == sent[s] - Len(mino[s])
  IN /\ \A k \in 1..Len(mino[s]) : mino[s][k] = n + k
     /\ \A p \in 1..n : \E k \in 1..Len(got[s]) : got[s][k] = p
     /\ \A k \in 1..Len(got[s]) : got[s][k] \in (IF EmptyPopIsTrue THEN 0 ELSE 1)..n
     /\ \A j, k \in 1..Len(got[s]) : j < k /\ got[s][k] # 0 => got[s][j] < got[s][k]

(* No call uses a session that was freed: what is not there is "no such    *)
(* node".                                                                  *)
NoUseAfterFree == m.at # "crashed"

(* wait_till_node_is_online returns, also for a node that never connects.  *)
(* (By then the manager may have used freed memory, see NoUseAfterFree.)   *)
WaitReturns == (m.wait # 0) ~> (m.wait = 0 \/ m.at = "crashed")
(* A node that ended while active does not stay in the list, unless the    *)
(* manager joins the thread of a session it destroyed while it was         *)
(* starting, and whose process goes on: spawn_node does not return then.   *)
EndedIsDropped == \A s \in Sessions :
  (s \in ToSet(active) /\ ~Running(s)) ~>
    (s \notin ToSet(active) \/ m.at = "crashed" \/ \E d \in doomed : Running(d))
=============================================================================
