------------------------------ MODULE Sockets ------------------------------
(***************************************************************************)
(* SocketOps: the count of initialize() and terminate() calls around the   *)
(* system's start and clean-up of sockets, and Unix sockets by name:       *)
(* bind removes the name, whoever may be listening there, and takes it, in *)
(* two steps; close leaves the name.  Several processes use the names (the *)
(* count is of one of them; its users pair their calls and do not overlap).*)
(* The kernel's part is external.                                          *)
(***************************************************************************)
EXTENDS Integers

CONSTANTS Socks, Names, Users, None

SocketsAssumption == None \notin Socks \cup Names

VARIABLES
  s_init_count,
  started,   \* WSAStartup calls that WSACleanup has not undone
  using,     \* the users whose initialize() succeeded
  state,     \* of each socket: "none", "open", "unlinked", "bound", "listening", "connected"
  path,      \* the name it is being bound to
  name,      \* what each name in the file system leads to: a socket, dead or alive
  robbed     \* history: the bound sockets whose name somebody has removed

count == <<s_init_count, started, using>>
files == <<state, path, name, robbed>>
vars == <<s_init_count, started, using, files>>

Init == /\ s_init_count = 0 /\ started = 0 /\ using = {}
        /\ state = [s \in Socks |-> "none"] /\ path = [s \in Socks |-> None]
        /\ name = [n \in Names |-> None] /\ robbed = {}

-----------------------------------------------------------------------------
(* The count.                                                              *)

Initialize(u) ==
  /\ u \notin using
  /\ using' = using \cup {u}
  /\ s_init_count' = s_init_count + 1
  /\ started' = IF s_init_count' > 1 THEN started ELSE started + 1
  /\ UNCHANGED files

\* WSAStartup fails: the count is taken back and the caller hears of it.
InitializeFails(u) ==
  /\ u \notin using /\ s_init_count = 0
  /\ s_init_count' = (s_init_count + 1) - 1
  /\ UNCHANGED <<started, using>> /\ UNCHANGED files

Terminate(u) ==
  /\ u \in using
  /\ using' = using \ {u}
  /\ s_init_count' = s_init_count - 1
  /\ started' = IF s_init_count' > 0 THEN started ELSE started - 1
  /\ UNCHANGED files

(* Unix sockets.                                                           *)

Becomes(s, st) == state' = [state EXCEPT ![s] = st]

CreateUnixSocket(s) ==
  /\ state[s] = "none"
  /\ Becomes(s, "open") /\ UNCHANGED <<path, name, robbed>> /\ UNCHANGED count

\* unlink_file: whatever is at the name, also a listener that lives.
Removed(n) ==
  /\ name' = [name EXCEPT ![n] = None]
  /\ robbed' = robbed \cup {t \in Socks : name[n] = t /\ path[t] = n}

\* bind_unix_socket first removes the name, ...
Unlink(s, n) ==
  /\ state[s] = "open"
  /\ Becomes(s, "unlinked") /\ path' = [path EXCEPT ![s] = n]
  /\ Removed(n) /\ UNCHANGED count

\* Fault: the name is removed after the bind rather than before it.
Bind_first(s) ==
  /\ state[s] = "unlinked" /\ name[path[s]] = None
  /\ Becomes(s, "bound") /\ UNCHANGED <<path, name, robbed>> /\ UNCHANGED count

\* ... then takes it.
Bind(s) ==
  /\ state[s] = "unlinked" /\ name[path[s]] = None
  /\ Becomes(s, "bound") /\ name' = [name EXCEPT ![path[s]] = s]
  /\ UNCHANGED <<path, robbed>> /\ UNCHANGED count

\* Somebody took it in between, or the system refuses: the error is returned.
BindFails(s) ==
  /\ state[s] = "unlinked"
  /\ Becomes(s, "open") /\ path' = [path EXCEPT ![s] = None]
  /\ UNCHANGED <<name, robbed>> /\ UNCHANGED count

\* The socket can be made to listen once it is bound.
Listen(s) ==
  /\ state[s] = "bound"
  /\ Becomes(s, "listening") /\ UNCHANGED <<path, name, robbed>> /\ UNCHANGED count

Listens(n) == name[n] # None /\ state[name[n]] = "listening" /\ path[name[n]] = n

Connect(c, n) ==
  /\ state[c] = "open" /\ Listens(n)
  /\ Becomes(c, "connected") /\ UNCHANGED <<path, name, robbed>> /\ UNCHANGED count

\* No name, or one that leads to no listener: the error is returned, and the
\* caller closes the socket.
ConnectRefused(c, n) ==
  /\ state[c] = "open" /\ ~Listens(n)
  /\ Becomes(c, "none") /\ UNCHANGED <<path, name, robbed>> /\ UNCHANGED count

\* By its owner, or by the system when the owner dies.  The name stays.
Close(s) ==
  /\ state[s] # "none"
  /\ Becomes(s, "none") /\ path' = [path EXCEPT ![s] = None]
  /\ robbed' = robbed \ {s} /\ UNCHANGED name /\ UNCHANGED count

UnlinkFile(n) == Removed(n) /\ UNCHANGED <<state, path>> /\ UNCHANGED count

Next == \/ \E u \in Users : Initialize(u) \/ InitializeFails(u) \/ Terminate(u)
        \/ \E s \in Socks : CreateUnixSocket(s) \/ Bind(s) \/ BindFails(s) \/ Listen(s) \/ Close(s)
        \/ \E n \in Names : \/ UnlinkFile(n)
                            \/ \E s \in Socks : Unlink(s, n) \/ Connect(s, n)
                                                 \/ ConnectRefused(s, n)

Spec == Init /\ [][Next]_vars

-----------------------------------------------------------------------------
\* The sockets are started while anyone uses them, once, and cleaned up when
\* the last has gone, whatever failed in between.
StartedWhileUsed == started = IF using = {} THEN 0 ELSE 1

\* A client is refused only when nobody listens at the name, or when those who do
\* were robbed of it: whoever binds takes a name over, from the dead, as it should
\* be, and from a listener that lives.
ListenersAreFound ==
  [][\A c \in Socks, n \in Names : ConnectRefused(c, n) =>
       \A s \in Socks : state[s] = "listening" /\ path[s] = n => s \in robbed]_vars
=============================================================================
