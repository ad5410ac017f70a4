----------------------------- MODULE HttpClient -----------------------------
(***************************************************************************)
(* HttpClient: clients that own a libcurl handle, are moved into one       *)
(* another, and send requests through it.  The handle keeps, from request  *)
(* to request, pointers to a header list and to a body that live for one   *)
(* call only; it copies the URL.  libcurl is external: a method, pointers  *)
(* and a transfer that succeeds, or fails before any answer came.          *)
(***************************************************************************)
EXTENDS Integers, FiniteSets

CONSTANTS Slots,   \* variables that hold an HttpClient
          Curls,   \* libcurl handles
          Null,
          Codes    \* response codes that servers send

HttpClientAssumption == Codes \subseteq Nat \ {0} /\ Null \notin Curls

VARIABLES
  clients,  \* each client that exists: its handle and last response code
  handles,  \* the handles that exist: method, and what the pointers point at
  call,     \* the request under way of each client
  answers   \* per client, its last json call: the code that came, and success

vars == <<clients, handles, call, answers>>

INTERNAL_SERVER_ERROR == 500
OK == 200
Idle == [at |-> "idle"]
Gone == [curl |-> Null, code |-> 0]
Closed == [method |-> "closed"]
NoAnswer == [code |-> 0, parsed |-> FALSE]
Live(s) == clients[s].code # 0

\* Bodies and header lists are named by the client whose call made them, or
\* "freed"; "none" is a pointer that was never set.
Fresh == [method |-> "GET", body |-> "none", headers |-> "none"]

Init == /\ clients = [s \in Slots |-> Gone]
        /\ handles = [k \in Curls |-> Closed]
        /\ call = [s \in Slots |-> Idle]
        /\ answers = [s \in Slots |-> NoAnswer]

-----------------------------------------------------------------------------
\* create: curl_easy_init may fail, and leaves a client without a handle.
Create(s, k) ==
  /\ ~Live(s)
  /\ k # Null => handles[k] = Closed
  /\ clients' = [clients EXCEPT ![s] = [curl |-> k, code |-> INTERNAL_SERVER_ERROR]]
  /\ handles' = IF k = Null THEN handles ELSE [handles EXCEPT ![k] = Fresh]
  /\ UNCHANGED <<call, answers>>

CleanedUp(s) == [k \in Curls |-> IF clients[s].curl = k THEN Closed ELSE handles[k]]

Destroy(s) ==
  /\ Live(s) /\ call[s] = Idle
  /\ clients' = [clients EXCEPT ![s] = Gone]
  /\ handles' = CleanedUp(s)
  /\ UNCHANGED <<call, answers>>

MoveConstruct(d, s) ==
  /\ ~Live(d) /\ Live(s) /\ call[s] = Idle
  /\ clients' = [clients EXCEPT ![d] = clients[s], ![s].curl = Null]
  /\ UNCHANGED <<handles, call, answers>>

MoveAssign(d, s) ==
  /\ d # s /\ Live(d) /\ Live(s) /\ call[d] = Idle /\ call[s] = Idle
  /\ clients' = [clients EXCEPT ![d] = clients[s], ![s].curl = Null]
  /\ handles' = CleanedUp(d)
  /\ UNCHANGED <<call, answers>>

-----------------------------------------------------------------------------
\* Fault: the method is left as the last request set it.
GetOptions_method_kept(o) == o
GetOptions(o) == [o EXCEPT !.method = "GET"]
PostOptions(o, s) == [o EXCEPT !.method = "POST", !.body = s]

\* raw_get and raw_post, alone or for json_get and json_post: the header list is
\* built and the options are set; perform_request sets the headers.
Begin(s, method, json) ==
  /\ Live(s) /\ call[s] = Idle
  /\ call' = [call EXCEPT ![s] = [at |-> "perform", json |-> json]]
  /\ handles' = [k \in Curls |->
       IF clients[s].curl # k THEN handles[k]
       ELSE [IF method = "GET" THEN GetOptions(handles[k])
             ELSE PostOptions(handles[k], s) EXCEPT !.headers = s]]
  /\ UNCHANGED <<clients, answers>>

\* The list and the body go when the call returns; the handle is not told.
Forget(k) == [j \in Curls |->
  IF j # k THEN handles[j]
  ELSE [handles[j] EXCEPT !.headers = "freed",
                          !.body = IF @ = "none" THEN @ ELSE "freed"]]

\* perform_request without an answer: no handle, or a network error.  The last
\* response code stays; json calls return with the failure.
NoResponse(s) ==
  /\ call[s].at = "perform"
  /\ call' = [call EXCEPT ![s] = Idle]
  /\ handles' = Forget(clients[s].curl)
  /\ answers' = IF call[s].json THEN [answers EXCEPT ![s] = NoAnswer] ELSE answers
  /\ UNCHANGED clients

\* An answer: success of the raw call is any 2xx, json calls want 200.
Response(s, code) ==
  LET success == code \in 200..299
  IN  /\ call[s].at = "perform" /\ clients[s].curl # Null
      /\ clients' = [clients EXCEPT ![s].code = code]
      /\ call' = [call EXCEPT ![s] = Idle]
      /\ handles' = Forget(clients[s].curl)
      /\ answers' = IF call[s].json
           THEN [answers EXCEPT ![s] =
                   [code |-> code, parsed |-> success /\ clients'[s].code = OK]]
           ELSE answers

Next == \E s \in Slots :
  \/ \E k \in Curls \cup {Null} : Create(s, k)
  \/ Destroy(s)
  \/ \E d \in Slots : MoveConstruct(d, s) \/ MoveAssign(d, s)
  \/ \E method \in {"GET", "POST"}, json \in BOOLEAN : Begin(s, method, json)
  \/ NoResponse(s)
  \/ \E code \in Codes : Response(s, code)

Spec == Init /\ [][Next]_vars

-----------------------------------------------------------------------------
\* While a transfer runs, every pointer that libcurl follows points at what this
\* very call made: a body or a header list of an earlier request, freed since,
\* is never used, whatever requests came before and wherever the handle moved.
TransferUsesOwn == \A s \in Slots : call[s].at = "perform" /\ clients[s].curl # Null =>
  LET o == handles[clients[s].curl]
  IN  o.headers = s /\ (o.method = "POST" => o.body = s)

\* Each handle belongs to exactly one client, and a client's handle is open.
OneClient == \A k \in Curls :
  Cardinality({s \in Slots : Live(s) /\ clients[s].curl = k})
    = (IF handles[k] = Closed THEN 0 ELSE 1)

\* A json call parses a body only if its own request was answered with 200: the
\* code of an earlier answer, which a network error leaves in place, is not
\* taken for this one's.
ParsesOwnAnswer == \A s \in Slots : answers[s].parsed => answers[s].code = OK
=============================================================================
