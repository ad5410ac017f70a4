--------------------------- MODULE ResourceProofs ---------------------------
(***************************************************************************)
(* What holds of Resources for any slots, names, sizes and numbers of      *)
(* callers.  Each part has an invariant of its own, which its own steps    *)
(* keep; a step of Resources is a step of one part and leaves the others'  *)
(* variables alone, so that each invariant holds of the whole.             *)
(***************************************************************************)
EXTENDS Resources, FiniteSetTheorems, WellFoundedInduction, TLAPS

(* What a step of the whole is to each part.                               *)
LEMMA PartSteps ==
  ASSUME [ResourcesNext]_resourceVars
  PROVE  /\ [Next]_vars /\ [Readers!Next]_readerVars /\ [Files!Next]_fileVars
         /\ [Regions!Next]_regionVars /\ [Libraries!Next]_libraryVars
         /\ [HttpClient!Next]_httpVars /\ [Sockets!Next]_socketVars
<1>1. CASE ResourcesNext
  BY <1>1, Zenon DEF ResourcesNext
<1>2. CASE UNCHANGED resourceVars
  BY <1>2, Zenon DEF resourceVars
<1>. QED  BY <1>1, <1>2

-----------------------------------------------------------------------------
(* FileOps: mappings.  The table, the mappings and the descriptors of a    *)
(* process describe one another also while a call is under way, if the     *)
(* descriptor that the call holds is counted (Exact).  What is behind a    *)
(* mapping does not shrink unless it is cut, since the one call that gives *)
(* a new object its size finds it empty (Sized).                           *)

Domains ==
  /\ DOMAIN fds = Procs /\ DOMAIN maps = Procs /\ DOMAIN table = Procs /\ DOMAIN call = Procs

(* The descriptor of the call under way, which no table has.               *)
Held(p) == IF call[p] = Idle THEN {} ELSE {call[p].fd}

Exact(p) ==
  /\ DOMAIN fds[p] \in SUBSET Nat /\ IsFiniteSet(DOMAIN fds[p])
  /\ call[p].at = "idle" => call[p] = Idle
  /\ DOMAIN table[p] = DOMAIN maps[p]
  /\ \A a \in DOMAIN table[p] : table[p][a].size = maps[p][a].size
  /\ \A a \in DOMAIN table[p] : table[p][a].fd \in DOMAIN fds[p] \ Held(p)
  /\ Held(p) \subseteq DOMAIN fds[p]
  /\ \A fd \in DOMAIN fds[p] \ Held(p) : \E a \in DOMAIN table[p] : table[p][a].fd = fd
  /\ \A a, b \in DOMAIN table[p] : table[p][a].fd = table[p][b].fd => a = b

Tables == Domains /\ \A p \in Procs : Exact(p)

-----------------------------------------------------------------------------
(* The system's choice of a descriptor.                                    *)
LEMMA MinIsIn == ASSUME NEW S \in SUBSET Nat, S # {} PROVE Min(S) \in S
<1>. DEFINE R == OpToRel(<, Nat)
<1>1. R = {ss \in Nat \X Nat : ss[1] < ss[2]}
  BY DEF OpToRel
<1>2. PICK x \in S : \A y \in S : <<y, x>> \notin R
  <2>1. IsWellFoundedOn(R, Nat)
    BY NatLessThanWellFounded
  <2>. HIDE DEF R
  <2>. QED  BY <2>1, WFMin
<1>. HIDE DEF R
<1>3. \A y \in S : x <= y
  <2>1. ASSUME NEW y \in S, y < x PROVE FALSE
    <3>1. <<y, x>> \in Nat \X Nat /\ <<y, x>>[1] < <<y, x>>[2]
      BY <2>1
    <3>. QED  BY <1>1, <1>2, <3>1
  <2>. QED  BY <2>1
<1>. QED  BY <1>3 DEF Min

(* open returns a descriptor that was not open.                            *)
LEMMA OpenedIsNew ==
  ASSUME NEW p \in Procs, DOMAIN fds[p] \in SUBSET Nat, IsFiniteSet(DOMAIN fds[p]), NEW o
  PROVE  Opened(p, o).fd \in Nat \ DOMAIN fds[p]
<1>. DEFINE D == DOMAIN fds[p]
            c == Cardinality(D)
            S == 0..c \ D
<1>1. c \in Nat
  BY FS_CardinalityType
<1>2. S \in SUBSET Nat
  BY <1>1
<1>3. S # {}
  <2>1. SUFFICES ASSUME 0..c \subseteq D PROVE FALSE
    OBVIOUS
  <2>2. Cardinality(0..c) = c + 1
    BY <1>1, FS_Interval
  <2>3. Cardinality(0..c) <= c
    BY <2>1, FS_Subset
  <2>. QED  BY <1>1, <2>2, <2>3
<1>4. Min(S) \in S
  BY <1>2, <1>3, MinIsIn
<1>5. Opened(p, o).fd = Min(S)
  BY DEF Opened
<1>. QED  BY <1>2, <1>4, <1>5

(* A step of one process does not touch another's.                         *)
Elsewhere(p) == \A q \in Procs \ {p} :
  fds'[q] = fds[q] /\ maps'[q] = maps[q] /\ table'[q] = table[q] /\ call'[q] = call[q]

(* A step of one process leaves the others exact.                          *)
LEMMA ExactElsewhere ==
  ASSUME Tables, NEW p \in Procs, Elsewhere(p), Domains', Exact(p)'
  PROVE  Tables'
BY DEF Tables, Elsewhere, Exact, Held

(* open: the call holds the descriptor.                                    *)
LEMMA OpenKeeps ==
  ASSUME Tables, NEW p \in Procs, call[p] = Idle, NEW o, NEW c, c.at # "idle",
         c.fd = Opened(p, o).fd, fds' = Opened(p, o).all, call' = [call EXCEPT ![p] = c],
         UNCHANGED <<maps, table>>
  PROVE  Tables'
<1>. DEFINE fd == Opened(p, o).fd
<1>1. Exact(p) /\ Domains
  BY DEF Tables
<1>2. fd \in Nat \ DOMAIN fds[p]
  BY <1>1, OpenedIsNew DEF Exact
<1>3. fds' = [fds EXCEPT ![p] = With(@, fd, o)]
  BY DEF Opened
<1>. HIDE DEF fd
<1>4. DOMAIN fds'[p] = DOMAIN fds[p] \cup {fd}
  BY <1>1, <1>3 DEF Domains, With
<1>5. IsFiniteSet(DOMAIN fds'[p])
  <2>1. IsFiniteSet(DOMAIN fds[p])
    BY <1>1 DEF Exact
  <2>. QED  BY <1>4, <2>1, FS_AddElement
<1>6. /\ call'[p] = c /\ c # Idle /\ c.fd = fd
      /\ maps'[p] = maps[p] /\ table'[p] = table[p]
  BY <1>1 DEF Domains, Idle, fd
<1>7. Exact(p)'
  BY <1>1, <1>2, <1>4, <1>5, <1>6 DEF Exact, Held
<1>8. Domains' /\ Elsewhere(p)
  BY <1>1, <1>3 DEF Domains, Elsewhere
<1>. QED  BY <1>7, <1>8, ExactElsewhere

(* A call goes on with its descriptor.                                     *)
LEMMA GoesOn ==
  ASSUME Tables, NEW p \in Procs, call[p] # Idle, NEW c, c.at # "idle", c.fd = call[p].fd,
         call' = [call EXCEPT ![p] = c], UNCHANGED <<fds, maps, table>>
  PROVE  Tables'
<1>1. Exact(p) /\ Domains
  BY DEF Tables
<1>2. call'[p] = c /\ c # Idle
  BY <1>1 DEF Domains, Idle
<1>3. Exact(p)'
  BY <1>1, <1>2 DEF Exact, Held
<1>4. Domains' /\ Elsewhere(p)
  BY <1>1 DEF Domains, Elsewhere
<1>. QED  BY <1>3, <1>4, ExactElsewhere

(* A call that fails closes its descriptor and returns.                    *)
LEMMA FailureKeeps ==
  ASSUME Tables, NEW p \in Procs, call[p] # Idle, Close(p, call[p].fd), Returns(p),
         UNCHANGED <<maps, table>>
  PROVE  Tables'
<1>1. Exact(p) /\ Domains
  BY DEF Tables
<1>2. call'[p] = Idle /\ DOMAIN fds'[p] = DOMAIN fds[p] \ {call[p].fd}
  BY <1>1 DEF Domains, Close, Returns, Without, Restrict
<1>3. IsFiniteSet(DOMAIN fds'[p])
  <2>1. IsFiniteSet(DOMAIN fds[p])
    BY <1>1 DEF Exact
  <2>. QED  BY <1>2, <2>1, FS_RemoveElement
<1>4. Exact(p)'
  BY <1>1, <1>2, <1>3 DEF Exact, Held
<1>5. Domains' /\ Elsewhere(p)
  BY <1>1 DEF Domains, Elsewhere, Close, Returns
<1>. QED  BY <1>4, <1>5, ExactElsewhere

(* A mapping made takes over the call's descriptor.                        *)
LEMMA MmapKeeps ==
  ASSUME Tables, NEW p \in Procs, NEW a, Mmap(p, a)
  PROVE  Tables'
<1>1. Exact(p) /\ Domains
  BY DEF Tables
<1>2. call[p] # Idle /\ a \notin DOMAIN maps[p]
  BY DEF Mmap, Idle
<1>3. PICK e, f : e = [obj |-> fds[p][call[p].fd], size |-> call[p].size, had |-> call[p].had]
                  /\ f = [fd |-> call[p].fd, size |-> call[p].size]
  OBVIOUS
<1>4. /\ maps' = [maps EXCEPT ![p] = With(@, a, e)]
      /\ table' = [table EXCEPT ![p] = With(@, a, f)]
      /\ call' = [call EXCEPT ![p] = Idle] /\ fds' = fds
  BY <1>3 DEF Mmap, Returns
<1>5. /\ DOMAIN maps'[p] = DOMAIN maps[p] \cup {a} /\ maps'[p][a] = e
      /\ DOMAIN table'[p] = DOMAIN table[p] \cup {a} /\ table'[p][a] = f
      /\ call'[p] = Idle
      /\ \A b \in DOMAIN maps[p] : maps'[p][b] = maps[p][b] /\ table'[p][b] = table[p][b]
  BY <1>1, <1>2, <1>4 DEF Domains, Exact, With
<1>6. e.size = f.size /\ f.fd = call[p].fd
  BY <1>3
<1>7. /\ Held(p) = {f.fd} /\ Held(p)' = {} /\ fds'[p] = fds[p]
      /\ f.fd \in DOMAIN fds[p] /\ a \notin DOMAIN table[p]
  BY <1>1, <1>2, <1>4, <1>5, <1>6 DEF Exact, Held
<1>8. Exact(p)'
  <2>1. DOMAIN table'[p] = DOMAIN maps'[p]
    BY <1>1, <1>5 DEF Exact
  <2>2. \A b \in DOMAIN table'[p] : table'[p][b].size = maps'[p][b].size
    BY <1>1, <1>5, <1>6 DEF Exact
  <2>3. \A b \in DOMAIN table[p] : table[p][b].fd \in DOMAIN fds[p] \ {f.fd}
    BY <1>1, <1>7 DEF Exact
  <2>4. \A b \in DOMAIN table'[p] : table'[p][b].fd \in DOMAIN fds'[p]
    BY <1>1, <1>5, <1>7, <2>3 DEF Exact
  <2>5. ASSUME NEW fd \in DOMAIN fds'[p] PROVE \E b \in DOMAIN table'[p] : table'[p][b].fd = fd
    <3>1. CASE fd = f.fd
      BY <1>5, <3>1
    <3>2. CASE fd # f.fd
      <4>1. PICK b \in DOMAIN table[p] : table[p][b].fd = fd
        BY <1>1, <1>7, <2>5, <3>2 DEF Exact
      <4>2. b \in DOMAIN table'[p] /\ table'[p][b] = table[p][b]
        BY <1>1, <1>5, <4>1 DEF Exact
      <4>. QED  BY <4>1, <4>2
    <3>. QED  BY <3>1, <3>2
  <2>6. \A b, c \in DOMAIN table[p] : table[p][b].fd = table[p][c].fd => b = c
    BY <1>1 DEF Exact
  <2>7. ASSUME NEW b \in DOMAIN table'[p], NEW c \in DOMAIN table'[p],
               table'[p][b].fd = table'[p][c].fd
        PROVE  b = c
    <3>1. \A d \in DOMAIN table[p] : table'[p][d] = table[p][d]
      BY <1>1, <1>5 DEF Exact
    <3>2. CASE b \in DOMAIN table[p] /\ c \in DOMAIN table[p]
      BY <2>6, <2>7, <3>1, <3>2
    <3>3. CASE b = a /\ c \in DOMAIN table[p]
      BY <1>5, <2>3, <2>7, <3>1, <3>3
    <3>4. CASE c = a /\ b \in DOMAIN table[p]
      BY <1>5, <2>3, <2>7, <3>1, <3>4
    <3>. QED  BY <1>5, <2>7, <3>2, <3>3, <3>4
  <2>. QED  BY <1>1, <1>5, <1>7, <2>1, <2>2, <2>4, <2>5, <2>7 DEF Exact
<1>9. Domains' /\ Elsewhere(p)
  BY <1>1, <1>4 DEF Domains, Elsewhere
<1>. QED  BY <1>8, <1>9, ExactElsewhere

(* unmap_file takes the entry, the mapping and the descriptor.             *)
LEMMA UnmapKeeps ==
  ASSUME Tables, NEW p \in Procs, NEW a, Unmap(p, a)
  PROVE  Tables'
<1>1. Exact(p) /\ Domains /\ call[p] = Idle /\ a \in DOMAIN table[p]
  BY DEF Tables, Unmap
<1>2. PICK fd : fd = table[p][a].fd
  OBVIOUS
<1>3. /\ DOMAIN table'[p] = DOMAIN table[p] \ {a}
      /\ DOMAIN maps'[p] = DOMAIN maps[p] \ {a}
      /\ DOMAIN fds'[p] = DOMAIN fds[p] \ {fd} /\ call' = call
      /\ \A b \in DOMAIN table[p] \ {a} : table'[p][b] = table[p][b]
      /\ \A b \in DOMAIN maps[p] \ {a} : maps'[p][b] = maps[p][b]
  BY <1>1, <1>2 DEF Unmap, Domains, Close, Without, Restrict
<1>4. IsFiniteSet(DOMAIN fds'[p])
  <2>1. IsFiniteSet(DOMAIN fds[p])
    BY <1>1 DEF Exact
  <2>. QED  BY <1>3, <2>1, FS_RemoveElement
<1>5. Exact(p)'
  <2>1. /\ \A b \in DOMAIN table[p] : table[p][b].fd \in DOMAIN fds[p]
        /\ \A b, c \in DOMAIN table[p] : table[p][b].fd = table[p][c].fd => b = c
        /\ \A d \in DOMAIN fds[p] : \E b \in DOMAIN table[p] : table[p][b].fd = d
        /\ DOMAIN table[p] = DOMAIN maps[p]
        /\ \A b \in DOMAIN table[p] : table[p][b].size = maps[p][b].size
        /\ DOMAIN fds[p] \in SUBSET Nat /\ Held(p)' = {} /\ call'[p] = Idle
    BY <1>1, <1>3 DEF Exact, Held
  <2>2. \A b \in DOMAIN table'[p] : table'[p][b].fd \in DOMAIN fds'[p]
    BY <1>1, <1>2, <1>3, <2>1
  <2>3. \A d \in DOMAIN fds'[p] : \E b \in DOMAIN table'[p] : table'[p][b].fd = d
    <3>1. ASSUME NEW d \in DOMAIN fds[p], d # fd
          PROVE  \E b \in DOMAIN table'[p] : table'[p][b].fd = d
      <4>1. PICK b \in DOMAIN table[p] : table[p][b].fd = d
        BY <2>1, <3>1
      <4>2. b \in DOMAIN table'[p] /\ table'[p][b] = table[p][b]
        BY <1>2, <1>3, <3>1, <4>1
      <4>. QED  BY <4>1, <4>2
    <3>. QED  BY <1>3, <3>1
  <2>4. \A b, c \in DOMAIN table'[p] : table'[p][b].fd = table'[p][c].fd => b = c
    BY <1>3, <2>1
  <2>5. /\ DOMAIN table'[p] = DOMAIN maps'[p]
        /\ \A b \in DOMAIN table'[p] : table'[p][b].size = maps'[p][b].size
    BY <1>3, <2>1
  <2>. QED  BY <1>3, <1>4, <2>1, <2>2, <2>3, <2>4, <2>5 DEF Exact
<1>6. Domains' /\ Elsewhere(p)
  BY <1>1, <1>3 DEF Unmap, Domains, Elsewhere, Close
<1>. QED  BY <1>5, <1>6, ExactElsewhere

(* The invariant holds at the start and is kept.                           *)
LEMMA TablesInitially == ASSUME Init PROVE Tables
<1>1. DOMAIN << >> = {} /\ IsFiniteSet({})
  BY FS_EmptySet
<1>. QED  BY <1>1 DEF Init, Tables, Domains, Exact, Held, Idle

LEMMA TablesKept ==
  ASSUME Tables, [Next]_vars
  PROVE  Tables'
<1>1. CASE UNCHANGED vars
  BY <1>1 DEF vars, Tables, Domains, Exact, Held
<1>9. ASSUME NEW f, NEW size, Resize(f, size) PROVE Tables'
  BY <1>9 DEF Resize, Tables, Domains, Exact, Held
<1>2. SUFFICES ASSUME NEW p \in Procs, Call(p) PROVE Tables'
  BY <1>1, <1>9 DEF Next
<1>3. ASSUME NEW n \in Names, NEW size \in Sizes, CreateShm(p, n, size)
      PROVE  Tables'
  <2>1. PICK o : fds' = Opened(p, o).all
          /\ call' = [call EXCEPT ![p] =
               [at |-> "truncate", fd |-> Opened(p, o).fd, size |-> size, name |-> n]]
          /\ call[p] = Idle /\ UNCHANGED <<maps, table>>
    BY <1>3 DEF CreateShm
  <2>2. PICK c : c = [at |-> "truncate", fd |-> Opened(p, o).fd, size |-> size, name |-> n]
    OBVIOUS
  <2>3. c.at # "idle" /\ c.fd = Opened(p, o).fd
    BY <2>2
  <2>. QED  BY <2>1, <2>2, <2>3, OpenKeeps
<1>4. ASSUME NEW n \in Names, NEW size \in Sizes, AttachShm(p, n, size)
      PROVE  Tables'
  <2>1. PICK o : fds' = Opened(p, o).all
          /\ call' = [call EXCEPT ![p] = [at |-> "mmap", fd |-> Opened(p, o).fd,
                                          size |-> size, had |-> objs[dir[n]]]]
          /\ call[p] = Idle /\ UNCHANGED <<maps, table>>
    BY <1>4 DEF AttachShm, ToMmap
  <2>2. PICK c : c = [at |-> "mmap", fd |-> Opened(p, o).fd, size |-> size,
                      had |-> objs[dir[n]]]
    OBVIOUS
  <2>3. c.at # "idle" /\ c.fd = Opened(p, o).fd
    BY <2>2
  <2>. QED  BY <2>1, <2>2, <2>3, OpenKeeps
<1>5. ASSUME NEW f \in FileIds, OpenFile(p, f)
      PROVE  Tables'
  <2>1. PICK o : fds' = Opened(p, o).all
          /\ call' = [call EXCEPT ![p] = [at |-> "stat", fd |-> Opened(p, o).fd]]
          /\ call[p] = Idle /\ UNCHANGED <<maps, table>>
    BY <1>5 DEF OpenFile
  <2>2. PICK c : c = [at |-> "stat", fd |-> Opened(p, o).fd]
    OBVIOUS
  <2>3. c.at # "idle" /\ c.fd = Opened(p, o).fd
    BY <2>2
  <2>. QED  BY <2>1, <2>2, <2>3, OpenKeeps
<1>6. CASE Truncate(p) \/ Stat(p)
  <2>1. PICK size :
          /\ call' = [call EXCEPT ![p] = [at |-> "mmap", fd |-> call[p].fd, size |-> size,
                                          had |-> size]]
          /\ call[p].at # "idle" /\ UNCHANGED <<fds, maps, table>>
    BY <1>6 DEF Truncate, Stat, ToMmap
  <2>2. PICK c : c = [at |-> "mmap", fd |-> call[p].fd, size |-> size, had |-> size]
    OBVIOUS
  <2>3. c.at # "idle" /\ c.fd = call[p].fd /\ call[p] # Idle
    BY <2>1, <2>2 DEF Idle
  <2>. QED  BY <2>1, <2>2, <2>3, GoesOn
<1>7. CASE TruncateFails(p) \/ StatFails(p) \/ MmapFails(p)
  <2>1. call[p] # Idle
    BY <1>7 DEF TruncateFails, StatFails, MmapFails, Idle
  <2>. QED  BY <1>7, <2>1, FailureKeeps DEF TruncateFails, StatFails, MmapFails
<1>8. ASSUME NEW n, Unlink(p, n) PROVE Tables'
  BY <1>8 DEF Unlink, Tables, Domains, Exact, Held
<1>. QED  BY <1>2, <1>3, <1>4, <1>5, <1>6, <1>7, <1>8, MmapKeeps, UnmapKeeps DEF Call

(* Between calls the table has the live mappings and the open descriptors, *)
(* one each, whichever system calls have failed.                           *)
THEOREM TableMatchesSystem == Spec \/ ResourcesSpec => []TableIsExact
<1>1. Tables => TableIsExact
  BY DEF Tables, Exact, Held, TableIsExact
<1>2. Init => Tables
  BY TablesInitially
<1>3. Tables /\ [Next]_vars => Tables'
  BY TablesKept
<1>4. (ResourcesInit => Init) /\ ([ResourcesNext]_resourceVars => [Next]_vars)
  BY PartSteps DEF ResourcesInit
<1>. QED  BY <1>1, <1>2, <1>3, <1>4, PTL DEF Spec, ResourcesSpec

-----------------------------------------------------------------------------
(* What is behind a mapping.                                               *)

IsFile(o) == \E f \in FileIds : o = FileObj(f)
IsShm(o) == \E i \in DOMAIN objs : o = ShmObj(i)
IsObj(o) == IsFile(o) \/ IsShm(o)

Objects ==
  /\ objs \in Seq(Nat) /\ files \in [FileIds -> Nat]
  /\ \A n \in DOMAIN dir : dir[n] \in DOMAIN objs

(* The object whose descriptor the call under way holds.                   *)
Behind(p) == fds[p][call[p].fd]

(* What a call is about to give its size has none yet; what it is about to *)
(* map is still as large as when it was opened, unless it was cut.         *)
CallOK(p) ==
  /\ \A fd \in DOMAIN fds[p] : IsObj(fds[p][fd])
  /\ call[p].at \in {"idle", "truncate", "stat", "mmap"}
  /\ call[p].at = "truncate" =>
       /\ IsShm(Behind(p)) /\ call[p].size \in Nat
       /\ Behind(p) \notin cut => SizeOf(Behind(p)) = 0
  /\ call[p].at = "mmap" =>
       /\ call[p].size \in Nat /\ call[p].had \in Nat
       /\ Behind(p) \notin cut => call[p].had <= SizeOf(Behind(p))

MapsOK(p) == \A a \in DOMAIN maps[p] :
  /\ IsObj(maps[p][a].obj) /\ maps[p][a].size \in Nat /\ maps[p][a].had \in Nat
  /\ maps[p][a].obj \notin cut => maps[p][a].had <= SizeOf(maps[p][a].obj)

(* Two callers that are about to give one object its size: one of them     *)
(* came upon the other's.                                                  *)
Alone == \A p, q \in Procs :
  /\ p # q /\ call[p].at = "truncate" /\ call[q].at = "truncate"
  /\ Behind(p) = Behind(q)
  => Behind(p) \in cut

Sized == Objects /\ Alone /\ \A p \in Procs : CallOK(p) /\ MapsOK(p)

(* What a step must do to the objects that there are: they do not shrink   *)
(* unless they are cut.                                                    *)
Kept(o) == /\ IsObj(o)'
           /\ o \notin cut' => /\ o \notin cut /\ SizeOf(o) \in Nat /\ SizeOf(o)' \in Nat
                               /\ SizeOf(o) <= SizeOf(o)'

-----------------------------------------------------------------------------
(* Files and shared objects, and the same in the next state.               *)
LEMMA FileFacts ==
  ASSUME NEW f
  PROVE  /\ SizeOf(FileObj(f)) = files[f] /\ SizeOf(FileObj(f))' = files'[f]
         /\ \A i : FileObj(f) # ShmObj(i)
<1>1. "file" \in DOMAIN FileObj(f) /\ FileObj(f).file = f
  BY DEF FileObj
<1>2. ASSUME NEW i PROVE FileObj(f) # ShmObj(i)
  <2>1. DOMAIN FileObj(f) = {"file"} /\ DOMAIN ShmObj(i) = {"shm"}
    BY DEF FileObj, ShmObj
  <2>. QED  BY <2>1
<1>. QED  BY <1>1, <1>2 DEF SizeOf

LEMMA ShmFacts ==
  ASSUME NEW i
  PROVE  /\ SizeOf(ShmObj(i)) = objs[i] /\ SizeOf(ShmObj(i))' = objs'[i]
         /\ ShmObj(i).shm = i
<1>1. DOMAIN ShmObj(i) = {"shm"} /\ ShmObj(i).shm = i
  BY DEF ShmObj
<1>. QED  BY <1>1 DEF SizeOf

LEMMA ObjectsApart ==
  /\ \A i, j : ShmObj(i) = ShmObj(j) => i = j
  /\ \A f, g : FileObj(f) = FileObj(g) => f = g
<1>1. ASSUME NEW i, NEW j, ShmObj(i) = ShmObj(j) PROVE i = j
  <2>1. ShmObj(i).shm = i /\ ShmObj(j).shm = j
    BY DEF ShmObj
  <2>. QED  BY <1>1, <2>1
<1>2. ASSUME NEW f, NEW g, FileObj(f) = FileObj(g) PROVE f = g
  <2>1. FileObj(f).file = f /\ FileObj(g).file = g
    BY DEF FileObj
  <2>. QED  BY <1>2, <2>1
<1>. QED  BY <1>1, <1>2

LEMMA SizeIsNat == ASSUME Objects, NEW o, IsObj(o) PROVE SizeOf(o) \in Nat
BY FileFacts, ShmFacts DEF Objects, IsObj, IsFile, IsShm

(* A step that has not to do with the objects keeps them.                  *)
LEMMA SameKept ==
  ASSUME Objects, UNCHANGED <<objs, files, cut>>
  PROVE  \A o : IsObj(o) => Kept(o) /\ SizeOf(o)' = SizeOf(o)
<1>1. ASSUME NEW o, IsObj(o) PROVE Kept(o) /\ SizeOf(o)' = SizeOf(o)
  <2>1. IsObj(o)' /\ SizeOf(o)' = SizeOf(o)
    BY <1>1 DEF IsObj, IsFile, IsShm, SizeOf
  <2>. QED  BY <1>1, <2>1, SizeIsNat DEF Kept
<1>. QED  BY <1>1

-----------------------------------------------------------------------------
(* A process that did not move sees its objects kept.                      *)
LEMMA OthersSized ==
  ASSUME Tables, Sized, NEW q \in Procs,
         fds'[q] = fds[q], maps'[q] = maps[q], call'[q] = call[q],
         \A o : IsObj(o) => Kept(o),
         call[q].at = "truncate" /\ Behind(q) \notin cut' => SizeOf(Behind(q))' = SizeOf(Behind(q))
  PROVE  CallOK(q)' /\ MapsOK(q)'
<1>1. CallOK(q) /\ MapsOK(q) /\ Behind(q)' = Behind(q)
  BY DEF Sized, Behind
<1>2. \A fd \in DOMAIN fds[q] : IsObj(fds[q][fd])'
  <2>1. ASSUME NEW fd \in DOMAIN fds[q] PROVE IsObj(fds[q][fd])'
    <3>1. PICK o : o = fds[q][fd]
      OBVIOUS
    <3>2. IsObj(o)' /\ fds'[q][fd] = o
      BY <1>1, <3>1 DEF CallOK, Kept
    <3>. QED  BY <3>2
  <2>. QED  BY <2>1
<1>3. call[q].at # "idle" => IsObj(Behind(q))
  BY <1>1 DEF Tables, Exact, Held, Idle, Behind, CallOK
<1>4. PICK b : b = Behind(q)
  OBVIOUS
<1>5. b = Behind(q)'
  BY <1>1, <1>4
<1>6. ASSUME call[q].at = "truncate"
      PROVE  IsShm(b)' /\ call[q].size \in Nat /\ (b \notin cut' => SizeOf(b)' = 0)
  <2>1. IsShm(b) /\ call[q].size \in Nat /\ (b \notin cut => SizeOf(b) = 0)
    BY <1>1, <1>4, <1>6 DEF CallOK
  <2>2. IsObj(b)' /\ (b \notin cut' => b \notin cut)
    BY <2>1 DEF IsObj, Kept
  <2>3. IsShm(b)'
    BY <2>1, <2>2, FileFacts DEF IsObj, IsFile, IsShm
  <2>4. b \notin cut' => SizeOf(b)' = SizeOf(b)
    BY <1>1, <1>4, <1>5, <1>6
  <2>. QED  BY <2>1, <2>2, <2>3, <2>4
<1>7. ASSUME call[q].at = "mmap"
      PROVE  /\ call[q].size \in Nat /\ call[q].had \in Nat
             /\ b \notin cut' => call[q].had <= SizeOf(b)'
  <2>1. /\ call[q].size \in Nat /\ call[q].had \in Nat
        /\ b \notin cut => call[q].had <= SizeOf(b)
    BY <1>1, <1>4, <1>7 DEF CallOK
  <2>2. IsObj(b)
    BY <1>3, <1>4, <1>7
  <2>. QED  BY <2>1, <2>2 DEF Kept
<1>8. CallOK(q)'
  <2>1. call[q].at \in {"idle", "truncate", "stat", "mmap"}
    BY <1>1 DEF CallOK
  <2>. QED  BY <1>2, <1>5, <1>6, <1>7, <2>1 DEF CallOK
<1>9. MapsOK(q)'
  <2>1. ASSUME NEW a \in DOMAIN maps[q]
        PROVE  /\ IsObj(maps[q][a].obj)' /\ maps[q][a].size \in Nat /\ maps[q][a].had \in Nat
               /\ (maps[q][a].obj \notin cut)' => maps[q][a].had <= SizeOf(maps[q][a].obj)'
    <3>1. PICK o : o = maps[q][a].obj
      OBVIOUS
    <3>2. /\ IsObj(o) /\ maps[q][a].size \in Nat /\ maps[q][a].had \in Nat
          /\ o \notin cut => maps[q][a].had <= SizeOf(o)
      BY <1>1, <2>1, <3>1 DEF MapsOK
    <3>3. IsObj(o)' /\ (o \notin cut' => maps[q][a].had <= SizeOf(o)')
      BY <3>2 DEF Kept
    <3>4. o = maps'[q][a].obj
      BY <3>1
    <3>. QED  BY <3>1, <3>2, <3>3, <3>4
  <2>2. ASSUME NEW a \in DOMAIN maps'[q]
        PROVE  /\ IsObj(maps[q][a].obj)' /\ maps'[q][a].size \in Nat /\ maps'[q][a].had \in Nat
               /\ (maps[q][a].obj \notin cut)' => maps'[q][a].had <= SizeOf(maps[q][a].obj)'
    BY <2>1, <2>2
  <2>. QED  BY <2>2 DEF MapsOK
<1>. QED  BY <1>8, <1>9

(* So a step of one process needs to see to itself, and to those that are  *)
(* about to give an object its size.                                       *)
LEMMA SizedByOne ==
  ASSUME Tables, Sized, NEW p \in Procs, Elsewhere(p), Objects', CallOK(p)', MapsOK(p)',
         \A o : IsObj(o) => Kept(o),
         \A q \in Procs \ {p} : call[q].at = "truncate" /\ Behind(q) \notin cut' =>
           /\ SizeOf(Behind(q))' = SizeOf(Behind(q))
           /\ call'[p].at = "truncate" => Behind(p)' # Behind(q)
  PROVE  Sized'
<1>1. ASSUME NEW q \in Procs \ {p} PROVE CallOK(q)' /\ MapsOK(q)'
  <2>1. fds'[q] = fds[q] /\ maps'[q] = maps[q] /\ call'[q] = call[q]
    BY DEF Elsewhere
  <2>. QED  BY <2>1, OthersSized
<1>2. \A q \in Procs \ {p} : call'[q] = call[q] /\ Behind(q)' = Behind(q)
  BY DEF Elsewhere, Behind
<1>3. ASSUME NEW q \in Procs, NEW r \in Procs, q # r,
             call'[q].at = "truncate", call'[r].at = "truncate", Behind(q)' = Behind(r)'
      PROVE  Behind(q)' \in cut'
  <2>1. CASE q # p /\ r # p
    <3>1. call[q].at = "truncate" /\ call[r].at = "truncate" /\ Behind(q) = Behind(r)
      BY <1>2, <1>3, <2>1
    <3>2. Behind(q) \in cut /\ IsObj(Behind(q))
      BY <3>1, <1>3 DEF Sized, Alone, CallOK, IsObj
    <3>. QED  BY <1>2, <2>1, <3>2 DEF Kept
  <2>2. CASE q = p
    BY <1>2, <1>3, <2>2
  <2>3. CASE r = p
    BY <1>2, <1>3, <2>3
  <2>. QED  BY <2>1, <2>2, <2>3
<1>4. Alone'
  BY <1>3 DEF Alone
<1>. QED  BY <1>1, <1>4 DEF Sized

(* The same for the steps that leave the objects as they are.              *)
LEMMA SizedSameObjects ==
  ASSUME Tables, Sized, NEW p \in Procs, Elsewhere(p), UNCHANGED <<objs, files, cut>>, Objects',
         CallOK(p)', MapsOK(p)', call'[p].at # "truncate"
  PROVE  Sized'
<1>1. Objects
  BY DEF Sized
<1>2. \A q \in Procs \ {p} : Behind(q)' = Behind(q)
  BY DEF Elsewhere, Behind
<1>3. ASSUME NEW q \in Procs, call[q].at = "truncate", q # p
      PROVE  SizeOf(Behind(q))' = SizeOf(Behind(q))
  <2>1. PICK b : b = Behind(q)
    OBVIOUS
  <2>2. IsObj(b) /\ b = Behind(q)'
    BY <1>2, <1>3, <2>1 DEF Sized, CallOK, IsObj
  <2>3. SizeOf(b)' = SizeOf(b)
    BY <1>1, <2>2, SameKept
  <2>. QED  BY <2>1, <2>2, <2>3
<1>. QED  BY <1>1, <1>3, SameKept, SizedByOne

(* Names that go leave the others what they are.                           *)
LEMMA NamesGo ==
  ASSUME Objects, UNCHANGED <<objs, files>>, NEW S, dir' = Without(dir, S) \/ dir' = dir
  PROVE  Objects'
BY DEF Objects, Without, Restrict

(* A call that fails closes its descriptor.                                *)
LEMMA FailureSized ==
  ASSUME Tables, Sized, NEW p \in Procs, Close(p, call[p].fd), Returns(p),
         UNCHANGED <<maps, table, objs, files, cut>>, Objects'
  PROVE  Sized'
<1>1. /\ call'[p] = Idle /\ Elsewhere(p) /\ maps'[p] = maps[p]
      /\ \A fd \in DOMAIN fds'[p] : fd \in DOMAIN fds[p] /\ fds'[p][fd] = fds[p][fd]
  BY DEF Tables, Domains, Close, Returns, Elsewhere, Without, Restrict
<1>2. CallOK(p)' /\ call'[p].at # "truncate"
  BY <1>1 DEF Sized, CallOK, IsObj, IsFile, IsShm, Idle
<1>3. MapsOK(p)'
  BY <1>1 DEF Sized, MapsOK, IsObj, IsFile, IsShm, SizeOf
<1>. QED  BY <1>1, <1>2, <1>3, SizedSameObjects

(* A descriptor opened on an object that there is.                         *)
LEMMA OpenSized ==
  ASSUME Tables, Sized, NEW p \in Procs, call[p] = Idle, NEW o, IsObj(o), NEW c,
         c.fd = Opened(p, o).fd, fds' = Opened(p, o).all, call' = [call EXCEPT ![p] = c],
         UNCHANGED <<dir, objs, files, maps, table, cut>>,
         \/ c.at = "stat"
         \/ c.at = "mmap" /\ c.size \in Nat /\ c.had \in Nat /\ c.had <= SizeOf(o)
  PROVE  Sized'
<1>. DEFINE fd == Opened(p, o).fd
<1>1. fds' = [fds EXCEPT ![p] = With(@, fd, o)] /\ c.fd = fd
  BY DEF Opened
<1>. HIDE DEF fd
<1>2. /\ call'[p] = c /\ Elsewhere(p) /\ maps'[p] = maps[p] /\ Behind(p)' = o
      /\ \A d \in DOMAIN fds'[p] :
           fds'[p][d] = o \/ (d \in DOMAIN fds[p] /\ fds'[p][d] = fds[p][d])
  <2>1. fds'[p] = With(fds[p], fd, o) /\ call'[p] = c /\ Elsewhere(p)
    BY <1>1 DEF Tables, Domains, Elsewhere
  <2>2. DOMAIN fds'[p] = DOMAIN fds[p] \cup {fd} /\ fds'[p][fd] = o
    BY <2>1 DEF With
  <2>3. \A d \in DOMAIN fds[p] : d # fd => fds'[p][d] = fds[p][d]
    BY <2>1 DEF With
  <2>. QED  BY <1>1, <2>1, <2>2, <2>3 DEF Behind
<1>3. CallOK(p)' /\ call'[p].at # "truncate"
  BY <1>2 DEF Sized, CallOK, IsObj, IsFile, IsShm, SizeOf
<1>4. MapsOK(p)'
  BY <1>2 DEF Sized, MapsOK, IsObj, IsFile, IsShm, SizeOf
<1>5. Objects'
  BY DEF Sized, Objects
<1>. QED  BY <1>2, <1>3, <1>4, <1>5, SizedSameObjects

(* A consumer may ask for more than the object has, and then has had less. *)
LEMMA AttachSized ==
  ASSUME MappingsAssumption, Tables, Sized, NEW p \in Procs, NEW n \in Names, NEW size \in Sizes,
         AttachShm(p, n, size)
  PROVE  Sized'
<1>1. PICK i : i = dir[n]
  OBVIOUS
<1>2. PICK o : o = ShmObj(i)
  OBVIOUS
<1>3. PICK c : c = [at |-> "mmap", fd |-> Opened(p, o).fd, size |-> size, had |-> objs[i]]
  OBVIOUS
<1>4. /\ call[p] = Idle /\ n \in DOMAIN dir
      /\ fds' = Opened(p, o).all /\ call' = [call EXCEPT ![p] = c]
      /\ UNCHANGED <<dir, objs, files, maps, table, cut>>
  BY <1>1, <1>2, <1>3 DEF AttachShm, ToMmap
<1>5. i \in DOMAIN objs /\ objs[i] \in Nat /\ size \in Nat
  BY <1>1, <1>4 DEF Sized, Objects, MappingsAssumption
<1>6. IsObj(o) /\ SizeOf(o) = objs[i]
  BY <1>2, <1>5, ShmFacts DEF IsObj, IsShm
<1>7. c.at = "mmap" /\ c.size = size /\ c.had = objs[i] /\ c.fd = Opened(p, o).fd
  BY <1>3
<1>8. c.had <= SizeOf(o)
  BY <1>5, <1>6, <1>7
<1>. QED  BY <1>4, <1>5, <1>6, <1>7, <1>8, OpenSized

LEMMA OpenFileSized ==
  ASSUME Tables, Sized, NEW p \in Procs, NEW f \in FileIds, OpenFile(p, f)
  PROVE  Sized'
<1>1. PICK o, c : o = FileObj(f) /\ c = [at |-> "stat", fd |-> Opened(p, o).fd]
  OBVIOUS
<1>2. /\ call[p] = Idle /\ fds' = Opened(p, o).all /\ call' = [call EXCEPT ![p] = c]
      /\ UNCHANGED <<dir, objs, files, maps, table, cut>>
  BY <1>1 DEF OpenFile
<1>3. IsObj(o)
  BY <1>1 DEF IsFile, IsObj
<1>4. c.at = "stat" /\ c.fd = Opened(p, o).fd
  BY <1>1
<1>. QED  BY <1>2, <1>3, <1>4, OpenSized

LEMMA StatSized ==
  ASSUME Tables, Sized, NEW p \in Procs, Stat(p)
  PROVE  Sized'
<1>1. PICK n : n = SizeOf(Behind(p))
  OBVIOUS
<1>2. PICK c : c = [at |-> "mmap", fd |-> call[p].fd, size |-> n, had |-> n]
  OBVIOUS
<1>3. /\ call[p].at = "stat" /\ call' = [call EXCEPT ![p] = c]
      /\ UNCHANGED <<dir, objs, files, fds, maps, table, cut>>
      /\ c.at = "mmap" /\ c.fd = call[p].fd /\ c.size = n /\ c.had = n
  BY <1>1, <1>2 DEF Stat, Behind, ToMmap
<1>4. /\ call'[p] = c /\ Elsewhere(p) /\ Behind(p)' = Behind(p) /\ call[p] # Idle
  BY <1>3 DEF Tables, Domains, Elsewhere, Behind, Idle
<1>5. n \in Nat
  <2>1. IsObj(Behind(p)) /\ Objects
    BY <1>3, <1>4 DEF Tables, Exact, Held, Behind, Sized, CallOK
  <2>. QED  BY <1>1, <2>1, SizeIsNat
<1>6. CallOK(p)' /\ call'[p].at # "truncate"
  <2>1. SizeOf(Behind(p))' = n
    BY <1>1, <1>3, <1>4 DEF SizeOf
  <2>2. \A fd \in DOMAIN fds'[p] : IsObj(fds[p][fd])'
    BY <1>3 DEF Sized, CallOK, IsObj, IsFile, IsShm
  <2>. QED  BY <1>3, <1>4, <1>5, <2>1, <2>2 DEF CallOK
<1>7. MapsOK(p)'
  BY <1>3 DEF Sized, MapsOK, IsObj, IsFile, IsShm, SizeOf
<1>8. Objects'
  BY <1>3 DEF Sized, Objects
<1>. QED  BY <1>3, <1>4, <1>6, <1>7, <1>8, SizedSameObjects

(* A mapping is of the object that the call has opened.                    *)
LEMMA MmapSized ==
  ASSUME Tables, Sized, NEW p \in Procs, NEW a, Mmap(p, a)
  PROVE  Sized'
<1>1. PICK e : e = [obj |-> Behind(p), size |-> call[p].size, had |-> call[p].had]
  OBVIOUS
<1>2. /\ call[p].at = "mmap" /\ maps' = [maps EXCEPT ![p] = With(@, a, e)]
      /\ call' = [call EXCEPT ![p] = Idle] /\ UNCHANGED <<dir, objs, files, fds, cut>>
      /\ \A q \in Procs \ {p} : table'[q] = table[q]
  BY <1>1 DEF Mmap, Behind, Returns, Tables, Domains
<1>3. e.obj = Behind(p) /\ e.size = call[p].size /\ e.had = call[p].had /\ call[p] # Idle
  BY <1>1, <1>2 DEF Idle
<1>4. /\ call'[p] = Idle /\ Elsewhere(p)
      /\ \A b \in DOMAIN maps'[p] :
           maps'[p][b] = e \/ (b \in DOMAIN maps[p] /\ maps'[p][b] = maps[p][b])
  <2>1. maps'[p] = With(maps[p], a, e) /\ call'[p] = Idle /\ Elsewhere(p)
    BY <1>2 DEF Tables, Domains, Elsewhere
  <2>2. DOMAIN maps'[p] = DOMAIN maps[p] \cup {a} /\ maps'[p][a] = e
    BY <2>1 DEF With
  <2>3. \A b \in DOMAIN maps[p] : b # a => maps'[p][b] = maps[p][b]
    BY <2>1 DEF With
  <2>. QED  BY <2>1, <2>2, <2>3
<1>5. CallOK(p)' /\ call'[p].at # "truncate"
  BY <1>2, <1>4 DEF Sized, CallOK, IsObj, IsFile, IsShm, Idle
<1>6. /\ IsObj(Behind(p)) /\ call[p].size \in Nat /\ call[p].had \in Nat
      /\ Behind(p) \notin cut => call[p].had <= SizeOf(Behind(p))
  BY <1>2, <1>3 DEF Tables, Exact, Held, Behind, Sized, CallOK
<1>7. MapsOK(p)'
  BY <1>2, <1>3, <1>4, <1>6 DEF Sized, MapsOK, IsObj, IsFile, IsShm, SizeOf
<1>8. Objects'
  BY <1>2 DEF Sized, Objects
<1>. QED  BY <1>2, <1>4, <1>5, <1>7, <1>8, SizedSameObjects

LEMMA UnmapSized ==
  ASSUME Tables, Sized, NEW p \in Procs, NEW a, Unmap(p, a)
  PROVE  Sized'
<1>1. /\ call[p] = Idle /\ UNCHANGED <<dir, objs, files, call, cut>> /\ Elsewhere(p)
      /\ \A fd \in DOMAIN fds'[p] : fd \in DOMAIN fds[p] /\ fds'[p][fd] = fds[p][fd]
      /\ \A b \in DOMAIN maps'[p] : b \in DOMAIN maps[p] /\ maps'[p][b] = maps[p][b]
  BY DEF Unmap, Tables, Domains, Close, Elsewhere, Without, Restrict
<1>2. CallOK(p)' /\ call'[p].at # "truncate"
  BY <1>1 DEF Sized, CallOK, IsObj, IsFile, IsShm, Idle
<1>3. MapsOK(p)'
  BY <1>1 DEF Sized, MapsOK, IsObj, IsFile, IsShm, SizeOf
<1>4. Objects'
  BY <1>1 DEF Sized, Objects
<1>. QED  BY <1>1, <1>2, <1>3, <1>4, SizedSameObjects

(* The owner's ftruncate: if the object was not cut, it grows.             *)
LEMMA TruncateSized ==
  ASSUME Tables, Sized, NEW p \in Procs, Truncate(p)
  PROVE  Sized'
<1>1. PICK i \in DOMAIN objs : Behind(p) = ShmObj(i)
  BY DEF Truncate, Sized, CallOK, IsShm
<1>2. PICK size \in Nat : size = call[p].size
  BY DEF Truncate, Sized, CallOK
<1>3. PICK c : c = [at |-> "mmap", fd |-> call[p].fd, size |-> size, had |-> size]
  OBVIOUS
<1>4. /\ call[p].at = "truncate" /\ objs' = [objs EXCEPT ![i] = size]
      /\ call' = [call EXCEPT ![p] = c] /\ UNCHANGED <<dir, files, fds, maps, table, cut>>
      /\ c.at = "mmap" /\ c.fd = call[p].fd /\ c.size = size /\ c.had = size
  BY <1>1, <1>2, <1>3, ShmFacts DEF Truncate, Behind, ToMmap
<1>5. /\ call'[p] = c /\ Elsewhere(p) /\ Behind(p)' = Behind(p)
  BY <1>4 DEF Tables, Domains, Elsewhere, Behind
<1>6. /\ objs' \in Seq(Nat) /\ DOMAIN objs' = DOMAIN objs /\ objs'[i] = size
      /\ \A j \in DOMAIN objs \ {i} : objs'[j] = objs[j]
  <2>1. objs \in Seq(Nat)
    BY DEF Sized, Objects
  <2>. QED  BY <1>4, <2>1
<1>7. Objects' /\ Objects
  BY <1>4, <1>6 DEF Sized, Objects
<1>8. ASSUME NEW o, IsObj(o) PROVE IsObj(o)' /\ (o # ShmObj(i) => SizeOf(o)' = SizeOf(o))
  <2>1. CASE IsFile(o)
    BY <1>4, <2>1, FileFacts DEF IsFile, IsObj
  <2>2. CASE IsShm(o)
    <3>1. PICK j \in DOMAIN objs : o = ShmObj(j)
      BY <2>2 DEF IsShm
    <3>2. j # i => SizeOf(o)' = SizeOf(o)
      BY <1>6, <3>1, ShmFacts
    <3>. QED  BY <1>6, <3>1, <3>2 DEF IsShm, IsObj
  <2>. QED  BY <1>8, <2>1, <2>2 DEF IsObj
<1>9. IsObj(ShmObj(i)) /\ SizeOf(ShmObj(i))' = size
      /\ (ShmObj(i) \notin cut => SizeOf(ShmObj(i)) = 0)
  BY <1>1, <1>4, <1>6, ShmFacts DEF Sized, CallOK, IsObj, IsShm
<1>10. ASSUME NEW o, IsObj(o) PROVE Kept(o)
  <2>1. SizeOf(o) \in Nat /\ cut' = cut /\ size \in Nat
    BY <1>4, <1>7, <1>10, SizeIsNat
  <2>2. CASE o = ShmObj(i)
    BY <1>8, <1>9, <2>1, <2>2 DEF Kept
  <2>3. CASE o # ShmObj(i)
    BY <1>8, <1>10, <2>1, <2>3 DEF Kept
  <2>. QED  BY <2>2, <2>3
<1>11. CallOK(p)' /\ call'[p].at # "truncate"
  <2>1. \A fd \in DOMAIN fds[p] : IsObj(fds[p][fd])'
    <3>1. ASSUME NEW fd \in DOMAIN fds[p] PROVE IsObj(fds[p][fd])'
      <4>1. PICK o : o = fds[p][fd]
        OBVIOUS
      <4>2. IsObj(o)'
        BY <1>8, <4>1 DEF Sized, CallOK
      <4>. QED  BY <1>4, <4>1, <4>2
    <3>. QED  BY <1>4, <3>1
  <2>2. PICK b : b = Behind(p)
    OBVIOUS
  <2>3. b = ShmObj(i) /\ b = Behind(p)' /\ SizeOf(b)' = size
    BY <1>1, <1>5, <1>9, <2>2
  <2>4. call'[p].at = "mmap" /\ call'[p].size = size /\ call'[p].had = size
    BY <1>4, <1>5
  <2>5. (Behind(p) \notin cut)' => call'[p].had <= SizeOf(Behind(p))'
    BY <1>2, <2>3, <2>4
  <2>. QED  BY <1>2, <1>4, <2>1, <2>4, <2>5 DEF CallOK
<1>12. MapsOK(p)'
  <2>1. ASSUME NEW a \in DOMAIN maps[p]
        PROVE  /\ IsObj(maps[p][a].obj)' /\ maps[p][a].size \in Nat /\ maps[p][a].had \in Nat
               /\ (maps[p][a].obj \notin cut)' => maps[p][a].had <= SizeOf(maps[p][a].obj)'
    <3>1. PICK o : o = maps[p][a].obj
      OBVIOUS
    <3>2. /\ IsObj(o) /\ maps[p][a].size \in Nat /\ maps[p][a].had \in Nat
          /\ o \notin cut => maps[p][a].had <= SizeOf(o)
      BY <2>1, <3>1 DEF Sized, MapsOK
    <3>3. IsObj(o)' /\ (o \notin cut' => maps[p][a].had <= SizeOf(o)')
      BY <1>10, <3>2 DEF Kept
    <3>4. o = maps'[p][a].obj
      BY <1>4, <3>1
    <3>. QED  BY <3>1, <3>2, <3>3, <3>4
  <2>. QED  BY <1>4, <2>1 DEF MapsOK
<1>13. ASSUME NEW q \in Procs \ {p}, call[q].at = "truncate", Behind(q) \notin cut'
       PROVE  SizeOf(Behind(q))' = SizeOf(Behind(q))
  <2>1. PICK b : b = Behind(q)
    OBVIOUS
  <2>2. b = Behind(q)' /\ IsObj(b) /\ b # ShmObj(i)
    BY <1>1, <1>4, <1>5, <1>13, <2>1 DEF Elsewhere, Behind, Sized, Alone, CallOK, IsObj
  <2>. QED  BY <1>8, <2>1, <2>2
<1>. QED  BY <1>5, <1>7, <1>10, <1>11, <1>12, <1>13, SizedByOne

(* The owner's shm_open makes an object, or cuts one that is there.        *)
LEMMA CreateObjects ==
  ASSUME Sized, NEW p \in Procs, NEW n \in Names, NEW size \in Sizes, CreateShm(p, n, size),
         NEW i, i = IF n \notin DOMAIN dir THEN Len(objs) + 1 ELSE dir[n]
  PROVE  /\ objs' \in Seq(Nat) /\ DOMAIN objs \subseteq DOMAIN objs' /\ i \in DOMAIN objs'
         /\ objs'[i] = 0 /\ \A j \in DOMAIN objs \ {i} : objs'[j] = objs[j]
         /\ cut \subseteq cut' /\ cut' \subseteq cut \cup {ShmObj(i)}
         /\ i \in DOMAIN objs => ShmObj(i) \in cut'
<1>1. objs \in Seq(Nat)
  BY DEF Sized, Objects
<1>2. CASE n \notin DOMAIN dir
  <2>1. objs' = Append(objs, 0) /\ i = Len(objs) + 1 /\ cut' = cut
    BY <1>2 DEF CreateShm
  <2>2. i \notin DOMAIN objs
    BY <1>1, <2>1
  <2>. QED  BY <1>1, <2>1, <2>2
<1>3. CASE n \in DOMAIN dir
  <2>1. i \in DOMAIN objs
    BY <1>3 DEF Sized, Objects
  <2>2. objs' = [objs EXCEPT ![i] = 0] /\ cut' = cut \cup {ShmObj(i)}
    BY <1>3 DEF CreateShm
  <2>. QED  BY <1>1, <2>1, <2>2
<1>. QED  BY <1>2, <1>3

LEMMA CreateSized ==
  ASSUME MappingsAssumption, Tables, Sized, NEW p \in Procs, NEW n \in Names, NEW size \in Sizes,
         CreateShm(p, n, size)
  PROVE  Sized'
<1>1. PICK i : i = IF n \notin DOMAIN dir THEN Len(objs) + 1 ELSE dir[n]
  OBVIOUS
<1>2. PICK o : o = ShmObj(i)
  OBVIOUS
<1>3. PICK fd : fd = Opened(p, o).fd
  OBVIOUS
<1>4. PICK c : c = [at |-> "truncate", fd |-> fd, size |-> size, name |-> n]
  OBVIOUS
<1>5. /\ call[p] = Idle /\ dir' = With(dir, n, i)
      /\ fds' = Opened(p, o).all /\ call' = [call EXCEPT ![p] = c]
      /\ UNCHANGED <<files, maps, table>> /\ size \in Nat
  BY <1>1, <1>2, <1>3, <1>4 DEF CreateShm, MappingsAssumption
<1>6. c.at = "truncate" /\ c.fd = fd /\ c.size = size
  BY <1>4
<1>7. /\ objs' \in Seq(Nat) /\ DOMAIN objs \subseteq DOMAIN objs' /\ i \in DOMAIN objs'
      /\ objs'[i] = 0 /\ \A j \in DOMAIN objs \ {i} : objs'[j] = objs[j]
      /\ cut \subseteq cut' /\ cut' \subseteq cut \cup {o}
      /\ i \in DOMAIN objs => o \in cut'
  BY <1>1, <1>2, CreateObjects
<1>8. Objects' /\ Objects
  BY <1>5, <1>7 DEF Sized, Objects, With
<1>9. ASSUME NEW x, IsObj(x)
      PROVE  IsObj(x)' /\ (x # o => SizeOf(x)' = SizeOf(x)) /\ (x = o => o \in cut')
  <2>1. CASE IsFile(x)
    BY <1>2, <1>5, <2>1, FileFacts DEF IsFile, IsObj
  <2>2. CASE IsShm(x)
    <3>1. PICK j \in DOMAIN objs : x = ShmObj(j)
      BY <2>2 DEF IsShm
    <3>2. x # o => SizeOf(x)' = SizeOf(x)
      BY <1>2, <1>7, <3>1, ShmFacts
    <3>3. x = o => i = j
      BY <1>2, <3>1, ObjectsApart
    <3>. QED  BY <1>7, <3>1, <3>2, <3>3 DEF IsShm, IsObj
  <2>. QED  BY <1>9, <2>1, <2>2 DEF IsObj
<1>10. ASSUME NEW x, IsObj(x) PROVE Kept(x)
  <2>1. SizeOf(x) \in Nat
    BY <1>8, <1>10, SizeIsNat
  <2>. QED  BY <1>7, <1>9, <1>10, <2>1 DEF Kept
<1>11. /\ fds'[p] = With(fds[p], fd, o) /\ call'[p] = c /\ Elsewhere(p) /\ maps'[p] = maps[p]
  BY <1>3, <1>5 DEF Tables, Domains, Elsewhere, Opened
<1>12. /\ Behind(p)' = o
       /\ \A d \in DOMAIN fds'[p] :
            fds'[p][d] = o \/ (d \in DOMAIN fds[p] /\ fds'[p][d] = fds[p][d])
  <2>1. DOMAIN fds'[p] = DOMAIN fds[p] \cup {fd} /\ fds'[p][fd] = o
    BY <1>11 DEF With
  <2>2. \A d \in DOMAIN fds[p] : d # fd => fds'[p][d] = fds[p][d]
    BY <1>11 DEF With
  <2>. QED  BY <1>6, <1>11, <2>1, <2>2 DEF Behind
<1>13. IsShm(o)' /\ IsObj(o)' /\ SizeOf(o)' = 0
  BY <1>2, <1>7, ShmFacts DEF IsShm, IsObj
<1>14. CallOK(p)'
  <2>1. ASSUME NEW d \in DOMAIN fds'[p] PROVE IsObj(fds[p][d])'
    <3>1. CASE fds'[p][d] = o
      BY <1>13, <3>1 DEF IsObj, IsFile, IsShm
    <3>2. CASE d \in DOMAIN fds[p] /\ fds'[p][d] = fds[p][d]
      <4>1. PICK x : x = fds[p][d]
        OBVIOUS
      <4>2. IsObj(x)'
        BY <1>9, <3>2, <4>1 DEF Sized, CallOK
      <4>. QED  BY <3>2, <4>1, <4>2 DEF IsObj, IsFile, IsShm
    <3>. QED  BY <1>12, <3>1, <3>2
  <2>2. IsShm(Behind(p))' /\ SizeOf(Behind(p))' = 0
    BY <1>12, <1>13 DEF IsShm, SizeOf
  <2>. QED  BY <1>5, <1>6, <1>11, <2>1, <2>2 DEF CallOK
<1>15. MapsOK(p)'
  <2>1. ASSUME NEW a \in DOMAIN maps[p]
        PROVE  /\ IsObj(maps[p][a].obj)' /\ maps[p][a].size \in Nat /\ maps[p][a].had \in Nat
               /\ (maps[p][a].obj \notin cut)' => maps[p][a].had <= SizeOf(maps[p][a].obj)'
    <3>1. PICK x : x = maps[p][a].obj
      OBVIOUS
    <3>2. /\ IsObj(x) /\ maps[p][a].size \in Nat /\ maps[p][a].had \in Nat
          /\ x \notin cut => maps[p][a].had <= SizeOf(x)
      BY <2>1, <3>1 DEF Sized, MapsOK
    <3>3. IsObj(x)' /\ (x \notin cut' => maps[p][a].had <= SizeOf(x)')
      BY <1>10, <3>2 DEF Kept
    <3>4. x = maps'[p][a].obj
      BY <1>5, <3>1
    <3>. QED  BY <3>1, <3>2, <3>3, <3>4
  <2>. QED  BY <1>5, <2>1 DEF MapsOK
<1>16. ASSUME NEW q \in Procs \ {p}, call[q].at = "truncate", Behind(q) \notin cut'
       PROVE  SizeOf(Behind(q))' = SizeOf(Behind(q)) /\ Behind(p)' # Behind(q)
  <2>1. PICK b : b = Behind(q)
    OBVIOUS
  <2>2. b = Behind(q)' /\ IsObj(b) /\ b \notin cut'
    BY <1>11, <1>16, <2>1 DEF Elsewhere, Behind, Sized, CallOK, IsObj
  <2>3. b # o /\ SizeOf(b)' = SizeOf(b)
    BY <1>9, <2>2
  <2>. QED  BY <1>12, <2>1, <2>2, <2>3
<1>. QED  BY <1>8, <1>10, <1>11, <1>14, <1>15, <1>16, SizedByOne

LEMMA UnlinkSized ==
  ASSUME Tables, Sized, NEW p \in Procs, NEW n, Unlink(p, n)
  PROVE  Sized'
<1>1. /\ UNCHANGED <<objs, files, fds, maps, table, call, cut>> /\ Elsewhere(p)
      /\ dir' = Without(dir, {n}) /\ call[p] = Idle
  BY DEF Unlink, Elsewhere
<1>2. Objects'
  BY <1>1, NamesGo DEF Sized
<1>3. CallOK(p)' /\ call'[p].at # "truncate"
  BY <1>1 DEF Sized, CallOK, IsObj, IsFile, IsShm, Idle
<1>4. MapsOK(p)'
  BY <1>1 DEF Sized, MapsOK, IsObj, IsFile, IsShm, SizeOf
<1>. QED  BY <1>1, <1>2, <1>3, <1>4, SizedSameObjects

(* Another size for a file: it is cut, or it grows.                        *)
LEMMA ResizeSized ==
  ASSUME MappingsAssumption, Tables, Sized, NEW f \in FileIds, NEW size \in FileSizes,
         Resize(f, size)
  PROVE  Sized'
<1>1. /\ files' = [files EXCEPT ![f] = size] /\ UNCHANGED <<dir, objs, fds, maps, table, call>>
      /\ cut' = (IF size < files[f] THEN cut \cup {FileObj(f)} ELSE cut) /\ size \in Nat
  BY DEF Resize, MappingsAssumption
<1>2. Objects /\ files \in [FileIds -> Nat]
  BY DEF Sized, Objects
<1>3. Objects' /\ files' \in [FileIds -> Nat]
  BY <1>1, <1>2 DEF Objects
<1>4. ASSUME NEW o, IsObj(o)
      PROVE  /\ IsObj(o)' /\ (o \notin cut' => SizeOf(o) <= SizeOf(o)')
             /\ IsShm(o) => SizeOf(o)' = SizeOf(o)
  <2>1. CASE IsFile(o)
    <3>1. PICK g \in FileIds : o = FileObj(g)
      BY <2>1 DEF IsFile
    <3>2. SizeOf(o) = files[g] /\ SizeOf(o)' = files'[g] /\ ~IsShm(o)
      BY <3>1, FileFacts DEF IsShm
    <3>3. o \notin cut' => files[g] <= files'[g]
      BY <1>1, <1>2, <3>1
    <3>. QED  BY <3>1, <3>2, <3>3 DEF IsObj, IsFile
  <2>2. CASE IsShm(o)
    <3>1. PICK j \in DOMAIN objs : o = ShmObj(j)
      BY <2>2 DEF IsShm
    <3>2. SizeOf(o)' = SizeOf(o) /\ objs[j] \in Nat /\ SizeOf(o) = objs[j]
      BY <1>1, <1>2, <3>1, ShmFacts DEF Objects
    <3>. QED  BY <1>1, <3>1, <3>2 DEF IsObj, IsShm
  <2>. QED  BY <1>4, <2>1, <2>2 DEF IsObj
<1>5. ASSUME NEW o, IsObj(o) PROVE Kept(o)
  <2>1. SizeOf(o) \in Nat
    BY <1>2, <1>5, SizeIsNat
  <2>2. SizeOf(o)' \in Nat
    <3>1. CASE IsFile(o)
      BY <1>3, <3>1, FileFacts DEF IsFile
    <3>2. CASE IsShm(o)
      BY <1>4, <1>5, <2>1, <3>2
    <3>. QED  BY <1>5, <3>1, <3>2 DEF IsObj
  <2>. QED  BY <1>1, <1>4, <1>5, <2>1, <2>2 DEF Kept
<1>6. ASSUME NEW q \in Procs PROVE CallOK(q)' /\ MapsOK(q)'
  <2>1. fds'[q] = fds[q] /\ maps'[q] = maps[q] /\ call'[q] = call[q]
    BY <1>1
  <2>2. call[q].at = "truncate" => SizeOf(Behind(q))' = SizeOf(Behind(q))
    <3>1. SUFFICES ASSUME call[q].at = "truncate" PROVE SizeOf(Behind(q))' = SizeOf(Behind(q))
      OBVIOUS
    <3>2. PICK b : b = Behind(q)
      OBVIOUS
    <3>3. b = Behind(q)' /\ IsShm(b)
      BY <2>1, <3>1, <3>2 DEF Behind, Sized, CallOK
    <3>4. SizeOf(b)' = SizeOf(b)
      BY <1>4, <3>3 DEF IsObj
    <3>. QED  BY <3>2, <3>3, <3>4
  <2>. QED  BY <1>5, <2>1, <2>2, OthersSized
<1>7. Alone'
  BY <1>1 DEF Sized, Alone, Behind
<1>. QED  BY <1>3, <1>6, <1>7 DEF Sized

(* The invariant holds at the start and is kept.                           *)
LEMMA SizedInitially ==
  ASSUME Init
  PROVE  Sized
<1>1. Objects
  BY DEF Init, Objects
<1>2. ASSUME NEW p \in Procs PROVE CallOK(p) /\ MapsOK(p) /\ call[p].at # "truncate"
  <2>1. PICK idle : idle = Idle
    OBVIOUS
  <2>2. idle.at = "idle" /\ call[p] = idle /\ DOMAIN fds[p] = {} /\ DOMAIN maps[p] = {}
    BY <2>1 DEF Init, Idle
  <2>. QED  BY <2>2 DEF CallOK, MapsOK
<1>. QED  BY <1>1, <1>2 DEF Sized, Alone

LEMMA SizedKept ==
  ASSUME MappingsAssumption, Tables, Sized, [Next]_vars
  PROVE  Sized'
<1>1. CASE UNCHANGED vars
  <2>1. UNCHANGED <<objs, files, fds, maps, call, cut>> /\ dir' = dir
    BY <1>1 DEF vars
  <2>2. Objects'
    BY <2>1 DEF Sized, Objects
  <2>3. \A p \in Procs : CallOK(p)' /\ MapsOK(p)'
    BY <2>1 DEF Sized, CallOK, MapsOK, Behind, IsObj, IsFile, IsShm, SizeOf
  <2>4. Alone'
    BY <2>1 DEF Sized, Alone, Behind
  <2>. QED  BY <2>2, <2>3, <2>4 DEF Sized
<1>2. CASE \E f \in FileIds, size \in FileSizes : Resize(f, size)
  BY <1>2, ResizeSized
<1>3. SUFFICES ASSUME NEW p \in Procs, Call(p) PROVE Sized'
  BY <1>1, <1>2 DEF Next
<1>4. CASE TruncateFails(p)
  <2>1. Objects'
    BY <1>4, NamesGo DEF Sized, TruncateFails
  <2>. QED  BY <1>4, <2>1, FailureSized DEF TruncateFails
<1>5. CASE StatFails(p) \/ MmapFails(p)
  <2>1. Objects'
    BY <1>5, NamesGo DEF Sized, StatFails, MmapFails
  <2>. QED  BY <1>5, <2>1, FailureSized DEF StatFails, MmapFails
<1>. QED  BY <1>3, <1>4, <1>5, CreateSized, AttachSized, OpenFileSized, TruncateSized, StatSized,
             MmapSized, UnmapSized, UnlinkSized DEF Call

LEMMA SizedMeansBacked == ASSUME Sized PROVE Backed
<1>1. SUFFICES ASSUME NEW p \in Procs, NEW a \in DOMAIN maps[p],
                      maps[p][a].obj \notin cut, maps[p][a].size <= maps[p][a].had
               PROVE  maps[p][a].size <= SizeOf(maps[p][a].obj)
  BY DEF Backed
<1>2. /\ maps[p][a].size \in Nat /\ maps[p][a].had \in Nat
      /\ maps[p][a].had <= SizeOf(maps[p][a].obj) /\ SizeOf(maps[p][a].obj) \in Nat
  BY <1>1, SizeIsNat DEF Sized, MapsOK
<1>. QED  BY <1>1, <1>2

(* A mapping never reaches beyond the object behind it, whatever calls     *)
(* fail in whatever process and whenever names go and come, as long as its *)
(* caller asked for no more than there was, nobody created the shared      *)
(* object anew under those who use it, and nobody shortened the file.      *)
THEOREM MappingsAreBacked ==
  ASSUME MappingsAssumption
  PROVE  Spec => []Backed
<1>1. Init => Tables /\ Sized
  BY TablesInitially, SizedInitially
<1>2. Tables /\ Sized /\ [Next]_vars => (Tables /\ Sized)'
  BY TablesKept, SizedKept
<1>3. Sized => Backed
  BY SizedMeansBacked
<1>. QED  BY <1>1, <1>2, <1>3, PTL DEF Spec

-----------------------------------------------------------------------------
(* SocketOps.                                                              *)

(* The count of initialize() is that of its users.                         *)
Counted ==
  /\ IsFiniteSet(using) /\ s_init_count = Cardinality(using)
  /\ Sockets!StartedWhileUsed

LEMMA CountedKept ==
  ASSUME Counted, [Sockets!Next]_socketVars
  PROVE  Counted'
<1>. USE DEF Counted, Sockets!StartedWhileUsed
<1>1. CASE UNCHANGED <<s_init_count, started, using>>
  BY <1>1
<1>2. Cardinality(using) \in Nat /\ (Cardinality(using) = 0 <=> using = {})
  BY FS_CardinalityType, FS_EmptySet
<1>3. ASSUME NEW u, Sockets!Initialize(u) PROVE Counted'
  <2>1. /\ u \notin using /\ using' = using \cup {u} /\ s_init_count' = s_init_count + 1
        /\ started' = IF s_init_count' > 1 THEN started ELSE started + 1
    BY <1>3 DEF Sockets!Initialize
  <2>2. IsFiniteSet(using') /\ Cardinality(using') = Cardinality(using) + 1
    BY <2>1, FS_AddElement
  <2>. QED  BY <1>2, <2>1, <2>2
<1>4. ASSUME NEW u, Sockets!InitializeFails(u) PROVE Counted'
  <2>1. s_init_count' = (s_init_count + 1) - 1 /\ UNCHANGED <<started, using>>
    BY <1>4 DEF Sockets!InitializeFails
  <2>. QED  BY <1>2, <2>1
<1>5. ASSUME NEW u, Sockets!Terminate(u) PROVE Counted'
  <2>1. /\ u \in using /\ using' = using \ {u} /\ s_init_count' = s_init_count - 1
        /\ started' = IF s_init_count' > 0 THEN started ELSE started - 1
    BY <1>5 DEF Sockets!Terminate
  <2>2. IsFiniteSet(using') /\ Cardinality(using') = Cardinality(using) - 1
    BY <2>1, FS_RemoveElement
  <2>3. Cardinality(using') \in Nat /\ (Cardinality(using') = 0 <=> using' = {})
    BY <2>2, FS_CardinalityType, FS_EmptySet
  <2>. QED  BY <1>2, <2>1, <2>2, <2>3
<1>6. CASE Sockets!Next
  <2>1. \/ UNCHANGED <<s_init_count, started, using>>
        \/ \E u \in Users :
             Sockets!Initialize(u) \/ Sockets!InitializeFails(u) \/ Sockets!Terminate(u)
    BY <1>6 DEF Sockets!Next, Sockets!CreateUnixSocket, Sockets!Bind, Sockets!Listen,
                Sockets!Close, Sockets!UnlinkFile, Sockets!Unlink, Sockets!Connect,
                Sockets!ConnectRefused, Sockets!BindFails, Sockets!count
  <2>. QED  BY <1>1, <1>3, <1>4, <1>5, <2>1
<1>. QED  BY <1>1, <1>6 DEF socketVars

(* The name of a socket that is bound leads to it, until it is robbed.     *)
Bound ==
  /\ state \in [Socks -> {"none", "open", "unlinked", "bound", "listening", "connected"}]
  /\ path \in [Socks -> SockNames \cup {Null}] /\ DOMAIN name = SockNames
  /\ \A s \in Socks :
       /\ state[s] \in {"none", "open", "connected"} => path[s] = Null
       /\ state[s] \in {"unlinked", "bound", "listening"} => path[s] \in SockNames
       /\ state[s] \in {"bound", "listening"} => name[path[s]] = s \/ s \in robbed

LEMMA BoundKept ==
  ASSUME Bound, [Sockets!Next]_socketVars
  PROVE  Bound'
<1>. USE ResourcesAssumption DEF ResourcesAssumption, Bound, Sockets!Becomes,
                               Sockets!SocketsAssumption
<1>1. CASE UNCHANGED <<state, path, name, robbed>>
  BY <1>1
<1>2. ASSUME NEW s \in Socks, Sockets!CreateUnixSocket(s) PROVE Bound'
  BY <1>2 DEF Sockets!CreateUnixSocket
<1>3. ASSUME NEW s \in Socks, Sockets!Bind(s) PROVE Bound'
  BY <1>3 DEF Sockets!Bind
<1>4. ASSUME NEW s \in Socks, Sockets!Listen(s) PROVE Bound'
  BY <1>4 DEF Sockets!Listen
<1>5. ASSUME NEW s \in Socks, Sockets!Close(s) PROVE Bound'
  BY <1>5 DEF Sockets!Close
<1>6. ASSUME NEW n \in SockNames, Sockets!UnlinkFile(n) PROVE Bound'
  BY <1>6 DEF Sockets!UnlinkFile, Sockets!Removed
<1>7. ASSUME NEW n \in SockNames, NEW s \in Socks, Sockets!Unlink(s, n) PROVE Bound'
  BY <1>7 DEF Sockets!Unlink, Sockets!Removed
<1>8. ASSUME NEW n \in SockNames, NEW s \in Socks, Sockets!Connect(s, n) PROVE Bound'
  BY <1>8 DEF Sockets!Connect
<1>9. ASSUME NEW n \in SockNames, NEW s \in Socks, Sockets!ConnectRefused(s, n) PROVE Bound'
  BY <1>9 DEF Sockets!ConnectRefused
<1>10. ASSUME NEW s \in Socks, Sockets!BindFails(s) PROVE Bound'
  BY <1>10 DEF Sockets!BindFails
<1>11. CASE Sockets!Next
  <2>1. ASSUME NEW u, Sockets!Initialize(u) \/ Sockets!InitializeFails(u) \/ Sockets!Terminate(u)
        PROVE  Bound'
    BY <1>1, <2>1 DEF Sockets!Initialize, Sockets!InitializeFails, Sockets!Terminate,
                      Sockets!files
  <2>. QED  BY <1>2, <1>3, <1>4, <1>5, <1>6, <1>7, <1>8, <1>9, <1>10, <1>11, <2>1
            DEF Sockets!Next
<1>. QED  BY <1>1, <1>11 DEF socketVars

(* A client is refused only when nobody listens at the name, or when who   *)
(* does was robbed of it.                                                  *)
THEOREM RefusedForCause == ResourcesSpec => ListenersAreFound
<1>1. ResourcesInit => Bound
  BY DEF ResourcesInit, Sockets!Init, Bound
<1>2. Bound /\ [ResourcesNext]_resourceVars => Bound'
  BY PartSteps, BoundKept
<1>3. Bound /\ [ResourcesNext]_resourceVars =>
        [\A c \in Socks, n \in SockNames :
           Sockets!ConnectRefused(c, n) =>
             \A s \in Socks : state[s] = "listening" /\ path[s] = n => s \in robbed]_(Sockets!vars)
  BY ResourcesAssumption DEF Bound, Sockets!ConnectRefused, Sockets!Listens,
     Sockets!SocketsAssumption, ResourcesAssumption
<1>. QED  BY <1>1, <1>2, <1>3, PTL DEF ResourcesSpec, ListenersAreFound,
                                     Sockets!ListenersAreFound

-----------------------------------------------------------------------------
(* Whole files.                                                            *)

LEMMA LesserOfTwo ==
  ASSUME NEW a \in Nat, NEW b \in Nat
  PROVE  LET m == Files!Min({a, b}) IN m \in {a, b} /\ m <= a /\ m <= b
<1>1. \E x \in {a, b} : \A y \in {a, b} : x <= y
  OBVIOUS
<1>. QED  BY <1>1 DEF Files!Min

LEMMA GreaterOfTwo ==
  ASSUME NEW a \in Nat, NEW b \in Nat
  PROVE  LET m == Files!Max({a, b}) IN m \in {a, b} /\ m >= a /\ m >= b
<1>1. \E x \in {a, b} : \A y \in {a, b} : x >= y
  OBVIOUS
<1>. QED  BY <1>1 DEF Files!Max

(* Whoever is told that it made the file is alone with it, and it is there *)
(* as long as a call may still write to it.                                *)
Claimed ==
  /\ file \in Nat \cup {Null}
  /\ DOMAIN fileCall = Clients /\ DOMAIN got = Clients
  /\ \A c, d \in claim : c = d
  /\ claim # {} => file # Null
  /\ \A c \in Clients :
       /\ fileCall[c].at \in {"writing", "streaming"} =>
            file # Null /\ fileCall[c].length \in Nat
       /\ fileCall[c].at = "reading" =>
            /\ file # Null
            /\ fileCall[c] \in [at : {"reading"}, length : Nat, binary : BOOLEAN, cut : BOOLEAN]
            /\ ~fileCall[c].cut => fileCall[c].length <= file
       /\ got[c].returned # got[c].held => got[c].binary /\ got[c].cut

(* Whoever opens the file to write it cuts it under those who are reading. *)
LEMMA CuttingKeeps ==
  ASSUME Claimed, NEW c \in Clients, NEW w, Files!GoesCutting(c, w),
         w.at # "reading", w.at \in {"writing", "streaming"} => w.length \in Nat,
         file' \in Nat, got' = got, \A d, e \in claim' : d = e
  PROVE  Claimed'
<1>1. \A d \in Clients : fileCall'[d] =
        IF d = c THEN w
        ELSE IF fileCall[d].at = "reading" THEN [fileCall[d] EXCEPT !.cut = TRUE] ELSE fileCall[d]
  BY DEF Files!GoesCutting
<1>2. DOMAIN fileCall' = Clients /\ DOMAIN got' = Clients /\ file' # Null
  BY ResourcesAssumption DEF Claimed, Files!GoesCutting, ResourcesAssumption,
                             Files!FilesAssumption
<1>3. ASSUME NEW d \in Clients
      PROVE  /\ fileCall'[d].at \in {"writing", "streaming"} => fileCall'[d].length \in Nat
             /\ fileCall'[d].at = "reading" =>
                  /\ fileCall'[d] \in
                       [at : {"reading"}, length : Nat, binary : BOOLEAN, cut : BOOLEAN]
                  /\ fileCall'[d].cut
  <2>1. CASE d = c
    BY <1>1, <2>1
  <2>2. CASE d # c /\ fileCall[d].at = "reading"
    BY <1>1, <2>2 DEF Claimed
  <2>3. CASE d # c /\ fileCall[d].at # "reading"
    BY <1>1, <2>3 DEF Claimed
  <2>. QED  BY <2>1, <2>2, <2>3
<1>. QED  BY <1>2, <1>3 DEF Claimed

LEMMA ClaimedKept ==
  ASSUME Claimed, [Files!Next]_fileVars
  PROVE  Claimed'
<1>. USE DEF Claimed
<1>1. Lengths \subseteq Nat /\ Null \notin Nat
  BY ResourcesAssumption DEF ResourcesAssumption, Files!FilesAssumption
<1>2. PICK idle : idle = Files!Idle /\ idle.at = "idle"
  <2>1. Files!Idle.at = "idle"
    BY DEF Files!Idle
  <2>. QED  BY <2>1
<1>3. ASSUME NEW c \in Clients, NEW n \in Lengths, NEW overwrite \in BOOLEAN,
             Files!OpenToWrite(c, n, overwrite)
      PROVE  Claimed'
  <2>1. PICK w : w = [at |-> "writing", length |-> n]
    OBVIOUS
  <2>2. w.at = "writing" /\ w.length = n
    BY <2>1
  <2>3. /\ overwrite \/ file = Null
        /\ file' = 0 /\ claim' = (IF overwrite THEN {} ELSE claim \cup {c})
        /\ Files!GoesCutting(c, w) /\ got' = got
    BY <1>3, <2>1 DEF Files!OpenToWrite
  <2>4. \A d, e \in claim' : d = e
    BY <2>3
  <2>. QED  BY <1>1, <2>2, <2>3, <2>4, CuttingKeeps
<1>4. ASSUME NEW c \in Clients, Files!Write(c) PROVE Claimed'
  <2>1. PICK n \in 0..fileCall[c].length : file' = Files!Max({file, n})
    BY <1>4 DEF Files!Write
  <2>2. /\ fileCall[c].at = "writing" /\ fileCall' = [fileCall EXCEPT ![c] = idle]
        /\ UNCHANGED <<claim, got>>
    BY <1>2, <1>4 DEF Files!Write, Files!Goes
  <2>3. file' \in Nat /\ file' >= file
    BY <2>1, <2>2, GreaterOfTwo
  <2>. QED  BY <1>1, <1>2, <2>2, <2>3
<1>5. ASSUME NEW c \in Clients, NEW n \in Lengths, Files!CheckToStream(c, n) PROVE Claimed'
  <2>1. PICK w : w = [at |-> "checked", length |-> n]
    OBVIOUS
  <2>2. w.at = "checked"
    BY <2>1
  <2>. QED  BY <1>5, <2>1, <2>2 DEF Files!CheckToStream, Files!Goes
<1>6. ASSUME NEW c \in Clients, NEW n \in Lengths, NEW overwrite \in BOOLEAN,
             Files!OpenToStream(c, n, overwrite)
      PROVE  Claimed'
  <2>1. PICK w : w = [at |-> "streaming", length |-> n]
    OBVIOUS
  <2>2. w.at = "streaming" /\ w.length = n
    BY <2>1
  <2>3. /\ file' = 0 /\ claim' = (IF overwrite THEN {} ELSE claim)
        /\ Files!GoesCutting(c, w) /\ got' = got
    BY <1>6, <2>1 DEF Files!OpenToStream
  <2>. QED  BY <1>1, <2>2, <2>3, CuttingKeeps
<1>7. ASSUME NEW c \in Clients, Files!FlushStream(c) PROVE Claimed'
  <2>1. /\ file' \in Nat /\ Files!GoesCutting(c, idle) /\ UNCHANGED <<claim, got>>
    BY <1>2, <1>7 DEF Files!FlushStream
  <2>. QED  BY <1>2, <2>1, CuttingKeeps
<1>8. ASSUME NEW c \in Clients, NEW binary \in BOOLEAN, Files!OpenToRead(c, binary)
      PROVE  Claimed'
  <2>1. CASE file > 0
    <3>1. PICK w : w = [at |-> "reading", length |-> file, binary |-> binary, cut |-> FALSE]
      OBVIOUS
    <3>2. /\ w.at = "reading" /\ w.length = file
          /\ file # Null =>
               w \in [at : {"reading"}, length : Nat, binary : BOOLEAN, cut : BOOLEAN]
      BY <3>1
    <3>3. file # Null /\ fileCall' = [fileCall EXCEPT ![c] = w] /\ UNCHANGED <<file, claim, got>>
      BY <1>8, <2>1, <3>1 DEF Files!OpenToRead, Files!Goes
    <3>. QED  BY <3>2, <3>3
  <2>2. CASE ~(file > 0)
    <3>1. PICK w : w = Files!Nothing(binary)
      OBVIOUS
    <3>2. w.returned = 0 /\ w.held = 0
      BY <3>1 DEF Files!Nothing
    <3>3. got' = [got EXCEPT ![c] = w] /\ UNCHANGED <<file, claim, fileCall>>
      BY <1>8, <2>2, <3>1 DEF Files!OpenToRead
    <3>. QED  BY <3>2, <3>3
  <2>. QED  BY <2>1, <2>2
<1>9. ASSUME NEW c \in Clients, Files!Read(c) PROVE Claimed'
  <2>. DEFINE held == Files!Min({file, fileCall[c].length})
  <2>1. PICK w : w = [binary |-> fileCall[c].binary,
                      returned |-> IF fileCall[c].binary THEN fileCall[c].length ELSE held,
                      held |-> held, cut |-> fileCall[c].cut]
    OBVIOUS
  <2>2. /\ w.held = held /\ w.binary = fileCall[c].binary /\ w.cut = fileCall[c].cut
        /\ w.returned = IF fileCall[c].binary THEN fileCall[c].length ELSE held
    BY <2>1
  <2>3. /\ fileCall[c].at = "reading" /\ got' = [got EXCEPT ![c] = w]
        /\ fileCall' = [fileCall EXCEPT ![c] = idle] /\ UNCHANGED <<file, claim>>
    BY <1>2, <1>9, <2>1 DEF Files!Read, Files!Goes
  <2>4. fileCall[c].length <= file => held = fileCall[c].length
    BY <2>3, LesserOfTwo
  <2>. HIDE DEF held
  <2>5. w.returned # w.held => w.binary /\ w.cut
    BY <2>2, <2>3, <2>4
  <2>. QED  BY <1>2, <2>3, <2>5
<1>10. ASSUME Files!Remove PROVE Claimed'
  BY <1>10 DEF Files!Remove
<1>11. CASE Files!Next
  BY <1>3, <1>4, <1>5, <1>6, <1>7, <1>8, <1>9, <1>10, <1>11 DEF Files!Next
<1>12. CASE UNCHANGED fileVars
  BY <1>12 DEF fileVars
<1>. QED  BY <1>11, <1>12

LEMMA ClaimedInitially == ASSUME ResourcesInit PROVE Claimed
<1>1. PICK idle : idle = Files!Idle
  OBVIOUS
<1>2. PICK nothing : nothing = Files!Nothing(FALSE)
  OBVIOUS
<1>3. /\ file \in Lengths \cup {Null} /\ claim = {}
      /\ fileCall = [c \in Clients |-> idle] /\ got = [c \in Clients |-> nothing]
  BY <1>1, <1>2 DEF ResourcesInit, Files!Init
<1>4. idle.at = "idle" /\ nothing.returned = 0 /\ nothing.held = 0
  BY <1>1, <1>2 DEF Files!Idle, Files!Nothing
<1>5. Lengths \subseteq Nat
  BY ResourcesAssumption DEF ResourcesAssumption, Files!FilesAssumption
<1>. QED  BY <1>3, <1>4, <1>5 DEF Claimed

(* Of the clients that write without overwriting, one at most made the     *)
(* file that is there.                                                     *)
THEOREM OneMadeIt == ResourcesSpec => []OneCreator
<1>1. Claimed /\ [ResourcesNext]_resourceVars => Claimed'
  BY PartSteps, ClaimedKept
<1>2. Claimed => OneCreator
  BY DEF Claimed, OneCreator, Files!OneCreator
<1>. QED  BY <1>1, <1>2, ClaimedInitially, PTL DEF ResourcesSpec

(* What was read is what was found, through the writes of others; when the *)
(* file was cut meanwhile, that is still so of a text.                     *)
THEOREM ReadsAreFound == ResourcesSpec => []FoundUnlessCut
<1>1. Claimed /\ [ResourcesNext]_resourceVars => Claimed'
  BY PartSteps, ClaimedKept
<1>2. Claimed => FoundUnlessCut
  BY DEF Claimed, FoundUnlessCut, Files!FoundUnlessCut
<1>. QED  BY <1>1, <1>2, ClaimedInitially, PTL DEF ResourcesSpec

-----------------------------------------------------------------------------
(* HttpClient.                                                             *)

Options == [method : {"GET", "POST"}, body : ClientSlots \cup {"none", "freed"},
            headers : ClientSlots \cup {"none", "freed"}]

Transfers(s) == request[s].at = "perform"

(* A handle is open if and only if a client has it, and one client alone;  *)
(* during a transfer its pointers are those of the client's own call.      *)
Owned ==
  /\ clients \in [ClientSlots -> [curl : Curls \cup {Null}, code : Nat]]
  /\ DOMAIN curlHandles = Curls /\ DOMAIN request = ClientSlots
  /\ \A s \in ClientSlots : clients[s].code = 0 => clients[s].curl = Null
  /\ \A s, t \in ClientSlots :
       clients[s].curl = clients[t].curl /\ clients[s].curl # Null => s = t
  /\ \A k \in Curls : IF \E s \in ClientSlots : clients[s].curl = k
                      THEN curlHandles[k] \in Options
                      ELSE curlHandles[k] = HttpClient!Closed
  /\ \A s \in ClientSlots : ~Transfers(s) => request[s] = HttpClient!Idle
  /\ \A s \in ClientSlots : Transfers(s) =>
       /\ HttpClient!Live(s)
       /\ clients[s].curl # Null =>
            LET o == curlHandles[clients[s].curl]
            IN  o.headers = s /\ (o.method = "POST" => o.body = s)

LEMMA IdleDoesNotTransfer ==
  ASSUME NEW s, request[s] = HttpClient!Idle
  PROVE  ~Transfers(s)
BY DEF Transfers, HttpClient!Idle

LEMMA CreateOwned ==
  ASSUME Owned, NEW s \in ClientSlots, NEW k \in Curls \cup {Null}, HttpClient!Create(s, k)
  PROVE  Owned'
<1>1. PICK c : c = [curl |-> k, code |-> 500]
  OBVIOUS
<1>2. /\ c \in [curl : Curls \cup {Null}, code : Nat] /\ c.curl = k /\ c.code = 500
  BY <1>1
<1>3. PICK o : o = HttpClient!Fresh
  OBVIOUS
<1>4. o \in Options
  BY <1>3 DEF HttpClient!Fresh, Options
<1>5. /\ clients[s].code = 0 /\ clients' = [clients EXCEPT ![s] = c]
      /\ k # Null => curlHandles[k] = HttpClient!Closed
      /\ curlHandles' = IF k = Null THEN curlHandles ELSE [curlHandles EXCEPT ![k] = o]
      /\ request' = request
  BY <1>1, <1>3 DEF HttpClient!Create, HttpClient!Live, HttpClient!INTERNAL_SERVER_ERROR
<1>6. ~Transfers(s) /\ clients[s].curl = Null
  BY <1>5 DEF Owned, HttpClient!Live
<1>7. HttpClient!Closed \notin Options
  <2>1. HttpClient!Closed.method = "closed"
    BY DEF HttpClient!Closed
  <2>. QED  BY <2>1 DEF Options
<1>8. \A t \in ClientSlots : clients[t].curl # k \/ k = Null
  BY <1>5, <1>7 DEF Owned
<1>9. Null \notin Curls
  BY ResourcesAssumption DEF ResourcesAssumption, HttpClient!HttpClientAssumption
<1>10. /\ clients' \in [ClientSlots -> [curl : Curls \cup {Null}, code : Nat]]
       /\ DOMAIN curlHandles' = Curls /\ DOMAIN request' = ClientSlots
       /\ \A t \in ClientSlots : (clients[t].code = 0 => clients[t].curl = Null)'
  BY <1>2, <1>5 DEF Owned
<1>11. \A t, u \in ClientSlots :
         (clients[t].curl = clients[u].curl /\ clients[t].curl # Null => t = u)'
  BY <1>2, <1>5, <1>8 DEF Owned
<1>12. \A j \in Curls : (IF \E t \in ClientSlots : clients[t].curl = j
                         THEN curlHandles[j] \in Options
                         ELSE curlHandles[j] = HttpClient!Closed)'
  <2>1. SUFFICES ASSUME NEW j \in Curls
                 PROVE  IF \E t \in ClientSlots : clients'[t].curl = j
                        THEN curlHandles'[j] \in Options
                        ELSE curlHandles'[j] = HttpClient!Closed
    BY DEF Options, HttpClient!Closed
  <2>2. CASE j = k
    BY <1>2, <1>4, <1>5, <1>9, <2>2 DEF Owned
  <2>3. CASE j # k
    <3>1. curlHandles'[j] = curlHandles[j]
      BY <1>5, <2>3 DEF Owned
    <3>2. (\E t \in ClientSlots : clients'[t].curl = j)
            <=> (\E t \in ClientSlots : clients[t].curl = j)
      BY <1>2, <1>5, <1>6, <1>9, <2>3 DEF Owned
    <3>. QED  BY <3>1, <3>2 DEF Owned
  <2>. QED  BY <2>2, <2>3
<1>13. \A t \in ClientSlots : (~Transfers(t) => request[t] = HttpClient!Idle)'
  BY <1>5 DEF Owned, Transfers, HttpClient!Idle
<1>14. \A t \in ClientSlots : (Transfers(t) =>
         /\ HttpClient!Live(t)
         /\ clients[t].curl # Null =>
              LET h == curlHandles[clients[t].curl]
              IN  h.headers = t /\ (h.method = "POST" => h.body = t))'
  <2>1. SUFFICES ASSUME NEW t \in ClientSlots, Transfers(t), t # s
                 PROVE  /\ HttpClient!Live(t)'
                        /\ (clients[t].curl # Null =>
                              LET h == curlHandles[clients[t].curl]
                              IN  h.headers = t /\ (h.method = "POST" => h.body = t))'
    BY <1>5, <1>6 DEF Transfers
  <2>2. clients'[t] = clients[t]
    BY <1>5, <2>1 DEF Owned
  <2>3. clients[t].curl # Null => curlHandles'[clients[t].curl] = curlHandles[clients[t].curl]
    BY <1>5, <1>8 DEF Owned
  <2>. QED  BY <2>1, <2>2, <2>3 DEF Owned, HttpClient!Live
<1>. QED  BY <1>10, <1>11, <1>12, <1>13, <1>14 DEF Owned

CleansUp(d) ==
  /\ DOMAIN curlHandles' = Curls
  /\ \A k \in Curls : curlHandles'[k] = IF clients[d].curl = k THEN HttpClient!Closed
                                         ELSE curlHandles[k]

(* What all of destruction and the moves do: the handle of d, if any, is   *)
(* cleaned up, and what s has, if s is another client, is d's from now on. *)
LEMMA HandedOver ==
  ASSUME Owned, NEW d \in ClientSlots, NEW s \in ClientSlots, request' = request,
         ~Transfers(d), ~Transfers(s),
         clients' \in [ClientSlots -> [curl : Curls \cup {Null}, code : Nat]],
         \A t \in ClientSlots \ {d, s} : clients'[t] = clients[t],
         \A t \in ClientSlots : clients'[t].code = 0 => clients'[t].curl = Null,
         clients'[d].curl = IF s = d THEN Null ELSE clients[s].curl,
         s # d => clients'[s].curl = Null,
         CleansUp(d)
  PROVE  Owned'
<1>1. Null \notin Curls
  BY ResourcesAssumption DEF ResourcesAssumption, HttpClient!HttpClientAssumption
<1>2. /\ DOMAIN curlHandles' = Curls
      /\ \A k \in Curls : curlHandles'[k] = IF clients[d].curl = k THEN HttpClient!Closed
                                            ELSE curlHandles[k]
  BY DEF CleansUp
<1>3. \A t, u \in ClientSlots :
         (clients[t].curl = clients[u].curl /\ clients[t].curl # Null => t = u)'
  BY DEF Owned
<1>4. \A k \in Curls : (IF \E t \in ClientSlots : clients[t].curl = k
                        THEN curlHandles[k] \in Options
                        ELSE curlHandles[k] = HttpClient!Closed)'
  <2>1. SUFFICES ASSUME NEW k \in Curls
                 PROVE  IF \E t \in ClientSlots : clients'[t].curl = k
                        THEN curlHandles'[k] \in Options
                        ELSE curlHandles'[k] = HttpClient!Closed
    BY DEF Options, HttpClient!Closed
  <2>2. CASE clients[d].curl = k
    <3>1. \A t \in ClientSlots : clients'[t].curl # k
      BY <1>1, <2>2 DEF Owned
    <3>. QED  BY <1>2, <2>2, <3>1
  <2>3. CASE clients[d].curl # k
    <3>1. (\E t \in ClientSlots : clients'[t].curl = k)
            <=> (\E t \in ClientSlots : clients[t].curl = k)
      BY <1>1, <2>3
    <3>. QED  BY <1>2, <2>3, <3>1 DEF Owned
  <2>. QED  BY <2>2, <2>3
<1>5. \A t \in ClientSlots : (~Transfers(t) => request[t] = HttpClient!Idle)'
  BY DEF Owned, Transfers, HttpClient!Idle
<1>6. \A t \in ClientSlots : (Transfers(t) =>
         /\ HttpClient!Live(t)
         /\ clients[t].curl # Null =>
              LET h == curlHandles[clients[t].curl]
              IN  h.headers = t /\ (h.method = "POST" => h.body = t))'
  <2>1. SUFFICES ASSUME NEW t \in ClientSlots, Transfers(t), t # s, t # d
                 PROVE  /\ HttpClient!Live(t)'
                        /\ (clients[t].curl # Null =>
                              LET h == curlHandles[clients[t].curl]
                              IN  h.headers = t /\ (h.method = "POST" => h.body = t))'
    BY DEF Transfers
  <2>2. clients[t].curl # Null => clients[t].curl # clients[d].curl /\ clients[t].curl \in Curls
    BY <2>1 DEF Owned
  <2>. QED  BY <1>2, <2>1, <2>2 DEF Owned, HttpClient!Live
<1>. QED  BY <1>2, <1>3, <1>4, <1>5, <1>6 DEF Owned

LEMMA DestroyOwned ==
  ASSUME Owned, NEW s \in ClientSlots, HttpClient!Destroy(s)
  PROVE  Owned'
<1>1. PICK c : c = HttpClient!Gone
  OBVIOUS
<1>2. c \in [curl : Curls \cup {Null}, code : Nat] /\ c.curl = Null
  BY <1>1 DEF HttpClient!Gone
<1>3. /\ clients' = [clients EXCEPT ![s] = c] /\ request' = request
      /\ ~Transfers(s) /\ CleansUp(s)
  BY <1>1, IdleDoesNotTransfer DEF HttpClient!Destroy, HttpClient!CleanedUp, CleansUp
<1>4. /\ clients' \in [ClientSlots -> [curl : Curls \cup {Null}, code : Nat]]
      /\ clients'[s].curl = Null /\ \A t \in ClientSlots \ {s} : clients'[t] = clients[t]
  BY <1>2, <1>3 DEF Owned
<1>5. \A t \in ClientSlots : clients'[t].code = 0 => clients'[t].curl = Null
  BY <1>4 DEF Owned
<1>. QED  BY <1>3, <1>4, <1>5, HandedOver

LEMMA MoveOwned ==
  ASSUME Owned, NEW d \in ClientSlots, NEW s \in ClientSlots,
         HttpClient!MoveConstruct(d, s) \/ HttpClient!MoveAssign(d, s)
  PROVE  Owned'
<1>1. /\ d # s /\ request' = request
      /\ clients' = [clients EXCEPT ![d] = clients[s], ![s].curl = Null]
      /\ ~Transfers(s)
  BY IdleDoesNotTransfer DEF HttpClient!MoveConstruct, HttpClient!MoveAssign, HttpClient!Live
<1>2. ~Transfers(d) /\ CleansUp(d)
  <2>1. CASE HttpClient!MoveAssign(d, s)
    BY <2>1, IdleDoesNotTransfer DEF HttpClient!MoveAssign, HttpClient!CleanedUp, CleansUp
  <2>2. CASE HttpClient!MoveConstruct(d, s)
    <3>1. clients[d].code = 0 /\ curlHandles' = curlHandles
      BY <2>2 DEF HttpClient!MoveConstruct, HttpClient!Live
    <3>2. ~Transfers(d) /\ clients[d].curl = Null
      BY <3>1 DEF Owned, HttpClient!Live
    <3>. QED  BY <3>1, <3>2, ResourcesAssumption DEF Owned, CleansUp, ResourcesAssumption,
              HttpClient!HttpClientAssumption
  <2>. QED  BY <2>1, <2>2
<1>3. /\ clients' \in [ClientSlots -> [curl : Curls \cup {Null}, code : Nat]]
      /\ \A t \in ClientSlots \ {d, s} : clients'[t] = clients[t]
      /\ clients'[d] = clients[s] /\ clients'[s].curl = Null
  BY <1>1 DEF Owned
<1>4. \A t \in ClientSlots : clients'[t].code = 0 => clients'[t].curl = Null
  BY <1>3 DEF Owned
<1>. QED  BY <1>1, <1>2, <1>3, <1>4, HandedOver

(* What all of the steps of a request do: s keeps its handle, the others   *)
(* keep all of theirs.                                                     *)
LEMMA OthersKept ==
  ASSUME Owned, NEW s \in ClientSlots, HttpClient!Live(s)',
         clients' \in [ClientSlots -> [curl : Curls \cup {Null}, code : Nat]],
         \A t \in ClientSlots : clients'[t].curl = clients[t].curl,
         \A t \in ClientSlots \ {s} : clients'[t] = clients[t],
         DOMAIN request' = ClientSlots,
         \A t \in ClientSlots \ {s} : request'[t] = request[t],
         ~Transfers(s)' => request'[s] = HttpClient!Idle,
         DOMAIN curlHandles' = Curls,
         \A k \in Curls : clients[s].curl # k => curlHandles'[k] = curlHandles[k],
         clients[s].curl # Null =>
           LET o == curlHandles'[clients[s].curl]
           IN  /\ o \in Options
               /\ Transfers(s)' => o.headers = s /\ (o.method = "POST" => o.body = s)
  PROVE  Owned'
<1>1. Null \notin Curls
  BY ResourcesAssumption DEF ResourcesAssumption, HttpClient!HttpClientAssumption
<1>2. \A t, u \in ClientSlots :
         (clients[t].curl = clients[u].curl /\ clients[t].curl # Null => t = u)'
  BY DEF Owned
<1>3. \A k \in Curls : (IF \E t \in ClientSlots : clients[t].curl = k
                        THEN curlHandles[k] \in Options
                        ELSE curlHandles[k] = HttpClient!Closed)'
  <2>1. SUFFICES ASSUME NEW k \in Curls
                 PROVE  IF \E t \in ClientSlots : clients[t].curl = k
                        THEN curlHandles'[k] \in Options
                        ELSE curlHandles'[k] = HttpClient!Closed
    BY DEF Options, HttpClient!Closed
  <2>. QED  BY <1>1 DEF Owned
<1>4. \A t \in ClientSlots : (~Transfers(t) => request[t] = HttpClient!Idle)'
  <2>1. SUFFICES ASSUME NEW t \in ClientSlots, ~Transfers(t)'
                 PROVE  request'[t] = HttpClient!Idle
    BY DEF HttpClient!Idle
  <2>. QED  BY <2>1 DEF Owned, Transfers
<1>5. \A t \in ClientSlots : (Transfers(t) =>
         /\ HttpClient!Live(t)
         /\ clients[t].curl # Null =>
              LET h == curlHandles[clients[t].curl]
              IN  h.headers = t /\ (h.method = "POST" => h.body = t))'
  <2>1. SUFFICES ASSUME NEW t \in ClientSlots, Transfers(t)'
                 PROVE  /\ HttpClient!Live(t)'
                        /\ (clients[t].curl # Null =>
                              LET h == curlHandles[clients[t].curl]
                              IN  h.headers = t /\ (h.method = "POST" => h.body = t))'
    BY DEF Transfers
  <2>2. CASE t = s
    BY <2>1, <2>2
  <2>3. CASE t # s
    <3>1. Transfers(t) /\ clients'[t] = clients[t]
      BY <2>1, <2>3 DEF Transfers
    <3>2. clients[t].curl # Null => curlHandles'[clients[t].curl] = curlHandles[clients[t].curl]
      BY <2>3 DEF Owned
    <3>. QED  BY <3>1, <3>2 DEF Owned, HttpClient!Live
  <2>. QED  BY <2>2, <2>3
<1>6. \A t \in ClientSlots : (clients[t].code = 0 => clients[t].curl = Null)'
  <2>1. clients'[s].code # 0
    BY DEF HttpClient!Live
  <2>. QED  BY <2>1 DEF Owned
<1>. QED  BY <1>2, <1>3, <1>4, <1>5, <1>6 DEF Owned

LEMMA BeginOwned ==
  ASSUME Owned, NEW s \in ClientSlots, NEW method \in {"GET", "POST"}, NEW json \in BOOLEAN,
         HttpClient!Begin(s, method, json)
  PROVE  Owned'
<1>1. PICK r : r = [at |-> "perform", json |-> json]
  OBVIOUS
<1>2. r.at = "perform"
  BY <1>1
<1>3. /\ HttpClient!Live(s) /\ request' = [request EXCEPT ![s] = r] /\ clients' = clients
      /\ DOMAIN curlHandles' = Curls
      /\ \A k \in Curls : curlHandles'[k] =
           IF clients[s].curl # k THEN curlHandles[k]
           ELSE [IF method = "GET" THEN HttpClient!GetOptions(curlHandles[k])
                 ELSE HttpClient!PostOptions(curlHandles[k], s) EXCEPT !.headers = s]
  BY <1>1 DEF HttpClient!Begin
<1>4. ASSUME clients[s].curl # Null
      PROVE  LET o == curlHandles'[clients[s].curl]
             IN  o \in Options /\ o.headers = s /\ (o.method = "POST" => o.body = s)
  <2>1. PICK k \in Curls : k = clients[s].curl
    BY <1>4 DEF Owned
  <2>2. PICK o \in Options : o = curlHandles[k]
    BY <2>1 DEF Owned
  <2>3. PICK get : get = HttpClient!GetOptions(o)
    OBVIOUS
  <2>4. get \in Options /\ get.method = "GET"
    BY <2>3 DEF HttpClient!GetOptions, Options
  <2>5. PICK post : post = HttpClient!PostOptions(o, s)
    OBVIOUS
  <2>6. post \in Options /\ post.body = s
    BY <2>5 DEF HttpClient!PostOptions, Options
  <2>7. PICK w \in {get, post} : /\ curlHandles'[k] = [w EXCEPT !.headers = s]
                                 /\ w \in Options /\ (w.method = "POST" => w.body = s)
    BY <1>3, <2>1, <2>2, <2>3, <2>4, <2>5, <2>6
  <2>. QED  BY <2>1, <2>7 DEF Options
<1>5. /\ Transfers(s)' /\ DOMAIN request' = ClientSlots
      /\ \A t \in ClientSlots \ {s} : request'[t] = request[t]
  BY <1>2, <1>3 DEF Owned, Transfers
<1>6. HttpClient!Live(s)'
  BY <1>3 DEF HttpClient!Live
<1>7. clients \in [ClientSlots -> [curl : Curls \cup {Null}, code : Nat]]
  BY DEF Owned
<1>. QED  BY <1>3, <1>4, <1>5, <1>6, <1>7, OthersKept

(* The pointers of a handle that is forgotten point nowhere that matters.  *)
LEMMA Forgotten ==
  ASSUME Owned, NEW s \in ClientSlots, curlHandles' = HttpClient!Forget(clients[s].curl)
  PROVE  /\ DOMAIN curlHandles' = Curls
         /\ \A k \in Curls : clients[s].curl # k => curlHandles'[k] = curlHandles[k]
         /\ clients[s].curl # Null => curlHandles'[clients[s].curl] \in Options
<1>1. /\ DOMAIN curlHandles' = Curls
      /\ \A k \in Curls : clients[s].curl # k => curlHandles'[k] = curlHandles[k]
  BY DEF HttpClient!Forget
<1>2. ASSUME clients[s].curl # Null PROVE curlHandles'[clients[s].curl] \in Options
  <2>1. PICK k \in Curls : k = clients[s].curl
    BY <1>2 DEF Owned
  <2>2. PICK o \in Options : o = curlHandles[k]
    BY <2>1 DEF Owned
  <2>3. curlHandles'[k] = [o EXCEPT !.headers = "freed",
                                    !.body = IF @ = "none" THEN @ ELSE "freed"]
    BY <2>1, <2>2 DEF HttpClient!Forget
  <2>. QED  BY <2>1, <2>3 DEF Options
<1>. QED  BY <1>1, <1>2

LEMMA EndOwned ==
  ASSUME Owned, NEW s \in ClientSlots,
         HttpClient!NoResponse(s) \/ \E code \in Codes : HttpClient!Response(s, code)
  PROVE  Owned'
<1>1. PICK idle : idle = HttpClient!Idle
  OBVIOUS
<1>2. idle.at = "idle"
  BY <1>1 DEF HttpClient!Idle
<1>3. /\ Transfers(s) /\ request' = [request EXCEPT ![s] = idle]
      /\ curlHandles' = HttpClient!Forget(clients[s].curl)
  BY <1>1 DEF HttpClient!NoResponse, HttpClient!Response, Transfers
<1>4. /\ clients' \in [ClientSlots -> [curl : Curls \cup {Null}, code : Nat]]
      /\ \A t \in ClientSlots : clients'[t].curl = clients[t].curl
      /\ \A t \in ClientSlots \ {s} : clients'[t] = clients[t]
      /\ HttpClient!Live(s)'
  <2>1. \/ clients' = clients
        \/ \E code \in Nat \ {0} : clients' = [clients EXCEPT ![s].code = code]
    BY ResourcesAssumption DEF HttpClient!NoResponse, HttpClient!Response, ResourcesAssumption,
       HttpClient!HttpClientAssumption
  <2>2. CASE clients' = clients
    BY <1>3, <2>2 DEF Owned, HttpClient!Live
  <2>3. CASE \E code \in Nat \ {0} : clients' = [clients EXCEPT ![s].code = code]
    BY <2>3 DEF Owned, HttpClient!Live
  <2>. QED  BY <2>1, <2>2, <2>3
<1>5. /\ ~Transfers(s)' /\ DOMAIN request' = ClientSlots /\ request'[s] = HttpClient!Idle
      /\ \A t \in ClientSlots \ {s} : request'[t] = request[t]
  BY <1>1, <1>2, <1>3 DEF Owned, Transfers
<1>. QED  BY <1>3, <1>4, <1>5, Forgotten, OthersKept

LEMMA OwnedKept ==
  ASSUME Owned, [HttpClient!Next]_httpVars
  PROVE  Owned'
<1>1. CASE UNCHANGED httpVars
  BY <1>1 DEF httpVars, Owned, Options, Transfers, HttpClient!Closed, HttpClient!Idle,
              HttpClient!Live
<1>. QED  BY <1>1, CreateOwned, DestroyOwned, MoveOwned, BeginOwned, EndOwned
          DEF HttpClient!Next

LEMMA OwnedInitially == ASSUME ResourcesInit PROVE Owned
<1>1. PICK c : c = HttpClient!Gone
  OBVIOUS
<1>2. c \in [curl : Curls \cup {Null}, code : Nat] /\ c.curl = Null
  BY <1>1 DEF HttpClient!Gone
<1>3. /\ clients = [s \in ClientSlots |-> c]
      /\ curlHandles = [k \in Curls |-> HttpClient!Closed]
      /\ request = [s \in ClientSlots |-> HttpClient!Idle]
  BY <1>1 DEF ResourcesInit, HttpClient!Init
<1>4. \A s \in ClientSlots : ~Transfers(s)
  BY <1>3, IdleDoesNotTransfer
<1>5. Null \notin Curls
  BY ResourcesAssumption DEF ResourcesAssumption, HttpClient!HttpClientAssumption
<1>. QED  BY <1>2, <1>3, <1>4, <1>5 DEF Owned

LEMMA OwnedMeansOneClient == ASSUME Owned PROVE HttpClient!OneClient
<1>. DEFINE H(k) == {s \in ClientSlots : HttpClient!Live(s) /\ clients[s].curl = k}
<1>1. ASSUME NEW k \in Curls
      PROVE  Cardinality(H(k)) = IF curlHandles[k] = HttpClient!Closed THEN 0 ELSE 1
  <2>1. HttpClient!Closed \notin Options
    <3>1. HttpClient!Closed.method = "closed"
      BY DEF HttpClient!Closed
    <3>. QED  BY <3>1 DEF Options
  <2>2. k # Null
    BY ResourcesAssumption DEF ResourcesAssumption, HttpClient!HttpClientAssumption
  <2>3. CASE \E s \in ClientSlots : clients[s].curl = k
    <3>1. PICK s \in ClientSlots : clients[s].curl = k
      BY <2>3
    <3>2. H(k) = {s}
      <4>1. HttpClient!Live(s)
        BY <2>2, <3>1 DEF Owned, HttpClient!Live
      <4>2. \A t \in ClientSlots : clients[t].curl = k => t = s
        BY <2>2, <3>1 DEF Owned
      <4>. QED  BY <3>1, <4>1, <4>2
    <3>3. Cardinality({s}) = 1
      BY FS_Singleton
    <3>. QED  BY <2>1, <2>3, <3>2, <3>3 DEF Owned
  <2>4. CASE ~\E s \in ClientSlots : clients[s].curl = k
    <3>1. H(k) = {}
      BY <2>4
    <3>2. Cardinality({}) = 0
      BY FS_EmptySet
    <3>. QED  BY <2>4, <3>1, <3>2 DEF Owned
  <2>. QED  BY <2>3, <2>4
<1>2. \A k \in Curls :
        Cardinality(H(k)) = IF curlHandles[k] = HttpClient!Closed THEN 0 ELSE 1
  BY <1>1
<1>3. \A S : HttpClient!Cardinality(S) = Cardinality(S)
  BY DEF Cardinality, HttpClient!Cardinality
<1>. QED  BY <1>2, <1>3 DEF HttpClient!OneClient

(* A json call parses the body of an answer of its own that said 200.      *)
Parsed == DOMAIN answers = ClientSlots /\ HttpClient!ParsesOwnAnswer

LEMMA ParsedKept ==
  ASSUME Owned, Parsed, [HttpClient!Next]_httpVars
  PROVE  Parsed'
<1>. USE DEF Parsed, HttpClient!ParsesOwnAnswer
<1>1. CASE answers' = answers
  BY <1>1
<1>2. ASSUME NEW s \in ClientSlots, NEW a, answers' = [answers EXCEPT ![s] = a],
             ~a.parsed \/ a.code = 200
      PROVE  Parsed'
  <2>1. \A t \in ClientSlots : answers'[t] = a \/ answers'[t] = answers[t]
    BY <1>2
  <2>. QED  BY <1>2, <2>1 DEF HttpClient!OK
<1>3. ASSUME NEW s \in ClientSlots, HttpClient!NoResponse(s) PROVE Parsed'
  <2>1. PICK a : a = HttpClient!NoAnswer
    OBVIOUS
  <2>2. ~a.parsed
    BY <2>1 DEF HttpClient!NoAnswer
  <2>3. answers' = answers \/ answers' = [answers EXCEPT ![s] = a]
    BY <1>3, <2>1 DEF HttpClient!NoResponse
  <2>. QED  BY <1>1, <1>2, <2>2, <2>3
<1>4. ASSUME NEW s \in ClientSlots, NEW code \in Codes, HttpClient!Response(s, code)
      PROVE  Parsed'
  <2>1. PICK a : a = [code |-> code,
                      parsed |-> code \in 200..299 /\ clients'[s].code = HttpClient!OK]
    OBVIOUS
  <2>2. clients' = [clients EXCEPT ![s].code = code]
    BY <1>4 DEF HttpClient!Response
  <2>3. clients'[s].code = code
    BY <2>2 DEF Owned
  <2>4. ~a.parsed \/ a.code = 200
    BY <2>1, <2>3 DEF HttpClient!OK
  <2>5. answers' = answers \/ answers' = [answers EXCEPT ![s] = a]
    BY <1>4, <2>1, Zenon DEF HttpClient!Response
  <2>. QED  BY <1>1, <1>2, <2>4, <2>5
<1>5. ASSUME NEW s \in ClientSlots,
             \/ \E k \in Curls \cup {Null} : HttpClient!Create(s, k)
             \/ HttpClient!Destroy(s)
             \/ \E d \in ClientSlots : HttpClient!MoveConstruct(d, s) \/ HttpClient!MoveAssign(d, s)
             \/ \E method \in {"GET", "POST"}, json \in BOOLEAN : HttpClient!Begin(s, method, json)
      PROVE  Parsed'
  <2>1. answers' = answers
    BY <1>5, Zenon DEF HttpClient!Create, HttpClient!Destroy, HttpClient!MoveConstruct,
       HttpClient!MoveAssign, HttpClient!Begin
  <2>. QED  BY <1>1, <2>1
<1>6. CASE HttpClient!Next
  BY <1>3, <1>4, <1>5, <1>6, Zenon DEF HttpClient!Next
<1>7. CASE UNCHANGED httpVars
  BY <1>1, <1>7 DEF httpVars
<1>. QED  BY <1>6, <1>7

LEMMA ParsedInitially == ASSUME ResourcesInit PROVE Parsed
<1>1. PICK a : a = HttpClient!NoAnswer
  OBVIOUS
<1>2. ~a.parsed
  BY <1>1 DEF HttpClient!NoAnswer
<1>3. answers = [s \in ClientSlots |-> a]
  BY <1>1 DEF ResourcesInit, HttpClient!Init
<1>. QED  BY <1>2, <1>3 DEF Parsed, HttpClient!ParsesOwnAnswer

(* A transfer uses the body and the headers of its own call only, and a    *)
(* json call parses the answer to its own request only.                    *)
THEOREM RequestsUseOwn == ResourcesSpec => []RequestsAreOwn
<1>1. Owned /\ Parsed /\ [ResourcesNext]_resourceVars => (Owned /\ Parsed)'
  BY PartSteps, OwnedKept, ParsedKept
<1>2. Owned /\ Parsed => RequestsAreOwn
  BY DEF Owned, Parsed, RequestsAreOwn, Transfers, HttpClient!TransferUsesOwn
<1>. QED  BY <1>1, <1>2, OwnedInitially, ParsedInitially, PTL DEF ResourcesSpec

-----------------------------------------------------------------------------
(* DynamicLib.                                                             *)

Holders(l) == {s \in LibrarySlots : handle[s] = l}

(* The loader counts the objects that hold a library, and a function that  *)
(* somebody has is of an object that holds its library.                    *)
Loaded ==
  /\ handle \in [LibrarySlots -> Libs \cup {Null, Libraries!Gone}]
  /\ DOMAIN loads = Libs
  /\ \A l \in Libs : IsFiniteSet(Holders(l)) /\ loads[l] = Cardinality(Holders(l))
  /\ symbols \subseteq [of : LibrarySlots, lib : Libs]
  /\ \A f \in symbols : handle[f.of] = f.lib

LEMMA LibraryNames ==
  Null \notin Libs /\ Libraries!Gone \notin Libs /\ Libraries!Gone # Null
BY ResourcesAssumption DEF ResourcesAssumption, Libraries!LibrariesAssumption

(* An object takes hold of a library, or lets go of it.                    *)
LEMMA OneMore ==
  ASSUME NEW S, IsFiniteSet(S), NEW s, s \notin S
  PROVE  IsFiniteSet(S \cup {s}) /\ Cardinality(S \cup {s}) = Cardinality(S) + 1
BY FS_AddElement

LEMMA OneLess ==
  ASSUME NEW S, IsFiniteSet(S), NEW s \in S
  PROVE  IsFiniteSet(S \ {s}) /\ Cardinality(S \ {s}) = Cardinality(S) - 1
BY FS_RemoveElement

LEMMA LoadKeeps ==
  ASSUME Loaded, NEW s \in LibrarySlots, NEW l \in Libs, Libraries!Load(s, l)
  PROVE  Loaded'
<1>1. /\ handle[s] = Libraries!Gone /\ handle' = [handle EXCEPT ![s] = l]
      /\ loads' = [loads EXCEPT ![l] = @ + 1] /\ symbols' = symbols
  BY DEF Libraries!Load
<1>2. \A m \in Libs : Holders(m)' = IF m = l THEN Holders(m) \cup {s} ELSE Holders(m)
  BY <1>1, LibraryNames DEF Loaded, Holders
<1>3. s \notin Holders(l)
  BY <1>1, LibraryNames DEF Holders
<1>4. \A m \in Libs : IsFiniteSet(Holders(m)') /\ loads'[m] = Cardinality(Holders(m)')
  BY <1>1, <1>2, <1>3, OneMore DEF Loaded
<1>5. \A f \in symbols : handle'[f.of] = f.lib
  BY <1>1, LibraryNames DEF Loaded
<1>. QED  BY <1>1, <1>4, <1>5 DEF Loaded

(* The counts and the symbols once s has let go of what it held.           *)
LEMMA LetGo ==
  ASSUME Loaded, NEW s \in LibrarySlots, NEW l \in Libs
  PROVE  /\ IsFiniteSet(Holders(l) \ {s})
         /\ Libraries!Unloaded(s)[l] = Cardinality(Holders(l) \ {s})
<1>1. CASE handle[s] = l
  <2>1. s \in Holders(l)
    BY <1>1 DEF Holders
  <2>. QED  BY <1>1, <2>1, OneLess DEF Loaded, Libraries!Unloaded
<1>2. CASE handle[s] # l
  <2>1. Holders(l) \ {s} = Holders(l)
    BY <1>2 DEF Holders
  <2>. QED  BY <1>2, <2>1 DEF Loaded, Libraries!Unloaded
<1>. QED  BY <1>1, <1>2

LEMMA LetGoKeeps ==
  ASSUME Loaded, NEW s \in LibrarySlots, Libraries!Unload(s) \/ Libraries!Destroy(s)
  PROVE  Loaded'
<1>1. PICK h \in {Null, Libraries!Gone} :
         /\ handle' = [handle EXCEPT ![s] = h] /\ loads' = Libraries!Unloaded(s)
         /\ symbols' = Libraries!Dropped(s)
  BY DEF Libraries!Unload, Libraries!Destroy
<1>2. \A l \in Libs : Holders(l)' = Holders(l) \ {s}
  BY <1>1, LibraryNames DEF Loaded, Holders
<1>3. \A l \in Libs : IsFiniteSet(Holders(l)') /\ loads'[l] = Cardinality(Holders(l)')
  BY <1>1, <1>2, LetGo
<1>4. DOMAIN loads' = Libs
  BY <1>1 DEF Libraries!Unloaded
<1>5. symbols' \subseteq symbols /\ \A f \in symbols' : f.of # s
  BY <1>1 DEF Libraries!Dropped
<1>. QED  BY <1>1, <1>3, <1>4, <1>5 DEF Loaded

(* What both moves do, the target's library being let go of, if any.       *)
LEMMA MoveKeeps ==
  ASSUME Loaded, NEW d \in LibrarySlots, NEW s \in LibrarySlots,
         Libraries!MoveConstruct(d, s) \/ Libraries!MoveAssign(d, s)
  PROVE  Loaded'
<1>1. d # s /\ handle' = [handle EXCEPT ![d] = handle[s], ![s] = Null]
  BY DEF Libraries!MoveConstruct, Libraries!MoveAssign
<1>2. DOMAIN loads' = Libs /\ \A l \in Libs : loads'[l] = Libraries!Unloaded(d)[l]
  BY LibraryNames DEF Loaded, Libraries!MoveConstruct, Libraries!MoveAssign, Libraries!Unloaded
<1>3. \A f \in symbols' : \E e \in symbols :
        e.of # d /\ f = [e EXCEPT !.of = IF @ = s THEN d ELSE @]
  BY LibraryNames DEF Loaded, Libraries!MoveConstruct, Libraries!MoveAssign, Libraries!Handed,
     Libraries!Dropped
<1>4. ASSUME NEW l \in Libs PROVE IsFiniteSet(Holders(l)') /\ loads'[l] = Cardinality(Holders(l)')
  <2>. DEFINE H == Holders(l) \ {d}
  <2>1. IsFiniteSet(H) /\ loads'[l] = Cardinality(H)
    BY <1>2, LetGo
  <2>2. CASE handle[s] = l
    <3>1. s \in H /\ d \notin H \ {s} /\ Holders(l)' = (H \ {s}) \cup {d}
      BY <1>1, <2>2, LibraryNames DEF Loaded, Holders
    <3>. HIDE DEF H
    <3>2. IsFiniteSet(H \ {s}) /\ Cardinality(H \ {s}) = Cardinality(H) - 1
      BY <2>1, <3>1, OneLess
    <3>3. IsFiniteSet(Holders(l)') /\ Cardinality(Holders(l)') = Cardinality(H \ {s}) + 1
      BY <3>1, <3>2, OneMore
    <3>4. Cardinality(H) \in Nat
      BY <2>1, FS_CardinalityType
    <3>. QED  BY <2>1, <3>2, <3>3, <3>4
  <2>3. CASE handle[s] # l
    <3>1. Holders(l)' = H
      BY <1>1, <2>3, LibraryNames DEF Loaded, Holders
    <3>. QED  BY <2>1, <3>1
  <2>. QED  BY <2>2, <2>3
<1>5. ASSUME NEW f \in symbols'
      PROVE  f \in [of : LibrarySlots, lib : Libs] /\ handle'[f.of] = f.lib
  <2>1. PICK e \in symbols : e.of # d /\ f = [e EXCEPT !.of = IF @ = s THEN d ELSE @]
    BY <1>3
  <2>2. PICK o \in LibrarySlots, l \in Libs : e = [of |-> o, lib |-> l]
    BY <2>1 DEF Loaded
  <2>3. o # d /\ handle[o] = l
    BY <2>1, <2>2 DEF Loaded
  <2>4. f = [of |-> IF o = s THEN d ELSE o, lib |-> l]
    BY <2>1, <2>2
  <2>. QED  BY <1>1, <2>3, <2>4 DEF Loaded
<1>6. handle' \in [LibrarySlots -> Libs \cup {Null, Libraries!Gone}]
  BY <1>1 DEF Loaded
<1>. QED  BY <1>2, <1>4, <1>5, <1>6 DEF Loaded

LEMMA LoadedKept ==
  ASSUME Loaded, [Libraries!Next]_libraryVars
  PROVE  Loaded'
<1>1. CASE UNCHANGED libraryVars
  BY <1>1 DEF libraryVars, Loaded, Holders
<1>2. ASSUME NEW s \in LibrarySlots, Libraries!GetSymbol(s) PROVE Loaded'
  <2>1. PICK f : f = [of |-> s, lib |-> handle[s]]
    OBVIOUS
  <2>2. /\ handle[s] \in Libs /\ symbols' = symbols \cup {f}
        /\ UNCHANGED <<handle, loads>>
    BY <1>2, <2>1 DEF Libraries!GetSymbol
  <2>3. f \in [of : LibrarySlots, lib : Libs] /\ f.of = s /\ f.lib = handle[s]
    BY <2>1, <2>2
  <2>. QED  BY <2>2, <2>3 DEF Loaded, Holders
<1>. QED  BY <1>1, <1>2, LoadKeeps, LetGoKeeps, MoveKeeps DEF Libraries!Next

LEMMA LoadedInitially == ASSUME ResourcesInit PROVE Loaded
<1>1. /\ handle = [s \in LibrarySlots |-> Libraries!Gone] /\ loads = [l \in Libs |-> 0]
      /\ symbols = {}
  BY DEF ResourcesInit, Libraries!Init
<1>2. \A l \in Libs : Holders(l) = {}
  BY <1>1, LibraryNames DEF Holders
<1>3. IsFiniteSet({}) /\ Cardinality({}) = 0
  BY FS_EmptySet
<1>. QED  BY <1>1, <1>2, <1>3 DEF Loaded

LEMMA LoadedMeansCounted ==
  ASSUME Loaded
  PROVE  Libraries!CountsHolders /\ Libraries!SymbolsLive
<1>1. \A S : Libraries!Cardinality(S) = Cardinality(S)
  BY DEF Cardinality, Libraries!Cardinality
<1>2. Libraries!CountsHolders
  BY <1>1 DEF Loaded, Holders, Libraries!CountsHolders
<1>3. ASSUME NEW f \in symbols PROVE loads[f.lib] > 0
  <2>1. f.lib \in Libs /\ f.of \in Holders(f.lib)
    BY DEF Loaded, Holders
  <2>2. Cardinality(Holders(f.lib)) \in Nat /\ Cardinality(Holders(f.lib)) # 0
    BY <2>1, FS_CardinalityType, FS_EmptySet DEF Loaded
  <2>. QED  BY <2>1, <2>2 DEF Loaded
<1>. QED  BY <1>2, <1>3 DEF Libraries!SymbolsLive

-----------------------------------------------------------------------------
(* MemoryMappedRegion.                                                     *)

LEMMA LargerOfTwo ==
  ASSUME NEW a \in Nat, NEW b \in Nat
  PROVE  LET m == Regions!Max({a, b}) IN m \in Nat /\ m >= a /\ m >= b
<1>1. \E x \in {a, b} : \A y \in {a, b} : x >= y
  OBVIOUS
<1>. QED  BY <1>1 DEF Regions!Max

LEMMA RegionNames == MaxEnd \in Nat /\ Null \notin Nat /\ Null \notin RegionAddrs
BY ResourcesAssumption DEF ResourcesAssumption, Regions!RegionsAssumption

(* A handle is on a file that exists, and a mapping lies within one that   *)
(* was not cut.                                                            *)
Inside(m, sizes) == /\ m \in [path : Paths, offset : Nat, size : Nat, cut : BOOLEAN]
                    /\ sizes[m.path] \in Nat
                    /\ m.cut \/ m.offset + m.size <= sizes[m.path]

OnFiles ==
  /\ fileSize \in [Paths -> Nat \cup {Null}] /\ DOMAIN handles = Handles
  /\ \A h \in Handles : handles[h] # Null =>
       handles[h].path \in Paths /\ fileSize[handles[h].path] \in Nat
  /\ \A a \in DOMAIN regionMaps : Inside(regionMaps[a], fileSize)

(* Every mapping is of one region, which knows its size; every region      *)
(* points at a mapping or nowhere.                                         *)
Belongs ==
  /\ DOMAIN regionMaps \subseteq RegionAddrs /\ DOMAIN regions = RegionSlots
  /\ \A r \in RegionSlots : regions[r].ptr # Null =>
       /\ regions[r].ptr \in DOMAIN regionMaps
       /\ regions[r].size = regionMaps[regions[r].ptr].size
  /\ \A a \in DOMAIN regionMaps : \E r \in RegionSlots : regions[r].ptr = a
  /\ \A r, t \in RegionSlots : regions[r].ptr = regions[t].ptr /\ regions[r].ptr # Null => r = t

LEMMA ReleasedIsRest ==
  ASSUME NEW r
  PROVE  /\ DOMAIN Regions!Released(r) = DOMAIN regionMaps \ {regions[r].ptr}
         /\ \A a \in DOMAIN Regions!Released(r) : Regions!Released(r)[a] = regionMaps[a]
BY DEF Regions!Released, Regions!Restrict

(* A file that grows breaks nothing, and releasing a mapping neither.      *)
LEMMA Growth ==
  ASSUME OnFiles, NEW p \in Paths, fileSize[p] \in Nat, NEW end \in Nat
  PROVE  LET sizes == Regions!Grown(p, end)
         IN  /\ sizes \in [Paths -> Nat \cup {Null}] /\ sizes[p] \in Nat /\ sizes[p] >= end
             /\ \A q \in Paths : fileSize[q] \in Nat => sizes[q] \in Nat /\ sizes[q] >= fileSize[q]
<1>1. PICK m \in Nat : m = Regions!Max({fileSize[p], end}) /\ m >= fileSize[p] /\ m >= end
  BY LargerOfTwo
<1>2. Regions!Grown(p, end) = [fileSize EXCEPT ![p] = m]
  BY <1>1 DEF Regions!Grown
<1>. QED  BY <1>1, <1>2 DEF OnFiles

LEMMA OpenKeepsFiles ==
  ASSUME OnFiles, NEW h \in Handles, NEW p \in Paths, NEW access \in Regions!Accesses,
         NEW mode \in Regions!Modes, Regions!Open(h, p, access, mode)
  PROVE  /\ OnFiles' /\ DOMAIN regionMaps' = DOMAIN regionMaps
         /\ \A a \in DOMAIN regionMaps : regionMaps'[a].size = regionMaps[a].size
<1>1. PICK o : o = [path |-> p, access |-> access]
  OBVIOUS
<1>2. o.path = p /\ handles' = [handles EXCEPT ![h] = o]
  BY <1>1 DEF Regions!Open
<1>3. PICK n \in Nat :
        /\ fileSize' = [fileSize EXCEPT ![p] = n]
        /\ Regions!Truncates(mode) \/ n = fileSize[p] \/ fileSize[p] = Null
  <2>1. fileSize' = [fileSize EXCEPT ![p] = IF fileSize[p] = Null \/ Regions!Truncates(mode)
                                            THEN 0 ELSE fileSize[p]]
    BY DEF Regions!Open
  <2>2. fileSize[p] \in Nat \/ fileSize[p] = Null
    BY DEF OnFiles
  <2>. QED  BY <2>1, <2>2
<1>4. /\ fileSize' \in [Paths -> Nat \cup {Null}]
      /\ \A q \in Paths : fileSize[q] \in Nat => fileSize'[q] \in Nat
      /\ fileSize'[p] \in Nat /\ \A q \in Paths \ {p} : fileSize'[q] = fileSize[q]
  BY <1>3 DEF OnFiles
<1>5. DOMAIN regionMaps' = DOMAIN regionMaps
  BY DEF Regions!Open
<1>6. ASSUME NEW a \in DOMAIN regionMaps
      PROVE  Inside(regionMaps'[a], fileSize') /\ regionMaps'[a].size = regionMaps[a].size
  <2>1. PICK m : m = regionMaps[a]
    OBVIOUS
  <2>2. PICK n1 : n1 = regionMaps'[a]
    OBVIOUS
  <2>3. /\ m \in [path : Paths, offset : Nat, size : Nat, cut : BOOLEAN]
        /\ fileSize[m.path] \in Nat /\ (m.cut \/ m.offset + m.size <= fileSize[m.path])
    BY <1>6, <2>1 DEF OnFiles, Inside
  <2>4. n1 = IF Regions!Truncates(mode) THEN [m EXCEPT !.cut = m.cut \/ m.path = p] ELSE m
    BY <1>6, <2>1, <2>2 DEF Regions!Open
  <2>5. /\ n1 \in [path : Paths, offset : Nat, size : Nat, cut : BOOLEAN]
        /\ n1.path = m.path /\ n1.offset = m.offset /\ n1.size = m.size
        /\ n1.cut = (m.cut \/ (Regions!Truncates(mode) /\ m.path = p))
    BY <2>3, <2>4
  <2>6. m.path # p => fileSize'[m.path] = fileSize[m.path]
    BY <1>4, <2>3
  <2>7. m.path = p /\ ~Regions!Truncates(mode) => fileSize'[m.path] = fileSize[m.path]
    BY <1>3, <1>4, <2>3, RegionNames DEF OnFiles
  <2>8. fileSize'[n1.path] \in Nat /\ (n1.cut \/ n1.offset + n1.size <= fileSize'[n1.path])
    BY <1>4, <2>3, <2>5, <2>6, <2>7
  <2>. QED  BY <2>1, <2>2, <2>5, <2>8 DEF Inside
<1>7. \A g \in Handles : handles'[g] # Null =>
        handles'[g].path \in Paths /\ fileSize'[handles'[g].path] \in Nat
  BY <1>2, <1>4 DEF OnFiles
<1>8. \A a \in DOMAIN regionMaps' : Inside(regionMaps[a], fileSize)'
  BY <1>5, <1>6 DEF Inside
<1>. QED  BY <1>2, <1>4, <1>5, <1>6, <1>7, <1>8 DEF OnFiles

(* The steps that only release mappings, or that make a file grow first.   *)
LEMMA FewerOnFiles ==
  ASSUME OnFiles, DOMAIN handles' = Handles,
         \A h \in Handles : handles'[h] # Null => handles'[h] = handles[h],
         \A a \in DOMAIN regionMaps' : a \in DOMAIN regionMaps /\ regionMaps'[a] = regionMaps[a],
         \/ fileSize' = fileSize
         \/ \E p \in Paths, end \in Nat : fileSize[p] \in Nat /\ fileSize' = Regions!Grown(p, end)
  PROVE  OnFiles'
<1>1. /\ fileSize' \in [Paths -> Nat \cup {Null}]
      /\ \A q \in Paths : fileSize[q] \in Nat => fileSize'[q] \in Nat /\ fileSize'[q] >= fileSize[q]
  BY Growth DEF OnFiles
<1>2. \A a \in DOMAIN regionMaps' : Inside(regionMaps[a], fileSize)'
  BY <1>1 DEF OnFiles, Inside
<1>3. \A h \in Handles : handles'[h] # Null =>
        handles'[h].path \in Paths /\ fileSize'[handles'[h].path] \in Nat
  BY <1>1 DEF OnFiles
<1>. QED  BY <1>1, <1>2, <1>3 DEF OnFiles

(* Unmapping, and a map that fails: r points nowhere from now on.          *)
LEMMA UnmapBelongs ==
  ASSUME Belongs, NEW r \in RegionSlots, regionMaps' = Regions!Released(r),
         regions' = [regions EXCEPT ![r] = Regions!Unmapped]
  PROVE  Belongs'
<1>1. PICK u : u = Regions!Unmapped
  OBVIOUS
<1>2. u.ptr = Null
  BY <1>1 DEF Regions!Unmapped
<1>3. /\ DOMAIN regions' = RegionSlots /\ regions'[r] = u
      /\ \A t \in RegionSlots \ {r} : regions'[t] = regions[t]
  BY <1>1 DEF Belongs
<1>4. /\ DOMAIN regionMaps' = DOMAIN regionMaps \ {regions[r].ptr}
      /\ \A a \in DOMAIN regionMaps' : regionMaps'[a] = regionMaps[a]
  BY ReleasedIsRest
<1>5. \A t \in RegionSlots : regions'[t].ptr # Null =>
        /\ regions'[t].ptr \in DOMAIN regionMaps'
        /\ regions'[t].size = regionMaps'[regions'[t].ptr].size
  BY <1>2, <1>3, <1>4 DEF Belongs
<1>6. \A b \in DOMAIN regionMaps' : \E t \in RegionSlots : regions'[t].ptr = b
  BY <1>3, <1>4 DEF Belongs
<1>7. \A t, v \in RegionSlots :
        regions'[t].ptr = regions'[v].ptr /\ regions'[t].ptr # Null => t = v
  BY <1>2, <1>3 DEF Belongs
<1>. QED  BY <1>3, <1>4, <1>5, <1>6, <1>7 DEF Belongs

LEMMA MapKeeps ==
  ASSUME OnFiles, Belongs, NEW r \in RegionSlots, NEW h \in Handles,
         NEW offset \in 0..MaxEnd, NEW n \in 0..MaxEnd, NEW a \in RegionAddrs,
         Regions!Map(r, h, offset, n, a)
  PROVE  OnFiles' /\ Belongs'
<1>1. PICK p : p = handles[h].path
  OBVIOUS
<1>2. PICK m : m = [path |-> p, offset |-> offset, size |-> n, cut |-> FALSE]
  OBVIOUS
<1>3. PICK w : w = [ptr |-> a, size |-> n]
  OBVIOUS
<1>4. /\ m.path = p /\ m.offset = offset /\ m.size = n /\ m.cut = FALSE
      /\ w.ptr = a /\ w.size = n
  BY <1>2, <1>3
<1>5. /\ handles[h] # Null /\ fileSize' = Regions!Grown(p, offset + n)
      /\ a \notin DOMAIN Regions!Released(r)
      /\ regionMaps' = Regions!With(Regions!Released(r), a, m)
      /\ regions' = [regions EXCEPT ![r] = w] /\ handles' = handles
  BY <1>1, <1>2, <1>3 DEF Regions!Map
<1>6. p \in Paths /\ fileSize[p] \in Nat /\ offset + n \in Nat
  BY <1>1, <1>5, RegionNames DEF OnFiles
<1>7. /\ fileSize' \in [Paths -> Nat \cup {Null}]
      /\ fileSize'[p] \in Nat /\ fileSize'[p] >= offset + n
      /\ \A q \in Paths : fileSize[q] \in Nat => fileSize'[q] \in Nat /\ fileSize'[q] >= fileSize[q]
  BY <1>5, <1>6, Growth
<1>8. /\ DOMAIN regionMaps' = (DOMAIN regionMaps \ {regions[r].ptr}) \cup {a}
      /\ regionMaps'[a] = m
      /\ \A b \in DOMAIN regionMaps' \ {a} : regionMaps'[b] = regionMaps[b]
  BY <1>5, ReleasedIsRest DEF Regions!With
<1>9. ASSUME NEW b \in DOMAIN regionMaps' PROVE Inside(regionMaps'[b], fileSize')
  <2>1. CASE b = a
    <3>1. m \in [path : Paths, offset : Nat, size : Nat, cut : BOOLEAN]
      BY <1>2, <1>6, RegionNames
    <3>. QED  BY <1>4, <1>6, <1>7, <1>8, <2>1, <3>1, RegionNames DEF Inside
  <2>2. CASE b # a
    BY <1>7, <1>8, <2>2 DEF OnFiles, Inside
  <2>. QED  BY <2>1, <2>2
<1>10. OnFiles'
  <2>1. \A g \in Handles : handles'[g] # Null =>
          handles'[g].path \in Paths /\ fileSize'[handles'[g].path] \in Nat
    BY <1>5, <1>7 DEF OnFiles
  <2>2. \A b \in DOMAIN regionMaps' : Inside(regionMaps[b], fileSize)'
    BY <1>9 DEF Inside
  <2>. QED  BY <1>5, <1>7, <2>1, <2>2 DEF OnFiles
<1>11. /\ DOMAIN regions' = RegionSlots /\ regions'[r] = w
       /\ \A t \in RegionSlots \ {r} : regions'[t] = regions[t]
  BY <1>5 DEF Belongs
<1>12. a \notin DOMAIN regionMaps \ {regions[r].ptr}
  BY <1>5, ReleasedIsRest
<1>13. Belongs'
  <2>1. \A t \in RegionSlots \ {r} : regions[t].ptr # Null => regions[t].ptr # a
    BY <1>12 DEF Belongs
  <2>2. \A t \in RegionSlots : regions'[t].ptr # Null =>
          /\ regions'[t].ptr \in DOMAIN regionMaps'
          /\ regions'[t].size = regionMaps'[regions'[t].ptr].size
    BY <1>4, <1>8, <1>11, <2>1 DEF Belongs
  <2>3. \A b \in DOMAIN regionMaps' : \E t \in RegionSlots : regions'[t].ptr = b
    BY <1>4, <1>8, <1>11 DEF Belongs
  <2>4. \A t, v \in RegionSlots :
          regions'[t].ptr = regions'[v].ptr /\ regions'[t].ptr # Null => t = v
    BY <1>4, <1>11, <2>1 DEF Belongs
  <2>5. DOMAIN regionMaps' \subseteq RegionAddrs
    BY <1>8 DEF Belongs
  <2>. QED  BY <1>11, <2>2, <2>3, <2>4, <2>5 DEF Belongs
<1>. QED  BY <1>10, <1>13

LEMMA RegionMoveBelongs ==
  ASSUME Belongs, NEW d \in RegionSlots, NEW s \in RegionSlots, Regions!MoveAssign(d, s)
  PROVE  Belongs'
<1>1. PICK u : u = Regions!Unmapped
  OBVIOUS
<1>2. u.ptr = Null
  BY <1>1 DEF Regions!Unmapped
<1>3. /\ d # s /\ regionMaps' = Regions!Released(d)
      /\ regions' = [regions EXCEPT ![d] = regions[s], ![s] = u]
  BY <1>1 DEF Regions!MoveAssign
<1>4. /\ DOMAIN regions' = RegionSlots /\ regions'[d] = regions[s] /\ regions'[s] = u
      /\ \A t \in RegionSlots \ {d, s} : regions'[t] = regions[t]
  BY <1>3 DEF Belongs
<1>5. /\ DOMAIN regionMaps' = DOMAIN regionMaps \ {regions[d].ptr}
      /\ \A a \in DOMAIN regionMaps' : regionMaps'[a] = regionMaps[a]
  BY <1>3, ReleasedIsRest
<1>6. \A t \in RegionSlots : regions'[t].ptr # Null =>
        /\ regions'[t].ptr \in DOMAIN regionMaps'
        /\ regions'[t].size = regionMaps'[regions'[t].ptr].size
  BY <1>2, <1>3, <1>4, <1>5 DEF Belongs
<1>7. \A b \in DOMAIN regionMaps' : \E t \in RegionSlots : regions'[t].ptr = b
  BY <1>3, <1>4, <1>5 DEF Belongs
<1>8. \A t, v \in RegionSlots :
        regions'[t].ptr = regions'[v].ptr /\ regions'[t].ptr # Null => t = v
  BY <1>2, <1>4 DEF Belongs
<1>. QED  BY <1>4, <1>5, <1>6, <1>7, <1>8 DEF Belongs

LEMMA RegionsKept ==
  ASSUME OnFiles, Belongs, [Regions!Next]_regionVars
  PROVE  OnFiles' /\ Belongs'
<1>1. CASE UNCHANGED regionVars
  BY <1>1 DEF regionVars, OnFiles, Belongs, Inside
<1>2. ASSUME NEW h \in Handles, NEW p \in Paths, NEW access \in Regions!Accesses,
             NEW mode \in Regions!Modes, Regions!Open(h, p, access, mode)
      PROVE  OnFiles' /\ Belongs'
  <2>1. /\ OnFiles' /\ DOMAIN regionMaps' = DOMAIN regionMaps
        /\ \A a \in DOMAIN regionMaps : regionMaps'[a].size = regionMaps[a].size
    BY <1>2, OpenKeepsFiles
  <2>2. regions' = regions
    BY <1>2 DEF Regions!Open
  <2>. QED  BY <2>1, <2>2 DEF Belongs
<1>3. ASSUME NEW h \in Handles, Regions!Close(h) PROVE OnFiles' /\ Belongs'
  <2>1. /\ handles' = [handles EXCEPT ![h] = Null] /\ UNCHANGED <<fileSize, regionMaps, regions>>
    BY <1>3 DEF Regions!Close
  <2>. QED  BY <2>1, FewerOnFiles DEF OnFiles, Belongs
<1>4. ASSUME NEW r \in RegionSlots, Regions!Unmap(r) PROVE OnFiles' /\ Belongs'
  <2>1. /\ regionMaps' = Regions!Released(r) /\ UNCHANGED <<fileSize, handles>>
        /\ regions' = [regions EXCEPT ![r] = Regions!Unmapped]
    BY <1>4 DEF Regions!Unmap
  <2>2. OnFiles'
    BY <2>1, ReleasedIsRest, FewerOnFiles DEF OnFiles
  <2>. QED  BY <2>1, <2>2, UnmapBelongs
<1>5. ASSUME NEW r \in RegionSlots, NEW h \in Handles, NEW offset \in 0..MaxEnd,
             NEW n \in 0..MaxEnd, Regions!MapFails(r, h, offset, n)
      PROVE  OnFiles' /\ Belongs'
  <2>1. /\ regionMaps' = Regions!Released(r) /\ handles' = handles
        /\ regions' = [regions EXCEPT ![r] = Regions!Unmapped]
        /\ \/ fileSize' = fileSize
           \/ handles[h] # Null /\ fileSize' = Regions!Grown(handles[h].path, offset + n)
    BY <1>5 DEF Regions!MapFails
  <2>2. offset + n \in Nat
    BY RegionNames
  <2>3. OnFiles'
    BY <2>1, <2>2, ReleasedIsRest, FewerOnFiles DEF OnFiles
  <2>. QED  BY <2>1, <2>3, UnmapBelongs
<1>6. ASSUME NEW d \in RegionSlots, NEW s \in RegionSlots, Regions!MoveAssign(d, s)
      PROVE  OnFiles' /\ Belongs'
  <2>1. /\ regionMaps' = Regions!Released(d) /\ UNCHANGED <<fileSize, handles>>
    BY <1>6 DEF Regions!MoveAssign
  <2>2. OnFiles'
    BY <2>1, ReleasedIsRest, FewerOnFiles DEF OnFiles
  <2>. QED  BY <1>6, <2>2, RegionMoveBelongs
<1>. QED  BY <1>1, <1>2, <1>3, <1>4, <1>5, <1>6, MapKeeps DEF Regions!Next

LEMMA RegionsInitially == ASSUME ResourcesInit PROVE OnFiles /\ Belongs
<1>1. PICK u : u = Regions!Unmapped
  OBVIOUS
<1>2. u.ptr = Null
  BY <1>1 DEF Regions!Unmapped
<1>3. /\ fileSize \in [Paths -> {Null, 0, MaxEnd}] /\ handles = [h \in Handles |-> Null]
      /\ DOMAIN regionMaps = {} /\ regions = [r \in RegionSlots |-> u]
  BY <1>1 DEF ResourcesInit, Regions!Init
<1>. QED  BY <1>2, <1>3, RegionNames DEF OnFiles, Belongs

LEMMA BelongsToOne == ASSUME Belongs PROVE Regions!OneRegion
<1>. DEFINE H(a) == {r \in RegionSlots : regions[r].ptr = a}
<1>1. \A S : Regions!Cardinality(S) = Cardinality(S)
  BY DEF Cardinality, Regions!Cardinality
<1>2. ASSUME NEW a \in DOMAIN regionMaps PROVE Cardinality(H(a)) = 1
  <2>1. PICK r \in RegionSlots : regions[r].ptr = a
    BY DEF Belongs
  <2>2. H(a) = {r}
    BY <2>1, RegionNames DEF Belongs
  <2>. QED  BY <2>2, FS_Singleton
<1>3. \A a \in DOMAIN regionMaps : Cardinality(H(a)) = 1
  BY <1>2
<1>4. \A a \in DOMAIN regionMaps, r \in RegionSlots :
        regions[r].ptr = a => regions[r].size = regionMaps[a].size
  BY RegionNames DEF Belongs
<1>. QED  BY <1>1, <1>3, <1>4 DEF Regions!OneRegion

(* What is behind a mapping, of a table's or of a region's, stays as large *)
(* as the mapping, whoever grows it, removes it or makes another of its    *)
(* name, unless the mapping's caller asked for more than there was, or     *)
(* somebody cut what is behind it.                                         *)
THEOREM AllMappingsBacked == ResourcesSpec => []EveryMappingIsBacked
<1>1. ResourcesInit => Tables /\ Sized /\ OnFiles /\ Belongs
  BY TablesInitially, SizedInitially, RegionsInitially DEF ResourcesInit
<1>2. Tables /\ Sized /\ OnFiles /\ Belongs /\ [ResourcesNext]_resourceVars
        => (Tables /\ Sized /\ OnFiles /\ Belongs)'
  BY PartSteps, TablesKept, SizedKept, RegionsKept, ResourcesAssumption DEF ResourcesAssumption
<1>3. Sized => Backed
  BY SizedMeansBacked
<1>4. OnFiles => Regions!WithinFile
  BY RegionNames DEF OnFiles, Inside, Regions!WithinFile
<1>. QED  BY <1>1, <1>2, <1>3, <1>4, PTL DEF ResourcesSpec, EveryMappingIsBacked

-----------------------------------------------------------------------------
(* StreamReader.                                                           *)

LEMMA ReaderNames ==
  /\ Word \in Nat \ {0} /\ ReaderSizes \subseteq Nat /\ Amounts \subseteq Nat
  /\ Caller \notin Blocks /\ Null \notin Blocks /\ Null # Caller
BY ResourcesAssumption DEF ResourcesAssumption, Readers!ReadersAssumption

ReaderObjects == [type : {"OwningMmap", "OwningVector", "NonOwning"},
             data : Blocks \cup {Caller, Null}, cursor : Nat, size : Nat,
             vec : Blocks \cup {Null}]

(* The block that a reader is to release.                                  *)
Own(r) == IF r.type \in {"OwningMmap", "OwningVector"} THEN r.data ELSE Null

(* What a reader knows of the blocks.                                      *)
Sound(r, heap) ==
  \/ r = Readers!Gone
  \/ /\ r \in ReaderObjects /\ (r.size > 0 => r.cursor <= r.size)
     /\ r.type = "NonOwning" => r.vec = Null /\ r.data \in {Caller, Null}
     /\ r.type = "OwningMmap" => r.vec = Null /\ heap[r.data].kind = "map"
     /\ r.type = "OwningVector" => r.vec = r.data /\ heap[r.data].kind = "vector"
     /\ r.type # "NonOwning" => r.data \in Blocks
     /\ r.type # "NonOwning" \/ r.size > 0 =>
          r.data \in DOMAIN heap /\ heap[r.data].size = r.size

(* Every block but the caller's is one reader's to release.                *)
Reading ==
  /\ DOMAIN live \subseteq Blocks \cup {Caller} /\ Caller \in DOMAIN live
  /\ live[Caller].size \in Nat
  /\ DOMAIN readers = ReaderSlots
  /\ \A s \in ReaderSlots : Sound(readers[s], live)
  /\ \A a \in DOMAIN live \ {Caller} : \E s \in ReaderSlots : Own(readers[s]) = a
  /\ \A s, t \in ReaderSlots :
       Own(readers[s]) = Own(readers[t]) /\ Own(readers[s]) # Null => s = t

LEMMA GoneReader ==
  Readers!Gone.type = "gone" /\ Own(Readers!Gone) = Null /\ Readers!Gone \notin ReaderObjects
<1>1. Readers!Gone.type = "gone"
  BY DEF Readers!Gone
<1>. QED  BY <1>1 DEF Own, ReaderObjects

(* A reader is as sound where its own block, and what it points at, stay.  *)
LEMMA SoundStays ==
  ASSUME NEW r, NEW heap, NEW then, Sound(r, heap), Caller \in DOMAIN then,
         DOMAIN heap \subseteq Blocks \cup {Caller}, then[Caller] = heap[Caller],
         Own(r) # Null => Own(r) \in DOMAIN then /\ then[Own(r)] = heap[Own(r)]
  PROVE  Sound(r, then)
<1>1. CASE r = Readers!Gone
  BY <1>1 DEF Sound
<1>2. CASE r \in ReaderObjects /\ r.type = "NonOwning"
  BY <1>2, GoneReader, ReaderNames DEF Sound
<1>3. CASE r \in ReaderObjects /\ r.type # "NonOwning"
  <2>1. Own(r) = r.data /\ r.data \in Blocks
    BY <1>3, GoneReader DEF Own, ReaderObjects, Sound
  <2>. QED  BY <1>3, <2>1, GoneReader, ReaderNames DEF Sound
<1>. QED  BY <1>1, <1>2, <1>3 DEF Sound

(* What is left when d's block is released.                                *)
LEMMA HeapWithout ==
  ASSUME Reading, NEW d \in ReaderSlots, readers[d] # Readers!Gone
  PROVE  LET then == Readers!Free(Readers!Release(live, readers[d]), {readers[d].vec})
         IN  /\ DOMAIN then = DOMAIN live \ {Own(readers[d])}
             /\ \A a \in DOMAIN then : then[a] = live[a]
<1>1. PICK r \in ReaderObjects : r = readers[d] /\ Sound(r, live)
  BY DEF Reading, Sound
<1>2. Null \notin DOMAIN live
  BY ReaderNames DEF Reading
<1>. USE DEF Readers!Free, Readers!Restrict, Readers!Release
<1>3. CASE r.type = "NonOwning"
  BY <1>1, <1>2, <1>3, GoneReader DEF Sound, Own
<1>4. CASE r.type = "OwningVector"
  BY <1>1, <1>2, <1>4, GoneReader DEF Sound, Own
<1>5. CASE r.type = "OwningMmap"
  <2>1. /\ r.vec = Null /\ r.data \in DOMAIN live /\ live[r.data].kind = "map"
        /\ Own(r) = r.data
    BY <1>1, <1>5, GoneReader DEF Sound, Own
  <2>2. Readers!Release(live, r) = Readers!Free(live, {r.data})
    BY <1>5, <2>1 DEF Readers!UnmapFile
  <2>. QED  BY <1>1, <1>2, <2>1, <2>2
<1>. QED  BY <1>1, <1>3, <1>4, <1>5 DEF ReaderObjects

(* What destruction and the moves do: d's block goes, and s's, if s is     *)
(* another reader, is d's from now on.                                     *)
LEMMA BlockHandedOver ==
  ASSUME Reading, NEW d \in ReaderSlots, NEW s \in ReaderSlots,
         DOMAIN live' = DOMAIN live \ {Own(readers[d])},
         \A a \in DOMAIN live' : live'[a] = live[a],
         DOMAIN readers' = ReaderSlots,
         \A t \in ReaderSlots \ {d, s} : readers'[t] = readers[t],
         Sound(readers'[s], live'), Own(readers'[s]) = Null,
         s # d => readers'[d] = readers[s]
  PROVE  Reading'
<1>1. /\ Caller \in DOMAIN live' /\ live'[Caller].size \in Nat
      /\ live'[Caller] = live[Caller] /\ DOMAIN live' \subseteq Blocks \cup {Caller}
  <2>1. Own(readers[d]) # Caller
    BY ReaderNames, GoneReader DEF Reading, Sound, Own, ReaderObjects
  <2>. QED  BY <2>1 DEF Reading
<1>2. ASSUME NEW t \in ReaderSlots, t # d
      PROVE  Sound(readers[t], live')
  <2>1. Own(readers[t]) # Null =>
          Own(readers[t]) \in DOMAIN live /\ Own(readers[t]) # Own(readers[d])
    BY <1>2, GoneReader DEF Reading, Sound, Own, ReaderObjects
  <2>. QED  BY <1>1, <2>1, SoundStays DEF Reading
<1>3. \A t \in ReaderSlots : Sound(readers'[t], live')
  BY <1>2
<1>4. \A a \in DOMAIN live' \ {Caller} : \E t \in ReaderSlots : Own(readers'[t]) = a
  <2>1. SUFFICES ASSUME NEW a \in DOMAIN live' \ {Caller}
                 PROVE  \E t \in ReaderSlots : Own(readers'[t]) = a
    OBVIOUS
  <2>2. PICK t \in ReaderSlots : Own(readers[t]) = a /\ t # d
    BY DEF Reading
  <2>. QED  BY <2>2
<1>5. \A t, u \in ReaderSlots :
        Own(readers'[t]) = Own(readers'[u]) /\ Own(readers'[t]) # Null => t = u
  BY DEF Reading
<1>6. (\A t \in ReaderSlots : Sound(readers[t], live))'
  BY <1>3 DEF Sound, ReaderObjects, Readers!Gone
<1>7. /\ (\A a \in DOMAIN live \ {Caller} : \E t \in ReaderSlots : Own(readers[t]) = a)'
      /\ (\A t, u \in ReaderSlots :
             Own(readers[t]) = Own(readers[u]) /\ Own(readers[t]) # Null => t = u)'
  BY <1>4, <1>5 DEF Own
<1>. QED  BY <1>1, <1>6, <1>7 DEF Reading

LEMMA MovedReader ==
  ASSUME NEW r, NEW heap, Sound(r, heap), r # Readers!Gone
  PROVE  /\ Readers!Moved(r) = r
         /\ Own(Readers!MovedFrom(r)) = Null /\ \A then : Sound(Readers!MovedFrom(r), then)
<1>1. r \in ReaderObjects
  BY DEF Sound
<1>2. PICK m : m = Readers!MovedFrom(r)
  OBVIOUS
<1>3. m \in ReaderObjects /\ m.type = "NonOwning" /\ m.data = Null /\ m.size = 0 /\ m.vec = Null
  BY <1>1, <1>2 DEF Readers!MovedFrom, Readers!NoVector, ReaderObjects
<1>4. Own(m) = Null /\ \A then : Sound(m, then)
  BY <1>3 DEF Own, Sound
<1>5. Readers!Moved(r) = r
  BY <1>1, GoneReader DEF Readers!Moved, Sound, ReaderObjects
<1>. QED  BY <1>2, <1>4, <1>5

LEMMA DestroyReads ==
  ASSUME Reading, NEW s \in ReaderSlots, Readers!Destroy(s)
  PROVE  Reading'
<1>1. /\ readers[s] # Readers!Gone /\ readers' = [readers EXCEPT ![s] = Readers!Gone]
      /\ live' = Readers!Free(Readers!Release(live, readers[s]), {readers[s].vec})
  BY DEF Readers!Destroy, Readers!Live
<1>2. /\ DOMAIN readers' = ReaderSlots /\ readers'[s] = Readers!Gone
      /\ \A t \in ReaderSlots \ {s} : readers'[t] = readers[t]
  BY <1>1 DEF Reading
<1>3. \A heap : Sound(Readers!Gone, heap)
  BY DEF Sound
<1>4. Sound(readers'[s], live') /\ Own(readers'[s]) = Null
  BY <1>2, <1>3, GoneReader
<1>5. /\ DOMAIN live' = DOMAIN live \ {Own(readers[s])}
      /\ \A a \in DOMAIN live' : live'[a] = live[a]
  BY <1>1, HeapWithout
<1>. QED  BY <1>2, <1>4, <1>5, BlockHandedOver

LEMMA MoveReads ==
  ASSUME Reading, NEW d \in ReaderSlots, NEW s \in ReaderSlots,
         Readers!MoveConstruct(d, s) \/ Readers!MoveAssign(d, s)
  PROVE  Reading'
<1>1. d # s /\ readers[s] # Readers!Gone
  BY DEF Readers!MoveConstruct, Readers!MoveAssign, Readers!Live
<1>2. PICK m : m = Readers!MovedFrom(readers[s])
  OBVIOUS
<1>3. /\ Readers!Moved(readers[s]) = readers[s] /\ Own(m) = Null
      /\ \A heap : Sound(m, heap)
  BY <1>1, <1>2, MovedReader DEF Reading
<1>4. readers' = [readers EXCEPT ![d] = readers[s], ![s] = m]
  BY <1>1, <1>2, <1>3 DEF Readers!MoveConstruct, Readers!MoveAssign, Reading
<1>5. /\ DOMAIN readers' = ReaderSlots /\ readers'[s] = m /\ readers'[d] = readers[s]
      /\ \A t \in ReaderSlots \ {d, s} : readers'[t] = readers[t]
  BY <1>1, <1>4 DEF Reading
<1>6. /\ DOMAIN live' = DOMAIN live \ {Own(readers[d])}
      /\ \A a \in DOMAIN live' : live'[a] = live[a]
  <2>1. CASE Readers!MoveAssign(d, s)
    BY <2>1, HeapWithout DEF Readers!MoveAssign, Readers!Live
  <2>2. CASE Readers!MoveConstruct(d, s)
    <3>1. live' = live /\ readers[d] = Readers!Gone
      BY <2>2 DEF Readers!MoveConstruct, Readers!Live
    <3>. QED  BY <3>1, GoneReader, ReaderNames DEF Reading
  <2>. QED  BY <2>1, <2>2
<1>. QED  BY <1>1, <1>3, <1>5, <1>6, BlockHandedOver

(* A new reader, over a new block or over the caller's.                    *)
LEMMA NewReads ==
  ASSUME Reading, NEW s \in ReaderSlots, readers[s] = Readers!Gone, NEW r \in ReaderObjects,
         readers' = [readers EXCEPT ![s] = r],
         Sound(r, live'), Caller \in DOMAIN live', live'[Caller] = live[Caller],
         \A a \in DOMAIN live : live'[a] = live[a],
         IF r.type = "NonOwning" THEN DOMAIN live' = DOMAIN live
         ELSE r.data \in Blocks \ DOMAIN live /\ DOMAIN live' = DOMAIN live \cup {r.data}
  PROVE  Reading'
<1>1. /\ DOMAIN readers' = ReaderSlots /\ readers'[s] = r
      /\ \A t \in ReaderSlots \ {s} : readers'[t] = readers[t]
  BY DEF Reading
<1>2. Own(r) = IF r.type = "NonOwning" THEN Null ELSE r.data
  BY DEF Own, ReaderObjects
<1>3. ASSUME NEW t \in ReaderSlots PROVE Own(readers[t]) # Null => Own(readers[t]) \in DOMAIN live
  BY GoneReader DEF Reading, Sound, Own, ReaderObjects
<1>4. ASSUME NEW t \in ReaderSlots PROVE Sound(readers'[t], live')
  <2>1. CASE t = s
    BY <1>1, <2>1
  <2>2. CASE t # s
    <3>1. Own(readers[t]) # Null =>
            Own(readers[t]) \in DOMAIN live' /\ live'[Own(readers[t])] = live[Own(readers[t])]
      BY <1>3
    <3>2. Sound(readers[t], live')
      BY <3>1, SoundStays DEF Reading
    <3>. QED  BY <1>1, <2>2, <3>2
  <2>. QED  BY <2>1, <2>2
<1>5. (\A t \in ReaderSlots : Sound(readers[t], live))'
  BY <1>4 DEF Sound, ReaderObjects, Readers!Gone
<1>6. \A a \in DOMAIN live' \ {Caller} : \E t \in ReaderSlots : Own(readers'[t]) = a
  <2>1. SUFFICES ASSUME NEW a \in DOMAIN live' \ {Caller}
                 PROVE  \E t \in ReaderSlots : Own(readers'[t]) = a
    OBVIOUS
  <2>2. CASE a \in DOMAIN live
    <3>1. PICK t \in ReaderSlots : Own(readers[t]) = a
      BY <2>2 DEF Reading
    <3>2. t # s
      BY <2>2, <3>1, GoneReader, ReaderNames DEF Reading
    <3>. QED  BY <1>1, <3>1, <3>2
  <2>3. CASE a \notin DOMAIN live
    BY <1>1, <1>2, <2>3
  <2>. QED  BY <2>2, <2>3
<1>7. \A t, u \in ReaderSlots :
        Own(readers'[t]) = Own(readers'[u]) /\ Own(readers'[t]) # Null => t = u
  BY <1>1, <1>2, <1>3 DEF Reading
<1>8. /\ (\A a \in DOMAIN live \ {Caller} : \E t \in ReaderSlots : Own(readers[t]) = a)'
      /\ (\A t, u \in ReaderSlots :
             Own(readers[t]) = Own(readers[u]) /\ Own(readers[t]) # Null => t = u)'
  BY <1>6, <1>7 DEF Own
<1>. QED  BY <1>1, <1>5, <1>8 DEF Reading

LEMMA CreateReads ==
  ASSUME Reading, NEW s \in ReaderSlots, NEW a \in Blocks, NEW size \in ReaderSizes,
         Readers!CreateFromFile(s, a, size) \/ Readers!FromVector(s, a, size)
  PROVE  Reading'
<1>1. PICK r, b : /\ \/ /\ r = [type |-> "OwningMmap", data |-> a, cursor |-> 0,
                                size |-> size, vec |-> Null]
                        /\ b = [kind |-> "map", size |-> size]
                     \/ /\ r = [type |-> "OwningVector", data |-> a, cursor |-> 0,
                                size |-> size, vec |-> a]
                        /\ b = [kind |-> "vector", size |-> size]
                  /\ readers[s] = Readers!Gone /\ a \notin DOMAIN live
                  /\ live' = Readers!With(live, a, b) /\ readers' = [readers EXCEPT ![s] = r]
  BY DEF Readers!CreateFromFile, Readers!FromVector, Readers!Live, Readers!Reader,
         Readers!NoVector
<1>2. size \in Nat
  BY ReaderNames
<1>3. /\ r \in ReaderObjects /\ r.data = a /\ r.size = size /\ r.cursor = 0 /\ b.size = size
      /\ \/ r.type = "OwningMmap" /\ r.vec = Null /\ b.kind = "map"
         \/ r.type = "OwningVector" /\ r.vec = a /\ b.kind = "vector"
  BY <1>1, <1>2 DEF ReaderObjects
<1>4. /\ DOMAIN live' = DOMAIN live \cup {a} /\ live'[a] = b
      /\ \A c \in DOMAIN live : live'[c] = live[c]
  BY <1>1 DEF Readers!With
<1>5. Caller \in DOMAIN live' /\ live'[Caller] = live[Caller]
  BY <1>4 DEF Reading
<1>6. Sound(r, live')
  BY <1>2, <1>3, <1>4 DEF Sound
<1>. QED  BY <1>1, <1>3, <1>4, <1>5, <1>6, NewReads

LEMMA SpanReads ==
  ASSUME Reading, NEW s \in ReaderSlots, Readers!FromSpan(s)
  PROVE  Reading'
<1>1. PICK n \in Nat : n = live[Caller].size
  BY DEF Reading
<1>2. PICK r : r = [type |-> "NonOwning", data |-> Caller, cursor |-> 0, size |-> n, vec |-> Null]
  OBVIOUS
<1>3. /\ r \in ReaderObjects /\ r.type = "NonOwning" /\ r.data = Caller /\ r.size = n
      /\ r.cursor = 0 /\ r.vec = Null
  BY <1>2 DEF ReaderObjects
<1>4. /\ readers[s] = Readers!Gone /\ live' = live /\ readers' = [readers EXCEPT ![s] = r]
  BY <1>1, <1>2 DEF Readers!FromSpan, Readers!Live, Readers!Reader, Readers!NoVector
<1>5. Sound(r, live')
  BY <1>1, <1>3, <1>4 DEF Sound, Reading
<1>. QED  BY <1>3, <1>4, <1>5, NewReads DEF Reading

(* Reads, skips and seeks leave the cursor inside, where there is data.    *)
LEMMA CursorReads ==
  ASSUME Reading, NEW s \in ReaderSlots, NEW n \in Amounts,
         Readers!Read(s, n) \/ Readers!Skip(s, n) \/ Readers!Seek(s, n)
  PROVE  Reading'
<1>1. PICK r \in ReaderObjects : r = readers[s] /\ Sound(r, live)
  BY DEF Readers!Read, Readers!Skip, Readers!Seek, Readers!Live, Reading, Sound
<1>2. r.cursor \in Nat /\ r.size \in Nat /\ n \in Nat
  BY ReaderNames DEF ReaderObjects
<1>3. PICK plus \in Nat : plus = Readers!Plus(r.cursor, n)
  <2>1. \A k \in Nat, w \in Nat \ {0} : k % w \in Nat
    OBVIOUS
  <2>. QED  BY <1>2, <2>1, ReaderNames DEF Readers!Plus
<1>4. \A m \in Nat : Readers!Min({m, r.size}) \in Nat /\ Readers!Min({m, r.size}) <= r.size
  <2>1. \A m \in Nat : \E x \in {m, r.size} : \A y \in {m, r.size} : x <= y
    BY <1>2
  <2>. QED  BY <1>2, <2>1 DEF Readers!Min
<1>5. PICK c \in Nat : /\ r.size > 0 => c <= r.size
                       /\ readers' = [readers EXCEPT ![s].cursor = c] /\ live' = live
  <2>1. CASE Readers!Read(s, n)
    BY <1>1, <1>3, <2>1 DEF Readers!Read
  <2>2. CASE Readers!Skip(s, n)
    BY <1>1, <1>3, <1>4, <2>2 DEF Readers!Skip
  <2>3. CASE Readers!Seek(s, n)
    BY <1>1, <1>2, <1>4, <2>3 DEF Readers!Seek
  <2>. QED  BY <2>1, <2>2, <2>3
<1>6. PICK q : q = [r EXCEPT !.cursor = c]
  OBVIOUS
<1>7. /\ q \in ReaderObjects /\ q.cursor = c /\ q.type = r.type /\ q.data = r.data
      /\ q.size = r.size /\ q.vec = r.vec
  BY <1>6 DEF ReaderObjects
<1>8. Own(q) = Own(r) /\ Sound(q, live)
  BY <1>1, <1>5, <1>7, GoneReader DEF Own, Sound
<1>9. /\ DOMAIN readers' = ReaderSlots /\ readers'[s] = q
      /\ \A t \in ReaderSlots \ {s} : readers'[t] = readers[t]
  BY <1>1, <1>5, <1>6 DEF Reading
<1>10. \A t \in ReaderSlots : Own(readers'[t]) = Own(readers[t]) /\ Sound(readers'[t], live)
  BY <1>1, <1>8, <1>9 DEF Reading
<1>11. (\A t \in ReaderSlots : Sound(readers[t], live))'
  BY <1>5, <1>10 DEF Sound, ReaderObjects, Readers!Gone
<1>12. /\ (\A a \in DOMAIN live \ {Caller} : \E t \in ReaderSlots : Own(readers[t]) = a)'
       /\ (\A t, u \in ReaderSlots :
              Own(readers[t]) = Own(readers[u]) /\ Own(readers[t]) # Null => t = u)'
  <2>1. /\ \A a \in DOMAIN live' \ {Caller} : \E t \in ReaderSlots : Own(readers'[t]) = a
        /\ \A t, u \in ReaderSlots :
             Own(readers'[t]) = Own(readers'[u]) /\ Own(readers'[t]) # Null => t = u
    BY <1>5, <1>10 DEF Reading
  <2>. QED  BY <2>1 DEF Own
<1>. QED  BY <1>5, <1>9, <1>11, <1>12 DEF Reading

LEMMA ReadingKept ==
  ASSUME Reading, [Readers!Next]_readerVars
  PROVE  Reading'
<1>1. CASE UNCHANGED readerVars
  BY <1>1 DEF readerVars, Reading, Sound, Own, ReaderObjects, Readers!Gone
<1>. QED  BY <1>1, CreateReads, SpanReads, MoveReads, DestroyReads, CursorReads DEF Readers!Next

LEMMA ReadingInitially == ASSUME ResourcesInit PROVE Reading
<1>1. PICK size \in ReaderSizes \ {0} :
        live = Readers!With(<< >>, Caller, [kind |-> "caller", size |-> size])
  BY DEF ResourcesInit, Readers!Init
<1>2. DOMAIN live = {Caller} /\ live[Caller].size = size
  BY <1>1 DEF Readers!With
<1>3. readers = [s \in ReaderSlots |-> Readers!Gone]
  BY DEF ResourcesInit, Readers!Init
<1>. QED  BY <1>2, <1>3, GoneReader, ReaderNames DEF Reading, Sound

LEMMA ReadingMeansOneOwner == ASSUME Reading PROVE Readers!OneOwner
<1>. DEFINE H(a) == {s \in ReaderSlots : Readers!Owns(s, a)}
<1>1. \A S : Readers!Cardinality(S) = Cardinality(S)
  BY DEF Cardinality, Readers!Cardinality
<1>2. ASSUME NEW a \in DOMAIN live \ {Caller} PROVE Cardinality(H(a)) = 1
  <2>1. a # Null
    BY ReaderNames DEF Reading
  <2>2. ASSUME NEW s \in ReaderSlots PROVE Readers!Owns(s, a) <=> Own(readers[s]) = a
    BY <2>1, GoneReader DEF Readers!Owns, Readers!Live, Own, Reading, Sound, ReaderObjects
  <2>3. PICK s \in ReaderSlots : Own(readers[s]) = a
    BY DEF Reading
  <2>4. H(a) = {s}
    BY <2>1, <2>2, <2>3 DEF Reading
  <2>. QED  BY <2>4, FS_Singleton
<1>3. \A a \in DOMAIN live \ {Caller} : Cardinality(H(a)) = 1
  BY <1>2
<1>. QED  BY <1>1, <1>3 DEF Readers!OneOwner

(* The bytes that a read copies are all in one live block, unless the sum  *)
(* of its check wraps: a reader's data are a live block of its size, through*)
(* any moves, and its cursor is inside.                                    *)
THEOREM ReadersReadLive == ResourcesSpec => ReadsInside
<1>1. Reading /\ [ResourcesNext]_resourceVars => Reading'
  BY PartSteps, ReadingKept
<1>2. Reading => Readers!DataLives /\ \A s \in ReaderSlots :
                   Readers!Live(s) => readers[s].cursor \in Nat /\ readers[s].size \in Nat
  BY DEF Reading, Sound, ReaderObjects, Readers!DataLives, Readers!Live
<1>3. Reading => \A s \in ReaderSlots, n \in Amounts \ {0} :
        Readers!Read(s, n) /\ readers[s].cursor + n < Word =>
          /\ readers[s].data \in DOMAIN live
          /\ readers[s].cursor + n <= live[readers[s].data].size
  <2>1. SUFFICES ASSUME Reading, NEW s \in ReaderSlots, NEW n \in Amounts \ {0},
                        Readers!Read(s, n), readers[s].cursor + n < Word
                 PROVE  /\ readers[s].data \in DOMAIN live
                        /\ readers[s].cursor + n <= live[readers[s].data].size
    OBVIOUS
  <2>2. Readers!Live(s) /\ Readers!Plus(readers[s].cursor, n) <= readers[s].size
    BY <2>1 DEF Readers!Read
  <2>3. /\ readers[s].cursor \in Nat /\ readers[s].size \in Nat /\ n \in Nat \ {0}
        /\ Word \in Nat \ {0}
    BY <1>2, <2>1, <2>2, ReaderNames
  <2>4. Readers!Plus(readers[s].cursor, n) = readers[s].cursor + n
    BY <2>1, <2>3 DEF Readers!Plus
  <2>5. readers[s].size > 0 /\ readers[s].cursor + n <= readers[s].size
    BY <2>2, <2>3, <2>4
  <2>6. readers[s].data \in DOMAIN live /\ live[readers[s].data].size = readers[s].size
    BY <1>2, <2>1, <2>2, <2>5 DEF Readers!DataLives
  <2>. QED  BY <2>5, <2>6
<1>4. Reading => [\A s \in ReaderSlots, n \in Amounts \ {0} :
        Readers!Read(s, n) /\ readers[s].cursor + n < Word =>
          /\ readers[s].data \in DOMAIN live
          /\ readers[s].cursor + n <= live[readers[s].data].size]_(Readers!vars)
  BY <1>3
<1>. QED  BY <1>1, <1>4, ReadingInitially, PTL DEF ResourcesSpec, ReadsInside,
                                                 Readers!ReadsInside

-----------------------------------------------------------------------------
(* What was acquired, whichever the component, has exactly one holder that *)
(* will release it, once.                                                  *)
Holding == Reading /\ OnFiles /\ Belongs /\ Owned /\ Loaded /\ Counted

THEOREM ReleasedOnce == ResourcesSpec => []EachReleasedOnce
<1>1. ResourcesInit => Holding
  <2>1. ASSUME ResourcesInit PROVE Counted
    BY <2>1, FS_EmptySet DEF ResourcesInit, Sockets!Init, Counted, Sockets!StartedWhileUsed
  <2>. QED  BY <2>1, ReadingInitially, RegionsInitially, OwnedInitially, LoadedInitially
            DEF Holding
<1>2. Holding /\ [ResourcesNext]_resourceVars => Holding'
  BY PartSteps, ReadingKept, RegionsKept, OwnedKept, LoadedKept, CountedKept DEF Holding
<1>3. Holding => EachReleasedOnce
  <2>1. ASSUME Holding PROVE Readers!OneOwner /\ Regions!OneRegion /\ HttpClient!OneClient
    BY <2>1, ReadingMeansOneOwner, BelongsToOne, OwnedMeansOneClient DEF Holding
  <2>2. ASSUME Holding PROVE Libraries!CountsHolders /\ Libraries!SymbolsLive
    BY <2>2, LoadedMeansCounted DEF Holding
  <2>. QED  BY <2>1, <2>2 DEF Holding, Counted, EachReleasedOnce
<1>. QED  BY <1>1, <1>2, <1>3, PTL DEF ResourcesSpec

=============================================================================
