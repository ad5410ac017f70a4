------------------------------ MODULE Readers ------------------------------
(***************************************************************************)
(* StreamReader: readers over a mapped file, over a vector they own or     *)
(* over bytes of the caller, made, moved into one another and destroyed,   *)
(* each with a cursor.  Memory is a set of blocks whose addresses are      *)
(* handed out again once they are free, as mmap and the heap do, so that   *)
(* a stale pointer may name somebody else's block.                         *)
(***************************************************************************)
EXTENDS Integers, FiniteSets, FiniteSetsExt, Functions

CONSTANTS Slots,     \* variables of type StreamReader
          Blocks,    \* addresses of memory
          Caller,    \* the caller's bytes, which outlive the readers
          Null,
          Sizes,     \* sizes of the data
          Amounts,   \* arguments of read, skip and seek
          Word       \* values of usize: 2^64 in the code

ReadersAssumption ==
  /\ Word \in Nat \ {0} /\ Sizes \subseteq Nat /\ Amounts \subseteq 0..(Word - 1)
  /\ Caller \notin Blocks /\ Null \notin Blocks \cup {Caller}

VARIABLES
  live,      \* what is at the addresses in use: [kind, size]
  readers    \* the readers that exist, per slot

vars == <<live, readers>>

Gone == [type |-> "gone"]
Live(s) == readers[s] # Gone
NoVector == Null

With(f, k, v) == [x \in DOMAIN f \cup {k} |-> IF x = k THEN v ELSE f[x]]

Init == /\ \E size \in Sizes \ {0} :
             live = With(<< >>, Caller, [kind |-> "caller", size |-> size])
        /\ readers = [s \in Slots |-> Gone]

Plus(a, b) == (a + b) % Word
Free(heap, B) == Restrict(heap, DOMAIN heap \ B)

\* FileOps::unmap_file: an address that is not in its table is left alone.
UnmapFile(heap, a) ==
  IF a \in DOMAIN heap /\ heap[a].kind = "map" THEN Free(heap, {a}) ELSE heap

-----------------------------------------------------------------------------
Reader(type, data, size, vec) ==
  [type |-> type, data |-> data, cursor |-> 0, size |-> size, vec |-> vec]

\* create_from_file: map_file refuses an empty file.
CreateFromFile(s, a, size) ==
  /\ ~Live(s) /\ a \notin DOMAIN live /\ size > 0
  /\ live' = With(live, a, [kind |-> "map", size |-> size])
  /\ readers' = [readers EXCEPT ![s] = Reader("OwningMmap", a, size, NoVector)]

FromVector(s, a, size) ==
  /\ ~Live(s) /\ a \notin DOMAIN live
  /\ live' = With(live, a, [kind |-> "vector", size |-> size])
  /\ readers' = [readers EXCEPT ![s] = Reader("OwningVector", a, size, a)]

FromSpan(s) ==
  /\ ~Live(s)
  /\ readers' = [readers EXCEPT ![s] =
                   Reader("NonOwning", Caller, live[Caller].size, NoVector)]
  /\ UNCHANGED live

\* What a move leaves behind: the cursor stays.
MovedFrom(r) == [r EXCEPT !.type = "NonOwning", !.data = Null, !.size = 0,
                          !.vec = NoVector]

\* What it delivers: the data of an owning reader are its own vector's.
Moved(r) == IF r.type = "OwningVector" THEN [r EXCEPT !.data = r.vec] ELSE r

\* StreamReader(StreamReader&&).
MoveConstruct(d, s) ==
  /\ ~Live(d) /\ Live(s)
  /\ readers' = [readers EXCEPT ![d] = Moved(readers[s]), ![s] = MovedFrom(@)]
  /\ UNCHANGED live

\* What the destructor and an assignment do with the mapping.
Release(heap, r) == IF r.type = "OwningMmap" THEN UnmapFile(heap, r.data) ELSE heap

\* operator=: the vector of the target is freed by the vector's assignment.
MoveAssign(d, s) ==
  /\ d # s /\ Live(d) /\ Live(s)
  /\ live' = Free(Release(live, readers[d]), {readers[d].vec})
  /\ readers' = [readers EXCEPT ![d] = Moved(readers[s]), ![s] = MovedFrom(@)]

Destroy(s) ==
  /\ Live(s)
  /\ live' = Free(Release(live, readers[s]), {readers[s].vec})
  /\ readers' = [readers EXCEPT ![s] = Gone]

\* Fault: the end of the data is not checked.
Read_unchecked(s, n) ==
  /\ Live(s)
  /\ readers' = [readers EXCEPT ![s].cursor = Plus(@, n)]
  /\ UNCHANGED live

\* read(buffer, size) and read<T>(): copies data[cursor .. cursor + n - 1].  The
\* sum that is compared with the size wraps, so that a size near the word's end
\* passes; the copy then leaves the block, of which going on is one outcome.
Read(s, n) ==
  /\ Live(s)
  /\ Plus(readers[s].cursor, n) <= readers[s].size
  /\ readers' = [readers EXCEPT ![s].cursor = Plus(@, n)]
  /\ UNCHANGED live

Skip(s, n) ==
  /\ Live(s)
  /\ readers' = [readers EXCEPT ![s].cursor = Min({Plus(@, n), readers[s].size})]
  /\ UNCHANGED live

Seek(s, n) ==
  /\ Live(s)
  /\ readers' = [readers EXCEPT ![s].cursor = Min({n, readers[s].size})]
  /\ UNCHANGED live

Next == \E s \in Slots :
  \/ \E a \in Blocks, size \in Sizes : CreateFromFile(s, a, size) \/ FromVector(s, a, size)
  \/ FromSpan(s)
  \/ \E d \in Slots : MoveConstruct(d, s) \/ MoveAssign(d, s)
  \/ Destroy(s)
  \/ \E n \in Amounts : Read(s, n) \/ Skip(s, n) \/ Seek(s, n)

Spec == Init /\ [][Next]_vars

-----------------------------------------------------------------------------
Owns(s, a) == /\ Live(s)
              /\ \/ readers[s].vec = a
                 \/ readers[s].type = "OwningMmap" /\ readers[s].data = a

\* Every mapping and every vector has exactly one reader that will release it,
\* through any sequence of moves: none leaks and none is released twice, which
\* could take away the block that was mapped at the same address since.
OneOwner == \A a \in DOMAIN live \ {Caller} :
  Cardinality({s \in Slots : Owns(s, a)}) = 1

\* A reader that has data points at a live block of the size it believes, and its
\* cursor is inside.
DataLives == \A s \in Slots : Live(s) /\ readers[s].size > 0 =>
  /\ readers[s].data \in DOMAIN live /\ live[readers[s].data].size = readers[s].size
  /\ readers[s].cursor <= readers[s].size

\* The bytes that a read copies are all in one live block, where the sum of its
\* check does not wrap.
ReadsInside == [][\A s \in Slots, n \in Amounts \ {0} :
  Read(s, n) /\ readers[s].cursor + n < Word =>
    /\ readers[s].data \in DOMAIN live
    /\ readers[s].cursor + n <= live[readers[s].data].size]_vars
=============================================================================
