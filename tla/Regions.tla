------------------------------ MODULE Regions ------------------------------
(***************************************************************************)
(* FileOps: native file handles with their modes, and the regions of files *)
(* (MemoryMappedRegion) that are mapped through them, moved and unmapped.  *)
(* Any system call may fail.                                               *)
(***************************************************************************)
EXTENDS Integers, FiniteSets, FiniteSetsExt, Functions

CONSTANTS Paths, Absent,
          Handles,   \* variables that hold a NativeFileHandle
          Slots,     \* variables of type MemoryMappedRegion
          Addrs,     \* addresses that mmap hands out
          Null,
          MaxEnd     \* bound: the end of a region; also the initial sizes

RegionsAssumption ==
  /\ MaxEnd \in Nat /\ Absent \notin Nat /\ Null \notin Addrs

VARIABLES
  size,      \* size of each file, or Absent
  handles,   \* what each handle is open on, and for which access; or Null
  live,      \* the mappings that exist: address -> [path, offset, size], and history:
             \* was the file cut while it was mapped
  regions    \* m_ptr of each region, m_size with it

vars == <<size, handles, live, regions>>

Unmapped == [ptr |-> Null, size |-> 0]

Init == /\ size \in [Paths -> {Absent, 0, MaxEnd}]
        /\ handles = [h \in Handles |-> Null]
        /\ live = << >>
        /\ regions = [r \in Slots |-> Unmapped]

-----------------------------------------------------------------------------
\* The flags that a mode adds to the access's.
Creates(mode) == mode \in {"OpenAlways", "CreateNew", "CreateAlways"}
Excludes(mode) == mode = "CreateNew"
Truncates(mode) == mode \in {"CreateAlways", "TruncateExisting"}

Modes == {"OpenExisting", "OpenAlways", "CreateNew", "CreateAlways", "TruncateExisting"}
Accesses == {"Read", "Write", "ReadWrite"}

\* native_open_file that succeeds; one that fails changes nothing.  A mode that
\* truncates does so under the regions that are mapped.
Open(h, p, access, mode) ==
  /\ handles[h] = Null
  /\ IF size[p] = Absent THEN Creates(mode) ELSE ~Excludes(mode)
  /\ size' = [size EXCEPT ![p] = IF @ = Absent \/ Truncates(mode) THEN 0 ELSE @]
  /\ handles' = [handles EXCEPT ![h] = [path |-> p, access |-> access]]
  /\ live' = IF Truncates(mode)
       THEN [a \in DOMAIN live |-> [live[a] EXCEPT !.cut = @ \/ live[a].path = p]]
       ELSE live
  /\ UNCHANGED regions

\* native_close_file: a mapping does not need its handle.
Close(h) ==
  /\ handles[h] # Null
  /\ handles' = [handles EXCEPT ![h] = Null]
  /\ UNCHANGED <<size, live, regions>>

With(f, k, v) == [x \in DOMAIN f \cup {k} |-> IF x = k THEN v ELSE f[x]]
Released(r) == Restrict(live, DOMAIN live \ {regions[r].ptr})

Unmap(r) ==
  /\ regions[r].ptr # Null
  /\ live' = Released(r)
  /\ regions' = [regions EXCEPT ![r] = Unmapped]
  /\ UNCHANGED <<size, handles>>

Grown(p, end) == [size EXCEPT ![p] = Max({@, end})]

\* map(handle, offset, size): whatever was mapped goes first; a file that is too
\* short grows, which needs write access; mapping needs both.
Map(r, h, offset, n, a) ==
  LET p == handles[h].path
  IN  /\ handles[h] # Null /\ handles[h].access = "ReadWrite" /\ n > 0
      /\ offset + n <= MaxEnd
      /\ size' = Grown(p, offset + n)
      /\ a \notin DOMAIN Released(r)
      /\ live' = With(Released(r), a,
                      [path |-> p, offset |-> offset, size |-> n, cut |-> FALSE])
      /\ regions' = [regions EXCEPT ![r] = [ptr |-> a, size |-> n]]
      /\ UNCHANGED handles

\* The failures: an invalid handle, an empty region, fstat, ftruncate or mmap;
\* before the last, the file has grown already.
MapFails(r, h, offset, n) ==
  /\ offset + n <= MaxEnd
  /\ live' = Released(r)
  /\ regions' = [regions EXCEPT ![r] = Unmapped]
  /\ \/ UNCHANGED size
     \/ /\ handles[h] # Null /\ handles[h].access # "Read" /\ n > 0
        /\ size' = Grown(handles[h].path, offset + n)
  /\ UNCHANGED handles

\* operator=, and the constructor, which assigns to an empty region.
MoveAssign(d, s) ==
  /\ d # s
  /\ live' = Released(d)
  /\ regions' = [regions EXCEPT ![d] = regions[s], ![s] = Unmapped]
  /\ UNCHANGED <<size, handles>>

Next ==
  \/ \E h \in Handles :
       \/ \E p \in Paths, access \in Accesses, mode \in Modes : Open(h, p, access, mode)
       \/ Close(h)
       \/ \E r \in Slots, offset, n \in 0..MaxEnd :
            \/ \E a \in Addrs : Map(r, h, offset, n, a)
            \/ MapFails(r, h, offset, n)
  \/ \E r \in Slots : Unmap(r) \/ \E s \in Slots : MoveAssign(r, s)

Spec == Init /\ [][Next]_vars

-----------------------------------------------------------------------------
\* Every mapping belongs to exactly one region, which knows its size: moves,
\* failed maps and maps over maps leak nothing and unmap nothing twice.
OneRegion == \A a \in DOMAIN live :
  /\ Cardinality({r \in Slots : regions[r].ptr = a}) = 1
  /\ \A r \in Slots : regions[r].ptr = a => regions[r].size = live[a].size

\* A region lies within its file, so that touching it does not fault, unless the
\* file was opened with a truncating mode since the region was mapped.
WithinFile == \A a \in DOMAIN live : ~live[a].cut =>
  size[live[a].path] # Absent /\ live[a].offset + live[a].size <= size[live[a].path]
=============================================================================
