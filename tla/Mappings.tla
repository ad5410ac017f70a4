------------------------------ MODULE Mappings ------------------------------
(***************************************************************************)
(* FileOps: the table of mapped files and of shared memory, and what it    *)
(* stands for in the operating system: descriptors, mappings and the names *)
(* of shared objects.  Several processes map the same names; inside a      *)
(* process the calls follow one another, since s_mapped_files has no lock. *)
(* Each system call is a step, and each of them may fail.                  *)
(*                                                                         *)
(* Names are used in any way: an owner creates one that nobody has or that *)
(* others map, removes it at any time, and a consumer asks for any size.   *)
(* Files change their size under those who map them.                       *)
(***************************************************************************)
EXTENDS Integers, Sequences, FiniteSets, FiniteSetsExt, Functions

CONSTANTS Procs, Names,
          FileIds,     \* the files that map_file is given
          FileSizes,   \* sizes that a file is given by whoever writes it
          Sizes,       \* sizes asked of map_shared_memory
          Addrs,       \* per process, the addresses that mmap hands out
          MaxObjs      \* bound: shared objects created

MappingsAssumption == FileSizes \subseteq Nat /\ Sizes \subseteq Nat \ {0} /\ MaxObjs \in Nat

VARIABLES
  dir,     \* the names of shared objects, as a function to objects
  objs,    \* the sizes of the shared objects created so far
  files,   \* the sizes of the files
  fds,     \* per process, the open descriptors: descriptor -> object
  maps,    \* per process, the live mappings: address -> [obj, size], and history:
           \* the size that the object had when it was opened, or made
  table,   \* per process, s_mapped_files: address -> [fd, size]
  call,    \* per process, the call under way
  cut      \* history: shared objects created anew under an existing name, and
           \* files that were made shorter

vars == <<dir, objs, files, fds, maps, table, call, cut>>

Idle == [at |-> "idle"]
With(f, k, v) == [x \in DOMAIN f \cup {k} |-> IF x = k THEN v ELSE f[x]]
Without(f, S) == Restrict(f, DOMAIN f \ S)

FileObj(f) == [file |-> f]
ShmObj(i) == [shm |-> i]
SizeOf(o) == IF "file" \in DOMAIN o THEN files[o.file] ELSE objs[o.shm]

Init == /\ dir = << >> /\ objs = << >> /\ cut = {}
        /\ files = [f \in FileIds |-> 0]
        /\ fds = [p \in Procs |-> << >>] /\ maps = [p \in Procs |-> << >>]
        /\ table = [p \in Procs |-> << >>]
        /\ call = [p \in Procs |-> Idle]

-----------------------------------------------------------------------------
\* The system's open: the lowest free descriptor of the process.
Opened(p, o) == LET fd == Min(0..Cardinality(DOMAIN fds[p]) \ DOMAIN fds[p])
                IN  [fd |-> fd, all |-> [fds EXCEPT ![p] = With(@, fd, o)]]

Close(p, fd) == fds' = [fds EXCEPT ![p] = Without(@, {fd})]

Returns(p) == call' = [call EXCEPT ![p] = Idle]

\* map_shared_memory(name, size, true): shm_open with O_CREAT | O_TRUNC, and without
\* O_EXCL: an object that is there, and that others may map, loses its bytes.
CreateShm(p, n, size) ==
  LET fresh == n \notin DOMAIN dir
      i == IF fresh THEN Len(objs) + 1 ELSE dir[n]
      o == Opened(p, ShmObj(i))
  IN  /\ call[p] = Idle
      /\ i <= MaxObjs
      /\ dir' = With(dir, n, i)
      /\ objs' = IF fresh THEN Append(objs, 0) ELSE [objs EXCEPT ![i] = 0]
      /\ cut' = IF fresh THEN cut ELSE cut \cup {ShmObj(i)}
      /\ fds' = o.all
      /\ call' = [call EXCEPT ![p] =
                    [at |-> "truncate", fd |-> o.fd, size |-> size, name |-> n]]
      /\ UNCHANGED <<files, maps, table>>

ToMmap(p, fd, size, had) ==
  call' = [call EXCEPT ![p] = [at |-> "mmap", fd |-> fd, size |-> size, had |-> had]]

\* map_shared_memory(name, size, false): shm_open of what is there.
AttachShm(p, n, size) ==
  LET o == Opened(p, ShmObj(dir[n]))
  IN  /\ call[p] = Idle
      /\ n \in DOMAIN dir
      /\ fds' = o.all
      /\ ToMmap(p, o.fd, size, objs[dir[n]])
      /\ UNCHANGED <<dir, objs, files, maps, table, cut>>

\* Fault: the file keeps the size that O_TRUNC gave it.
Truncate_skipped(p) ==
  /\ call[p].at = "truncate"
  /\ ToMmap(p, call[p].fd, call[p].size, call[p].size)
  /\ UNCHANGED <<dir, objs, files, fds, maps, table, cut>>

Truncate(p) ==
  /\ call[p].at = "truncate"
  /\ objs' = [objs EXCEPT ![fds[p][call[p].fd].shm] = call[p].size]
  /\ ToMmap(p, call[p].fd, call[p].size, call[p].size)
  /\ UNCHANGED <<dir, files, fds, maps, table, cut>>

\* ftruncate failed: the descriptor is closed and the name removed.
TruncateFails(p) ==
  /\ call[p].at = "truncate"
  /\ Close(p, call[p].fd)
  /\ dir' = Without(dir, {call[p].name})
  /\ Returns(p)
  /\ UNCHANGED <<objs, files, maps, table, cut>>

\* map_file(path, size): open, then fstat for the size.
OpenFile(p, f) ==
  LET o == Opened(p, FileObj(f))
  IN  /\ call[p] = Idle
      /\ fds' = o.all
      /\ call' = [call EXCEPT ![p] = [at |-> "stat", fd |-> o.fd]]
      /\ UNCHANGED <<dir, objs, files, maps, table, cut>>

Stat(p) ==
  LET size == SizeOf(fds[p][call[p].fd])
  IN  /\ call[p].at = "stat"
      /\ size > 0
      /\ ToMmap(p, call[p].fd, size, size)
      /\ UNCHANGED <<dir, objs, files, fds, maps, table, cut>>

\* fstat failed, or the file is empty: either may happen to an empty file, the
\* first to any.
StatFails(p) ==
  /\ call[p].at = "stat"
  /\ Close(p, call[p].fd)
  /\ Returns(p)
  /\ UNCHANGED <<dir, objs, files, maps, table, cut>>

\* mmap at an address that is free, and the entry of the table.
Mmap(p, a) ==
  LET fd == call[p].fd
  IN  /\ call[p].at = "mmap"
      /\ a \notin DOMAIN maps[p]
      /\ maps' = [maps EXCEPT ![p] =
                    With(@, a, [obj |-> fds[p][fd], size |-> call[p].size,
                               had |-> call[p].had])]
      /\ table' = [table EXCEPT ![p] =
                    With(@, a, [fd |-> fd, size |-> call[p].size])]
      /\ Returns(p)
      /\ UNCHANGED <<dir, objs, files, fds, cut>>

\* Fault: the descriptor is left open when mmap fails.
MmapFails_leaks(p) ==
  /\ call[p].at = "mmap"
  /\ Returns(p)
  /\ UNCHANGED <<dir, objs, files, fds, maps, table, cut>>

\* mmap failed; the owner's object and its name stay behind.
MmapFails(p) ==
  /\ call[p].at = "mmap"
  /\ Close(p, call[p].fd)
  /\ Returns(p)
  /\ UNCHANGED <<dir, objs, files, maps, table, cut>>

\* unmap_file(mapped_ptr): an address it does not know is left alone.
Unmap(p, a) ==
  /\ call[p] = Idle
  /\ a \in DOMAIN table[p]
  /\ table' = [table EXCEPT ![p] = Without(@, {a})]
  /\ maps' = [maps EXCEPT ![p] = Without(@, {a})]
  /\ Close(p, table[p][a].fd)
  /\ UNCHANGED <<dir, objs, files, call, cut>>

Unlink(p, n) ==
  /\ call[p] = Idle
  /\ n \in DOMAIN dir
  /\ dir' = Without(dir, {n})
  /\ UNCHANGED <<objs, files, fds, maps, table, call, cut>>

\* Somebody writes the file anew, shorter or longer.
Resize(f, size) ==
  /\ files' = [files EXCEPT ![f] = size]
  /\ cut' = IF size < files[f] THEN cut \cup {FileObj(f)} ELSE cut
  /\ UNCHANGED <<dir, objs, fds, maps, table, call>>

Call(p) ==
  \/ \E n \in Names, size \in Sizes : CreateShm(p, n, size) \/ AttachShm(p, n, size)
  \/ \E f \in FileIds : OpenFile(p, f)
  \/ Truncate(p) \/ TruncateFails(p)
  \/ Stat(p) \/ StatFails(p)
  \/ \E a \in Addrs[p] : Mmap(p, a) \/ Unmap(p, a)
  \/ MmapFails(p)
  \/ \E n \in Names : Unlink(p, n)

Next == (\E p \in Procs : Call(p)) \/ \E f \in FileIds, size \in FileSizes : Resize(f, size)

Spec == Init /\ [][Next]_vars

-----------------------------------------------------------------------------
\* Between calls the table describes exactly the live mappings, and a process
\* holds open exactly the descriptors of its table, one each: whichever system
\* call failed, nothing is leaked and nothing is closed twice.
TableIsExact == \A p \in Procs : call[p] = Idle =>
  /\ DOMAIN table[p] = DOMAIN maps[p]
  /\ \A a \in DOMAIN table[p] : table[p][a].size = maps[p][a].size
  /\ {table[p][a].fd : a \in DOMAIN table[p]} = DOMAIN fds[p]
  /\ \A a, b \in DOMAIN table[p] : table[p][a].fd = table[p][b].fd => a = b

\* The object behind a mapping stays as large as the mapping, so that no access to
\* it faults, whatever fails and whenever names are removed and made again, under
\* two conditions that the code leaves to its callers: a consumer asks for no more
\* than the object had when it was opened, and nobody creates a shared object that
\* is there already or shortens a file.
Backed == \A p \in Procs : \A a \in DOMAIN maps[p] :
  LET r == maps[p][a] IN r.obj \notin cut /\ r.size <= r.had => r.size <= SizeOf(r.obj)
=============================================================================
