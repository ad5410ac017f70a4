# IACore, specified

IACore is a C++ base library: shared-memory IPC between processes, a task
scheduler, child processes, files and streams, logging, HTTP, codecs. This
directory holds TLA+ specifications of its stateful parts, the TLC
configurations that check them, and TLAPS proofs. Paths below are relative to
`Src/IACore/` of the repository.

To check: `tlc -config MCRingBuffer.cfg MCRingBuffer` (and so on, by run);
`tlapm RingBufferProofs.tla` (and so on, for each module whose name ends in
`Proofs`).

## 1. The system

| Component | State | Operations | What makes it correct |
|---|---|---|---|
| `RingBufferView` (`inc/IACore/ADT/RingBuffer.hpp`) | bytes, two atomic offsets, in shared memory | `push`, `pop` | a FIFO queue; no byte copied by both sides at once; a push is refused just when the packet does not fit |
| `AsyncOps` (`AsyncOps.cpp`) | two task queues, a mutex, a condition variable, worker threads, a counter in each `Schedule` | `initialize_scheduler`, `terminate_scheduler`, `schedule_task`, `cancel_tasks_of_tag`, `wait_for_schedule_completion` | each task runs or is cancelled, once; a wait returns exactly when its schedule is done; calls return |
| `IpcManager`, `IpcNode` (`IPC.cpp`) | pending and active sessions, a map by process id; per session two rings, a socket, a mapping, a process handle | `spawn_node`, `update`, `wait_till_node_is_online`, `shutdown_node`, `send_packet`, `send_signal`; `connect` | a session is pending, active or gone; the map and the list agree; resources are released once; packets arrive in order, once |
| `ProcessOps` (`ProcessOps.cpp`) | per handle an atomic id and running flag, written by a watching thread; a line accumulator | `spawn_process_sync/async`, `terminate_process` | what is terminated is the handle's own process; lines do not depend on how output is cut into reads |
| `FileOps` (`FileOps.cpp`) | `s_mapped_files`, the live mappings; native handles and `MemoryMappedRegion`s | map and unmap files and shared memory, whole-file reads and writes, open, close, map and move regions | the table describes the mappings exactly; what is mapped is there; a file not to be overwritten has one creator; reads return what was in the file |
| `StreamWriter`, `StreamReader` | buffer, cursor, capacity, storage kind | write, flush, move, destroy; read, skip, seek | what was written reaches the file, or its loss is reported; readers read inside live memory; mappings are released once |
| `Logger`, `IACore` | level, file stream, count of users | `log_*`, enable, level, initialize, terminate | a file has the lines logged while it was the log's |
| `SocketOps` | count of users; Unix sockets by name | initialize, terminate, bind, listen, connect, close | up while used; a name left behind is in nobody's way; a listener is found |
| `DynamicLib` | a handle | load, unload, move, `get_symbol` | each load is undone once; functions live as long as their library |
| `HttpClient` | a curl handle, the last response code | create, move, raw and JSON requests | a request uses its own body and headers and reads its own answer |
| `DataOps` | none | inflate, zstd, CRC-32C, hashes | sound data inflate completely; loops end; every variant sums alike |
| `StringOps`, `Utils`, `Http/Common` | none | base64, hexadecimal, URL encoding | decoding undoes encoding |
| `CLI` | a cursor over the arguments | peek, next, consume | each word is given once, as the parent meant it |
| `IATest` | counts, a list of blocks | register, run, summarize | every test runs once and is counted as it ended |

How they interact. An IPC session owns a child process (`ProcessOps`), a
mapping (`FileOps`) with a ring in each direction (`RingBufferView`), and a
socket (`SocketOps`), over which the two processes notice each other's end; it
passes its node a connection string through `ProcessOps`' splitting of
arguments, which the node reads with `CLI`. `StreamReader` holds `FileOps`
mappings, `FileOps::stream_to_file` opens a `StreamWriter`. The scheduler
stands alone; its callers' tasks call back into it.

What is hard. Two processes synchronise the ring by two atomics, around copies
that take time. The scheduler's counters are changed outside its mutex, its
waiters run other callers' tasks, and calls nest through task bodies. IPC reads
ids that another thread changes, calls back into the program in the middle of
its loops, and races a 5 s limit. `PROJECT.json` lists the hazards by line,
with the properties that watch them.

## 2. The modules

| Module | Models | Role |
|---|---|---|
| `PacketQueue` | what a ring promises | abstract specification |
| `RingBuffer` | `RingBufferView::push`, `pop` and the copies | detailed; implements `PacketQueue` |
| `RingBufferProofs` | - | theorems about `RingBuffer` |
| `TaskPool` | what the scheduler promises | abstract specification |
| `Scheduler` | `AsyncOps` | detailed; implements `TaskPool` |
| `Process` | `ProcessOps` with `ProcessHandle`, and the system's processes and pipes | detailed |
| `Ipc` | `IpcManager`, `IpcNode` | detailed; uses handles as `Process` has them and rings as queues, as `RingBuffer` implements them |
| `Mappings`, `Files`, `Regions` | `FileOps`, three parts of it | detailed |
| `Readers`, `Writers` | `StreamReader`, `StreamWriter` | detailed |
| `Logger` | `Logger`, `IACore::initialize`, `terminate` | detailed |
| `Sockets` | `SocketOps` | detailed |
| `Libraries`, `HttpClient` | `DynamicLib`, `HttpClient` | detailed |
| `Inflate` | `zlib_inflate`, `zstd_inflate` | the loops, over external decompressors |
| `Lines` | `LineBuffer` | the loop of `append`, against the runs between line ends |
| `CommandLine` | argument splitting, `ConnectionDescriptor`, `CLIParser` | functions, against the words meant |
| `Codecs`, `Crc` | base64, hexadecimal, URL encoding; CRC-32C | functions, against their inverse and the instruction's definition |
| `Loops` | - | a loop over positions, as a recursive function: what the functions above are written with |
| `TestRunner` | `IATest.hpp`, `Tests/Unit/Main.cpp` | detailed |
| `Resources` | - | composes `Mappings`, `Files`, `Regions`, `Readers`, `Writers`, `Logger`, `Libraries`, `HttpClient` and `Sockets`, and states their properties |
| `Utilities` | - | composes `Process`, `Lines`, `CommandLine`, `Codecs`, `Crc`, `Inflate` and `TestRunner`, and states their properties |
| `MCRingBuffer`, `MCScheduler`, `MCResources`, `MCUtilities` | - | instances for TLC |
| `SchedulerProofs`, `TaskPoolProofs` | - | theorems about `Scheduler`: invariants, and that it implements `TaskPool` |
| `IpcProofs` | - | theorems about `Ipc` |
| `ResourceProofs`, `StreamProofs` | - | theorems about `Resources`: `StreamProofs` about `Writers` and `Logger`, the other about the rest |
| `UtilityProofs`, `TextProofs` | - | theorems about `Utilities`: `TextProofs` about `Codecs`, `CommandLine` and `Lines`, the other about the rest |

A definition whose comment starts with "Fault" is not part of a specification:
it is a plausible mistake in the definition that follows it. Put in that one's
place it makes a property fail, which shows that the property depends on that
line of code; `PROJECT.json` "mutants" pairs them.

### RingBuffer

`memory`, `write_offset` and `read_offset` are the shared memory. The producer
has a program counter `ppc` and the packet it pushes, the consumer `cpc`, the
size of its buffer `room` and what it has copied out. A push is `PushBegin`
(load of the other side's offset and the test for space), `PushHeader` and
`PushPayload` (a `write_wrapped` each), `PushPublish` (the release store);
`PushTooLarge` and `PushFull` are its errors. A pop is `PopBegin`, `PopHeader`,
`PopPayload`, `PopCommit`, or `PopEmpty` or `PopTooSmall`. The acquire and
release orders make each side see the copies before the offset it loaded, so
interleaving of these steps is what two processes can observe, given that
copies in progress never overlap: that is `NoDataRace`, which is checked and
proved rather than assumed.

Bytes carry the packet they belong to and their position in it, so a byte of
the wrong packet, or at the wrong place, is seen; payload contents and ids are
abstracted to the packet's position in the stream, which is unique. A header
whose bytes are not those of one packet reads as any header (`HeadersIn`).
`offset + size` is taken modulo `Modulus` (2^32) in the copies' test, the only
sums that could overflow before a reduction modulo the capacity.
`pushed` and `delivered` are history.

### Scheduler

Every thread, worker or client, has a stack of frames, since waits run tasks
and tasks make calls. One frame says at which point of which function the
thread is. Each access to an atomic, each critical section and each
notification is one step. Two critical sections take more than one, with
`mutex` held: a worker's decision to block (`WorkerDecide`, `WorkerBlock`: the
test of the predicate and going to sleep are one for those who hold the mutex
but not for a notification without it) and `cancel_tasks_of_tag` (its
notifications are seen by waiters before it ends).

| Action | Code (`AsyncOps.cpp`) |
|---|---|
| `Initialize`; `Terminate`, `TerminateStop`, `TerminateNotify`, `TerminateJoin` | 31-55; 57-75 |
| `ScheduleTask`, `SchedulePush`, `ScheduleNotify` | 80-82, 83-93, 94 |
| `WorkerLoop`, `WorkerTake`, `WorkerExit`, `WorkerDecide`, `WorkerBlock` | 193, 198-225, 204-207, 200-202 |
| `TaskFinish`, `CounterNotify`, for workers and waiters | 226-229, 170-173 |
| `WaitCall`, `WaitCheck`, `WaitReturn`, `WaitTake`, `WaitNothing`, `WaitReload`, `WaitPark` | 142-184 |
| `CancelTag`, `CancelTask`, `CancelReturn` | 97-140 |
| `SpuriousWake`, `TaskReturn`, `Destroy` | the condition variable and the atomic wait, the task, the caller (external) |

`RefinesTaskPool` hides threads, locks, counters and notifications: the pool's
queues are the two queues, and a task's outcome is its `status`. A cancellation
erases tasks one by one, and a waiter may see it half done; nobody who takes or
queues a task does. The mapping therefore lets it happen in the pool when it
gets the mutex: tasks it has yet to find count as cancelled (`Outcome`), and the
pool lets the entries of cancelled tasks leave its queues later, one by one
(`Clear`), but hands nobody a task past such an entry.

Who schedules what is a parameter: `Spawner` of each task and `Owner` of each
schedule, with fork and join discipline (`ForkJoinAssumption`), as in the
repository's tests: a schedule is waited for by whoever put tasks on it, and
destroyed only afterwards. A task may put more tasks on its own schedule. `status`
is the history of each task and `lifetime` that of each schedule. One client,
`Main`, initializes and terminates the scheduler, and does so in turns: the code
lets `initialize_scheduler` be called again and then adds workers to those that
run, which no caller in the repository does. Calls that `ensure` refuses are not
made. Worker ids, the contents of tasks and the choice of the number of workers
from the hardware are left out.

### Process

A handle's watching thread goes through the points of `spawn_process_posix`
(`pipe`, `fork`, `store`, `read`, `wait`, `clear`) and of `spawn_process_async`
around it (`flag`, `report`); its owner loads the id and kills in two steps. The
system's side is external: `fork` copies the parent's descriptors, so `fds`
holds the pipe ends of each process; the end of a pipe is seen when nobody holds
its writing end; an id is free again when its process was waited for.

### Ipc

`m` is the manager's thread: at which step of which call it is, with its locals.
Each iteration of each loop of `update` is a step or several: the pending loop is
`Expire`, `NotYet`, or `Accept` and `Register` (between them the node may exit and
its id be cleared); the active loop is `Visit` (the load of the id), `PopPacket`
and `OnPacket`, `PopNothing`, `RecvSignal` and `OnSignal`, `RecvNothing` or
`Disconnect`. Callbacks may call `shutdown_node` (`CallbacksShutDown`) for any
session, their own too. The loop's `node` is a reference to a place in the vector,
so what the model reads through it is `Here`, whatever is at the place by then,
and `of` is what was there when the visit began; when the place itself has gone,
the use is a crash. `held` is what the manager holds for a session, the file that
its listener was bound to included (`path`). `doomed` are the sessions whose
destructor waits for the watching thread. `late` is the clock: the sessions that
have waited 5 s, when `Tick` says so. A session's rings are a sequence of packet
numbers (from the node) and a count (to it). `EmptyPopIsTrue` is what the type
`Result`, which is not in the repository's sources, converts to when it holds an
empty option; section 5.

### The smaller components

Their states are the fields of the classes, and the part of the system they
use: descriptors, objects and mappings (`Mappings`, `Regions`), the contents or
the length of files (`Files`, `Writers`, `Logger`), the loader's counts
(`Libraries`), the options that a libcurl handle keeps (`HttpClient`). Each
operation is an action with its failures; where a call makes several system
calls that others may come between, each is an action, but for
`MemoryMappedRegion::map`, whose `fstat`, `ftruncate` and `mmap` are one step
(`Map`; the file is not cut between them). Moves are actions on two
variables, and may move into a variable that holds something. Data are lengths
or short sequences.

Callers are not held to a way of use. Names of shared memory are created when
they exist (`O_TRUNC` without `O_EXCL`), mapped files are cut, a bind takes any
name, a writer goes on after `flush`, calls of the logger overlap, reads ask
for sizes near the word's end. Where a promise is lost that way, a history
variable marks what is affected, and the property says so of that and nothing
else: `cut` and `had` (`Mappings`), `cut` in a mapping or a read (`Regions`,
`Files`), `reused` and `excused` (`Writers`), `mixed` (`Logger`), `robbed`
(`Sockets`). Section 5 lists the code behind each.

## 3. What the runs show

| Run | Instance | Properties |
|---|---|---|
| `MCRingBuffer` | ring of 7, header 2, payloads 0, 1, 4 and two that are refused, buffers 2 and 5, 22 bytes in all; 69 000 states | `TypeOK`, `NoDataRace`, `FreeSpaceIsExact`, `TransitIntact`, `RefinesQueue`, `RefinesFairQueue` |
| `MCScheduler` | 2 workers, 2 clients, 3 tasks on 2 schedules, one task spawned by another, one of high priority, 2 lives, 1 cancellation, by a client or a task; 630 000 states | `TypeOK`, `Accounting`, `Placement`, `WaitMeansDone`, `NobodySleepsOnWork`, `RefinesTaskPool` |
| `MCSchedulerNested` | 2 workers, 1 client, a task that forks two and joins them; 22 000 states | `WaitsReturn`, `QueuedTasksEnd` |
| `MCSchedulerTerminate`, `MCSchedulerNotified`, `MCSchedulerTwoWaits` | the smallest that show it | found violated, section 5 |
| `Ipc` | 2 sessions, 1 packet, 1 signal and 1 reply each, callbacks that shut down any node; 2.4 million states | `LoopSlotValid`, `DeliveredInOrder`, `OnlyPathIsLeft` |
| `IpcLive` | 2 sessions, 1 packet each, a program that keeps calling `update`; 120 000 states | `WaitReturns`, `EndedIsDropped` |
| `IpcStale`, `IpcEmptyPop` | 1 session | found violated, section 5 |
| `MCResources` | `Mappings` (2 processes, 1 name, 1 file, 2 addresses), `Readers` (3 readers, 3 blocks), `Writers` (2 writers, 2 files), `Files` (2 clients), `Regions` (2 handles, 2 regions, 2 files), `Logger` (2 threads, 2 users, 2 files, 2 lines), `Libraries` (3 holders, 2 libraries), `HttpClient` (2 clients), `Sockets` (3 sockets, 2 names, 3 users); 770 000 states | `TableIsExact`, `EveryMappingIsBacked`, `ReadsInside`, `EachReleasedOnce`, `WritersKeepAll`, `OneCreator`, `FoundUnlessCut`, `KeepsLog`, `RequestsAreOwn`, `ListenersAreFound` |
| `MCUtilities` | `Process` (2 handles, 2 ids), `Lines` (outputs of 6 characters), `CommandLine` (2 words of 2 letters), `Codecs` (4 bytes), `Crc` (18 bytes), `Inflate` (streams of 3 to 14 blocks), `TestRunner` (3 blocks of 2 tests); 56 000 states | `IdIsOwn`, `ReportedIsReaped`, `NoKillAfterEnd`, `ChildGoneIsReported`, `CutsDoNotMatter`, `ArgumentsArrive`, `RoundTrips`, `SameEverywhere`, `SoundInflates`, `InflateEnds`, `SummaryTells` |

`Resources` and `Utilities` compose components that do not call each other in
the middle of an operation. A behaviour is about one of them, `part`, and leaves
the others in their initial state, so a run checks what a run for each would,
and the states add up instead of multiplying; a theorem about the composition
says as much as one about each.

Bounds. A ring of 7 with headers of 2 has its end fall before, inside and after
both header and payload, at every offset (the packet lengths 2, 3 and 6 generate
all residues), holds up to three packets, and is passed three times in 22 bytes of
stream. Two workers and two clients give every pair of roles: two takers, taker
and waiter, waiter and canceller. Three tasks let both queues hold one while
another runs. Two sessions are what a callback that shuts down another node or
moves one under the loop's reference, and an entry of the map that two nodes share
(id 0), need. Two processes, readers, writers, regions or clients are what a move,
a name taken over or a call in the middle of another needs; three where a third
gets what two have left behind (an address, a library, a socket's name). One name
of shared memory and two objects let a name be removed and made again, and made
anew under those who map it, by the same process or the other. With a `usize` of
16 values, a read of 15 wraps the sum of its check from any cursor but 0. Lines of six
characters hold both kinds of line end, doubled, at every place of a read; base64
has groups of three, and four bytes make each rest; CRC takes eight bytes at a
time, and 18 make two groups and a rest. Symmetry is over workers, and in
`MCResources` over names that no part tells apart; never in a run with a liveness
property. Deadlock checking is off where the program may really stop: in
`MCSchedulerNested` and `MCSchedulerTwoWaits`, where a client may terminate the
scheduler while a task that it never waited for is itself in a wait, and join does
not return; in the `Ipc` runs, after the manager is gone; in `MCUtilities`, when
the input is used up. `StreamBound`, `Lives`, `Cancels`, the `Max...` constants
and `Pids` are the only bounds in guards. The proofs keep these bounds as
constants of any value.

Values that the runs fix, on the side where the code's promise can hold.
`Ipc!EmptyPopIsTrue` is FALSE in the passing runs and in `IpcStale`: with TRUE
a drain loop, once begun, does not end, and nothing behind it is reached; they
check what surrounds the loop. `Ipc!CallbacksShutDown` is TRUE in `Ipc` and
FALSE in the other `Ipc` runs, so that what `IpcStale` finds is not a
callback's doing. `Inflate!Word` is far above the sizes; a smaller one violates
`SoundInflates`, as section 5 tells.
Nothing in `Resources` restricts how the code is used.

Fairness. `RingBuffer!FairSpec`: the consumer keeps calling `pop`, and again
and again with a buffer that holds the largest packet, as the update loops do;
nothing is asked of the producer, which may die in the middle
of a push. `Scheduler!FairSpec`: a thread that can run does (weak fairness of
the steps that need no mutex), a mutex that is free again and again is obtained
(strong fairness of the critical sections), and a task's body returns, after
waiting for the schedules it put tasks on. Nothing makes a client call
anything, and spurious wakeups are not relied on. `WaitsReturn` and
`QueuedTasksEnd` hold with one client. `QueuedTasksEnd` exempts the tasks left
when the workers are told to stop: they stay queued, as the code leaves them.
`Process!Spec`: watching threads run, and a new child gets to its `exec`;
nothing makes a child exit. `Ipc!Spec`: the manager's thread runs on through a
call it has begun, watching threads run, and time passes; `UpdatingSpec` adds
that the program keeps calling `update`, as the example in `README.md` does.
Nothing makes a node connect, answer or exit. `Utilities` has `Process`'
fairness, and the loops of `Inflate`, which are sequential code, run on.

`WaitReturns` and `EndedIsDropped` name their exceptions: the manager has used
freed memory (section 5), or it joins the thread of a session whose process was
not there after the second that `spawn_node` sleeps, and which nobody kills.
`ChildGoneIsReported` names one: another child, forked while the pipe was open for
writing, holds its end and lives. None of the sources excludes these.

## 4. What is proved

Each theorem holds for every value of the constants that satisfies the
assumptions named in the modules, which are those the code justifies: finite
sets of threads and tasks with fork and join discipline (`Scheduler`), sizes
that are natural numbers, values for "nothing" that no handle, address or
library has. No theorem restricts the number of threads, sessions, readers,
packets or steps.

| Module | Theorem | States |
|---|---|---|
| `RingBufferProofs` | `Inductive`, `TypeCorrect` | `[]IInv`, `[]TypeOK` |
| | `FreeSpaceExact` | `[]FreeSpaceIsExact` |
| | `TransitSafe`, `RaceFree` | `[]TransitIntact`, `[]NoDataRace` |
| | `Refinement` | `RefinesQueue`: the ring implements the queue |
| `SchedulerProofs` | `Invariance`, `Typing` | `[]IInv`, `[]TypeOK` |
| | `CounterIsExact`, `OnePlace` | `[]Accounting`, `[]Placement` |
| | `WaitIsComplete` | `[]WaitMeansDone` |
| | `NoLostWakeup` | `[]NobodySleepsOnWork` |
| `TaskPoolProofs` | `Refinement` | `RefinesTaskPool`: the scheduler implements the pool |
| `IpcProofs` | `Invariance`, `LoopKeepsItsSlot` | `[]IInv`, `[]LoopSlotValid` |
| | `SessionsLeaveOnlyPaths` | `OnlyPathIsLeft`, an action property |
| | `NoNodeIsOrphaned` | `[]NoOrphan`: a node that runs is some session's |
| | `PacketsArriveInOrder` | `[]DeliveredInOrder`, for both values of `EmptyPopIsTrue` |
| `ResourceProofs` | `TableMatchesSystem`, `MappingsAreBacked` | `[]TableIsExact`, `[]Backed` |
| | `AllMappingsBacked` | `[]EveryMappingIsBacked` |
| | `ReadersReadLive` | `ReadsInside`, an action property |
| | `ReleasedOnce` | `[]EachReleasedOnce` |
| | `OneMadeIt`, `ReadsAreFound` | `[]OneCreator`, `[]FoundUnlessCut` |
| | `RequestsUseOwn` | `[]RequestsAreOwn` |
| | `RefusedForCause` | `ListenersAreFound`, an action property |
| `StreamProofs` | `LogIsKept` | `[]KeepsLog` |
| | `WritersKeepWhole` | `[]WritersKeepAll` |
| `UtilityProofs` | `Invariance` | `[]IInv` of `Process` |
| | `HandlesOwnTheirIds`, `ReportsFollowReaping` | `[]IdIsOwn`, `[]ReportedIsReaped` |
| | `KillsAreAsked` | `NoKillAfterEnd`, an action property |
| | `RoomIsRealAlways` | `[]Inflate!RoomIsReal`, whatever wraps around |
| | `SoundInflatesAlways` | `[]SoundInflates`, below zlib's 4 GiB |
| | `SummaryTellsAlways` | `[]SummaryTells` |
| | `SameEverywhereAlways` | `[]SameEverywhere` |
| `TextProofs` | `RoundTripsAlways` | `[]RoundTrips` |
| | `ArgumentsArriveAlways` | `[]ArgumentsArrive` |
| | `CutsDoNotMatterAlways` | `[]CutsDoNotMatter` |

With these every invariant that a passing run checks is proved, and every other
safety property: the action properties and both refinements.

Hardly any of the properties is inductive; each proof finds the invariant that
is, has a lemma for each action that it preserves it, and derives the property.
The invariants were checked by TLC on the runs' instances before they were proved.

The ring. An offset alone does not say how often the ring was passed, and memory
does not say which packets are still to be read. `IInv` adds the stream behind
the ring: packets pushed lie one after another in it (`StreamInv`); the offsets
are the stream positions of tail and head modulo the capacity, less than a
capacity apart (`OffsetInv`); every byte between them is in its cell
(`MemoryInv`); a producer past a copy has that part of its packet in place beyond
the tail, where it fits with one byte to spare (`ProducerInv`); a consumer past
a copy holds that part of the oldest packet (`ConsumerInv`). The arithmetic is in
lemmas: cells of positions less than a capacity apart are distinct
(`WrapInjective`), the two branches of a copy use the cells of consecutive
positions (`CellIsWrap`), a copy of new bytes leaves those in transit alone
(`PushCopy`). For `Refinement`, `PushPublish` is the queue's `Send`, `PopCommit`
its `Receive`, and every other step a stutter. The assumptions are that capacity
and header size are positive and that capacity plus 64 KiB is at most 2^32; that
a packet fits is not assumed.

The scheduler. The counter of a schedule is changed outside the mutex, by a thread
that holds the task; so the invariant says who holds what at each point of each
frame (`Framed`), that a task that is counted, runs or has run is in exactly one
frame's hands (`Handed`) and a queued one in its queue once (`Queues`), and with
these the counter is the number of the schedule's outstanding tasks
(`Accounting`). The mutex is held by at most one frame, and a worker about to
block has seen both queues empty since it took it (`Locks`). That no worker sleeps
on work needs a count: while one sleeps, there are no more queued tasks than
threads that are about to wake one or to look at the queues (`Budget`). That a
schedule is not destroyed under a wait needs the call below the wait to be its
owner's (`Waits`). `IInv` is their conjunction. The lemmas about queues (push,
pop, erase in the middle) and about cardinalities serve all actions.

The pool. `TaskPool` cancels a tag at once, the scheduler task by task with the
mutex held. The mapping lets the pool do so at `CancelTag`; the proof rests on
the mutex being held while any cancellation is under way (`Exclusive`), so that
nothing else that the pool can see happens meanwhile but completions.

Processes. What a handle's id means depends on how far its thread is (`Stages`):
none before the fork, its child's from the store to `waitpid`, stale from there
until it is cleared. Processes that were not waited for have different ids
(`Distinct`); the system's reuse of ids is unrestricted otherwise.

IPC. The loops of `update` erase from the vectors that they walk, and so do the
callbacks: the invariant says where each point of the loops stands, and that the
session there is the one of the visit or a callback of the visit has moved it
(`Slots`), that a session is in one list, once (`Once`), that sessions are made in
the order of their numbers (`Numbered`), what the handle's id is at each stage of
its process (`HandleIds`), and that a process that runs belongs to a session that
is listed, doomed or being made (`NoOrphan`). The ring of each session splits what
was sent: its last packets are in the ring, in order, and those before were
delivered, in order and once, with nothing between them but the 0 that stands for
an empty pop which passed for a packet (`Streams`, `Kept`); this needs no
assumption about `EmptyPopIsTrue`. With `TRUE` it says that what the run
`IpcEmptyPop` shows is the only thing wrong with the deliveries.

Mappings and the rest of `Resources`. A step of `Resources` is a step of one part
and leaves the others' variables alone (`PartSteps`), so each part has an
invariant of its own. `Mappings`: table, mappings and descriptors describe one
another also during a call, with the descriptor the call holds (`Exact`); an
object that was not cut gets its size from the one call that made it, and is as
large ever since as at any opening (`Sized`), which needs that of two calls that
are about to size one object, one has cut it (`Alone`). `Sockets`: the count is
that of the users (`Counted`), and a socket that is bound or listens, and was not
robbed, is what its name leads to (`Bound`). `Files`: one client at most has the
claim, the file is there while anyone has it or has the file open, and a read
under which it was not cut finds a file at least as long as it was (`Claimed`).
`HttpClient`: a handle is open if and only if one client has it, and its pointers
are those of the call under way (`Owned`). `Libraries`: the loader's count is the
number of holders (`Loaded`). `Regions`: mappings that were not cut lie within
their files (`OnFiles`) and belong to one region each (`Belongs`). `Readers`: each
block but the caller's is one reader's to release, of the size that it believes,
and its cursor is inside (`Reading`). `Logger`: a file that is not `mixed` has,
between calls, the lines that were logged to it; while a call is under way and the
log's file is not `mixed`, that call is the only one and the file lacks just the
pieces of its last line that the call's step still has to put there (`Logs`). That
a call which meets another marks the file at once is what makes this inductive.
`Writers`: which kind of writer has which buffer (`Storage`); of a writer that was
not `reused`, that the buffer holds what was accepted and is large enough (`Fit`,
`Here`); that a file has one writer at a time, and a flushed one that is not
`excused` holds what its writer accepted (`Away`, `Saved`); `Writing` is their
conjunction.

The functions and loops over data. A step of `Utilities` is a step of one part,
as in `Resources`.

- `Inflate`: the room is behind what was written and inside the vector (`Rooms`),
  which holds whatever wraps around; a sound stream goes on until its end
  (`Progress`). The second needs `4 * MaxIn < Word` and `MaxOut < Word`: the vector
  starts with up to four times the input, and both sizes are cast to zlib's `uInt`
  (`DataOps.cpp` 302, 309, 321). Beyond that it is false (section 5).
- `TestRunner`: where the runner is in the tests of its blocks follows from how many
  have run (`Placed`, `InOrder`), and the counters are those of the outcomes so far
  (`Tallied`, `Stopped`); `Tests` is their conjunction.
- `Crc`: `Sums`, that both sums are equal, is kept since shifting and the sum of a
  byte distribute over exclusive or: eight steps of a byte are one step of eight
  tables, each of which is the one before shifted by a byte.
- `Codecs`: three bytes are written as four digits of 64 and read back from them,
  by arithmetic; the groups of a text are those of the data, also the last. A
  URL's text is a code for each byte, and the decoder is at the start of a code
  when it has read all of the one before.
- `CommandLine`: the text written for some words leaves the splitter between two
  words, or behind the last one, with all of them (`WordsAre`), for each of the
  three spellings. What `CLIParser` gave out and what it has yet to give out are
  the words of the child (`Reading`). A descriptor's text has three bars, the last
  at its end, so that the fields lie between them and any beginning of it has too
  few; the digits of a `u32` are read back from the powers of ten.
  `CommandLineAssumption` says what may be in a descriptor: the paths that
  `spawn_node` formats (`IPC.cpp` 325, 339) have neither quote, backslash nor bar,
  and the size is a `u32`.
- `Lines`: what was reported are the runs that some line end closed, in their order,
  each once, and what waits is what follows the last line end (`LinesOf`). It is
  kept byte by byte, so that it does not matter where a read ends. The line feed of
  a pair that two reads cut apart closes an empty line, which is not reported.

Loops over data are recursive functions here (`Loop`), which the prover knows only
by their definition. That there is a function that satisfies it is proved by
induction on the number of rounds, with the induction that `WellFoundedInduction`
offers without operators as parameters: a set of numbers with no least
counterexample is everything (`Least`, `SetInduction`, `Iterates`). What a loop
computes is then said by a lemma about one more round (`ParsedNext`,
`EscapedNext`, `NonEmptyNext`, ...).

Only model-checked: liveness (`RefinesFairQueue`, `WaitsReturn`, `QueuedTasksEnd`,
`WaitReturns`, `EndedIsDropped`, `ChildGoneIsReported`, `InflateEnds`). Fairness is
about ENABLED, which the prover does not know. Properties that a run refutes
(section 5) have no theorem, of course.

## 5. Where the code and its promises differ

- `MCSchedulerTerminate`. `terminate_scheduler` requests stop and notifies
  without the mutex. A worker that has evaluated its predicate (nothing queued,
  no stop) and is about to block misses both; it sleeps, and `join` waits
  forever. The tests call `terminate_scheduler` on idle workers and expect it
  to return.
- `MCSchedulerNotified`. The thread that takes a counter to zero notifies it
  afterwards. A waiter may see zero, return, and end the life of its
  `Schedule` in between, as a `Schedule` in the frame of each test does.
- `MCSchedulerTwoWaits`. A waiter helps only until it finds the queues empty;
  then it blocks on its own counter and does not hear of new tasks. With every
  worker inside a task that waits, a task queued later is run by nobody.

- `IpcEmptyPop`. `pop` returns a `Result` that holds an `Option`, and both update
  loops (`IPC.cpp` 150, 286) test the `Result`. An empty ring is a success: the
  callback gets the last packet again (or whatever the header held at first),
  and the loop does not end. The tests of the ring test both.
- `IpcStale`. `update` loads a session's id anew each time; when its process has
  been waited for it is 0. At the end of the session 0 is erased from the map,
  and the entry under the real id stays, with a pointer to a freed session.

The following are not runs of their own. Most are in the models, and a property
excepts what they spoil, by the name given here in parentheses; the others are
why a property does not speak of an operation.

- `IPC.cpp` 280-306 and 449: `update` holds a reference into the vector of
  sessions while it calls `on_packet`, and `shutdown_node` erases from that
  vector. If the callback shuts down its own session or one before it, the next
  session comes under the reference: it is drained and, if it hung up, destroyed
  under the first one's id, so that the wrong entry of the map is erased. If there
  is no next session, the reference is to a destroyed `Box` (`moved` in
  `LoopSlotValid`; a crash). `on_signal` is called last and is not affected.
- `IPC.cpp` 325-329: the listener is bound to `/tmp/ia_sess_N.sock`, and nothing
  removes that file, on whichever way the session ends (`path` in
  `OnlyPathIsLeft`); a `spawn_node` that fails leaves more.
- `IPC.cpp` 316 and 338, `FileOps.cpp` 99, `SocketOps.cpp` 70: sessions are
  numbered from 1 in each process, and names made of these numbers; two managers
  on one machine use the same ones. The second's `shm_open` truncates the first's
  shared memory (`cut` in `Backed`), and its bind takes the name of the first's
  listener (`robbed` in `ListenersAreFound`), whose node then reaches the wrong
  manager or none.
- `FileOps.cpp` 110-120: an attachment may ask for more bytes than the object has;
  nothing compares the two (`had` in `Backed`).
- `ProcessOps.cpp` 143-161: `terminate_process` loads the id and kills it in two
  steps. If the process ends and is waited for in between, and the system gives
  the id to another, that one is killed (`Terminate` and `Kill` of `Process`;
  `IdIsOwn` speaks of ids outside the gap between `waitpid` and the clearing of
  the id, `NoKillAfterEnd` of calls made after it).
- `StreamReader.hpp` 92, 111: `m_cursor + size` is compared with the size of the
  data; with a size near 2^64 the sum wraps, the check passes and `memcpy` leaves
  the block (`ReadsInside` is about sums that do not wrap).
- `StreamReader.hpp` 54: `skip` adds before it takes the minimum, so an amount
  near 2^64 moves the cursor back, where `Tests/Unit/StreamReader.cpp` 102
  expects the end.
- `StreamWriter.cpp` 108: `flush` makes every writer an `OwningVector`. A file's
  writer then accepts bytes that never reach the file, and a writer over a
  caller's span grows past it (`reused`, `excused` in `WritersKeepAll`).
- `StreamWriter.cpp` 127: the result of `fclose`, which writes what `fwrite`
  buffered, is not looked at (`excused` in `WritersKeepAll`).
- `FileOps.cpp` 219: `stream_to_file` looks for the file, then opens it with
  truncation: of two callers that asked not to overwrite, both may succeed.
  `OneCreator` is about `write_text_file` and `write_binary_file`, which ask the
  system in one step.
- `FileOps.cpp` 270: `read_binary_file` ignores how much `fread` read; of a file
  that was cut meanwhile it returns zeros for what it did not find (`cut` in
  `FoundUnlessCut`). `read_text_file` resizes.
- `DataOps.cpp` 302: sizes are cast to zlib's `uInt`; beyond 4 GiB sound data are
  reported as corrupt (a `Word` below the sizes violates `SoundInflates`).
- `Logger.cpp` 85: a line is several insertions without a lock, where `README.md`
  42 says "Thread-safe": lines of calls that overlap may be torn or get lost
  between two files (`mixed` in `KeepsLog`). The two threads are also in one
  `std::ofstream`, a data race, of which the model has the mildest outcome.
- `IATest.hpp` 323: `run_all` returns 0 whatever failed, and the test program's
  exit code is 0 then, which is all that ctest looks at.

## 6. Plan

What was planned is done. What would come next:

1. The lemmas on queues, cardinalities, least elements and parts of sequences that
   several of the proof modules have, in one place.
2. Liveness on larger instances, one property at a time: it is all that the
   proofs leave to the runs.
3. The hazards without a property (`PROJECT.json`): a ring within 64 KiB of 4 GiB,
   the vector of workers read while `terminate_scheduler` clears it, two threads
   that are worker 0, a child not forked within a second, and an id that is killed
   after its process was waited for.

## 7. Not modelled

- `SIMD` is straight-line arithmetic, with floating point; `JSON` and `XML` adapt
  third-party parsers; `Platform`, `Environment` and `PCH` have no state.
- Of `DataOps`: the compressors (one call into a buffer of the bound), the
  hashes, which have no second definition to check them against, and the
  detection of file types by their first bytes. Of `Utils`: one-line wrappers of
  the standard library. Of `HttpClient`: the list of headers, certificate
  verification and JSON.
- The Windows branches, where they differ from the POSIX ones.
- Of the scheduler, the unsynchronised access to the vector of workers and the
  identity of workers; of the ring, views over buffers that the other side has
  unmapped; of IPC, callbacks that spawn nodes, two managers (`Mappings` and
  `Sockets` have what their common names come to), and the sizes of the shared
  memory.
- Data races on plain variables that the code leaves to its callers:
  `s_mapped_files`, the initialisation counts, the log's file stream.
