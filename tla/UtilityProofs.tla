--------------------------- MODULE UtilityProofs ---------------------------
(***************************************************************************)
(* What holds of Utilities for any data and any sizes.  A step of          *)
(* Utilities is a step of one part and leaves the others' variables alone, *)
(* so that an invariant of a part holds of the whole.                      *)
(***************************************************************************)
EXTENDS Utilities, Integers, Sequences, TLAPS, FiniteSetTheorems

(* What a step of the whole is to each part.                               *)
LEMMA PartSteps ==
  ASSUME [UtilitiesNext]_utilityVars
  PROVE  /\ [Next]_vars /\ [Lines!Next]_lineVars /\ [CommandLine!Next]_wordVars
         /\ [Codecs!Next]_data /\ [Crc!Next]_sumVars /\ [Inflate!Next]_inflateVars
         /\ [TestRunner!Next]_testVars
<1>1. CASE UtilitiesNext
  BY <1>1, Zenon DEF UtilitiesNext
<1>2. CASE UNCHANGED utilityVars
  BY <1>2, Zenon DEF utilityVars, dataVars
<1>. QED  BY <1>1, <1>2

-----------------------------------------------------------------------------
(* ProcessOps.  The stage of a handle's thread says what became of its     *)
(* child and what is in its id (Stages); a process that was not waited for *)
(* has an id of its own (Distinct).                                        *)

Watchers == {"none", "pipe", "fork", "store", "read", "wait", "clear", "flag", "report", "done"}
Unreaped(h) == Alive(h) \/ child[h] = "zombie"

Shape ==
  /\ watcher \in [Handles -> Watchers]
  /\ child \in [Handles -> {"none", "forked", "up", "zombie", "reaped"}]
  /\ id \in [Handles -> Pids \cup {0}] /\ pid \in [Handles -> Pids \cup {0}]
  /\ DOMAIN is_running = Handles
  /\ DOMAIN owner = Handles

(* What a stage of the thread says of the child and of the id.             *)
Stage(h) ==
  /\ watcher[h] \in {"none", "pipe", "fork"} => child[h] = "none" /\ id[h] = 0
  /\ watcher[h] = "store" => Unreaped(h) /\ id[h] = 0
  /\ watcher[h] \in {"read", "wait"} => Unreaped(h) /\ id[h] = pid[h]
  /\ watcher[h] = "clear" => child[h] = "reaped" /\ id[h] = pid[h]
  /\ watcher[h] \in {"flag", "report", "done"} => child[h] \in {"none", "reaped"} /\ id[h] = 0
Stages == \A h \in Handles : Stage(h)

Distinct == \A g, h \in Handles :
  g # h /\ Unreaped(g) /\ Unreaped(h) => pid[g] # pid[h]

IInv == Shape /\ Stages /\ Distinct

-----------------------------------------------------------------------------
(* The steps of the thread, the child and the owner that change a child or *)
(* an id; the others change neither.                                       *)
LEMMA Initially == ASSUME ProcessAssumption, Init PROVE IInv
BY DEF ProcessAssumption, Init, IInv, Shape, Stages, Stage, Distinct, Unreaped, Alive, Watchers

(* No step of the specification breaks the invariant.                      *)
LEMMA Inductive == ASSUME ProcessAssumption, IInv, [Next]_vars PROVE IInv'
<1> USE DEF IInv
<1>1. CASE UNCHANGED vars
  BY <1>1 DEF vars, osVars, ownerVars, Shape, Stages, Stage, Distinct, Unreaped, Alive
<1>2. SUFFICES ASSUME NEW h \in Handles,
        \/ SpawnAsync(h) \/ Watch(h) \/ Exec(h) \/ ExecFails(h) \/ Exit(h)
        \/ Terminate(h) \/ Kill(h) \/ Destroy(h) \/ Joined(h)
      PROVE IInv'
  BY <1>1 DEF Next
<1>3. CASE SpawnAsync(h)
  BY <1>3 DEF SpawnAsync, Step, osVars, Shape, Stages, Stage, Distinct, Unreaped, Alive, Watchers
<1>4. CASE OpenPipe(h)
  BY <1>4 DEF OpenPipe, Step, ownerVars, Shape, Stages, Stage, Distinct, Unreaped, Alive, Watchers
<1>5. CASE SpawnFails(h)
  BY <1>5 DEF SpawnFails, Step, osVars, ownerVars, Shape, Stages, Stage, Distinct, Unreaped, Alive,
    Watchers
<1>6. CASE Fork(h)
  <2>1. PICK fresh \in Pids \ TakenPids : pid' = [pid EXCEPT ![h] = fresh]
    BY <1>6 DEF Fork
  <2>2. \A g \in Handles : Unreaped(g) => pid[g] # fresh
    BY <2>1 DEF TakenPids, Unreaped
  <2>3. Shape'
    BY <1>6, <2>1 DEF Fork, Step, ownerVars, Shape, Watchers
  <2>4. Stages'
    BY <1>6, <2>1 DEF Fork, Step, ownerVars, Shape, Stages, Stage, Unreaped, Alive, Watchers
  <2>5. \A g \in Handles \ {h} : pid'[g] = pid[g] /\ child'[g] = child[g]
    BY <1>6, <2>1 DEF Fork, Shape
  <2>6. pid'[h] = fresh
    BY <2>1 DEF Shape
  <2>7. Distinct'
    BY <2>2, <2>5, <2>6 DEF Distinct, Unreaped, Alive
  <2>8. QED BY <2>3, <2>4, <2>7
<1>7. CASE StoreId(h)
  BY <1>7 DEF StoreId, Step, ownerVars, Shape, Stages, Stage, Distinct, Unreaped, Alive, Watchers
<1>8. CASE ReadEnd(h)
  BY <1>8 DEF ReadEnd, Step, ownerVars, Shape, Stages, Stage, Distinct, Unreaped, Alive, Watchers
<1>9. CASE WaitPid(h)
  BY <1>9 DEF WaitPid, Step, ownerVars, Shape, Stages, Stage, Distinct, Unreaped, Alive, Watchers
<1>10. CASE ClearId(h)
  BY <1>10 DEF ClearId, Step, osVars, ownerVars, Shape, Stages, Stage, Distinct, Unreaped, Alive,
    Watchers
<1>11. CASE ClearFlag(h)
  BY <1>11 DEF ClearFlag, Step, osVars, ownerVars, Shape, Stages, Stage, Distinct, Unreaped, Alive,
    Watchers
<1>12. CASE Report(h)
  BY <1>12 DEF Report, Step, osVars, ownerVars, Shape, Stages, Stage, Distinct, Unreaped, Alive,
    Watchers
<1>13. CASE Exec(h)
  BY <1>13 DEF Exec, ownerVars, Shape, Stages, Stage, Distinct, Unreaped, Alive
<1>14. ASSUME NEW g \in Handles, NEW how, Dies(g, how), UNCHANGED <<watcher, id, pid>>,
              DOMAIN is_running' = Handles, DOMAIN owner' = Handles
       PROVE  IInv'
  BY <1>14 DEF Dies, Shape, Stages, Stage, Distinct, Unreaped, Alive
<1>15. CASE ExecFails(h)
  BY <1>14, <1>15 DEF ExecFails, ownerVars, Shape
<1>16. CASE Exit(h)
  BY <1>14, <1>16 DEF Exit, ownerVars, Shape
<1>17. CASE Kill(h)
  <2>1. CASE \E v \in Handles : pid[v] = loaded[h] /\ Dies(v, "killed")
    BY <1>14, <1>17, <2>1 DEF Kill, Shape
  <2>2. CASE UNCHANGED <<child, fds, result>>
    BY <1>17, <2>2 DEF Kill, Shape, Stages, Stage, Distinct, Unreaped, Alive
  <2>3. QED BY <1>17, <2>1, <2>2 DEF Kill
<1>18. CASE Terminate(h) \/ Destroy(h) \/ Joined(h)
  BY <1>18 DEF Terminate, Destroy, Joined, osVars, Shape, Stages, Stage, Distinct, Unreaped, Alive
<1>19. QED
  BY <1>2, <1>3, <1>4, <1>5, <1>6, <1>7, <1>8, <1>9, <1>10, <1>11, <1>12, <1>13, <1>15, <1>16,
     <1>17, <1>18 DEF Watch

(* Through any sequence of spawns, kills and ends the stage of a thread    *)
(* tells what became of its child, and unreaped processes differ in id.    *)
THEOREM Invariance == Spec \/ UtilitiesSpec => []IInv
<1>1. Init => IInv
  BY Initially, UtilitiesAssumption, Zenon DEF UtilitiesAssumption
<1>2. IInv /\ [Next]_vars => IInv'
  BY Inductive, UtilitiesAssumption, Zenon DEF UtilitiesAssumption
<1>3. UtilitiesInit => Init
  BY DEF UtilitiesInit
<1>4. [UtilitiesNext]_utilityVars => [Next]_vars
  BY PartSteps
<1>5. QED BY <1>1, <1>2, <1>3, <1>4, PTL DEF Spec, UtilitiesSpec

(* ProcessHandle::id is the id of the handle's own child, and of no other  *)
(* process that lives or is still to be waited for, until waitpid returns. *)
THEOREM HandlesOwnTheirIds == Spec \/ UtilitiesSpec => []IdIsOwn
<1>1. IInv => IdIsOwn
  BY DEF IInv, Shape, Watchers, Stages, Stage, Distinct, Unreaped, Alive, IdIsOwn
<1>2. QED BY Invariance, <1>1, PTL

(* on_finish_callback comes when the child was waited for, or never was.   *)
THEOREM ReportsFollowReaping == Spec \/ UtilitiesSpec => []ReportedIsReaped
<1>1. IInv => ReportedIsReaped
  BY DEF IInv, Stages, Stage, ReportedIsReaped
<1>2. QED BY Invariance, <1>1, PTL

(* terminate_process, called on a handle that has an id and runs, finds a  *)
(* child that was not waited for, or is between waitpid and the store of 0.*)
THEOREM KillsAreAsked == Spec \/ UtilitiesSpec => NoKillAfterEnd
<1>1. ASSUME IInv, [Next]_vars, NEW h \in Handles, owner[h] = "owns", owner'[h] = "kill"
      PROVE  watcher[h] \in {"read", "wait", "clear"}
  <2>1. CASE UNCHANGED vars
    BY <1>1, <2>1 DEF vars, ownerVars
  <2>2. CASE \E g \in Handles : Terminate(g)
    <3>1. PICK g \in Handles : Terminate(g)
      BY <2>2
    <3>2. g = h
      BY <1>1, <3>1 DEF Terminate, IInv, Shape
    <3>3. id[h] # 0
      BY <3>1, <3>2 DEF Terminate, is_active
    <3>4. QED BY <1>1, <3>3 DEF IInv, Shape, Stages, Stage, Watchers
  <2>3. CASE \E g \in Handles : SpawnAsync(g) \/ Kill(g) \/ Destroy(g) \/ Joined(g)
    BY <1>1, <2>3 DEF SpawnAsync, Kill, Destroy, Joined, IInv, Shape
  <2>4. CASE \E g \in Handles : Watch(g) \/ Exec(g) \/ ExecFails(g) \/ Exit(g)
    BY <1>1, <2>4 DEF Watch, OpenPipe, SpawnFails, Fork, StoreId, ReadEnd, WaitPid, ClearId,
      ClearFlag, Report, Exec, ExecFails, Exit, ownerVars
  <2>5. QED BY <1>1, <2>1, <2>2, <2>3, <2>4 DEF Next
<1>2. IInv /\ [Next]_vars => (\A h \in Handles :
        owner[h] = "owns" /\ owner'[h] = "kill" => watcher[h] \in {"read", "wait", "clear"})
  BY <1>1
<1>3. [UtilitiesNext]_utilityVars => [Next]_vars
  BY PartSteps
<1>4. QED BY Invariance, <1>2, <1>3, PTL DEF Spec, UtilitiesSpec, NoKillAfterEnd
-----------------------------------------------------------------------------
(* DataOps: decompression.                                                 *)

LEMMA InflateNumbers ==
  MaxIn \in Nat \ {0} /\ MaxOut \in Nat \ {0} /\ Word \in Nat \ {0} /\ Patience \in Nat \ {0}
BY UtilitiesAssumption DEF UtilitiesAssumption, Inflate!InflateAssumption

LEMMA SmallerOfTwo ==
  ASSUME NEW a \in Nat, NEW b \in Nat
  PROVE  LET m == Inflate!Min({a, b}) IN m = IF a <= b THEN a ELSE b
<1>1. \E x \in {a, b} : \A y \in {a, b} : x <= y
  OBVIOUS
<1>. QED  BY <1>1 DEF Inflate!Min

(* The room is behind what was written.                                    *)
Rooms ==
  /\ codec \in {"zlib", "zstd"} /\ stream \in Inflate!Streams
  /\ consumed \in Nat /\ made \in Nat /\ size \in Nat /\ room \in Nat
  /\ made <= stream.out /\ made + room <= size

LEMMA RoomsKept ==
  ASSUME Rooms, [Inflate!Next]_inflateVars
  PROVE  Rooms'
<1>. USE InflateNumbers DEF Rooms
<1>1. CASE UNCHANGED inflateVars
  BY <1>1 DEF inflateVars
<1>2. stream.in \in Nat /\ stream.out \in Nat
  BY DEF Inflate!Streams
<1>3. ASSUME NEW i \in Nat, NEW o \in Nat, NEW avail \in Nat, Inflate!Decompresses(i, o, avail)
      PROVE  /\ o <= avail /\ made' = made + o /\ made' <= stream.out /\ consumed' \in Nat
  <2>1. o = Inflate!Min({avail, stream.out - made}) /\ stream.out - made \in Nat
    BY <1>2, <1>3 DEF Inflate!Decompresses
  <2>2. o <= avail /\ o <= stream.out - made
    BY <2>1, SmallerOfTwo
  <2>. QED  BY <1>2, <1>3, <2>2 DEF Inflate!Decompresses
<1>4. ASSUME NEW i \in 0..MaxIn, NEW o \in 0..MaxOut, Inflate!InflateZlib(i, o) PROVE Rooms'
  <2>1. Inflate!RoomAfterGrowth \in Nat /\ Inflate!RoomAfterGrowth <= 2 * size - made
    BY DEF Inflate!RoomAfterGrowth
  <2>2. PICK avail \in Nat : /\ avail = IF room = 0 THEN Inflate!RoomAfterGrowth ELSE room
                             /\ made + avail <= size' /\ size' \in Nat
    BY <1>4, <2>1 DEF Inflate!InflateZlib
  <2>3. Inflate!Decompresses(i, o, avail) /\ room' = avail - o /\ UNCHANGED <<codec, stream>>
    BY <1>4, <2>2 DEF Inflate!InflateZlib
  <2>. QED  BY <1>3, <2>2, <2>3
<1>5. ASSUME NEW i \in 0..MaxIn, NEW o \in 0..MaxOut, Inflate!InflateZstd(i, o) PROVE Rooms'
  <2>1. /\ Inflate!Decompresses(i, o, room) /\ UNCHANGED <<codec, stream>>
        /\ size' \in Nat /\ size' >= size /\ room' = size' - made'
    BY <1>5 DEF Inflate!InflateZstd
  <2>. QED  BY <1>3, <2>1
<1>6. CASE Inflate!Refuse
  BY <1>6 DEF Inflate!Refuse
<1>. QED  BY <1>1, <1>4, <1>5, <1>6 DEF Inflate!Next

(* As long as no size reaches what zlib's counters hold, the room is all   *)
(* that is left of the vector, and a round on a sound stream gets further. *)
Progress ==
  /\ Rooms /\ room = size - made /\ size > 0 /\ consumed <= stream.in
  /\ codec = "zstd" => room > 0
  /\ stream.whole /\ stream.sound => ret = "end" \/ (ret = "ok" /\ idle = 0)

LEMMA ProgressKept ==
  ASSUME 4 * MaxIn < Word, MaxOut < Word, Progress, [Inflate!Next]_inflateVars
  PROVE  Progress'
<1>. USE InflateNumbers
<1>0. Rooms /\ Rooms'
  BY RoomsKept DEF Progress
<1>1. CASE UNCHANGED inflateVars
  BY <1>0, <1>1 DEF Progress, inflateVars
<1>2. /\ stream.in \in Nat /\ stream.out \in Nat /\ stream.in < Word /\ stream.out < Word
      /\ stream.in > 0 /\ made <= stream.out /\ consumed <= stream.in
      /\ Inflate!Narrow(stream.in) = stream.in /\ consumed \in Nat /\ made \in Nat /\ size \in Nat
  BY DEF Progress, Rooms, Inflate!Streams, Inflate!Narrow
<1>3. ASSUME NEW i \in Nat, NEW o \in Nat, NEW avail \in Nat, avail > 0,
             Inflate!Decompresses(i, o, avail)
      PROVE  /\ o <= avail /\ made' = made + o /\ made' <= stream.out
             /\ consumed' = consumed + i /\ consumed' <= stream.in
             /\ o = avail \/ (consumed' = stream.in /\ made' = stream.out)
  <2>1. o = Inflate!Min({avail, stream.out - made}) /\ stream.out - made \in Nat
    BY <1>2, <1>3 DEF Inflate!Decompresses
  <2>2. /\ o <= avail /\ o <= stream.out - made
        /\ o = avail \/ o = stream.out - made
    BY <2>1, SmallerOfTwo
  <2>3. /\ consumed' = consumed + i /\ made' = made + o
        /\ i \in 0..(stream.in - consumed)
        /\ o < avail => i = stream.in - consumed
    BY <1>2, <1>3 DEF Inflate!Decompresses
  <2>4. consumed' <= stream.in /\ made' <= stream.out
    BY <1>2, <2>2, <2>3
  <2>5. o # avail => consumed' = stream.in /\ made' = stream.out
    BY <1>2, <2>2, <2>3
  <2>. QED  BY <2>2, <2>3, <2>4, <2>5
<1>4. ASSUME NEW i \in 0..MaxIn, NEW o \in 0..MaxOut, Inflate!InflateZlib(i, o) PROVE Progress'
  <2>1. PICK avail \in Nat : /\ avail = (IF room = 0 THEN Inflate!RoomAfterGrowth ELSE room)
                             /\ Inflate!Decompresses(i, o, avail) /\ room' = avail - o
                             /\ size' = IF room = 0 THEN 2 * size ELSE size
    BY <1>0, <1>4 DEF Inflate!InflateZlib, Rooms, Inflate!RoomAfterGrowth
  <2>2. avail = size' - made /\ avail > 0 /\ size' \in Nat /\ size' > 0
    <3>1. CASE room = 0
      <4>1. size = made /\ size < Word /\ 2 * size - made = size /\ size > 0
        BY <1>2, <3>1 DEF Progress
      <4>2. Inflate!RoomAfterGrowth = size
        BY <4>1, <1>2 DEF Inflate!RoomAfterGrowth
      <4>. QED  BY <2>1, <3>1, <4>1, <4>2, <1>2
    <3>2. CASE room # 0
      BY <1>0, <2>1, <3>2 DEF Progress, Rooms
    <3>. QED  BY <3>1, <3>2
  <2>3. /\ o <= avail /\ made' = made + o /\ consumed' = consumed + i /\ consumed' <= stream.in
        /\ o = avail \/ (consumed' = stream.in /\ made' = stream.out)
    BY <1>3, <2>1, <2>2
  <2>4. /\ UNCHANGED <<codec, stream, idle>> /\ codec = "zlib" /\ ret = "ok"
        /\ ret' = IF Inflate!AtEnd THEN "end"
                  ELSE IF <<consumed', made'>> # <<consumed, made>> THEN "ok" ELSE "error"
    BY <1>4 DEF Inflate!InflateZlib, Inflate!Zlib_ret, Inflate!Final
  <2>5. stream.whole => ret' \in {"ok", "end"}
    <3>1. CASE o = avail
      <4>1. made' # made
        BY <1>2, <2>1, <2>2, <2>3, <3>1
      <4>. QED  BY <2>4, <4>1
    <3>2. CASE consumed' = stream.in /\ made' = stream.out
      BY <2>4, <3>2 DEF Inflate!AtEnd
    <3>. QED  BY <2>3, <3>1, <3>2
  <2>. QED  BY <1>0, <1>2, <2>1, <2>2, <2>3, <2>4, <2>5 DEF Progress
<1>5. ASSUME NEW i \in 0..MaxIn, NEW o \in 0..MaxOut, Inflate!InflateZstd(i, o) PROVE Progress'
  <2>1. /\ codec = "zstd" /\ UNCHANGED <<codec, stream>> /\ room' = size' - made'
        /\ size' = (IF o = room THEN 2 * size ELSE size)
        /\ idle' = (IF i + o > 0 THEN 0 ELSE idle + 1)
        /\ ret' = IF Inflate!AtEnd THEN "end" ELSE IF idle' = Patience THEN "error" ELSE "ok"
        /\ Inflate!Decompresses(i, o, room)
    BY <1>5 DEF Inflate!InflateZstd
  <2>2. room \in Nat /\ room > 0 /\ room = size - made /\ size > 0
    BY <1>0, <2>1 DEF Progress, Rooms
  <2>3. /\ o <= room /\ made' = made + o /\ consumed' = consumed + i /\ consumed' <= stream.in
        /\ o = room \/ (consumed' = stream.in /\ made' = stream.out)
    BY <1>3, <2>1, <2>2
  <2>4. room' > 0 /\ size' > 0
    BY <1>2, <2>1, <2>2, <2>3
  <2>5. stream.whole => ret' = "end" \/ (ret' = "ok" /\ idle' = 0)
    <3>1. CASE i + o > 0
      BY InflateNumbers, <2>1, <3>1
    <3>2. CASE ~(i + o > 0)
      <4>1. i \in Nat /\ o \in Nat
        OBVIOUS
      <4>2. o # room
        BY <2>2, <3>2, <4>1
      <4>. QED  BY <2>1, <2>3, <4>2 DEF Inflate!AtEnd
    <3>. QED  BY <3>1, <3>2
  <2>. QED  BY <1>0, <2>1, <2>3, <2>4, <2>5 DEF Progress
<1>6. CASE Inflate!Refuse
  BY <1>0, <1>6 DEF Inflate!Refuse, Progress
<1>. QED  BY <1>1, <1>4, <1>5, <1>6 DEF Inflate!Next

LEMMA RoomsStart ==
  ASSUME UtilitiesInit
  PROVE  /\ Rooms /\ consumed = 0 /\ idle = 0 /\ ret = "ok" /\ size >= 2
         /\ codec = "zstd" => room = size
         /\ codec = "zlib" => room = size % Word /\ size <= 4 * MaxIn
<1>. USE InflateNumbers
<1>1. ASSUME NEW c \in {"zlib", "zstd"}, NEW s \in Inflate!Streams, NEW n \in {2 * s.in, 4 * s.in},
             Inflate!Start(c, s, n)
      PROVE  /\ Rooms /\ consumed = 0 /\ idle = 0 /\ ret = "ok" /\ size >= 2
             /\ codec = "zstd" => room = size
             /\ codec = "zlib" => room = size % Word /\ size <= 4 * MaxIn
  <2>1. s.in \in 1..MaxIn /\ s.out \in Nat
    BY DEF Inflate!Streams
  <2>2. n \in Nat /\ n >= 2 /\ n <= 4 * MaxIn /\ n % Word \in Nat /\ n % Word <= n
    BY <2>1
  <2>. QED  BY <1>1, <2>1, <2>2 DEF Inflate!Start, Rooms
<1>2. CASE part = "Inflate"
  <2>1. Inflate!Init
    BY <1>2 DEF UtilitiesInit
  <2>. QED  BY <1>1, <2>1 DEF Inflate!Init
<1>3. CASE part # "Inflate"
  <2>1. PICK s : s = [in |-> 1, out |-> 0, whole |-> TRUE, sound |-> TRUE]
    OBVIOUS
  <2>2. s \in Inflate!Streams /\ 2 = 2 * s.in
    BY <2>1 DEF Inflate!Streams
  <2>3. Inflate!Start("zstd", s, 2)
    BY <1>3, <2>1 DEF UtilitiesInit
  <2>. QED  BY <1>1, <2>2, <2>3
<1>. QED  BY <1>2, <1>3

(* zlib_inflate and zstd_inflate never give the decompressor more room     *)
(* than the vector has behind what was written, whatever wraps around.     *)
THEOREM RoomIsRealAlways == UtilitiesSpec => []Inflate!RoomIsReal
<1>1. UtilitiesInit => Rooms
  BY RoomsStart
<1>2. Rooms /\ [UtilitiesNext]_utilityVars => Rooms'
  BY PartSteps, RoomsKept
<1>3. Rooms => Inflate!RoomIsReal
  BY DEF Rooms, Inflate!RoomIsReal
<1>. QED  BY <1>1, <1>2, <1>3, PTL DEF UtilitiesSpec

(* As long as no length reaches what zlib's 32-bit counters hold, a sound  *)
(* and whole stream is decompressed: neither loop gives up on it.          *)
THEOREM SoundInflatesAlways ==
  ASSUME 4 * MaxIn < Word, MaxOut < Word
  PROVE  UtilitiesSpec => []SoundInflates
<1>1. ASSUME UtilitiesInit PROVE Progress
  <2>1. /\ Rooms /\ consumed = 0 /\ idle = 0 /\ ret = "ok" /\ size >= 2
        /\ codec = "zstd" => room = size
        /\ codec = "zlib" => room = size % Word /\ size <= 4 * MaxIn
    BY <1>1, RoomsStart
  <2>2. room = size /\ made = 0 /\ stream.in \in Nat
    BY <2>1, InflateNumbers DEF Rooms, Inflate!Streams
  <2>. QED  BY <2>1, <2>2 DEF Progress, Rooms
<1>2. Progress /\ [UtilitiesNext]_utilityVars => Progress'
  BY PartSteps, ProgressKept
<1>3. Progress => SoundInflates
  BY DEF Progress, Rooms, SoundInflates, Inflate!SoundInflates, Inflate!RoomIsReal, Inflate!Final
<1>. QED  BY <1>1, <1>2, <1>3, PTL DEF UtilitiesSpec
-----------------------------------------------------------------------------
(* Arithmetic of the places of tests.                                       *)

LEMMA Products ==
  ASSUME NEW u \in Nat, NEW a \in Nat, NEW b \in Nat
  PROVE  /\ a * u \in Nat /\ (a + 1) * u = a * u + u
         /\ a <= b => a * u <= b * u
<1>1. a * u \in Nat /\ (a + 1) * u = a * u + u
  OBVIOUS
<1>2. a <= b => a * u <= b * u
  <2>1. SUFFICES ASSUME a <= b PROVE a * u <= b * u
    OBVIOUS
  <2>2. PICK d \in Nat : b = a + d
    BY <2>1
  <2>3. (a + d) * u = a * u + d * u /\ d * u \in Nat /\ a * u \in Nat
    OBVIOUS
  <2>. QED  BY <2>2, <2>3
<1>. QED  BY <1>1, <1>2

LEMMA Quotient ==
  ASSUME NEW u \in Nat \ {0}, NEW n \in Nat
  PROVE  /\ n \div u \in Nat /\ n % u \in 0..u - 1
         /\ n = (n \div u) * u + (n % u)
<1>1. n \div u \in Nat
  OBVIOUS
<1>2. n % u \in 0..u - 1
  OBVIOUS
<1>3. n = (n \div u) * u + (n % u)
  OBVIOUS
<1>. QED  BY <1>1, <1>2, <1>3

(* The k-th of the u tests of the block behind a others.                   *)
LEMMA Position ==
  ASSUME NEW u \in Nat \ {0}, NEW a \in Nat, NEW k \in 1..u
  PROVE  (a * u + k - 1) \div u = a /\ (a * u + k - 1) % u = k - 1
<1>. DEFINE n == a * u + k - 1
            q == n \div u
            r == n % u
<1>1. n \in Nat /\ a * u \in Nat /\ k - 1 \in Nat /\ k - 1 < u
  BY Products
<1>. HIDE DEF n
<1>2. q \in Nat /\ r \in Nat /\ r < u /\ n = q * u + r
  <2>1. q \in Nat /\ r \in 0..u - 1 /\ n = q * u + r
    BY <1>1, Quotient, Zenon
  <2>. QED  BY <2>1
<1>. USE DEF n
<1>3. q * u \in Nat
  BY <1>2, Products
<1>. HIDE DEF q, r
<1>4. ~(q < a)
  <2>1. ASSUME q < a PROVE FALSE
    <3>1. (q + 1) * u <= a * u /\ (q + 1) * u = q * u + u
      BY <1>2, <2>1, Products
    <3>. QED  BY <1>1, <1>2, <1>3, <3>1
  <2>. QED  BY <2>1
<1>5. ~(a < q)
  <2>1. ASSUME a < q PROVE FALSE
    <3>1. (a + 1) * u <= q * u /\ (a + 1) * u = a * u + u
      BY <1>2, <2>1, Products
    <3>. QED  BY <1>1, <1>2, <1>3, <3>1
  <2>. QED  BY <2>1
<1>6. q = a
  BY <1>2, <1>4, <1>5
<1>7. r = k - 1
  BY <1>1, <1>2, <1>6
<1>. QED  BY <1>6, <1>7 DEF q, r

(* The position of a test of one of the first a blocks.                    *)
LEMMA BlockOf ==
  ASSUME NEW u \in Nat \ {0}, NEW a \in Nat, NEW n \in Nat, n < a * u
  PROVE  n \div u < a
<1>. DEFINE q == n \div u
            r == n % u
<1>1. q \in Nat /\ r \in Nat /\ n = q * u + r /\ q * u \in Nat /\ a * u \in Nat
  BY Quotient, Products
<1>2. a <= q => a * u <= q * u
  BY <1>1, Products
<1>. HIDE DEF q, r
<1>3. q < a
  BY <1>1, <1>2
<1>. QED  BY <1>3 DEF q
-----------------------------------------------------------------------------
(* IATest: how far the runner is.                                          *)
Fates == Blocks \X (1..Units) \X BOOLEAN
Done == IF phase = "test" THEN unit - 1 ELSE unit
Registered ==
  /\ phase \in {"static", "block", "test", "ended"} /\ StopOnFail \in BOOLEAN
  /\ entries \in Seq(Blocks) /\ fates \in Seq(Fates)
  /\ \A i, j \in 1..Len(entries) : entries[i] = entries[j] => i = j
Placed ==
  /\ at \in 0..Len(entries) /\ unit \in 0..Units
  /\ phase = "static" => at = 0
  /\ phase = "test" => at > 0 /\ unit > 0
  /\ at = 0 => unit = Units /\ Len(fates) = 0
  /\ at > 0 => Len(fates) = (at - 1) * Units + Done
InOrder == \A i \in 1..Len(fates) :
  fates[i][1] = entries[(i - 1) \div Units + 1] /\ fates[i][2] = ((i - 1) % Units) + 1
Tallied ==
  /\ m_test_count = Len(fates) + (IF phase = "test" THEN 1 ELSE 0)
  /\ m_block_count = at /\ m_fail_count = Cardinality(TestRunner!Failed)
Stopped ==
  /\ StopOnFail => TestRunner!Failed \subseteq (IF phase = "ended" THEN {Len(fates)} ELSE {})
  /\ phase # "ended" => exit_code = 256 /\ summaries = <<>>
  /\ exit_code = 0 => at = Len(entries) /\ unit = Units /\ phase = "ended"
  /\ phase = "ended" /\ exit_code # -20 =>
       unit > 0 /\ summaries = <<<<Len(fates), m_fail_count, at>>>>
Tests == Registered /\ Placed /\ InOrder /\ Tallied /\ Stopped

LEMMA UnitsNatural == Units \in Nat \ {0} /\ MaxChecks \in Nat
BY UtilitiesAssumption DEF UtilitiesAssumption, TestRunner!TestRunnerAssumption

LEMMA TestsStart ==
  ASSUME TestRunner!Init PROVE Tests
<1>. USE UnitsNatural DEF TestRunner!Init
<1>1. TestRunner!Failed = {} /\ Len(fates) = 0
  BY DEF TestRunner!Failed
<1>2. Cardinality(TestRunner!Failed) = 0
  BY <1>1, FS_EmptySet
<1>3. Registered
  BY DEF Registered
<1>4. Placed /\ InOrder
  BY <1>1 DEF Placed, InOrder
<1>5. Tallied /\ Stopped
  BY <1>1, <1>2 DEF Tallied, Stopped, TestRunner!Running
<1>. QED  BY <1>3, <1>4, <1>5 DEF Tests

LEMMA FailedFinite ==
  ASSUME fates \in Seq(Fates)
  PROVE  IsFiniteSet(TestRunner!Failed) /\ Cardinality(TestRunner!Failed) \in Nat
<1>1. Len(fates) \in Nat /\ TestRunner!Failed \subseteq 1..Len(fates)
  BY DEF TestRunner!Failed
<1>2. IsFiniteSet(1..Len(fates))
  BY <1>1, FS_Interval
<1>3. IsFiniteSet(TestRunner!Failed)
  BY <1>1, <1>2, FS_Subset
<1>. QED  BY <1>3, FS_CardinalityType

(* The next test's place is where its block and number say.                *)
LEMMA TestTold ==
  ASSUME Tests, phase = "test", NEW passed \in BOOLEAN, TestRunner!Told(passed)
  PROVE  /\ fates' \in Seq(Fates) /\ Len(fates') = Len(fates) + 1
         /\ \A i \in 1..Len(fates) : fates'[i] = fates[i]
         /\ fates'[Len(fates')] = <<entries[at], unit, passed>>
         /\ Len(fates) \div Units = at - 1 /\ Len(fates) % Units = unit - 1
         /\ IF passed THEN TestRunner!Failed' = TestRunner!Failed
            ELSE /\ TestRunner!Failed' = TestRunner!Failed \cup {Len(fates')}
                 /\ Cardinality(TestRunner!Failed') = Cardinality(TestRunner!Failed) + 1
<1>. USE UnitsNatural
<1>1. PICK told : told = <<entries[at], unit, passed>>
  OBVIOUS
<1>2. entries \in Seq(Blocks) /\ fates \in Seq(Fates) /\ at \in 1..Len(entries) /\ unit \in 1..Units
  BY DEF Tests, Registered, Placed
<1>3. told \in Fates /\ told[3] = passed
  BY <1>1, <1>2 DEF Fates
<1>4. fates' = Append(fates, told)
  BY <1>1 DEF TestRunner!Told
<1>5. /\ fates' \in Seq(Fates) /\ Len(fates') = Len(fates) + 1
      /\ \A i \in 1..Len(fates) : fates'[i] = fates[i]
      /\ fates'[Len(fates')] = told /\ Len(fates) \in Nat
  BY <1>2, <1>3, <1>4
<1>6. Len(fates) \div Units = at - 1 /\ Len(fates) % Units = unit - 1
  <2>1. Len(fates) = (at - 1) * Units + unit - 1
    BY <1>2, Products DEF Tests, Placed, Done
  <2>2. PICK others \in Nat : others = at - 1
    BY <1>2
  <2>3. /\ (others * Units + unit - 1) \div Units = others
        /\ (others * Units + unit - 1) % Units = unit - 1
    BY <1>2, Position, Zenon
  <2>4. Len(fates) = others * Units + unit - 1
    BY <2>1, <2>2
  <2>. QED  BY <2>2, <2>3, <2>4, Zenon
<1>7. /\ DOMAIN fates = 1..Len(fates) /\ DOMAIN fates' = 1..Len(fates')
  BY <1>2, <1>5
<1>8. passed => TestRunner!Failed' = TestRunner!Failed
  <2>1. SUFFICES ASSUME passed PROVE TestRunner!Failed' = TestRunner!Failed
    OBVIOUS
  <2>2. fates'[Len(fates')][3]
    BY <1>3, <1>5, <2>1
  <2>. QED  BY <1>5, <1>7, <2>2 DEF TestRunner!Failed
<1>9. ~passed => TestRunner!Failed' = TestRunner!Failed \cup {Len(fates')}
  BY <1>3, <1>5, <1>7 DEF TestRunner!Failed
<1>10. ~passed => Cardinality(TestRunner!Failed') = Cardinality(TestRunner!Failed) + 1
  <2>2. IsFiniteSet(TestRunner!Failed)
    BY <1>2, FailedFinite
  <2>3. Len(fates') \notin TestRunner!Failed
    BY <1>5, <1>7 DEF TestRunner!Failed
  <2>. QED  BY <1>9, <2>2, <2>3, FS_AddElement
<1>. QED  BY <1>1, <1>5, <1>6, <1>8, <1>9, <1>10
LEMMA TestsKept ==
  ASSUME Tests, [TestRunner!Next]_testVars
  PROVE  Tests'
<1>. USE UnitsNatural
<1>0. /\ entries \in Seq(Blocks) /\ fates \in Seq(Fates) /\ Len(fates) \in Nat
      /\ Len(entries) \in Nat /\ at \in 0..Len(entries) /\ unit \in 0..Units
  BY DEF Tests, Registered, Placed
<1>. USE DEF TestRunner!counts
<1>1. CASE UNCHANGED testVars
  BY <1>1 DEF testVars, Tests, Registered, Placed, InOrder, Tallied, Stopped, Done,
              TestRunner!Failed
<1>2. ASSUME NEW b \in Blocks, TestRunner!Register(b) PROVE Tests'
  <2>1. phase = "static" /\ Len(fates) = 0 /\ at = 0 /\ unit = Units
    BY <1>2 DEF TestRunner!Register, Tests, Placed
  <2>2. /\ entries' = Append(entries, b) /\ \A i \in DOMAIN entries : entries[i] # b
        /\ UNCHANGED <<StopOnFail, at, unit, m_test_count, m_fail_count, m_block_count, phase,
                       summaries, exit_code, fates>>
    BY <1>2 DEF TestRunner!Register
  <2>3. /\ entries' \in Seq(Blocks) /\ Len(entries') = Len(entries) + 1
        /\ \A i, j \in 1..Len(entries') : entries'[i] = entries'[j] => i = j
    BY <1>0, <2>2 DEF Tests, Registered
  <2>4. Registered'
    BY <2>2, <2>3 DEF Tests, Registered
  <2>5. Placed' /\ InOrder'
    BY <1>0, <2>1, <2>2, <2>3 DEF Tests, Placed, InOrder, Done
  <2>6. Tallied' /\ Stopped'
    BY <2>1, <2>2 DEF Tests, Tallied, Stopped, TestRunner!Failed
  <2>. QED  BY <2>4, <2>5, <2>6 DEF Tests
<1>3. CASE TestRunner!Main \/ TestRunner!MainFails
  <2>1. /\ UNCHANGED <<StopOnFail, entries, at, unit, m_test_count, m_fail_count,
                       m_block_count, summaries, fates>>
        /\ phase = "static" /\ at = 0 /\ TestRunner!Failed' = TestRunner!Failed
        /\ \/ phase' = "block" /\ exit_code' = exit_code
           \/ phase' = "ended" /\ exit_code' = -20
        /\ Len(fates) = 0
    BY <1>3 DEF TestRunner!Main, TestRunner!MainFails, Tests, Placed, TestRunner!Failed
  <2>2. Registered' /\ Placed' /\ InOrder'
    BY <2>1 DEF Tests, Registered, Placed, InOrder, Done
  <2>3. Tallied'
    BY <2>1 DEF Tests, Tallied
  <2>4. TestRunner!Failed = {}
    BY <1>0, <2>1 DEF TestRunner!Failed
  <2>5. Stopped'
    BY <2>1, <2>4 DEF Tests, Stopped
  <2>. QED  BY <2>2, <2>3, <2>5 DEF Tests
<1>4. CASE TestRunner!TestBlock
  <2>1. /\ UNCHANGED <<StopOnFail, entries, m_test_count, m_fail_count, phase, summaries,
                       exit_code, fates>>
        /\ phase = "block" /\ unit = Units /\ at < Len(entries) /\ at' = at + 1 /\ unit' = 0
        /\ m_block_count' = m_block_count + 1 /\ TestRunner!Failed' = TestRunner!Failed
    BY <1>4 DEF TestRunner!TestBlock, TestRunner!Failed
  <2>2. Registered' /\ InOrder'
    BY <2>1 DEF Tests, Registered, InOrder
  <2>3. Len(fates) = at * Units
    <3>1. CASE at = 0
      BY <3>1 DEF Tests, Placed
    <3>2. CASE at > 0
      <4>1. Len(fates) = (at - 1) * Units + Units /\ at - 1 \in Nat
        BY <1>0, <2>1, <3>2 DEF Tests, Placed, Done
      <4>2. ((at - 1) + 1) * Units = (at - 1) * Units + Units
        BY <4>1, Products
      <4>. QED  BY <1>0, <4>1, <4>2
    <3>. QED  BY <1>0, <3>1, <3>2
  <2>4. Placed'
    <3>1. at' > 0 /\ at' - 1 = at /\ at' \in 0..Len(entries') /\ phase' = "block" /\ unit' = 0
      BY <1>0, <2>1
    <3>2. at \in Nat /\ Units \in Nat
      BY <1>0
    <3>3. at * Units \in Nat
      BY <3>2, Products
    <3>4. (at' - 1) * Units = at * Units
      BY <3>1, Zenon
    <3>5. Len(fates') = (at' - 1) * Units + Done'
      BY <2>1, <2>3, <3>1, <3>3, <3>4 DEF Done
    <3>. QED  BY <3>1, <3>5 DEF Placed
  <2>5. Tallied' /\ Stopped'
    BY <1>0, <2>1 DEF Tests, Tallied, Stopped
  <2>. QED  BY <2>2, <2>4, <2>5 DEF Tests
<1>5. CASE TestRunner!StartTest
  <2>1. /\ UNCHANGED <<StopOnFail, entries, at, m_fail_count, m_block_count, summaries,
                       exit_code, fates>>
        /\ phase = "block" /\ unit < Units /\ unit' = unit + 1 /\ phase' = "test"
        /\ m_test_count' = m_test_count + 1 /\ TestRunner!Failed' = TestRunner!Failed
    BY <1>5 DEF TestRunner!StartTest, TestRunner!Failed
  <2>2. Registered' /\ InOrder'
    BY <2>1 DEF Tests, Registered, InOrder
  <2>3. at > 0 /\ Len(fates) = (at - 1) * Units + unit
    BY <1>0, <2>1 DEF Tests, Placed, Done
  <2>4. Placed'
    BY <1>0, <2>1, <2>3 DEF Placed, Done
  <2>5. Tallied' /\ Stopped'
    BY <1>0, <2>1 DEF Tests, Tallied, Stopped
  <2>. QED  BY <2>2, <2>4, <2>5 DEF Tests
<1>6. CASE TestRunner!CheckHolds
  BY <1>6 DEF TestRunner!CheckHolds, Tests, Registered, Placed, InOrder, Tallied, Stopped, Done,
              TestRunner!Failed
<1>7. ASSUME phase = "test", NEW passed \in BOOLEAN, TestRunner!Told(passed),
             UNCHANGED <<StopOnFail, entries, at, unit, m_test_count, m_block_count>>,
             phase' \in {"block", "ended"}
      PROVE  /\ Registered' /\ Placed' /\ InOrder' /\ m_test_count' = Len(fates') /\ unit' > 0
             /\ m_block_count' = at' /\ Len(fates') = Len(fates) + 1
             /\ Cardinality(TestRunner!Failed') = m_fail_count + (IF passed THEN 0 ELSE 1)
             /\ StopOnFail' => TestRunner!Failed' = IF passed THEN {} ELSE {Len(fates')}
  <2>1. /\ fates' \in Seq(Fates) /\ Len(fates') = Len(fates) + 1
        /\ \A i \in 1..Len(fates) : fates'[i] = fates[i]
        /\ fates'[Len(fates')] = <<entries[at], unit, passed>>
        /\ Len(fates) \div Units = at - 1 /\ Len(fates) % Units = unit - 1
        /\ IF passed THEN TestRunner!Failed' = TestRunner!Failed
           ELSE /\ TestRunner!Failed' = TestRunner!Failed \cup {Len(fates')}
                /\ Cardinality(TestRunner!Failed') = Cardinality(TestRunner!Failed) + 1
    BY <1>7, TestTold
  <2>2. Registered'
    BY <1>7, <2>1 DEF Tests, Registered
  <2>3. Placed' /\ unit' > 0
    <3>1. at > 0 /\ unit > 0 /\ Len(fates) = (at - 1) * Units + (unit - 1)
      BY <1>7 DEF Tests, Placed, Done
    <3>2. (at - 1) * Units \in Nat
      BY <1>0, <3>1, Products
    <3>3. Len(fates') = (at - 1) * Units + unit
      BY <1>0, <2>1, <3>1, <3>2, SMTT(30)
    <3>. QED  BY <1>0, <1>7, <3>1, <3>3 DEF Placed, Done
  <2>4. ASSUME NEW i \in 1..Len(fates')
        PROVE  /\ fates'[i][1] = entries[(i - 1) \div Units + 1]
               /\ fates'[i][2] = ((i - 1) % Units) + 1
    <3>1. CASE i \in 1..Len(fates)
      BY <2>1, <3>1 DEF Tests, InOrder
    <3>2. CASE i = Len(fates) + 1
      <4>1. i - 1 = Len(fates)
        BY <1>0, <3>2
      <4>2. (i - 1) \div Units + 1 = at /\ ((i - 1) % Units) + 1 = unit
        BY <1>0, <2>1, <4>1
      <4>3. fates'[i] = <<entries[at], unit, passed>>
        BY <2>1, <3>2
      <4>4. fates'[i][1] = entries[at] /\ fates'[i][2] = unit
        BY <4>3
      <4>. QED  BY <4>2, <4>4
    <3>3. i \in 1..Len(fates) \/ i = Len(fates) + 1
      BY <1>0, <2>1
    <3>. QED  BY <3>1, <3>2, <3>3, Zenon
  <2>5. InOrder'
    BY <1>7, <2>4 DEF InOrder
  <2>6. m_test_count' = Len(fates') /\ m_block_count' = at'
    BY <1>0, <1>7, <2>1 DEF Tests, Tallied
  <2>7. Cardinality(TestRunner!Failed') = m_fail_count + (IF passed THEN 0 ELSE 1)
    <3>1. CASE passed
      <4>1. Cardinality(TestRunner!Failed) \in Nat
        BY <1>0, FailedFinite
      <4>. QED  BY <2>1, <3>1, <4>1 DEF Tests, Tallied
    <3>2. CASE ~passed
      BY <2>1, <3>2 DEF Tests, Tallied
    <3>. QED  BY <3>1, <3>2
  <2>8. StopOnFail' => TestRunner!Failed' = IF passed THEN {} ELSE {Len(fates')}
    <3>1. StopOnFail' => TestRunner!Failed = {}
      BY <1>7 DEF Tests, Stopped
    <3>2. CASE passed
      BY <2>1, <3>1, <3>2
    <3>3. CASE ~passed
      BY <2>1, <3>1, <3>3
    <3>. QED  BY <3>2, <3>3
  <2>. QED  BY <2>1, <2>2, <2>3, <2>5, <2>6, <2>7, <2>8
<1>8. CASE TestRunner!Passes
  <2>1. /\ phase = "test" /\ phase' = "block" /\ TestRunner!Told(TRUE)
        /\ UNCHANGED <<StopOnFail, entries, at, unit, m_test_count, m_fail_count, m_block_count,
                       summaries, exit_code>>
    BY <1>8 DEF TestRunner!Passes
  <2>2. /\ Registered' /\ Placed' /\ InOrder' /\ m_test_count' = Len(fates')
        /\ m_block_count' = at' /\ Len(fates') = Len(fates) + 1
        /\ Cardinality(TestRunner!Failed') = m_fail_count + 0
        /\ StopOnFail' => TestRunner!Failed' = {}
    BY <1>7, <2>1
  <2>3. m_fail_count + 0 = m_fail_count
    <3>1. Cardinality(TestRunner!Failed) \in Nat
      BY <1>0, FailedFinite
    <3>. QED  BY <3>1 DEF Tests, Tallied
  <2>4. Tallied'
    BY <1>0, <2>1, <2>2, <2>3 DEF Tallied
  <2>5. Stopped'
    BY <2>1, <2>2 DEF Tests, Stopped
  <2>. QED  BY <2>2, <2>4, <2>5 DEF Tests
<1>9. CASE TestRunner!CheckFails \/ TestRunner!Throws
  <2>1. /\ phase = "test" /\ TestRunner!Told(FALSE) /\ m_fail_count' = m_fail_count + 1
        /\ UNCHANGED <<StopOnFail, entries, at, unit, m_test_count, m_block_count>>
        /\ \/ ~StopOnFail /\ phase' = "block" /\ UNCHANGED <<summaries, exit_code>>
           \/ /\ phase' = "ended" /\ exit_code' = 255
              /\ summaries' = Append(summaries, <<m_test_count, m_fail_count + 1, m_block_count>>)
    BY <1>9 DEF TestRunner!CheckFails, TestRunner!Throws, TestRunner!Counted,
                TestRunner!Summary
  <2>2. /\ Registered' /\ Placed' /\ InOrder' /\ m_test_count' = Len(fates') /\ unit' > 0
        /\ m_block_count' = at' /\ Len(fates') = Len(fates) + 1
        /\ Cardinality(TestRunner!Failed') = m_fail_count + 1
        /\ StopOnFail' => TestRunner!Failed' = {Len(fates')}
    BY <1>7, <2>1
  <2>3. phase' # "test"
    BY <2>1
  <2>4. Tallied'
    BY <1>0, <2>1, <2>2, <2>3 DEF Tallied
  <2>5. summaries = <<>>
    BY <2>1 DEF Tests, Stopped
  <2>6. Stopped'
    <3>1. CASE ~StopOnFail /\ phase' = "block" /\ UNCHANGED <<summaries, exit_code>>
      BY <2>1, <3>1 DEF Tests, Stopped
    <3>2. CASE phase' = "ended" /\ exit_code' = 255 /\
               summaries' = Append(summaries, <<m_test_count, m_fail_count + 1, m_block_count>>)
      <4>1. summaries' = <<<<Len(fates'), m_fail_count', at'>>>>
        <5>1. PICK row : row = <<m_test_count, m_fail_count + 1, m_block_count>>
          OBVIOUS
        <5>2. summaries' = <<row>>
          BY <2>5, <3>2, <5>1
        <5>3. row = <<Len(fates'), m_fail_count', at'>>
          BY <2>1, <2>2, <5>1
        <5>. QED  BY <5>2, <5>3
      <4>2. StopOnFail' => TestRunner!Failed' \subseteq {Len(fates')}
        BY <2>2
      <4>3. exit_code' # 0
        BY <3>2
      <4>. QED  BY <2>2, <3>2, <4>1, <4>2, <4>3, Zenon DEF Stopped
    <3>. QED  BY <2>1, <3>1, <3>2
  <2>. QED  BY <2>2, <2>4, <2>6 DEF Tests
<1>10. CASE TestRunner!AllRun
  <2>1. /\ UNCHANGED <<StopOnFail, entries, at, unit, m_test_count, m_fail_count, m_block_count,
                       fates>>
        /\ phase = "block" /\ unit = Units /\ at = Len(entries) /\ phase' = "ended"
        /\ exit_code' = 0 /\ TestRunner!Failed' = TestRunner!Failed
        /\ summaries' = Append(summaries, <<m_test_count, m_fail_count, m_block_count>>)
    BY <1>10 DEF TestRunner!AllRun, TestRunner!Failed, TestRunner!Summary
  <2>2. Registered' /\ Placed' /\ InOrder' /\ Tallied'
    BY <2>1 DEF Tests, Registered, Placed, InOrder, Tallied, Done
  <2>3. m_test_count = Len(fates) /\ m_block_count = at /\ summaries = <<>>
    BY <1>0, <2>1 DEF Tests, Tallied, Stopped
  <2>4. summaries' = <<<<Len(fates'), m_fail_count', at'>>>>
    BY <2>1, <2>3
  <2>5. Stopped'
    BY <2>1, <2>4 DEF Tests, Stopped
  <2>. QED  BY <2>2, <2>5 DEF Tests
<1>. QED  BY <1>1, <1>2, <1>3, <1>4, <1>5, <1>6, <1>8, <1>9, <1>10 DEF TestRunner!Next
(* A runner that is done has begun the blocks up to the one in hand.       *)
LEMMA BlocksBegun ==
  ASSUME Tests, phase = "ended", unit > 0
  PROVE  TestRunner!Begun = 1..at
<1>. USE UnitsNatural
<1>1. /\ Len(fates) \in Nat /\ Len(entries) \in Nat /\ at \in 0..Len(entries)
      /\ unit \in 1..Units /\ DOMAIN fates = 1..Len(fates) /\ DOMAIN entries = 1..Len(entries)
      /\ at = 0 => Len(fates) = 0
  BY DEF Tests, Registered, Placed, Done
<1>0. at > 0 => Len(fates) = (at - 1) * Units + unit
  BY DEF Tests, Placed, Done
<1>2. ASSUME NEW k \in 1..at PROVE k \in TestRunner!Begun
  <2>0. at \in Nat /\ k \in Nat /\ k >= 1 /\ k <= at
    BY <1>1
  <2>1. PICK others \in Nat : others = k - 1
    BY <2>0
  <2>2. PICK before \in Nat : before = at - 1
    BY <2>0
  <2>3. others <= before /\ others + 1 = k /\ others \in Nat
    BY <2>0, <2>1, <2>2
  <2>4. /\ others * Units \in Nat /\ before * Units \in Nat
        /\ others * Units <= before * Units
    BY <2>2, <2>3, Products
  <2>5. Len(fates) = before * Units + unit
    BY <1>0, <2>0, <2>2
  <2>6. PICK i \in 1..Len(fates) : i = others * Units + 1
    BY <1>1, <2>4, <2>5
  <2>7. (others * Units + 1 - 1) \div Units = others
    BY <2>3, Position
  <2>8. i - 1 = others * Units + 1 - 1
    BY <2>4, <2>6
  <2>9. fates[i][1] = entries[(i - 1) \div Units + 1]
    BY DEF Tests, InOrder
  <2>10. fates[i][1] = entries[k]
    BY <2>3, <2>7, <2>8, <2>9, Zenon
  <2>11. k \in DOMAIN entries /\ i \in DOMAIN fates
    BY <1>1, <2>0
  <2>. QED  BY <2>10, <2>11, Zenon DEF TestRunner!Begun
<1>3. ASSUME NEW k \in TestRunner!Begun PROVE k \in 1..at
  <2>1. PICK i \in 1..Len(fates) : fates[i][1] = entries[k]
    BY <1>1 DEF TestRunner!Begun
  <2>2. k \in 1..Len(entries)
    BY <1>1 DEF TestRunner!Begun
  <2>3. PICK n \in Nat : n = i - 1
    BY <1>1, <2>1
  <2>0. at \in Nat /\ at > 0
    BY <1>1, <2>1
  <2>4. PICK before \in Nat : before = at - 1
    BY <2>0
  <2>5. n < at * Units
    <3>1. before * Units \in Nat /\ (before + 1) * Units = before * Units + Units
      BY Products
    <3>2. before + 1 = at
      BY <2>0, <2>4
    <3>3. at * Units = before * Units + Units
      BY <3>1, <3>2, Zenon
    <3>4. Len(fates) = before * Units + unit
      BY <1>0, <2>0, <2>4
    <3>. QED  BY <1>1, <2>3, <3>1, <3>3, <3>4
  <2>6. n \div Units \in Nat /\ n \div Units < at
    BY <2>0, <2>5, BlockOf, Quotient
  <2>7. fates[i][1] = entries[n \div Units + 1]
    BY <2>3 DEF Tests, InOrder
  <2>8. n \div Units + 1 \in 1..at /\ n \div Units + 1 \in 1..Len(entries)
    BY <1>1, <2>0, <2>6
  <2>9. n \div Units + 1 = k
    BY <2>1, <2>2, <2>7, <2>8 DEF Tests, Registered
  <2>. QED  BY <2>8, <2>9, Zenon
<1>. QED  BY <1>2, <1>3

(* The instance has a name of its own for the library's operator.          *)
LEMMA SameCardinality ==
  ASSUME NEW S PROVE TestRunner!Cardinality(S) = Cardinality(S)
BY Zenon DEF TestRunner!Cardinality, Cardinality

LEMMA TestsTell ==
  ASSUME Tests PROVE SummaryTells
<1>1. TestRunner!SummaryTells
  <2>1. SUFFICES ASSUME phase = "ended" /\ exit_code # -20
                 PROVE  summaries = <<<<Len(fates), Cardinality(TestRunner!Failed),
                                        Cardinality(TestRunner!Begun)>>>>
    BY SameCardinality, Zenon DEF TestRunner!SummaryTells
  <2>2. /\ unit > 0 /\ summaries = <<<<Len(fates), m_fail_count, at>>>>
        /\ m_fail_count = Cardinality(TestRunner!Failed) /\ at \in Nat
    BY <2>1 DEF Tests, Stopped, Tallied, Placed, Registered
  <2>3. Cardinality(TestRunner!Begun) = at
    BY <2>1, <2>2, BlocksBegun, FS_Interval
  <2>. QED  BY <2>2, <2>3, Zenon
<1>2. TestRunner!EachRunsOnce
  <2>1. \A i \in DOMAIN fates : /\ fates[i][1] = entries[(i - 1) \div Units + 1]
                                /\ fates[i][2] = ((i - 1) % Units) + 1
    BY DEF Tests, Registered, InOrder
  <2>2. StopOnFail => TestRunner!Failed \subseteq {Len(fates)}
    BY DEF Tests, Stopped
  <2>3. ASSUME exit_code = 0 PROVE Len(fates) = Len(entries) * Units
    <3>1. at = Len(entries) /\ unit = Units /\ phase = "ended" /\ at \in Nat
      BY <2>3 DEF Tests, Stopped, Registered, Placed
    <3>2. CASE at = 0
      BY <3>1, <3>2, UnitsNatural DEF Tests, Placed
    <3>3. CASE at > 0
      <4>1. PICK before \in Nat : before = at - 1
        BY <3>1, <3>3
      <4>2. Len(fates) = before * Units + Units /\ before + 1 = at
        BY <3>1, <3>3, <4>1 DEF Tests, Placed, Done
      <4>3. (before + 1) * Units = before * Units + Units
        BY Products, UnitsNatural
      <4>. QED  BY <3>1, <4>2, <4>3, Zenon
    <3>. QED  BY <3>1, <3>2, <3>3
  <2>. QED  BY <2>1, <2>2, <2>3 DEF TestRunner!EachRunsOnce
<1>. QED  BY <1>1, <1>2 DEF SummaryTells

(* IATest: the summary and the exit code tell exactly what ran, and every  *)
(* test of every registered block runs once, in order, up to a failure     *)
(* that stops the runner; for any number of blocks, tests and checks.      *)
THEOREM SummaryTellsAlways == UtilitiesSpec => []SummaryTells
<1>1. UtilitiesInit => Tests
  BY TestsStart DEF UtilitiesInit
<1>2. Tests /\ [UtilitiesNext]_utilityVars => Tests'
  BY PartSteps, TestsKept
<1>3. Tests => SummaryTells
  BY TestsTell
<1>. QED  BY <1>1, <1>2, <1>3, PTL DEF UtilitiesSpec
-----------------------------------------------------------------------------
(* DataOps: CRC-32C.  A sum is linear over exclusive or, so that the sum   *)
(* of a word is that of its four bytes, each looked up in a table.         *)
Words32 == SUBSET (0..31)

LEMMA XorLaws ==
  ASSUME NEW a, NEW b, NEW c, NEW d
  PROVE  /\ Crc!Xor(a, {}) = a /\ Crc!Xor({}, a) = a
         /\ Crc!Xor(a, b) = Crc!Xor(b, a)
         /\ Crc!Xor(Crc!Xor(a, b), c) = Crc!Xor(a, Crc!Xor(b, c))
         /\ Crc!Xor(Crc!Xor(a, b), Crc!Xor(c, d)) = Crc!Xor(Crc!Xor(a, c), Crc!Xor(b, d))
         /\ Crc!Xor(a, Crc!Xor(b, Crc!Xor(c, d))) = Crc!Xor4(d, c, b, a)
<1>1. \A x, y, z : z \in Crc!Xor(x, y) <=> ~(z \in x <=> z \in y)
  BY DEF Crc!Xor
<1>2. \A x, y : (\A z : z \in x <=> z \in y) => x = y
  OBVIOUS
<1>3. Crc!Xor(a, {}) = a /\ Crc!Xor({}, a) = a
  BY <1>1, <1>2
<1>4. Crc!Xor(a, b) = Crc!Xor(b, a)
  BY <1>1, <1>2
<1>5. \A x, y, z : Crc!Xor(Crc!Xor(x, y), z) = Crc!Xor(x, Crc!Xor(y, z))
  <2>1. SUFFICES ASSUME NEW x, NEW y, NEW z
                 PROVE  Crc!Xor(Crc!Xor(x, y), z) = Crc!Xor(x, Crc!Xor(y, z))
    OBVIOUS
  <2>2. \A e : e \in Crc!Xor(Crc!Xor(x, y), z) <=> e \in Crc!Xor(x, Crc!Xor(y, z))
    BY <1>1
  <2>. QED  BY <2>2
<1>6. \A x, y : Crc!Xor(x, y) = Crc!Xor(y, x)
  BY <1>1, <1>2
<1>7. Crc!Xor(Crc!Xor(a, b), Crc!Xor(c, d)) = Crc!Xor(Crc!Xor(a, c), Crc!Xor(b, d))
  <2>1. Crc!Xor(b, Crc!Xor(c, d)) = Crc!Xor(Crc!Xor(b, c), d)
    BY <1>5, SMT
  <2>2. Crc!Xor(b, c) = Crc!Xor(c, b)
    BY <1>6, Zenon
  <2>3. Crc!Xor(Crc!Xor(c, b), d) = Crc!Xor(c, Crc!Xor(b, d))
    BY <1>5, SMT
  <2>4. Crc!Xor(Crc!Xor(a, b), Crc!Xor(c, d)) = Crc!Xor(a, Crc!Xor(b, Crc!Xor(c, d)))
    BY <1>5, SMT
  <2>5. Crc!Xor(Crc!Xor(a, c), Crc!Xor(b, d)) = Crc!Xor(a, Crc!Xor(c, Crc!Xor(b, d)))
    BY <1>5, SMT
  <2>. QED  BY <2>1, <2>2, <2>3, <2>4, <2>5
<1>8. Crc!Xor(a, Crc!Xor(b, Crc!Xor(c, d))) = Crc!Xor4(d, c, b, a)
  <2>1. /\ Crc!Xor(d, c) = Crc!Xor(c, d) /\ Crc!Xor(b, a) = Crc!Xor(a, b)
        /\ Crc!Xor(Crc!Xor(d, c), Crc!Xor(b, a)) = Crc!Xor(Crc!Xor(b, a), Crc!Xor(d, c))
    BY <1>6, Zenon
  <2>2. Crc!Xor(Crc!Xor(a, b), Crc!Xor(c, d)) = Crc!Xor(a, Crc!Xor(b, Crc!Xor(c, d)))
    BY <1>5, SMT
  <2>. QED  BY <2>1, <2>2 DEF Crc!Xor4
<1>. QED  BY <1>3, <1>4, <1>5, <1>7, <1>8

LEMMA XorTyped ==
  ASSUME NEW a \in Words32, NEW b \in Words32, NEW n \in Nat
  PROVE  /\ Crc!Xor(a, b) \in Words32 /\ Crc!Shr(a, n) \in Words32 /\ Crc!Low8(a) \in Crc!Bytes
         /\ Crc!Bytes \subseteq Words32 /\ {} \in Crc!Bytes
<1>1. Crc!Xor(a, b) \in Words32
  BY DEF Words32, Crc!Xor
<1>2. Crc!Shr(a, n) \in Words32
  BY DEF Words32, Crc!Shr
<1>3. Crc!Low8(a) \in Crc!Bytes
  <2>1. \A i \in Crc!Low8(a) : i \in 0..31 /\ i < 8
    BY DEF Words32, Crc!Low8
  <2>2. Crc!Low8(a) \subseteq 0..7
    BY <2>1
  <2>. QED  BY <2>2 DEF Crc!Bytes
<1>4. Crc!Bytes \subseteq Words32 /\ {} \in Crc!Bytes
  BY DEF Words32, Crc!Bytes
<1>. QED  BY <1>1, <1>2, <1>3, <1>4

LEMMA Shifts ==
  ASSUME NEW a \in Words32, NEW m \in Nat, NEW n \in Nat
  PROVE  /\ \A i \in Nat : i \in Crc!Shr(a, n) <=> i + n \in a
         /\ Crc!Shr(Crc!Shr(a, m), n) = Crc!Shr(a, m + n)
<1>1. \A b \in Words32, k, i \in Nat : i \in Crc!Shr(b, k) <=> i + k \in b
  BY DEF Words32, Crc!Shr
<1>2. Crc!Shr(a, m) \in Words32 /\ Crc!Shr(Crc!Shr(a, m), n) \in Words32 /\ m + n \in Nat
      /\ Crc!Shr(a, m + n) \in Words32
  <2>1. m + n \in Nat /\ Crc!Shr(a, m) \in Words32
    BY XorTyped
  <2>. QED  BY <2>1, XorTyped
<1>3. ASSUME NEW i \in Nat
      PROVE  i \in Crc!Shr(Crc!Shr(a, m), n) <=> i \in Crc!Shr(a, m + n)
  <2>1. i + n \in Nat /\ (i + n) + m = i + (m + n)
    OBVIOUS
  <2>. QED  BY <1>1, <1>2, <2>1
<1>4. Crc!Shr(Crc!Shr(a, m), n) \subseteq Nat /\ Crc!Shr(a, m + n) \subseteq Nat
  BY <1>2 DEF Words32
<1>. QED  BY <1>1, <1>3, <1>4

LEMMA XorShift ==
  ASSUME NEW a \in Words32, NEW b \in Words32, NEW n \in Nat
  PROVE  /\ Crc!Shr(Crc!Xor(a, b), n) = Crc!Xor(Crc!Shr(a, n), Crc!Shr(b, n))
         /\ Crc!Low8(Crc!Xor(a, b)) = Crc!Xor(Crc!Low8(a), Crc!Low8(b))
<1>1. Crc!Xor(a, b) \in Words32 /\ Crc!Shr(a, n) \in Words32 /\ Crc!Shr(b, n) \in Words32
  BY XorTyped
<1>2. Crc!Shr(Crc!Xor(a, b), n) \in Words32
  BY <1>1, XorTyped
<1>3. ASSUME NEW i \in Nat
      PROVE  i \in Crc!Shr(Crc!Xor(a, b), n) <=> i \in Crc!Xor(Crc!Shr(a, n), Crc!Shr(b, n))
  <2>1. i \in Crc!Shr(Crc!Xor(a, b), n) <=> i + n \in Crc!Xor(a, b)
    BY <1>1, Shifts, Zenon
  <2>2. i \in Crc!Shr(a, n) <=> i + n \in a
    BY Shifts, Zenon
  <2>3. i \in Crc!Shr(b, n) <=> i + n \in b
    BY Shifts, Zenon
  <2>. QED  BY <2>1, <2>2, <2>3, Zenon DEF Crc!Xor
<1>4. Crc!Shr(Crc!Xor(a, b), n) \subseteq Nat
      /\ Crc!Xor(Crc!Shr(a, n), Crc!Shr(b, n)) \subseteq Nat
  BY <1>1, <1>2 DEF Words32, Crc!Xor
<1>5. Crc!Shr(Crc!Xor(a, b), n) = Crc!Xor(Crc!Shr(a, n), Crc!Shr(b, n))
  BY <1>3, <1>4
<1>6. Crc!Low8(Crc!Xor(a, b)) = Crc!Xor(Crc!Low8(a), Crc!Low8(b))
  BY DEF Crc!Low8, Crc!Xor
<1>. QED  BY <1>5, <1>6

LEMMA BitLinear ==
  ASSUME NEW a \in Words32, NEW b \in Words32
  PROVE  Crc!Bit(a) \in Words32 /\ Crc!Bit(Crc!Xor(a, b)) = Crc!Xor(Crc!Bit(a), Crc!Bit(b))
<1>. DEFINE x == Crc!Shr(a, 1)
            y == Crc!Shr(b, 1)
            t == Crc!T
<1>1. t \in Words32
  BY DEF Crc!T, Words32
<1>2. x \in Words32 /\ y \in Words32 /\ Crc!Xor(x, t) \in Words32
  BY <1>1, XorTyped
<1>3. Crc!Bit(a) \in Words32
  BY <1>2 DEF Crc!Bit
<1>4. Crc!Shr(Crc!Xor(a, b), 1) = Crc!Xor(x, y)
  BY XorShift
<1>5. 0 \in Crc!Xor(a, b) <=> ~(0 \in a <=> 0 \in b)
  BY DEF Crc!Xor
<1>. HIDE DEF x, y, t
<1>6. /\ Crc!Bit(a) = IF 0 \in a THEN Crc!Xor(x, t) ELSE x
      /\ Crc!Bit(b) = IF 0 \in b THEN Crc!Xor(y, t) ELSE y
      /\ Crc!Bit(Crc!Xor(a, b)) = IF 0 \in Crc!Xor(a, b) THEN Crc!Xor(Crc!Xor(x, y), t)
                                  ELSE Crc!Xor(x, y)
  BY <1>4, Zenon DEF Crc!Bit, x, y, t
<1>7. /\ Crc!Xor(Crc!Xor(x, y), t) = Crc!Xor(Crc!Xor(x, t), y)
      /\ Crc!Xor(Crc!Xor(x, y), t) = Crc!Xor(x, Crc!Xor(y, t))
      /\ Crc!Xor(x, y) = Crc!Xor(Crc!Xor(x, t), Crc!Xor(y, t))
  BY DEF Crc!Xor
<1>8. Crc!Bit(Crc!Xor(a, b)) = Crc!Xor(Crc!Bit(a), Crc!Bit(b))
  BY <1>5, <1>6, <1>7, Zenon
<1>. QED  BY <1>3, <1>8
LEMMA ByteLinear ==
  ASSUME NEW a \in Words32, NEW b \in Words32
  PROVE  Crc!Byte(a) \in Words32 /\ Crc!Byte(Crc!Xor(a, b)) = Crc!Xor(Crc!Byte(a), Crc!Byte(b))
<1>. DEFINE Two(x) == Crc!Bit(Crc!Bit(x))
            Four(x) == Two(Two(x))
<1>1. \A x, y \in Words32 :
        Two(x) \in Words32 /\ Two(Crc!Xor(x, y)) = Crc!Xor(Two(x), Two(y))
  BY BitLinear
<1>. HIDE DEF Two
<1>2. \A x, y \in Words32 :
        Four(x) \in Words32 /\ Four(Crc!Xor(x, y)) = Crc!Xor(Four(x), Four(y))
  BY <1>1
<1>3. \A x : Crc!Byte(x) = Four(Four(x))
  BY DEF Crc!Byte, Two
<1>. HIDE DEF Four
<1>4. Four(a) \in Words32 /\ Four(b) \in Words32
  BY <1>2
<1>. QED  BY <1>2, <1>3, <1>4

(* Bits that are not among the lowest eight just move.                     *)
LEMMA ByteMoves ==
  ASSUME NEW a \in Words32, \A i \in a : i >= 8
  PROVE  Crc!Byte(a) = Crc!Shr(a, 8)
<1>1. ASSUME NEW n \in 0..7 PROVE Crc!Bit(Crc!Shr(a, n)) = Crc!Shr(a, n + 1)
  <2>1. n \notin a /\ n \in Nat /\ 0 + n = n
    OBVIOUS
  <2>2. 0 \notin Crc!Shr(a, n)
    BY <2>1, Shifts
  <2>3. Crc!Shr(Crc!Shr(a, n), 1) = Crc!Shr(a, n + 1)
    BY <2>1, Shifts
  <2>. QED  BY <2>2, <2>3 DEF Crc!Bit
<1>2. Crc!Shr(a, 0) = a
  <2>1. \A i \in Nat : i \in Crc!Shr(a, 0) <=> i \in a
    BY Shifts
  <2>2. a \subseteq Nat /\ Crc!Shr(a, 0) \subseteq Nat
    BY XorTyped DEF Words32
  <2>. QED  BY <2>1, <2>2
<1>3. /\ Crc!Bit(Crc!Shr(a, 0)) = Crc!Shr(a, 1) /\ Crc!Bit(Crc!Shr(a, 1)) = Crc!Shr(a, 2)
      /\ Crc!Bit(Crc!Shr(a, 2)) = Crc!Shr(a, 3) /\ Crc!Bit(Crc!Shr(a, 3)) = Crc!Shr(a, 4)
      /\ Crc!Bit(Crc!Shr(a, 4)) = Crc!Shr(a, 5) /\ Crc!Bit(Crc!Shr(a, 5)) = Crc!Shr(a, 6)
      /\ Crc!Bit(Crc!Shr(a, 6)) = Crc!Shr(a, 7) /\ Crc!Bit(Crc!Shr(a, 7)) = Crc!Shr(a, 8)
  BY <1>1
<1>. QED  BY <1>2, <1>3 DEF Crc!Byte

LEMMA ByteSplit ==
  ASSUME NEW a \in Words32
  PROVE  Crc!Byte(a) = Crc!Xor(Crc!Shr(a, 8), Crc!Byte(Crc!Low8(a)))
<1>. DEFINE h == a \ Crc!Low8(a)
<1>1. h \in Words32 /\ Crc!Low8(a) \in Words32 /\ \A i \in h : i >= 8
  <2>1. \A i \in a : i \in 0..31
    BY DEF Words32
  <2>2. \A i \in h : i >= 8
    BY <2>1 DEF Crc!Low8
  <2>3. h \subseteq a /\ Crc!Low8(a) \subseteq a
    BY DEF Crc!Low8
  <2>. QED  BY <2>2, <2>3 DEF Words32
<1>2. a = Crc!Xor(h, Crc!Low8(a))
  BY DEF Crc!Xor, Crc!Low8
<1>3. Crc!Shr(h, 8) = Crc!Shr(a, 8)
  <2>1. ASSUME NEW i \in Nat PROVE i \in Crc!Shr(h, 8) <=> i \in Crc!Shr(a, 8)
    <3>1. i \in Crc!Shr(h, 8) <=> i + 8 \in h
      BY <1>1, Shifts
    <3>2. i \in Crc!Shr(a, 8) <=> i + 8 \in a
      BY Shifts
    <3>3. i + 8 \in h <=> i + 8 \in a
      BY DEF Crc!Low8
    <3>. QED  BY <3>1, <3>2, <3>3
  <2>3. Crc!Shr(h, 8) \in Words32 /\ Crc!Shr(a, 8) \in Words32
    BY <1>1, XorTyped
  <2>2. Crc!Shr(h, 8) \subseteq Nat /\ Crc!Shr(a, 8) \subseteq Nat
    BY <2>3 DEF Words32
  <2>. QED  BY <2>1, <2>2
<1>. HIDE DEF h
<1>4. Crc!Byte(h) = Crc!Shr(a, 8)
  BY <1>1, <1>3, ByteMoves
<1>5. Crc!Byte(Crc!Xor(h, Crc!Low8(a))) = Crc!Xor(Crc!Byte(h), Crc!Byte(Crc!Low8(a)))
  BY <1>1, ByteLinear
<1>. QED  BY <1>2, <1>4, <1>5

(* A table holds what a byte becomes, the next one what the byte behind it *)
(* makes of this.                                                          *)
B2(x) == Crc!Byte(Crc!Byte(x))
B3(x) == Crc!Byte(B2(x))
B4(x) == Crc!Byte(B3(x))

LEMMA Slices ==
  ASSUME NEW b \in Crc!Bytes
  PROVE  /\ Crc!Table0[b] = Crc!Byte(b) /\ Crc!Table1[b] = B2(b)
         /\ Crc!Table2[b] = B3(b) /\ Crc!Table3[b] = B4(b)
         /\ Crc!Table4[b] = B4(Crc!Byte(b)) /\ Crc!Table5[b] = B4(B2(b))
         /\ Crc!Table6[b] = B4(B3(b)) /\ Crc!Table7[b] = B4(B4(b))
<1>0. \A c \in Crc!Bytes : c \in Words32
  BY DEF Crc!Bytes, Words32
<1>1. \A c \in Crc!Bytes : Crc!Table0[c] = Crc!Byte(c)
  BY DEF Crc!Table0
<1>2. ASSUME NEW slice, slice[b] \in Words32
      PROVE  Crc!NextSlice(slice)[b] = Crc!Byte(slice[b])
  <2>1. Crc!Low8(slice[b]) \in Crc!Bytes
    BY <1>2, XorTyped
  <2>2. Crc!NextSlice(slice)[b]
          = Crc!Xor(Crc!Shr(slice[b], 8), Crc!Table0[Crc!Low8(slice[b])])
    BY Zenon DEF Crc!NextSlice
  <2>. QED  BY <1>1, <1>2, <2>1, <2>2, ByteSplit
<1>3. ASSUME NEW x \in Words32 PROVE Crc!Byte(x) \in Words32
  BY ByteLinear
<1>4. Crc!Table0[b] = Crc!Byte(b) /\ Crc!Table0[b] \in Words32
  BY <1>0, <1>1, <1>3
<1>5. Crc!Table1[b] = B2(b) /\ Crc!Table1[b] \in Words32
  BY <1>2, <1>3, <1>4 DEF Crc!Table1, B2
<1>6. Crc!Table2[b] = B3(b) /\ Crc!Table2[b] \in Words32
  BY <1>2, <1>3, <1>5 DEF Crc!Table2, B3
<1>7. Crc!Table3[b] = B4(b) /\ Crc!Table3[b] \in Words32
  BY <1>2, <1>3, <1>6 DEF Crc!Table3, B4
<1>8. Crc!Table4[b] = Crc!Byte(B4(b)) /\ Crc!Table4[b] \in Words32
  BY <1>2, <1>3, <1>7 DEF Crc!Table4
<1>9. Crc!Table5[b] = Crc!Byte(Crc!Byte(B4(b))) /\ Crc!Table5[b] \in Words32
  BY <1>2, <1>3, <1>8 DEF Crc!Table5
<1>10. Crc!Table6[b] = Crc!Byte(Crc!Byte(Crc!Byte(B4(b)))) /\ Crc!Table6[b] \in Words32
  BY <1>2, <1>3, <1>9 DEF Crc!Table6
<1>11. Crc!Table7[b] = Crc!Byte(Crc!Byte(Crc!Byte(Crc!Byte(B4(b)))))
  BY <1>2, <1>3, <1>10 DEF Crc!Table7
<1>. QED  BY <1>4, <1>5, <1>6, <1>7, <1>8, <1>9, <1>10, <1>11, Zenon DEF B2, B3, B4
(* One more byte d on a sum that is a word s beside the sum r of what was  *)
(* read before.                                                            *)
LEMMA ByteStep ==
  ASSUME NEW s \in Words32, NEW r \in Words32, NEW d \in Crc!Bytes
  PROVE  /\ Crc!Byte(Crc!Xor(Crc!Xor(s, r), d))
              = Crc!Xor(Crc!Shr(s, 8), Crc!Xor(Crc!Byte(Crc!Xor(Crc!Low8(s), d)), Crc!Byte(r)))
         /\ Crc!Xor(Crc!Low8(s), d) \in Crc!Bytes
         /\ Crc!Shr(Crc!Xor(s, d), 8) = Crc!Shr(s, 8)
         /\ Crc!Low8(Crc!Xor(s, d)) = Crc!Xor(Crc!Low8(s), d)
<1>1. d \in Words32 /\ Crc!Xor(s, d) \in Words32
  BY XorTyped
<1>2. Crc!Xor(Crc!Xor(s, r), d) = Crc!Xor(Crc!Xor(s, d), r)
  BY DEF Crc!Xor
<1>3. Crc!Low8(d) = d /\ Crc!Shr(d, 8) = {}
  BY DEF Crc!Bytes, Crc!Low8, Crc!Shr
<1>4. Crc!Shr(Crc!Xor(s, d), 8) = Crc!Shr(s, 8)
  <2>1. Crc!Shr(Crc!Xor(s, d), 8) = Crc!Xor(Crc!Shr(s, 8), Crc!Shr(d, 8))
    BY <1>1, XorShift
  <2>2. Crc!Xor(Crc!Shr(s, 8), {}) = Crc!Shr(s, 8)
    BY XorLaws
  <2>. QED  BY <1>3, <2>1, <2>2
<1>5. Crc!Low8(Crc!Xor(s, d)) = Crc!Xor(Crc!Low8(s), d)
  BY <1>1, <1>3, XorShift
<1>6. Crc!Xor(Crc!Low8(s), d) \in Crc!Bytes
  BY <1>1, <1>5, XorTyped
<1>7. Crc!Byte(Crc!Xor(s, d)) = Crc!Xor(Crc!Shr(s, 8), Crc!Byte(Crc!Xor(Crc!Low8(s), d)))
  BY <1>1, <1>4, <1>5, ByteSplit
<1>8. Crc!Byte(Crc!Xor(Crc!Xor(s, d), r)) = Crc!Xor(Crc!Byte(Crc!Xor(s, d)), Crc!Byte(r))
  BY <1>1, ByteLinear
<1>. QED  BY <1>2, <1>4, <1>5, <1>6, <1>7, <1>8, XorLaws

LEMMA ByteOfNone == Crc!Byte({}) = {}
<1>1. {} \in Words32
  BY DEF Words32
<1>2. Crc!Byte(Crc!Xor({}, {})) = Crc!Xor(Crc!Byte({}), Crc!Byte({}))
  BY <1>1, ByteLinear
<1>. QED  BY <1>2 DEF Crc!Xor

(* Four bytes, one by one, against four lookups.                           *)
LEMMA FourBytes ==
  ASSUME NEW s \in Words32, NEW i, Crc!At(i) \in Crc!Bytes, Crc!At(i + 1) \in Crc!Bytes,
         Crc!At(i + 2) \in Crc!Bytes, Crc!At(i + 3) \in Crc!Bytes
  PROVE  LET o0 == Crc!Xor(Crc!Low8(s), Crc!At(i))
             o1 == Crc!Xor(Crc!Low8(Crc!Shr(s, 8)), Crc!At(i + 1))
             o2 == Crc!Xor(Crc!Low8(Crc!Shr(s, 16)), Crc!At(i + 2))
             o3 == Crc!Xor(Crc!Low8(Crc!Shr(s, 24)), Crc!At(i + 3))
         IN  /\ Crc!Bytes4(s, i)
                  = Crc!Xor(Crc!Byte(o3), Crc!Xor(B2(o2), Crc!Xor(B3(o1), B4(o0))))
             /\ {o0, o1, o2, o3} \subseteq Crc!Bytes
<1>. DEFINE o0 == Crc!Xor(Crc!Low8(s), Crc!At(i))
            o1 == Crc!Xor(Crc!Low8(Crc!Shr(s, 8)), Crc!At(i + 1))
            o2 == Crc!Xor(Crc!Low8(Crc!Shr(s, 16)), Crc!At(i + 2))
            o3 == Crc!Xor(Crc!Low8(Crc!Shr(s, 24)), Crc!At(i + 3))
            s1 == Crc!Shr(s, 8)
            s2 == Crc!Shr(s, 16)
            s3 == Crc!Shr(s, 24)
            r1 == Crc!Byte(o0)
            r2 == Crc!Xor(Crc!Byte(o1), Crc!Byte(r1))
            r3 == Crc!Xor(Crc!Byte(o2), Crc!Byte(r2))
            r4 == Crc!Xor(Crc!Byte(o3), Crc!Byte(r3))
<1>0. \A x \in Words32 : Crc!Byte(x) \in Words32
  BY ByteLinear
<1>00. \A x \in Crc!Bytes : x \in Words32
  BY DEF Crc!Bytes, Words32
<1>1. s1 \in Words32 /\ s2 \in Words32 /\ s3 \in Words32
  BY XorTyped
<1>2. Crc!Shr(s1, 8) = s2 /\ Crc!Shr(s2, 8) = s3 /\ Crc!Shr(s3, 8) = {}
  <2>1. Crc!Shr(s1, 8) = s2 /\ Crc!Shr(s2, 8) = s3 /\ Crc!Shr(s3, 8) = Crc!Shr(s, 32)
    BY Shifts
  <2>2. \A e \in Nat : e \notin Crc!Shr(s, 32)
    <3>1. \A e \in Nat : e \in Crc!Shr(s, 32) <=> e + 32 \in s
      BY Shifts
    <3>2. \A e \in Nat : e + 32 \notin s
      BY DEF Words32
    <3>. QED  BY <3>1, <3>2
  <2>3. Crc!Shr(s, 32) \in Words32
    BY XorTyped
  <2>4. Crc!Shr(s, 32) = {}
    BY <2>2, <2>3 DEF Words32
  <2>. QED  BY <2>1, <2>4
<1>3. o0 \in Crc!Bytes /\ o1 \in Crc!Bytes /\ o2 \in Crc!Bytes /\ o3 \in Crc!Bytes
  BY <1>1, ByteStep
<1>4. {} \in Words32
  BY DEF Words32
<1>5. Crc!Byte(Crc!Xor(s, Crc!At(i))) = Crc!Xor(s1, r1)
  <2>1. Crc!Byte(Crc!Xor(Crc!Xor(s, {}), Crc!At(i))) = Crc!Xor(s1, Crc!Xor(r1, Crc!Byte({})))
    BY <1>4, ByteStep
  <2>2. Crc!Xor(s, {}) = s /\ Crc!Xor(r1, {}) = r1
    BY XorLaws
  <2>. QED  BY <2>1, <2>2, ByteOfNone
<1>6. r1 \in Words32
  BY <1>0, <1>00, <1>3
<1>7. Crc!Byte(Crc!Xor(Crc!Xor(s1, r1), Crc!At(i + 1))) = Crc!Xor(s2, r2)
  BY <1>1, <1>2, <1>6, ByteStep
<1>8. r2 \in Words32
  BY <1>0, <1>00, <1>3, <1>6, XorTyped
<1>9. Crc!Byte(Crc!Xor(Crc!Xor(s2, r2), Crc!At(i + 2))) = Crc!Xor(s3, r3)
  BY <1>1, <1>2, <1>8, ByteStep
<1>10. r3 \in Words32
  BY <1>0, <1>00, <1>3, <1>8, XorTyped
<1>11. Crc!Byte(Crc!Xor(Crc!Xor(s3, r3), Crc!At(i + 3))) = r4
  <2>1. Crc!Byte(Crc!Xor(Crc!Xor(s3, r3), Crc!At(i + 3))) = Crc!Xor(Crc!Shr(s3, 8), r4)
    BY <1>1, <1>10, ByteStep
  <2>2. Crc!Xor({}, r4) = r4
    BY XorLaws
  <2>. QED  BY <1>2, <2>1, <2>2
<1>12. Crc!Bytes4(s, i) = r4
  BY <1>5, <1>7, <1>9, <1>11, Zenon DEF Crc!Bytes4
<1>13. Crc!Byte(o1) \in Words32 /\ Crc!Byte(o2) \in Words32 /\ B2(o1) \in Words32
       /\ B2(o0) \in Words32 /\ B3(o0) \in Words32
  BY <1>0, <1>00, <1>3 DEF B2, B3
<1>. HIDE DEF o0, o1, o2, o3
<1>14. r2 = Crc!Xor(Crc!Byte(o1), B2(o0)) /\ Crc!Byte(r2) = Crc!Xor(B2(o1), B3(o0))
  BY <1>13, ByteLinear DEF B2, B3
<1>15. r3 = Crc!Xor(Crc!Byte(o2), Crc!Xor(B2(o1), B3(o0)))
  BY <1>14
<1>16. Crc!Byte(Crc!Xor(B2(o1), B3(o0))) = Crc!Xor(B3(o1), B4(o0))
  BY <1>13, ByteLinear DEF B3, B4
<1>17. Crc!Xor(B2(o1), B3(o0)) \in Words32
  BY <1>13, XorTyped
<1>18. Crc!Byte(r3) = Crc!Xor(B2(o2), Crc!Xor(B3(o1), B4(o0)))
  BY <1>13, <1>15, <1>16, <1>17, ByteLinear DEF B2
<1>19. r4 = Crc!Xor(Crc!Byte(o3), Crc!Xor(B2(o2), Crc!Xor(B3(o1), B4(o0))))
  BY <1>18
<1>. QED  BY <1>3, <1>12, <1>19 DEF o0, o1, o2, o3
LEMMA SumThenBytes ==
  ASSUME NEW x \in Words32, NEW i, Crc!At(i) \in Crc!Bytes, Crc!At(i + 1) \in Crc!Bytes,
         Crc!At(i + 2) \in Crc!Bytes, Crc!At(i + 3) \in Crc!Bytes
  PROVE  Crc!Bytes4(x, i) = Crc!Xor(B4(x), Crc!Bytes4({}, i))
<1>1. ASSUME NEW a \in Words32, NEW b \in Words32, NEW d \in Crc!Bytes
      PROVE  /\ Crc!Byte(Crc!Xor(Crc!Xor(a, b), d))
                  = Crc!Xor(Crc!Byte(a), Crc!Byte(Crc!Xor(b, d)))
             /\ Crc!Byte(a) \in Words32 /\ Crc!Byte(Crc!Xor(b, d)) \in Words32
  <2>1. Crc!Xor(Crc!Xor(a, b), d) = Crc!Xor(a, Crc!Xor(b, d))
    BY XorLaws
  <2>2. Crc!Xor(b, d) \in Words32
    BY XorTyped
  <2>. QED  BY <2>1, <2>2, ByteLinear
<1>2. {} \in Words32 /\ Crc!Xor(x, {}) = x
  BY XorLaws DEF Words32
<1>. DEFINE y1 == Crc!Byte(Crc!Xor({}, Crc!At(i)))
            y2 == Crc!Byte(Crc!Xor(y1, Crc!At(i + 1)))
            y3 == Crc!Byte(Crc!Xor(y2, Crc!At(i + 2)))
            y4 == Crc!Byte(Crc!Xor(y3, Crc!At(i + 3)))
<1>3. /\ Crc!Byte(Crc!Xor(x, Crc!At(i))) = Crc!Xor(Crc!Byte(x), y1)
      /\ Crc!Byte(x) \in Words32 /\ y1 \in Words32
  <2>1. /\ Crc!Byte(Crc!Xor(Crc!Xor(x, {}), Crc!At(i))) = Crc!Xor(Crc!Byte(x), y1)
        /\ Crc!Byte(x) \in Words32 /\ y1 \in Words32
    BY <1>1, <1>2
  <2>. QED  BY <1>2, <2>1
<1>. HIDE DEF y1
<1>4. /\ Crc!Byte(Crc!Xor(Crc!Xor(Crc!Byte(x), y1), Crc!At(i + 1))) = Crc!Xor(B2(x), y2)
      /\ B2(x) \in Words32 /\ y2 \in Words32
  BY <1>1, <1>3 DEF B2
<1>. HIDE DEF y2
<1>5. /\ Crc!Byte(Crc!Xor(Crc!Xor(B2(x), y2), Crc!At(i + 2))) = Crc!Xor(B3(x), y3)
      /\ B3(x) \in Words32 /\ y3 \in Words32
  BY <1>1, <1>4 DEF B3
<1>. HIDE DEF y3
<1>6. Crc!Byte(Crc!Xor(Crc!Xor(B3(x), y3), Crc!At(i + 3))) = Crc!Xor(B4(x), y4)
  BY <1>1, <1>5 DEF B4
<1>7. Crc!Bytes4(x, i) = Crc!Xor(B4(x), y4)
  BY <1>3, <1>4, <1>5, <1>6, Zenon DEF Crc!Bytes4
<1>8. Crc!Bytes4({}, i) = y4
  BY Zenon DEF Crc!Bytes4, y1, y2, y3
<1>. QED  BY <1>7, <1>8, Zenon

(* The bytes of a word that was read are the ones in memory.               *)
LEMMA WordRead ==
  ASSUME NEW i, NEW k \in 0..3,
         Crc!At(i) \in Crc!Bytes, Crc!At(i + 1) \in Crc!Bytes,
         Crc!At(i + 2) \in Crc!Bytes, Crc!At(i + 3) \in Crc!Bytes, i \in Nat
  PROVE  Crc!read_unaligned(i) \in Words32 /\ Crc!Of(Crc!read_unaligned(i), k) = Crc!At(i + k)
<1>1. \A n \in 0..3 : Crc!At(i + n) \in Crc!Bytes
  <2>1. i + 0 = i
    OBVIOUS
  <2>2. \A n \in 0..3 : n = 0 \/ n = 1 \/ n = 2 \/ n = 3
    OBVIOUS
  <2>. QED  BY <2>1, <2>2, Zenon
<1>2. \A n \in 0..3 : \A j \in Crc!At(i + n) : j \in 0..7
  BY <1>1, Zenon DEF Crc!Bytes
<1>3. \A x : x \in Crc!read_unaligned(i) <=> \E n \in 0..3 : \E j \in Crc!At(i + n) : x = 8 * n + j
  BY DEF Crc!read_unaligned
<1>4. Crc!read_unaligned(i) \in Words32
  <2>1. \A x \in Crc!read_unaligned(i) : x \in 0..31
    BY <1>2, <1>3
  <2>. QED  BY <2>1 DEF Words32
<1>5. ASSUME NEW x \in 0..7 PROVE 8 * k + x \in Crc!read_unaligned(i) <=> x \in Crc!At(i + k)
  <2>1. ASSUME NEW n \in 0..3, NEW j \in Crc!At(i + n), 8 * k + x = 8 * n + j
        PROVE  n = k /\ j = x
    <3>1. j \in 0..7
      BY <1>2
    <3>. QED  BY <2>1, <3>1
  <2>2. 8 * k + x \in Crc!read_unaligned(i) => x \in Crc!At(i + k)
    <3>1. SUFFICES ASSUME 8 * k + x \in Crc!read_unaligned(i) PROVE x \in Crc!At(i + k)
      OBVIOUS
    <3>2. PICK n \in 0..3 : \E j \in Crc!At(i + n) : 8 * k + x = 8 * n + j
      BY <1>3, <3>1, Zenon
    <3>3. PICK j \in Crc!At(i + n) : 8 * k + x = 8 * n + j
      BY <3>2
    <3>. QED  BY <2>1, <3>3
  <2>3. x \in Crc!At(i + k) => 8 * k + x \in Crc!read_unaligned(i)
    BY <1>3, Zenon
  <2>. QED  BY <2>2, <2>3
<1>6. 8 * k \in Nat
  OBVIOUS
<1>7. Crc!Shr(Crc!read_unaligned(i), 8 * k) \in Words32
  BY <1>4, <1>6, XorTyped
<1>8. ASSUME NEW x \in Nat
      PROVE  x \in Crc!Shr(Crc!read_unaligned(i), 8 * k) <=> 8 * k + x \in Crc!read_unaligned(i)
  <2>1. x \in Crc!Shr(Crc!read_unaligned(i), 8 * k) <=> x + 8 * k \in Crc!read_unaligned(i)
    BY <1>4, <1>6, Shifts
  <2>2. x + 8 * k = 8 * k + x
    OBVIOUS
  <2>. QED  BY <2>1, <2>2
<1>9. \A x : x \in Crc!Of(Crc!read_unaligned(i), k)
              <=> x \in Crc!Shr(Crc!read_unaligned(i), 8 * k) /\ x < 8
  BY DEF Crc!Of, Crc!Low8
<1>10. \A x \in Crc!Of(Crc!read_unaligned(i), k) : x \in 0..7
  BY <1>7, <1>9 DEF Words32
<1>. QED  BY <1>2, <1>4, <1>5, <1>8, <1>9, <1>10
LEMMA Looked ==
  ASSUME NEW w \in Words32, NEW v \in Words32, NEW k \in 0..3
  PROVE  /\ Crc!Of(Crc!Xor(w, v), k) = Crc!Xor(Crc!Of(w, k), Crc!Of(v, k))
         /\ Crc!Of(w, k) \in Crc!Bytes
         /\ Crc!Of(w, 0) = Crc!Low8(w) /\ Crc!Of(w, 1) = Crc!Low8(Crc!Shr(w, 8))
         /\ Crc!Of(w, 2) = Crc!Low8(Crc!Shr(w, 16)) /\ Crc!Of(w, 3) = Crc!Low8(Crc!Shr(w, 24))
<1>1. 8 * k \in Nat /\ 8 * 0 = 0 /\ 8 * 1 = 8 /\ 8 * 2 = 16 /\ 8 * 3 = 24
  OBVIOUS
<1>2. /\ Crc!Shr(w, 8 * k) \in Words32 /\ Crc!Shr(v, 8 * k) \in Words32
  BY <1>1, XorTyped
<1>3. Crc!Of(Crc!Xor(w, v), k) = Crc!Xor(Crc!Of(w, k), Crc!Of(v, k))
  <2>1. Crc!Shr(Crc!Xor(w, v), 8 * k) = Crc!Xor(Crc!Shr(w, 8 * k), Crc!Shr(v, 8 * k))
    BY <1>1, XorShift
  <2>. QED  BY <1>2, <2>1, XorShift DEF Crc!Of
<1>4. Crc!Shr(w, 0) = w
  <2>1. \A e \in Nat : e \in Crc!Shr(w, 0) <=> e \in w
    BY Shifts
  <2>2. Crc!Shr(w, 0) \in Words32
    BY XorTyped
  <2>3. Crc!Shr(w, 0) \subseteq Nat /\ w \subseteq Nat
    BY <2>2 DEF Words32
  <2>. QED  BY <2>1, <2>3
<1>. QED  BY <1>1, <1>2, <1>3, <1>4, XorTyped, Zenon DEF Crc!Of

Sums == hw = sw /\ sw \in Words32 /\ p \in Nat /\ summed \in Seq(Crc!Bytes)

LEMMA SumsStart ==
  ASSUME Crc!Init \/ Crc!Start(<<>>) PROVE Sums
<1>1. ASSUME NEW d \in Seq(Crc!Bytes), Crc!Start(d) PROVE Sums
  BY <1>1 DEF Crc!Start, Sums, Words32
<1>2. CASE Crc!Start(<<>>)
  <2>1. <<>> \in Seq(Crc!Bytes)
    OBVIOUS
  <2>. QED  BY <1>1, <1>2, <2>1, Zenon
<1>3. CASE Crc!Init
  <2>0. PICK n \in 0..MaxData : \E S \in SUBSET (1..n) : \E v \in [S -> Values] :
          Crc!Start([i \in 1..n |-> IF i \in S THEN v[i] ELSE {}])
    BY <1>3 DEF Crc!Init
  <2>01. PICK S \in SUBSET (1..n) : \E v \in [S -> Values] :
          Crc!Start([i \in 1..n |-> IF i \in S THEN v[i] ELSE {}])
    BY <2>0
  <2>1. PICK v \in [S -> Values] :
          Crc!Start([i \in 1..n |-> IF i \in S THEN v[i] ELSE {}])
    BY <2>01
  <2>2. \A i \in S : v[i] \in Crc!Bytes
    BY UtilitiesAssumption DEF UtilitiesAssumption, Crc!CrcAssumption, Crc!Bytes
  <2>3. {} \in Crc!Bytes /\ n \in Nat
    BY UtilitiesAssumption DEF UtilitiesAssumption, Crc!CrcAssumption, Crc!Bytes
  <2>4. [i \in 1..n |-> IF i \in S THEN v[i] ELSE {}] \in Seq(Crc!Bytes)
    BY <2>2, <2>3
  <2>. QED  BY <1>1, <2>1, <2>4
<1>. QED  BY <1>2, <1>3

LEMMA SumsKept ==
  ASSUME Sums, [Crc!Next]_sumVars
  PROVE  Sums'
<1>1. CASE UNCHANGED sumVars
  BY <1>1 DEF sumVars, Sums
<1>2. \A i \in 1..Len(summed) - p : Crc!At(i) \in Crc!Bytes
  BY DEF Sums, Crc!At
<1>3. CASE Crc!Step1
  <2>1. 1 \in 1..Len(summed) - p
    BY <1>3 DEF Crc!Step1, Sums
  <2>2. Crc!At(1) \in Crc!Bytes /\ Crc!At(1) \in Words32
    <3>1. \A x \in Crc!Bytes : x \in Words32
      BY DEF Crc!Bytes, Words32
    <3>. QED  BY <1>2, <2>1, <3>1, Zenon
  <2>3. Crc!Xor(sw, Crc!At(1)) \in Words32
    BY <2>2, XorTyped DEF Sums
  <2>4. /\ Crc!Byte(Crc!Xor(sw, Crc!At(1))) \in Words32
        /\ Crc!Byte(Crc!Xor(sw, Crc!At(1)))
             = Crc!Xor(Crc!Shr(Crc!Xor(sw, Crc!At(1)), 8),
                       Crc!Byte(Crc!Low8(Crc!Xor(sw, Crc!At(1)))))
    BY <2>3, ByteLinear, ByteSplit
  <2>5. Crc!Low8(Crc!Xor(sw, Crc!At(1))) \in Crc!Bytes
    BY <2>3, XorTyped
  <2>6. Crc!Shr(Crc!Xor(sw, Crc!At(1)), 8) = Crc!Shr(sw, 8)
    BY <2>2, ByteStep DEF Sums
  <2>7. Crc!Table0[Crc!Low8(Crc!Xor(sw, Crc!At(1)))] = Crc!Byte(Crc!Low8(Crc!Xor(sw, Crc!At(1))))
    BY <2>5, Slices
  <2>8. hw' = Crc!Byte(Crc!Xor(hw, Crc!At(1))) /\ p' = p + 1 /\ summed' = summed
        /\ sw' = Crc!Xor(Crc!Shr(sw, 8), Crc!Table0[Crc!Low8(Crc!Xor(sw, Crc!At(1)))])
    BY <1>3 DEF Crc!Step1
  <2>. QED  BY <2>4, <2>6, <2>7, <2>8 DEF Sums
<1>4. CASE Crc!Step8
  <2>1. \A i \in 1..8 : Crc!At(i) \in Crc!Bytes
    BY <1>2, <1>4 DEF Crc!Step8, Sums
  <2>2. /\ Crc!At(1) \in Crc!Bytes /\ Crc!At(1 + 1) \in Crc!Bytes
        /\ Crc!At(1 + 2) \in Crc!Bytes /\ Crc!At(1 + 3) \in Crc!Bytes
        /\ Crc!At(5) \in Crc!Bytes /\ Crc!At(5 + 1) \in Crc!Bytes
        /\ Crc!At(5 + 2) \in Crc!Bytes /\ Crc!At(5 + 3) \in Crc!Bytes
    BY <2>1
  <2>. DEFINE o0 == Crc!Xor(Crc!Low8(sw), Crc!At(1))
              o1 == Crc!Xor(Crc!Low8(Crc!Shr(sw, 8)), Crc!At(1 + 1))
              o2 == Crc!Xor(Crc!Low8(Crc!Shr(sw, 16)), Crc!At(1 + 2))
              o3 == Crc!Xor(Crc!Low8(Crc!Shr(sw, 24)), Crc!At(1 + 3))
              first == Crc!Bytes4(sw, 1)
              later == Crc!Bytes4({}, 5)
              term1 == Crc!Xor(sw, Crc!read_unaligned(1))
              term2 == Crc!read_unaligned(5)
  <2>3. sw \in Words32 /\ {} \in Words32 /\ hw = sw
    BY DEF Sums, Words32
  <2>4. /\ first = Crc!Xor(Crc!Byte(o3), Crc!Xor(B2(o2), Crc!Xor(B3(o1), B4(o0))))
        /\ {o0, o1, o2, o3} \subseteq Crc!Bytes
    BY <2>2, <2>3, FourBytes, Zenon
  <2>5. later = Crc!Xor4(B4(Crc!At(5)), B3(Crc!At(5 + 1)), B2(Crc!At(5 + 2)),
                         Crc!Byte(Crc!At(5 + 3)))
    <3>1. \A n \in Nat : Crc!Low8(Crc!Shr({}, n)) = {}
      BY DEF Crc!Low8, Crc!Shr
    <3>2. Crc!Low8({}) = {}
      BY DEF Crc!Low8
    <3>3. /\ Crc!Xor(Crc!Low8({}), Crc!At(5)) = Crc!At(5)
          /\ Crc!Xor(Crc!Low8(Crc!Shr({}, 8)), Crc!At(5 + 1)) = Crc!At(5 + 1)
          /\ Crc!Xor(Crc!Low8(Crc!Shr({}, 16)), Crc!At(5 + 2)) = Crc!At(5 + 2)
          /\ Crc!Xor(Crc!Low8(Crc!Shr({}, 24)), Crc!At(5 + 3)) = Crc!At(5 + 3)
      BY <3>1, <3>2, XorLaws
    <3>4. later = Crc!Xor(Crc!Byte(Crc!At(5 + 3)), Crc!Xor(B2(Crc!At(5 + 2)),
                    Crc!Xor(B3(Crc!At(5 + 1)), B4(Crc!At(5)))))
      BY <2>2, <2>3, <3>3, FourBytes
    <3>. QED  BY <3>4, XorLaws
  <2>6. /\ Crc!Of(term1, 0) = o0 /\ Crc!Of(term1, 1) = o1
        /\ Crc!Of(term1, 2) = o2 /\ Crc!Of(term1, 3) = o3
    <3>1. \A k \in 0..3 : /\ Crc!read_unaligned(1) \in Words32
                          /\ Crc!Of(Crc!read_unaligned(1), k) = Crc!At(1 + k)
      BY <2>2, WordRead
    <3>2. \A k \in 0..3 : Crc!Of(term1, k) = Crc!Xor(Crc!Of(sw, k), Crc!At(1 + k))
      BY <2>3, <3>1, Looked
    <3>3. /\ Crc!Of(sw, 0) = Crc!Low8(sw) /\ Crc!Of(sw, 1) = Crc!Low8(Crc!Shr(sw, 8))
          /\ Crc!Of(sw, 2) = Crc!Low8(Crc!Shr(sw, 16))
          /\ Crc!Of(sw, 3) = Crc!Low8(Crc!Shr(sw, 24))
      BY <2>3, Looked
    <3>4. 0 \in 0..3 /\ 1 \in 0..3 /\ 2 \in 0..3 /\ 3 \in 0..3 /\ 1 + 0 = 1
      OBVIOUS
    <3>. QED  BY <3>2, <3>3, <3>4
  <2>7. /\ Crc!Of(term2, 0) = Crc!At(5) /\ Crc!Of(term2, 1) = Crc!At(5 + 1)
        /\ Crc!Of(term2, 2) = Crc!At(5 + 2) /\ Crc!Of(term2, 3) = Crc!At(5 + 3)
    <3>1. \A k \in 0..3 : Crc!Of(term2, k) = Crc!At(5 + k)
      BY <2>2, WordRead
    <3>2. 0 \in 0..3 /\ 1 \in 0..3 /\ 2 \in 0..3 /\ 3 \in 0..3 /\ 5 + 0 = 5
      OBVIOUS
    <3>. QED  BY <3>1, <3>2
  <2>. HIDE DEF o0, o1, o2, o3, first, later, term1, term2
  <2>8. sw' = Crc!Xor(Crc!Xor4(Crc!Table7[o0], Crc!Table6[o1], Crc!Table5[o2], Crc!Table4[o3]),
                      Crc!Xor4(Crc!Table3[Crc!At(5)], Crc!Table2[Crc!At(5 + 1)],
                               Crc!Table1[Crc!At(5 + 2)], Crc!Table0[Crc!At(5 + 3)]))
    BY <1>4, <2>6, <2>7, Zenon DEF Crc!Step8, Crc!Slice8, term1, term2
  <2>9. sw' = Crc!Xor(Crc!Xor4(B4(B4(o0)), B4(B3(o1)), B4(B2(o2)), B4(Crc!Byte(o3))), later)
    BY <2>2, <2>4, <2>5, <2>8, Slices
  <2>10. \A x, y \in Words32 : /\ B4(x) \in Words32 /\ B3(x) \in Words32 /\ B2(x) \in Words32
                               /\ Crc!Byte(x) \in Words32 /\ Crc!Xor(x, y) \in Words32
                               /\ B4(Crc!Xor(x, y)) = Crc!Xor(B4(x), B4(y))
    <3>1. ASSUME NEW x \in Words32, NEW y \in Words32
          PROVE  /\ Crc!Byte(x) \in Words32 /\ Crc!Byte(y) \in Words32
                 /\ Crc!Byte(Crc!Xor(x, y)) = Crc!Xor(Crc!Byte(x), Crc!Byte(y))
      BY ByteLinear
    <3>2. ASSUME NEW x \in Words32, NEW y \in Words32
          PROVE  /\ B2(x) \in Words32 /\ B2(y) \in Words32
                 /\ B2(Crc!Xor(x, y)) = Crc!Xor(B2(x), B2(y))
      BY <3>1 DEF B2
    <3>3. ASSUME NEW x \in Words32, NEW y \in Words32
          PROVE  /\ B3(x) \in Words32 /\ B3(y) \in Words32
                 /\ B3(Crc!Xor(x, y)) = Crc!Xor(B3(x), B3(y))
      BY <3>1, <3>2 DEF B3
    <3>4. ASSUME NEW x \in Words32, NEW y \in Words32
          PROVE  B4(x) \in Words32 /\ B4(Crc!Xor(x, y)) = Crc!Xor(B4(x), B4(y))
      BY <3>1, <3>3 DEF B4
    <3>. QED  BY <3>1, <3>2, <3>3, <3>4, XorTyped
  <2>11. o0 \in Words32 /\ o1 \in Words32 /\ o2 \in Words32 /\ o3 \in Words32
    BY <2>4 DEF Crc!Bytes, Words32
  <2>12. first \in Words32
    BY <2>4, <2>10, <2>11
  <2>13. B4(first) = Crc!Xor(B4(Crc!Byte(o3)), Crc!Xor(B4(B2(o2)), Crc!Xor(B4(B3(o1)), B4(B4(o0)))))
    BY <2>4, <2>10, <2>11
  <2>14. B4(first) = Crc!Xor4(B4(B4(o0)), B4(B3(o1)), B4(B2(o2)), B4(Crc!Byte(o3)))
    BY <2>13, XorLaws
  <2>15. hw' = Crc!Bytes4(first, 5) /\ p' = p + 8 /\ summed' = summed
    BY <1>4, <2>3 DEF Crc!Step8, first
  <2>16. hw' = Crc!Xor(B4(first), later)
    BY <2>2, <2>12, <2>15, SumThenBytes DEF later
  <2>17. hw' = sw'
    BY <2>9, <2>14, <2>16
  <2>18. later \in Words32 /\ B4(first) \in Words32
    <3>1. \A x \in Crc!Bytes : x \in Words32
      BY DEF Crc!Bytes, Words32
    <3>2. /\ B4(Crc!At(5)) \in Words32 /\ B3(Crc!At(5 + 1)) \in Words32
          /\ B2(Crc!At(5 + 2)) \in Words32 /\ Crc!Byte(Crc!At(5 + 3)) \in Words32
      BY <2>2, <2>10, <3>1
    <3>. QED  BY <2>5, <2>10, <2>12, <3>2 DEF Crc!Xor4
  <2>19. Crc!Xor(B4(first), later) \in Words32
    BY <2>18, XorTyped, SMTT(30)
  <2>20. sw' \in Words32
    BY <2>16, <2>17, <2>19, Zenon
  <2>. QED  BY <2>15, <2>17, <2>20 DEF Sums
<1>. QED  BY <1>1, <1>3, <1>4 DEF Crc!Next

(* crc32: the eight tables give the sum that the processors' instructions  *)
(* give, for data of any length and any bytes.                             *)
THEOREM SameEverywhereAlways == UtilitiesSpec => []SameEverywhere
<1>1. UtilitiesInit => Sums
  BY SumsStart DEF UtilitiesInit
<1>2. Sums /\ [UtilitiesNext]_utilityVars => Sums'
  BY PartSteps, SumsKept
<1>3. Sums => SameEverywhere
  BY DEF Sums, SameEverywhere, Crc!SameEverywhere
<1>. QED  BY <1>1, <1>2, <1>3, PTL DEF UtilitiesSpec
=============================================================================
