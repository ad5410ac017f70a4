----------------------------- MODULE Libraries -----------------------------
(***************************************************************************)
(* DynamicLib: handles of loaded libraries, moved and unloaded, over the   *)
(* system's loader, which counts the loads of a library and gives the same *)
(* handle to each.  Callers keep the functions that they looked up.        *)
(***************************************************************************)
EXTENDS Integers, FiniteSets

CONSTANTS Slots,     \* variables of type DynamicLib
          Libs, Null,
          MaxSymbols \* bound: functions that callers hold

Gone == "gone"

LibrariesAssumption ==
  /\ Null \notin Libs /\ Gone \notin Libs /\ Gone # Null
  /\ MaxSymbols \in Nat

VARIABLES
  handle,  \* m_handle of each DynamicLib that exists, else "gone"
  count,   \* the loader's count for each library
  symbols  \* functions held by callers: the object asked, and the library

vars == <<handle, count, symbols>>

Init == /\ handle = [s \in Slots |-> Gone]
        /\ count = [l \in Libs |-> 0]
        /\ symbols = {}

-----------------------------------------------------------------------------
\* load(search_path, name): a load that fails makes no object.
Load(s, l) ==
  /\ handle[s] = Gone
  /\ handle' = [handle EXCEPT ![s] = l]
  /\ count' = [count EXCEPT ![l] = @ + 1]
  /\ UNCHANGED symbols

\* What unload() leaves of the loader's counts; callers drop the functions that
\* they got from an object they unload.
Unloaded(s) == [l \in Libs |-> IF handle[s] = l THEN count[l] - 1 ELSE count[l]]
Dropped(s) == {f \in symbols : f.of # s}

Unload(s) ==
  /\ handle[s] \notin {Gone, Null}
  /\ count' = Unloaded(s) /\ symbols' = Dropped(s)
  /\ handle' = [handle EXCEPT ![s] = Null]

Destroy(s) ==
  /\ handle[s] # Gone
  /\ count' = Unloaded(s) /\ symbols' = Dropped(s)
  /\ handle' = [handle EXCEPT ![s] = Gone]

\* What was got from the source of a move is the target's from now on.
Handed(F, d, s) == {[f EXCEPT !.of = IF @ = s THEN d ELSE @] : f \in F}

MoveConstruct(d, s) ==
  /\ handle[d] = Gone /\ handle[s] # Gone
  /\ handle' = [handle EXCEPT ![d] = handle[s], ![s] = Null]
  /\ symbols' = Handed(symbols, d, s)
  /\ UNCHANGED count

\* Fault: the source keeps its handle.
MoveAssign_copies(d, s) ==
  /\ d # s /\ handle[d] # Gone /\ handle[s] # Gone
  /\ count' = Unloaded(d)
  /\ handle' = [handle EXCEPT ![d] = handle[s]]
  /\ symbols' = Handed(Dropped(d), d, s)

MoveAssign(d, s) ==
  /\ d # s /\ handle[d] # Gone /\ handle[s] # Gone
  /\ count' = Unloaded(d)
  /\ handle' = [handle EXCEPT ![d] = handle[s], ![s] = Null]
  /\ symbols' = Handed(Dropped(d), d, s)

\* get_symbol, get_function: refused when nothing is loaded.
GetSymbol(s) ==
  /\ handle[s] \in Libs
  /\ Cardinality(symbols) < MaxSymbols
  /\ symbols' = symbols \cup {[of |-> s, lib |-> handle[s]]}
  /\ UNCHANGED <<handle, count>>

Next == \E s \in Slots :
  \/ \E l \in Libs : Load(s, l)
  \/ Unload(s) \/ Destroy(s) \/ GetSymbol(s)
  \/ \E d \in Slots : MoveConstruct(d, s) \/ MoveAssign(d, s)

Spec == Init /\ [][Next]_vars

-----------------------------------------------------------------------------
\* The loader's count of a library is the number of objects that hold it: it
\* stays loaded as long as one does, and no longer.
CountsHolders == \A l \in Libs : count[l] = Cardinality({s \in Slots : handle[s] = l})

\* A function got from an object can be called until that object, or the one it
\* was moved into, is unloaded: its library is still there.
SymbolsLive == \A f \in symbols : count[f.lib] > 0
=============================================================================
