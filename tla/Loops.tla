------------------------------- MODULE Loops -------------------------------
(***************************************************************************)
(* A for loop over the positions 1 to n: its state after each round, from  *)
(* the one before and the position.  It is a recursive function, not a     *)
(* fold, so that proofs can say what each round does to the state.         *)
(***************************************************************************)
EXTENDS Naturals

Loop(Round(_, _), start, n) ==
  LET after[i \in 0..n] == IF i = 0 THEN start ELSE Round(after[i - 1], i)
  IN  after
=============================================================================
