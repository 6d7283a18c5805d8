----------------------------- MODULE MCSettlement -----------------------------
(***************************************************************************)
(* Transfers and their settlement on a small instance: two calls, under    *)
(* one key or two, two replicas of the worker, one of which may be stopped *)
(* once.                                                                   *)
(***************************************************************************)
EXTENDS Settlement, Functions, TLC

CONSTANTS alice, clearing

MCOpening == (alice :> 2) @@ (clearing :> 1)

MCTotal(f) == FoldFunction(+, 0, f)

Symmetry == Permutations(Txns) \cup Permutations(Calls) \cup Permutations(Keys)
              \cup Permutations(Workers)
=============================================================================
