---------------------------- MODULE MCPostingEngine ----------------------------
(***************************************************************************)
(* The posting engine on a small instance: one user with two accounts, of  *)
(* which one has money for a single debit; the table scan of a freeze      *)
(* meets the accounts in the opposite order of their ids.                  *)
(***************************************************************************)
EXTENDS PostingEngine, TLC, Functions

CONSTANTS checking, savings

MCOpening == (checking :> 1) @@ (savings :> 0)

MCTotal(f) == FoldFunction(+, 0, f)

MCIdOrder == (checking :> 1) @@ (savings :> 2)

MCHeapOrder == (checking :> 2) @@ (savings :> 1)

\* A transfer, its return, and a hold.
MCInputs ==
  {[status |-> "posted", debit |-> checking, paid |-> 1,
    credit |-> savings, received |-> 1],
   [status |-> "posted", debit |-> savings, paid |-> 1,
    credit |-> checking, received |-> 1],
   [status |-> "pending", debit |-> checking, paid |-> 1,
    credit |-> savings, received |-> 1]}

\* For the liveness run, which can not use symmetry: the hold only.
MCHoldOnly == {p \in MCInputs : p.status = "pending"}

Symmetry == Permutations(Connections) \cup Permutations(Txns) \cup Permutations(Keys)
=============================================================================
