------------------------------- MODULE MCLedger -------------------------------
(***************************************************************************)
(* The ledger on a small instance: a customer and the clearing account.    *)
(***************************************************************************)
EXTENDS Ledger, TLC

CONSTANTS alice, clearing, t1, t2

MCOpening == (alice :> 2) @@ (clearing :> 0)

MCTotal(f) == f[t1] + f[t2]

Symmetry == Permutations(Txns) \cup Permutations(Keys)
=============================================================================
