----------------------------- MODULE MCWithdrawals -----------------------------
(***************************************************************************)
(* Withdrawals on a small instance: two customer calls, which may use the  *)
(* same key or different ones, and three approvals, one of which sends a   *)
(* key of its own.                                                         *)
(***************************************************************************)
EXTENDS Withdrawals, TLC

CONSTANTS alice, clearing, t1, t2, t3, t4

MCOpening == (alice :> 2) @@ (clearing :> 0)

MCTotal(f) == f[t1] + f[t2] + f[t3] + f[t4]

MCKeys == {HoldKey(k) : k \in ClientKeys} \cup {ApproveKey(r) : r \in Calls}
            \cup {ClickKey(d) : d \in AdminCalls}

Symmetry == Permutations(Txns) \cup Permutations(Calls)
=============================================================================
