---------------------------- MODULE MCCustomers ----------------------------
(***************************************************************************)
(* One customer on small instances.  Sessions: two pages, one of them with *)
(* two calls at a time.  Transfers: two requests that may meet at one PIN, *)
(* two PINs, one external account.                                         *)
(*                                                                         *)
(* The two modules share no variable, so each is explored with the other   *)
(* at its initial state.  The model values a1 and a2 serve for something   *)
(* else in each, so that swapping them is a symmetry of both.              *)
(***************************************************************************)
EXTENDS Sessions, Transfers, Panels, TLC

CONSTANTS d1, d2, a1, a2, x1

MCOwner == (a1 :> d1) @@ (a2 :> d1)

MCInit == SessionInit /\ TransferInit /\ PanelInit

MCNext ==
    \/ TransferInit /\ PanelInit /\ SessionNext /\ UNCHANGED <<transferVars, panelVars>>
    \/ SessionInit /\ PanelInit /\ TransferNext /\ UNCHANGED <<sessionVars, panelVars>>
    \/ SessionInit /\ TransferInit /\ PanelNext /\ UNCHANGED <<sessionVars, transferVars>>

MCSpec == MCInit /\ [][MCNext]_<<sessionVars, transferVars, panelVars>>

\* The variables of the modules keep their types.
CustomersTypeOK == SessionTypeOK /\ TransferTypeOK /\ PanelTypeOK

\* Bound: PINs for one kind of transfer and PINs for any.
TwoPurposes == \A i \in PinIds : pins[i].purpose \in {"ach", "generic"}

\* Bound: once both transfers are sent, only their handlers go on; the page
\* stays where it waits for them.
PanelWaits ==
    (\A c \in Requests : request[c].step # "unused") =>
        panel.waits # {} /\ ~panel.asks /\ ~panel.loading

Bounds == TwoPurposes /\ PanelWaits

Symmetry == Permutations({a1, a2}) \cup Permutations(Tokens)
=============================================================================
