------------------------------ MODULE MCUsers -------------------------------
(***************************************************************************)
(* Provisioning: two replicas, deployments that name two administrators,   *)
(* and two customers who may choose the same e-mail or username.  Access:  *)
(* two pages that sign in and two verifications, a lock after two failures.*)
(* Activity: three transactions, two of the same millisecond, and a list   *)
(* with one row per page and two requests under way.                       *)
(*                                                                         *)
(* The modules share no variable, so each is explored with the others at   *)
(* their initial states.  The model values a1, a2 and b1, b2 serve for     *)
(* something else in each, so that swapping two is a symmetry of all.      *)
(***************************************************************************)
EXTENDS Provisioning, Access, Activity, TLC

CONSTANTS e1, e2, n1, n2, a1, a2, b1, b2

MCAdmins == {<<e1, n1>>, <<e2, n2>>}

MCInstant == <<1, 1, 2>>

\* The list and the alerts share only the transactions, so that each of the
\* two moves while the other is as it was at first.
AlertsRest == ~page.shown /\ ~page.asks /\ live.socket = "open" /\ live.due = Made
ListRests == ~Busy /\ ~list.clean /\ list.filter = Every /\ list.items = <<>>

MCInit == ProvisioningInit /\ AccessInit /\ ActivityInit

MCNext ==
    \/ AccessInit /\ ActivityInit /\ ProvisioningNext /\ UNCHANGED <<accessVars, activityVars>>
    \/ ProvisioningInit /\ ActivityInit /\ AccessNext /\ UNCHANGED <<provisioningVars, activityVars>>
    \/ /\ ProvisioningInit /\ AccessInit /\ UNCHANGED <<provisioningVars, accessVars>>
       /\ ActivityNext /\ (AlertsRest' \/ ListRests')

MCSpec == MCInit /\ [][MCNext]_<<provisioningVars, accessVars, activityVars>>

\* Bound: any two of the replicas, the script and the customers are half way at
\* the same time.
HalfWay ==
    {r \in Replicas : replica[r].step \notin {"down", "serving"}}
      \cup {s \in Signups : signup[s] # BlankForm /\ signup[s].step # "done"
                             /\ (signup[s].form = 4 => signup[s].step # "edit")}
      \cup (IF script = Idle THEN {} ELSE {script.step})

TwoAtATime == Cardinality(HalfWay) <= 2

\* Bound: once requests for rows have overlapped, more is asked for only with a
\* request that replaces the rows.
AfterOverlap == list.clean \/ ~Busy \/ \E c \in Loads : load[c].reset

Bounds == TwoAtATime /\ AfterOverlap

Symmetry == Permutations({a1, a2}) \cup Permutations({b1, b2})
=============================================================================
