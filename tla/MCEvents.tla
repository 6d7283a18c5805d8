------------------------------ MODULE MCEvents ------------------------------
(***************************************************************************)
(* Events on a small instance: a transaction that may begin in any status, *)
(* be released and be reversed, beside a posted one; two relays; an engine *)
(* that works on one event while another is on its way; one fault, at any  *)
(* point.  Liveness is checked, so there is no symmetry.                   *)
(***************************************************************************)
EXTENDS Events

CONSTANTS t1, t2
=============================================================================
