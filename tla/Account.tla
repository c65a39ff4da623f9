------------------------------- MODULE Account -------------------------------
(***************************************************************************)
(* The requests of Tenancy and the billing they carry: billing's handlers  *)
(* run in sessions of the pool, among requests that touch no billing.      *)
(***************************************************************************)
EXTENDS Billing

vars == <<tenancy, billing>>

TypeOK == TenancyTypeOK /\ BillingTypeOK

Init == TenancyInit /\ BillingInit

Next ==
    \/ TenancyNext /\ UNCHANGED billing
    \/ BillingNext

Spec == Init /\ [][Next]_vars
=============================================================================
