------------------------------ MODULE MCAccount ------------------------------
(***************************************************************************)
(* Instances of Account for TLC.                                           *)
(***************************************************************************)
EXTENDS Account

LOCAL INSTANCE TLC

CONSTANTS t1, t2

MCTenants == {t1, t2}
MCCustomers == {t1}
MCNamed == {None, "starter", "pro", "gold"}

Symmetry ==
    Permutations(Keys) \cup Permutations(Requests) \cup Permutations(Connections) \cup Permutations(Subscriptions)

(* Bound on the events of a tenant beside the rest: as wa_app none of them *)
(* is applied, and the person's workspaces are none of their business.     *)
FewEvents ==
    \A t \in Customers : Len(log[t]) <=
        IF role = "postgres" /\ owned = <<>> /\ Making = {} THEN MaxEvents ELSE 1
=============================================================================
