------------------------------- MODULE Billing -------------------------------
(***************************************************************************)
(* Plans and numbers: Stripe's webhook events (services/billing.py), the   *)
(* billing page, and the two doors by which a tenant gets a number         *)
(* (api/endpoints/onboarding.py), over the sessions of Tenancy.            *)
(*                                                                         *)
(* Each handler's body is a coroutine that never awaits: atomic beside the *)
(* other bodies, though its session was opened before, on a thread.  A     *)
(* body that the policies refuse ends in an error, as Close.               *)
(*                                                                         *)
(* Stripe may deliver an event late, again or never.  Only subscriptions   *)
(* that carry workspace_id are here: the others' events change nothing.    *)
(* An event has the price that is charged, which the code never looks at,  *)
(* and the plan that metadata names, if any, after lower().  The status is *)
(* shown and read by nobody: one that is past due counts as live.          *)
(***************************************************************************)
EXTENDS Tenancy

CONSTANTS
    Customers,      \* the tenants whose billing is followed
    Sold,           \* the paid plans of this instance
    Named,          \* what metadata.plan may say, or None
    Subscriptions,  \* of a customer at Stripe
    MaxEvents       \* bound: events of a customer

PLANS == [free |-> 1, starter |-> 1, pro |-> 3, scale |-> 10]

ASSUME BillingAssumption ==
    /\ Customers \subseteq Tenants
    /\ Sold \subseteq DOMAIN PLANS \ {"free"}
    /\ MaxEvents \in Nat
    /\ None \notin DOMAIN PLANS

VARIABLES
    plan,           \* of the subscriptions row, or None
    numbers,        \* rows of wa_numbers
    log,            \* the events Stripe has made, in order
    applied         \* history: the deciding event that was applied last

billing == <<plan, numbers, log, applied>>

Event == [id : Subscriptions, price : Sold, named : Named, deleted : BOOLEAN]

BillingTypeOK ==
    /\ plan \in [Customers -> DOMAIN PLANS \cup {None}]
    /\ numbers \in [Customers -> Nat]
    /\ log \in [Customers -> Seq(Event)]
    /\ applied \in [Customers -> Nat]

BillingInit ==
    /\ plan = [t \in Customers |-> None]
    /\ numbers = [t \in Customers |-> 0]
    /\ log = [t \in Customers |-> <<>>]
    /\ applied = [t \in Customers |-> 0]

-----------------------------------------------------------------------------
(* Stripe.                                                                 *)

Past(events, n, id) == {i \in 1..n : events[i].id = id}

LiveAfter(events, n) ==
    {id \in Subscriptions : Past(events, n, id) # {}
                              /\ \A i \in Past(events, n, id) : ~events[i].deleted}

Latest(events, id) ==
    LET past == Past(events, Len(events), id)
    IN events[CHOOSE i \in past : \A j \in past : j <= i]

(* Created; or changed, in its price, its metadata or neither; or deleted  *)
(* as it was.                                                              *)
MayFollow(events, e) ==
    \/ e.id \in LiveAfter(events, Len(events))
       /\ (e.deleted => [e EXCEPT !.deleted = FALSE] = Latest(events, e.id))
    \/ ~e.deleted /\ Past(events, Len(events), e.id) = {}

StripeEvent(t) ==
    /\ Len(log[t]) < MaxEvents
    /\ \E e \in Event : /\ MayFollow(log[t], e)
                        /\ log' = [log EXCEPT ![t] = Append(@, e)]
    /\ UNCHANGED <<tenancy, plan, numbers, applied>>

-----------------------------------------------------------------------------
(* The handlers.                                                           *)

InBody(r, kind) == session[r].kind = kind /\ session[r].step = "first"

(* get_or_create_subscription.                                             *)
CurrentPlan(t) == IF plan[t] = None THEN "free" ELSE plan[t]

(* A name that is none of the plans is read as free.                       *)
GetPlan(name) == IF name \in DOMAIN PLANS THEN name ELSE "free"

(* Mutant: without the test of plan_key.                                   *)
PlanWithoutTest(t, e) == IF e.deleted THEN "free" ELSE GetPlan(e.named)

(* The plan of the metadata, if there is one, then free for a subscription *)
(* that is deleted.                                                        *)
PlanAfter(t, e) ==
    CASE e.deleted -> "free"
      [] ~e.deleted /\ e.named # None -> GetPlan(e.named)
      [] ~e.deleted /\ e.named = None -> CurrentPlan(t)

Decides(e) == e.deleted \/ e.named # None

(* handle_event applies any event, whatever came before.                   *)
HandleEvent(r, t, i) ==
    /\ InBody(r, "plain")
    /\ t \in Rows(r)
    /\ Commit(r)
    /\ plan' = [plan EXCEPT ![t] = PlanAfter(t, log[t][i])]
    /\ applied' = [applied EXCEPT ![t] = IF Decides(log[t][i]) THEN i ELSE @]
    /\ UNCHANGED <<numbers, log>>

(* The billing page makes the row.                                         *)
GetBilling(r, t) ==
    /\ InBody(r, "plain")
    /\ t \in Rows(r)
    /\ Commit(r)
    /\ plan' = [plan EXCEPT ![t] = CurrentPlan(t)]
    /\ UNCHANGED <<numbers, log, applied>>

(* Mutant: one more than the plan has.                                     *)
CanAddOneMore(t) == numbers[t] <= PLANS[CurrentPlan(t)]

CanAddNumber(t) == numbers[t] < PLANS[CurrentPlan(t)]

(* The refresh that follows is GoOn: as wa_app it sees no row, and the     *)
(* request ends in an error with the number made.                          *)
ConnectNumber(r) ==
    /\ InBody(r, "tenant")
    /\ session[r].tenant \in Customers \cap Rows(r)
    /\ LET t == session[r].tenant IN
         /\ CanAddNumber(t)
         /\ plan' = [plan EXCEPT ![t] = CurrentPlan(t)]
         /\ numbers' = [numbers EXCEPT ![t] = @ + 1]
    /\ Commit(r)
    /\ UNCHANGED <<log, applied>>

(* get_qr for a tenant without a number: no look at the plan.              *)
ProvisionNumber(r, t) ==
    /\ InBody(r, "plain")
    /\ t \in Rows(r)
    /\ numbers[t] = 0
    /\ Commit(r)
    /\ numbers' = [numbers EXCEPT ![t] = @ + 1]
    /\ UNCHANGED <<plan, log, applied>>

BillingNext ==
    \/ \E t \in Customers : StripeEvent(t)
    \/ \E r \in Requests : ConnectNumber(r)
    \/ \E r \in Requests, t \in Customers :
         \/ \E i \in 1..Len(log[t]) : HandleEvent(r, t, i)
         \/ GetBilling(r, t)
         \/ ProvisionNumber(r, t)

-----------------------------------------------------------------------------
(* Properties.                                                             *)

(* By either door and after any events, a tenant's numbers grow only       *)
(* within the plan it is on; a plan that shrinks takes none away.          *)
NumbersWithinPlan ==
    [][\A t \in Customers :
         numbers'[t] > numbers[t] => numbers'[t] <= PLANS[CurrentPlan(t)]]_billing

(* Whoever makes or reprices a subscription writes the plan in metadata.   *)
Faithful(events) ==
    \A i \in 1..Len(events) : ~events[i].deleted =>
        \/ events[i].named = events[i].price
        \/ /\ events[i].named = None
           /\ \E j \in 1..(i - 1) : events[j].id = events[i].id
           /\ \A j \in 1..(i - 1) :
                events[j].id = events[i].id => events[j].price = events[i].price

(* What is paid for: the prices that live subscriptions have had of late.  *)
PaidPlans(events) ==
    LET now == {i \in 1..Len(events) :
                  /\ events[i].id \in LiveAfter(events, Len(events))
                  /\ \A j \in Past(events, Len(events), events[i].id) :
                       j > i => events[j].price = events[i].price}
    IN {events[i].price : i \in now}

IsNewest(events, n) == \A i \in 1..Len(events) : Decides(events[i]) => i <= n

(* Of a tenant whose subscriptions name what they charge: it is never on a *)
(* plan it never paid for, whatever the order of the events.  Once the     *)
(* newest that names a plan or ends a subscription was the last of these   *)
(* to be applied, with any repeats and in any order before, the tenant is  *)
(* on a plan that a live subscription pays for; or it is on free since     *)
(* that event ended one, be there another that lives.                      *)
PaidPlanHolds ==
    \A t \in Customers : Faithful(log[t]) =>
        /\ CurrentPlan(t) = "free" \/ \E i \in 1..Len(log[t]) : log[t][i].price = plan[t]
        /\ (applied[t] # 0 /\ IsNewest(log[t], applied[t])) =>
             \/ plan[t] \in PaidPlans(log[t])
             \/ plan[t] = "free" /\ log[t][applied[t]].deleted
=============================================================================
