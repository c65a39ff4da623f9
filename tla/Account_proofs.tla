--------------------------- MODULE Account_proofs ---------------------------
(***************************************************************************)
(* Theorems about Account, for every set of tenants, requests, connections *)
(* and subscriptions.  PoolInv says which transactions a tenant setting    *)
(* may be found in, OwnedInv follows the workspaces that are being made,   *)
(* and LogInv and PlanInv relate the plan to Stripe's events.  With the    *)
(* types they are inductive.                                               *)
(***************************************************************************)
EXTENDS Account, SetLemmas

-----------------------------------------------------------------------------
(* The inductive invariants.                                               *)

(* What a session of each kind may be doing.                               *)
SessionInv ==
    \A r \in Requests :
        /\ session[r].kind = "closed" => session[r] = NoSession
        /\ r \in Making => session[r].step \in {"first", "stamped"}
        /\ session[r].step = "stamped" => r \in Making
        /\ session[r].kind = "console" => session[r].tenant = None
        /\ session[r].kind = "signin" => session[r].tenant \in Keys

(* A connection's setting is that of the tenant_context transaction on it. *)
SettingInv ==
    /\ \A r \in Requests :
         session[r].kind = "tenant" /\ session[r].step = "first" =>
             setting[session[r].on] = session[r].tenant /\ session[r].tenant # None
    /\ \A c \in Connections : setting[c] # None =>
         \E r \in Requests : session[r].on = c /\ session[r].kind = "tenant"
                             /\ session[r].step = "first"

(* One flush, one row until its commit.                                    *)
Uncommitted == {i \in DOMAIN owned : ~owned[i].committed}

OwnedInv ==
    /\ \A i \in Uncommitted :
         LET r == owned[i].by IN
         /\ session[r].step = "stamped"
         /\ owned[i].key = session[r].tenant
    /\ \A i, j \in Uncommitted : owned[i].by = owned[j].by => i = j
    /\ \A r \in Requests : session[r].step = "stamped" =>
         \E i \in Uncommitted : owned[i].by = r

(* While a sign-in makes its workspace there is no other with its key.     *)
SigninInv ==
    /\ \A r, s \in Requests :
         session[r].kind = "signin" /\ session[s].kind = "signin" => r = s
    /\ \A r \in Requests, i \in Committed :
         session[r].kind = "signin" => owned[i].key # session[r].tenant
    /\ \A i, j \in DOMAIN owned : owned[i].key = owned[j].key => i = j \/ owned[i].key = None

(* Without a race workspaces are committed in the order of created_at.     *)
OrderInv ==
    raced \/ /\ \A r, s \in Making : r = s
             /\ \A i \in Uncommitted, j \in Committed : j < i

(* Stripe changes or deletes a live subscription, or makes a new one.      *)
InOrder(events) ==
    \A n \in 1..Len(events) :
        \/ events[n].id \in LiveAfter(events, n - 1)
        \/ ~events[n].deleted /\ Past(events, n - 1, events[n].id) = {}

LogInv == \A t \in Customers : InOrder(log[t])

(* The plan of an event that names one or ends a subscription.             *)
Decided(e) == IF e.deleted THEN "free" ELSE GetPlan(e.named)

(* The plan is that of the deciding event that was applied last.           *)
PlanInv ==
    \A t \in Customers :
        /\ applied[t] \in 0..Len(log[t])
        /\ applied[t] = 0 => CurrentPlan(t) = "free"
        /\ applied[t] # 0 => /\ Decides(log[t][applied[t]])
                             /\ plan[t] = Decided(log[t][applied[t]])

PoolInv == PoolOK /\ SessionInv /\ SettingInv

WorkspacesInv == OwnedOK /\ OwnedInv /\ SigninInv /\ OrderInv

BillingInv == BillingTypeOK /\ LogInv /\ PlanInv

Inv == PoolInv /\ WorkspacesInv /\ BillingInv

-----------------------------------------------------------------------------
(* The plans.                                                              *)

(* Every plan has a number at least.                                       *)
LEMMA PlanHasNumber ==
    /\ "free" \in DOMAIN PLANS
    /\ \A p \in DOMAIN PLANS : PLANS[p] \in Nat /\ PLANS[p] >= 1
  BY DEF PLANS

-----------------------------------------------------------------------------
(* The pool.                                                               *)

InContext(s) == s.kind = "tenant" /\ s.step = "first"

(* What one request may do to its session: take a free connection, keep    *)
(* its own, or give it back.                                               *)
SessionStep(r, s) ==
    /\ session' = [session EXCEPT ![r] = s]
    /\ s \in Session
    /\ s.on = None <=> s.step = "ended"
    /\ s.on \in Free \cup {session[r].on, None}
    /\ s.kind = "closed" => s = NoSession
    /\ s.kind \in {"console", "signin"} => s.step \in {"first", "stamped"}
    /\ s.step = "stamped" => s.kind \in {"console", "signin"}
    /\ s.kind = "console" => s.tenant = None
    /\ s.kind = "signin" => s.tenant \in Keys

(* s is the session of r, but for its step and its connection.             *)
Moved(s, r, p, c) ==
    /\ s \in Session /\ s.kind = session[r].kind /\ s.tenant = session[r].tenant
    /\ s.step = p /\ s.on = c

(* Two sessions never share a connection.                                  *)
LEMMA SessionStepInv ==
    ASSUME PoolOK, SessionInv, NEW r \in Requests, NEW s, SessionStep(r, s),
           role' = role, setting' \in [Connections -> Tenants \cup {None}]
    PROVE  PoolOK' /\ SessionInv'
<1> USE TenancyAssumption DEF TenancyAssumption, SessionStep
<1>1. session' \in [Requests -> Session] /\ role' \in {"postgres", "wa_app"}
  BY DEF PoolOK
<1>2. \A q \in Requests : (session'[q].on = None) <=> (session'[q].step = "ended")
  BY DEF PoolOK
<1>3. ASSUME NEW p \in Requests, NEW q \in Requests,
             session'[p].on = session'[q].on, p # q
      PROVE  session'[p].on = None
  BY <1>3 DEF PoolOK, Free
<1>4. SessionInv'
  BY DEF PoolOK, SessionInv, Making
<1> QED
  BY <1>1, <1>2, <1>3, <1>4 DEF PoolOK

(* Outside tenant_context no statement sets a tenant.                      *)
LEMMA SettingKept ==
    ASSUME PoolInv, NEW r \in Requests, NEW s, SessionStep(r, s),
           UNCHANGED <<role, setting>>, ~InContext(session[r]), ~InContext(s)
    PROVE  PoolInv'
<1>1. PoolOK' /\ SessionInv'
  BY SessionStepInv DEF PoolInv, PoolOK
<1>2. SettingInv'
  BY DEF PoolInv, SettingInv, PoolOK, SessionStep, InContext
<1> QED
  BY <1>1, <1>2 DEF PoolInv

(* The setting does not outlive its transaction.                           *)
LEMMA SettingEnded ==
    ASSUME PoolInv, NEW r \in Requests, NEW s, SessionStep(r, s), role' = role,
           session[r].on # None, setting' = SettingEnds(session[r].on), s.on = None
    PROVE  PoolInv'
<1>1. setting' \in [Connections -> Tenants \cup {None}]
  BY DEF PoolInv, PoolOK, SettingEnds
<1>2. PoolOK' /\ SessionInv'
  BY <1>1, SessionStepInv DEF PoolInv
<1>3. session[r].on \in Connections /\ s.step = "ended"
  BY DEF PoolInv, PoolOK, Session, SessionStep
<1>4. ASSUME NEW q \in Requests, InContext(session'[q])
      PROVE  setting'[session'[q].on] = session'[q].tenant /\ session'[q].tenant # None
  <2>1. q # r /\ session'[q] = session[q] /\ session[q].on # None
    BY <1>3, <1>4 DEF InContext, SessionStep, PoolInv, PoolOK
  <2>2. session[q].on # session[r].on /\ session[q].on \in Connections
    BY <2>1 DEF PoolInv, PoolOK, Session
  <2>3. setting'[session[q].on] = setting[session[q].on]
    BY <2>2 DEF SettingEnds, PoolInv, PoolOK
  <2> QED
    BY <1>4, <2>1, <2>3 DEF PoolInv, SettingInv, InContext
<1>5. ASSUME NEW c \in Connections, setting'[c] # None
      PROVE  \E q \in Requests : session'[q].on = c /\ InContext(session'[q])
  <2>1. c # session[r].on /\ setting[c] # None
    BY <1>5 DEF SettingEnds, PoolInv, PoolOK
  <2>2. PICK q \in Requests : session[q].on = c /\ InContext(session[q])
    BY <2>1 DEF PoolInv, SettingInv, InContext
  <2>3. session'[q] = session[q]
    BY <2>1, <2>2 DEF SessionStep, PoolInv, PoolOK
  <2> QED
    BY <2>2, <2>3
<1>6. SettingInv'
  BY <1>4, <1>5 DEF SettingInv, InContext
<1> QED
  BY <1>2, <1>6 DEF PoolInv

LEMMA OpenTenantInv ==
    ASSUME PoolInv, NEW r \in Requests, NEW t \in Tenants, OpenTenant(r, t)
    PROVE  PoolInv'
<1> USE TenancyAssumption DEF TenancyAssumption
<1>1. PICK c \in Free : /\ session' = [session EXCEPT ![r] = Opened("tenant", t, c)]
                        /\ setting' = [setting EXCEPT ![c] = t]
  BY DEF OpenTenant
<1>2. c \in Connections /\ role' = role /\ \A q \in Requests : session[q].on # c
  BY DEF Free, OpenTenant
<1>3. SessionStep(r, Opened("tenant", t, c))
  BY <1>1, <1>2 DEF SessionStep, Opened, Session, Kind, Step
<1>4. setting' \in [Connections -> Tenants \cup {None}]
  BY <1>1 DEF PoolInv, PoolOK
<1>5. PoolOK' /\ SessionInv'
  BY <1>2, <1>3, <1>4, SessionStepInv DEF PoolInv
<1>6. ASSUME NEW q \in Requests, InContext(session'[q])
      PROVE  setting'[session'[q].on] = session'[q].tenant /\ session'[q].tenant # None
  <2>1. CASE q = r
    BY <1>1, <1>2, <2>1 DEF Opened, PoolInv, PoolOK
  <2>2. CASE q # r
    <3>1. session'[q] = session[q] /\ session[q].on # c
      BY <1>1, <1>2, <2>2 DEF PoolInv, PoolOK
    <3>2. session[q].on \in Connections
      BY <1>6, <3>1 DEF InContext, PoolInv, PoolOK, Session
    <3>3. setting'[session[q].on] = setting[session[q].on]
      BY <1>1, <3>1, <3>2 DEF PoolInv, PoolOK
    <3> QED
      BY <1>6, <3>1, <3>3 DEF PoolInv, SettingInv, InContext
  <2> QED
    BY <2>1, <2>2
<1>7. ASSUME NEW d \in Connections, setting'[d] # None
      PROVE  \E q \in Requests : session'[q].on = d /\ InContext(session'[q])
  <2>1. CASE d = c
    BY <1>1, <2>1 DEF Opened, PoolInv, PoolOK, InContext
  <2>2. CASE d # c
    <3>1. setting[d] # None
      BY <1>1, <1>7, <2>2 DEF PoolInv, PoolOK
    <3>2. PICK q \in Requests : session[q].on = d /\ InContext(session[q])
      BY <3>1 DEF PoolInv, SettingInv, InContext
    <3>3. session[r].on = None
      BY DEF OpenTenant, NoSession
    <3>4. session'[q] = session[q]
      BY <1>1, <3>2, <3>3 DEF PoolInv, PoolOK
    <3> QED
      BY <3>2, <3>4
  <2> QED
    BY <2>1, <2>2
<1>8. SettingInv'
  BY <1>6, <1>7 DEF SettingInv, InContext
<1> QED
  BY <1>5, <1>8 DEF PoolInv

(* The handler's commit, with or without a tenant.                         *)
LEMMA CommitInv ==
    ASSUME PoolInv, NEW r \in Requests, Commit(r)
    PROVE  PoolInv'
<1>1. session[r].on # None /\ setting' = SettingEnds(session[r].on) /\ role' = role
  BY DEF Commit, PoolInv, PoolOK
<1> DEFINE t == [session[r] EXCEPT !.step = "ended"]
           s == [t EXCEPT !.on = None]
<1>2. Moved(t, r, "ended", session[r].on)
  BY DEF PoolInv, PoolOK, Session, Step, Moved
<1>3. Moved(s, r, "ended", None)
  <2> HIDE DEF t
  <2> QED
    BY <1>2 DEF Session, Moved
<1>4. session' = [session EXCEPT ![r] = s]
  BY DEF Commit, PoolInv, PoolOK, Session
<1> HIDE DEF s
<1>5. SessionStep(r, s) /\ s.on = None
  BY <1>3, <1>4 DEF SessionStep, Commit, Moved
<1> QED
  BY <1>1, <1>5, SettingEnded

LEMMA GoOnInv ==
    ASSUME PoolInv, NEW r \in Requests, GoOn(r)
    PROVE  PoolInv'
<1>1. PICK c \in Free :
        session' = [session EXCEPT ![r].step = "again", ![r].on = c]
  BY DEF GoOn
<1>2. c \in Connections \cup {None} /\ c # None
  BY TenancyAssumption DEF TenancyAssumption, Free
<1> DEFINE t == [session[r] EXCEPT !.step = "again"]
           s == [t EXCEPT !.on = c]
<1>3. Moved(t, r, "again", session[r].on)
  BY DEF PoolInv, PoolOK, Session, Step, Moved
<1>4. Moved(s, r, "again", c)
  <2> HIDE DEF t
  <2> QED
    BY <1>2, <1>3 DEF Session, Moved
<1>5. session' = [session EXCEPT ![r] = s]
  BY <1>1 DEF PoolInv, PoolOK, Session
<1> HIDE DEF s
<1>6. SessionStep(r, s)
  BY <1>2, <1>4, <1>5 DEF SessionStep, GoOn, Moved
<1>7. ~InContext(session[r]) /\ ~InContext(s) /\ UNCHANGED <<role, setting>>
  BY <1>4 DEF GoOn, InContext, Moved
<1> QED
  BY <1>6, <1>7, SettingKept

LEMMA CloseInv ==
    ASSUME PoolInv, NEW r \in Requests, Close(r)
    PROVE  PoolInv'
<1>1. SessionStep(r, NoSession)
  BY DEF SessionStep, NoSession, Session, Kind, Step, Close
<1>2. CASE session[r].on = None
  <2>1. ~InContext(session[r]) /\ ~InContext(NoSession) /\ UNCHANGED <<role, setting>>
    BY <1>2 DEF Close, InContext, NoSession, PoolInv, PoolOK
  <2> QED
    BY <1>1, <2>1, SettingKept
<1>3. CASE session[r].on # None
  <2>1. setting' = SettingEnds(session[r].on) /\ role' = role /\ NoSession.on = None
    BY <1>3 DEF Close, NoSession
  <2> QED
    BY <1>1, <1>3, <2>1, SettingEnded
<1> QED
  BY <1>2, <1>3

(* A request that opens a session without a tenant.                        *)
LEMMA OpenedInv ==
    ASSUME PoolInv, NEW r \in Requests, session[r] = NoSession,
           NEW kind \in {"plain", "console", "signin"}, NEW c \in Free,
           NEW key \in IF kind = "signin" THEN Keys ELSE {None},
           session' = [session EXCEPT ![r] = Opened(kind, key, c)],
           UNCHANGED <<role, setting>>
    PROVE  PoolInv'
<1>1. c \in Connections /\ c # None
  BY TenancyAssumption DEF TenancyAssumption, Free
<1>2. SessionStep(r, Opened(kind, key, c))
  BY <1>1 DEF SessionStep, Opened, Session, Kind, Step
<1>3. ~InContext(session[r]) /\ ~InContext(Opened(kind, key, c))
  BY DEF InContext, NoSession, Opened
<1> QED
  BY <1>2, <1>3, SettingKept

LEMMA MakingInv ==
    ASSUME PoolInv, NEW r \in Requests, Look(r) \/ InsertWorkspace(r) \/ CommitWorkspace(r)
    PROVE  PoolInv'
<1>1. CASE Look(r)
  <2>0. session[r] = NoSession /\ UNCHANGED <<role, setting>>
    BY <1>1 DEF Look
  <2>1. CASE LookForConsole(r)
    <3>1. PICK c \in Free : session' = [session EXCEPT ![r] = Opened("console", None, c)]
      BY <2>1 DEF LookForConsole
    <3>2. None \in IF "console" = "signin" THEN Keys ELSE {None}
      OBVIOUS
    <3> QED
      BY <2>0, <3>1, <3>2, OpenedInv
  <2>2. ASSUME NEW key \in Keys, LookForTenant(r, key) PROVE PoolInv'
    <3>1. PICK c \in Free : session' = [session EXCEPT ![r] = Opened("signin", key, c)]
      BY <2>2 DEF LookForTenant
    <3> QED
      BY <2>0, <3>1, OpenedInv
  <2> QED
    BY <1>1, <2>1, <2>2 DEF Look
<1>2. CASE InsertWorkspace(r)
  <2>1. /\ session[r].kind \in {"console", "signin"} /\ session[r].on # None
        /\ session[r].kind = "console" => session[r].tenant = None
        /\ session[r].kind = "signin" => session[r].tenant \in Keys
    BY <1>2 DEF PoolInv, PoolOK, SessionInv, InsertWorkspace, Making
  <2> DEFINE s == [session[r] EXCEPT !.step = "stamped"]
  <2>2. Moved(s, r, "stamped", session[r].on)
    BY DEF PoolInv, PoolOK, Session, Step, Moved
  <2>3. session' = [session EXCEPT ![r] = s]
    BY <1>2 DEF InsertWorkspace, PoolInv, PoolOK, Session
  <2> HIDE DEF s
  <2>4. SessionStep(r, s)
    BY <2>1, <2>2, <2>3 DEF SessionStep, Moved
  <2>5. ~InContext(session[r]) /\ ~InContext(s) /\ UNCHANGED <<role, setting>>
    BY <1>2, <2>1, <2>2 DEF InsertWorkspace, InContext, Moved
  <2> QED
    BY <2>4, <2>5, SettingKept
<1>3. CASE CommitWorkspace(r)
  <2>1. SessionStep(r, NoSession)
    BY <1>3 DEF SessionStep, NoSession, Session, Kind, Step, CommitWorkspace
  <2>2. ~InContext(session[r]) /\ ~InContext(NoSession) /\ UNCHANGED <<role, setting>>
    BY <1>3 DEF CommitWorkspace, InContext, NoSession
  <2> QED
    BY <2>1, <2>2, SettingKept
<1> QED
  BY <1>1, <1>2, <1>3

(* Every step of a request keeps the pool.                                 *)
LEMMA PoolNext ==
    ASSUME PoolInv, TenancyNext
    PROVE  PoolInv'
<1>1. PICK r \in Requests :
        \/ \E t \in Tenants : OpenTenant(r, t)
        \/ OpenPlain(r)
        \/ Commit(r)
        \/ GoOn(r)
        \/ Close(r)
        \/ Look(r) \/ InsertWorkspace(r) \/ CommitWorkspace(r)
  BY DEF TenancyNext
<1>2. CASE OpenPlain(r)
  <2>1. PICK c \in Free : session' = [session EXCEPT ![r] = Opened("plain", None, c)]
    BY <1>2 DEF OpenPlain
  <2>2. session[r] = NoSession /\ UNCHANGED <<role, setting>>
    BY <1>2 DEF OpenPlain
  <2>3. None \in IF "plain" = "signin" THEN Keys ELSE {None}
    OBVIOUS
  <2> QED
    BY <2>1, <2>2, <2>3, OpenedInv
<1> QED
  BY <1>1, <1>2, OpenTenantInv, CommitInv, GoOnInv, CloseInv, MakingInv

-----------------------------------------------------------------------------
(* The person's workspaces.                                                *)

LEMMA OwnedRows ==
    ASSUME OwnedOK
    PROVE  /\ Len(owned) \in Nat /\ DOMAIN owned = 1..Len(owned)
           /\ \A i \in DOMAIN owned : owned[i] \in Workspace
           /\ \A i \in DOMAIN owned : owned[i].by \in Requests
           /\ \A i \in DOMAIN owned : owned[i].committed \in BOOLEAN
           /\ Uncommitted \subseteq DOMAIN owned /\ Committed \subseteq DOMAIN owned
<1>1. Len(owned) \in Nat /\ DOMAIN owned = 1..Len(owned)
  BY DEF OwnedOK
<1>2. \A i \in DOMAIN owned : owned[i] \in Workspace
  BY <1>1 DEF OwnedOK
<1>3. \A i \in DOMAIN owned : owned[i].by \in Requests /\ owned[i].committed \in BOOLEAN
  BY <1>2 DEF Workspace
<1>4. Uncommitted \subseteq DOMAIN owned /\ Committed \subseteq DOMAIN owned
  BY DEF Uncommitted, Committed
<1> QED
  BY <1>1, <1>2, <1>3, <1>4

(* A request that makes no workspace.                                      *)
Aside(r) ==
    /\ \A q \in Requests : q # r => session'[q] = session[q]
    /\ session[r].kind \notin {"console", "signin"} /\ session[r].step # "stamped"
    /\ session'[r].kind \notin {"console", "signin"} /\ session'[r].step # "stamped"
    /\ UNCHANGED <<owned, raced>>

LEMMA OthersAreAside ==
    ASSUME PoolInv, NEW r \in Requests,
           \/ \E t \in Tenants : OpenTenant(r, t)
           \/ OpenPlain(r) \/ Commit(r) \/ GoOn(r) \/ Close(r)
    PROVE  Aside(r)
<1> USE DEF PoolInv, PoolOK, Aside, NoSession
<1>1. ASSUME NEW t \in Tenants, OpenTenant(r, t) PROVE Aside(r)
  BY <1>1 DEF OpenTenant, Opened
<1>2. CASE OpenPlain(r)
  BY <1>2 DEF OpenPlain, Opened
<1>3. CASE Commit(r)
  BY <1>3 DEF Commit, Session
<1>4. CASE GoOn(r)
  <2>1. PICK c \in Free :
          session' = [session EXCEPT ![r].step = "again", ![r].on = c]
    BY <1>4 DEF GoOn
  <2>2. /\ session'[r].kind = session[r].kind /\ session'[r].step = "again"
        /\ \A q \in Requests : q # r => session'[q] = session[q]
    BY <2>1 DEF Session
  <2> QED
    BY <1>4, <2>2 DEF GoOn
<1>5. CASE Close(r)
  BY <1>5 DEF Close, SessionInv, Making
<1> QED
  BY <1>1, <1>2, <1>3, <1>4, <1>5

LEMMA AsideInv ==
    ASSUME PoolInv, WorkspacesInv, NEW r \in Requests, Aside(r)
    PROVE  WorkspacesInv'
<1>1. Making' = Making /\ Committed' = Committed /\ Uncommitted' = Uncommitted
  BY DEF Aside, Making, Committed, Uncommitted
<1>2. OwnedOK'
  BY DEF WorkspacesInv, OwnedOK, Aside
<1>3. OwnedInv'
  <2>1. \A i \in Uncommitted : owned[i].by \in Requests /\ owned[i].by # r
    <3>1. \A i \in Uncommitted : owned[i].by \in Requests
      BY OwnedRows DEF WorkspacesInv
    <3>2. \A i \in Uncommitted : session[owned[i].by].step = "stamped"
      BY DEF WorkspacesInv, OwnedInv
    <3> QED
      BY <3>1, <3>2 DEF Aside
  <2>2. owned' = owned
    BY DEF Aside
  <2>3. \A i \in Uncommitted' :
          /\ session'[owned'[i].by].step = "stamped"
          /\ owned'[i].key = session'[owned'[i].by].tenant
    BY <1>1, <2>1, <2>2 DEF WorkspacesInv, OwnedInv, Aside
  <2>4. \A q \in Requests : session'[q].step = "stamped" =>
          q # r /\ session[q].step = "stamped"
    BY DEF Aside
  <2>5. \A i, j \in Uncommitted' : owned'[i].by = owned'[j].by => i = j
    BY <1>1, <2>2 DEF WorkspacesInv, OwnedInv
  <2>6. \A q \in Requests : session'[q].step = "stamped" =>
          \E i \in Uncommitted' : owned'[i].by = q
    BY <1>1, <2>2, <2>3, <2>4 DEF WorkspacesInv, OwnedInv
  <2> QED
    BY <2>3, <2>5, <2>6 DEF OwnedInv
<1>4. SigninInv'
  BY <1>1 DEF WorkspacesInv, SigninInv, Aside
<1>5. OrderInv'
  BY <1>1 DEF WorkspacesInv, OrderInv, Aside
<1> QED
  BY <1>2, <1>3, <1>4, <1>5 DEF WorkspacesInv

LEMMA LookInv ==
    ASSUME PoolInv, WorkspacesInv, NEW r \in Requests, Look(r)
    PROVE  WorkspacesInv'
<1>1. PICK kind \in {"console", "signin"}, c \in Free, key \in Keys \cup {None} :
        /\ session' = [session EXCEPT ![r] = Opened(kind, key, c)]
        /\ kind = "signin" => /\ \A i \in Committed : owned[i].key # key
                              /\ \A s \in Requests : session[s].kind # "signin"
  BY DEF Look, LookForConsole, LookForTenant
<1>2. session[r] = NoSession /\ UNCHANGED owned /\ raced' = (raced \/ Making # {})
  BY DEF Look
<1>3. /\ \A q \in Requests : q # r => session'[q] = session[q]
      /\ session'[r].kind = kind /\ session'[r].step = "first" /\ session'[r].tenant = key
  BY <1>1 DEF PoolInv, PoolOK, Opened
<1>4. Committed' = Committed /\ Uncommitted' = Uncommitted /\ Making' = Making \cup {r}
  BY <1>2, <1>3 DEF Committed, Uncommitted, Making
<1>5. OwnedOK'
  BY <1>2 DEF WorkspacesInv, OwnedOK
<1>6. OwnedInv'
  <2>1. \A i \in Uncommitted : owned[i].by \in Requests /\ owned[i].by # r
    <3>1. \A i \in Uncommitted : owned[i].by \in Requests
      BY OwnedRows DEF WorkspacesInv
    <3>2. \A i \in Uncommitted : session[owned[i].by].step = "stamped"
      BY DEF WorkspacesInv, OwnedInv
    <3> QED
      BY <1>2, <3>1, <3>2 DEF NoSession
  <2>2. \A i \in Uncommitted' :
          /\ session'[owned'[i].by].step = "stamped"
          /\ owned'[i].key = session'[owned'[i].by].tenant
    BY <1>2, <1>3, <1>4, <2>1 DEF WorkspacesInv, OwnedInv
  <2>3. \A q \in Requests : session'[q].step = "stamped" =>
          q # r /\ session[q].step = "stamped"
    BY <1>3
  <2>5. \A i, j \in Uncommitted' : owned'[i].by = owned'[j].by => i = j
    BY <1>2, <1>4 DEF WorkspacesInv, OwnedInv
  <2>6. \A q \in Requests : session'[q].step = "stamped" =>
          \E i \in Uncommitted' : owned'[i].by = q
    BY <1>2, <1>4, <2>2, <2>3 DEF WorkspacesInv, OwnedInv
  <2> QED
    BY <2>2, <2>5, <2>6 DEF OwnedInv
<1>7. SigninInv'
  BY <1>1, <1>2, <1>3, <1>4 DEF WorkspacesInv, SigninInv
<1>8. OrderInv'
  BY <1>2, <1>4 DEF WorkspacesInv, OrderInv
<1> QED
  BY <1>5, <1>6, <1>7, <1>8 DEF WorkspacesInv

(* The new row is its request's only one.                                  *)
LEMMA InsertInv ==
    ASSUME PoolInv, WorkspacesInv, NEW r \in Requests, InsertWorkspace(r)
    PROVE  WorkspacesInv'
<1> DEFINE n == Len(owned) + 1
           row == [key |-> session[r].tenant, by |-> r, committed |-> FALSE]
<1>1. /\ Len(owned) \in Nat /\ DOMAIN owned = 1..Len(owned)
      /\ \A i \in DOMAIN owned : owned[i].by \in Requests
      /\ \A i \in DOMAIN owned : owned[i].committed \in BOOLEAN
      /\ Uncommitted \subseteq DOMAIN owned /\ Committed \subseteq DOMAIN owned
  BY OwnedRows DEF WorkspacesInv
<1>0. session[r].tenant \in Keys \cup {None}
  BY DEF InsertWorkspace, Making, PoolInv, SessionInv
<1>2. /\ owned' = Append(owned, row) /\ row \in Workspace
      /\ owned' \in Seq(Workspace)
  BY <1>0 DEF InsertWorkspace, Workspace, WorkspacesInv, OwnedOK
<1>3. /\ DOMAIN owned' = DOMAIN owned \cup {n} /\ n \notin DOMAIN owned
      /\ \A i \in DOMAIN owned : owned'[i] = owned[i] /\ i < n
      /\ owned'[n] = row
  <2> HIDE DEF row
  <2> QED
    BY <1>1, <1>2 DEF WorkspacesInv, OwnedOK
<1>4. /\ row.by = r /\ row.committed = FALSE
      /\ row.key = session[r].tenant
  OBVIOUS
<1> HIDE DEF row, n
<1>5. Committed' = Committed /\ Uncommitted' = Uncommitted \cup {n}
  BY <1>1, <1>3, <1>4 DEF Committed, Uncommitted
<1>6. /\ session[r].step = "first" /\ r \in Making /\ raced' = raced
      /\ session'[r].kind = session[r].kind /\ session'[r].step = "stamped"
      /\ session'[r].tenant = session[r].tenant
      /\ \A q \in Requests : q # r => session'[q] = session[q]
  BY DEF InsertWorkspace, PoolInv, PoolOK, Session
<1>7. Making' = Making
  BY <1>6 DEF Making
<1>8. \A i \in Uncommitted : owned[i].by \in Requests /\ owned[i].by # r
  <2>1. \A i \in Uncommitted : session[owned[i].by].step = "stamped"
    BY DEF WorkspacesInv, OwnedInv
  <2> QED
    BY <1>1, <1>6, <2>1
<1>9. OwnedInv'
  <2>1. \A i \in Uncommitted' :
          /\ session'[owned'[i].by].step = "stamped"
          /\ owned'[i].key = session'[owned'[i].by].tenant
    <3>1. ASSUME NEW i \in Uncommitted
          PROVE  /\ session'[owned'[i].by].step = "stamped"
                 /\ owned'[i].key = session'[owned'[i].by].tenant
      <4>1. owned'[i] = owned[i] /\ session'[owned[i].by] = session[owned[i].by]
        BY <1>1, <1>3, <1>6, <1>8
      <4> QED
        BY <4>1 DEF WorkspacesInv, OwnedInv
    <3>2. /\ session'[owned'[n].by].step = "stamped"
          /\ owned'[n].key = session'[owned'[n].by].tenant
      BY <1>3, <1>4, <1>6
    <3> QED
      BY <1>5, <3>1, <3>2
  <2>2. \A i, j \in Uncommitted' : owned'[i].by = owned'[j].by => i = j
    BY <1>1, <1>3, <1>4, <1>5, <1>8 DEF WorkspacesInv, OwnedInv
  <2>3. ASSUME NEW q \in Requests, session'[q].step = "stamped"
        PROVE  \E i \in Uncommitted' : owned'[i].by = q
    <3>1. CASE q = r
      BY <1>3, <1>4, <1>5, <3>1
    <3>2. CASE q # r
      BY <1>1, <1>3, <1>5, <1>6, <2>3, <3>2 DEF WorkspacesInv, OwnedInv
    <3> QED
      BY <3>1, <3>2
  <2> QED
    BY <2>1, <2>2, <2>3 DEF OwnedInv
<1>10. SigninInv'
  <2>1. /\ \A q, s \in Requests :
             session'[q].kind = "signin" /\ session'[s].kind = "signin" => q = s
        /\ \A q \in Requests, i \in Committed' :
             session'[q].kind = "signin" => owned'[i].key # session'[q].tenant
    BY <1>1, <1>3, <1>5, <1>6 DEF WorkspacesInv, SigninInv
  <2>2. ASSUME NEW i \in DOMAIN owned, owned[i].key = session[r].tenant, session[r].tenant # None
        PROVE  FALSE
    <3>0. session[r].kind = "signin"
      BY <1>6, <2>2 DEF PoolInv, SessionInv, Making
    <3>1. i \in Uncommitted
      BY <1>1, <2>2, <3>0 DEF WorkspacesInv, SigninInv, Uncommitted, Committed
    <3>2. session[owned[i].by].kind = "signin"
      <4>1. session[owned[i].by].step = "stamped" /\ session[owned[i].by].tenant # None
        BY <2>2, <3>1 DEF WorkspacesInv, OwnedInv
      <4> QED
        BY <1>8, <3>1, <4>1 DEF PoolInv, SessionInv, Making
    <3> QED
      BY <1>8, <3>0, <3>1, <3>2 DEF WorkspacesInv, SigninInv
  <2>3. \A i, j \in DOMAIN owned' : owned'[i].key = owned'[j].key => i = j \/ owned'[i].key = None
    BY <1>3, <1>4, <2>2 DEF WorkspacesInv, SigninInv
  <2> QED
    BY <2>1, <2>3 DEF SigninInv
<1>11. OrderInv'
  BY <1>1, <1>3, <1>5, <1>6, <1>7 DEF WorkspacesInv, OrderInv
<1>12. OwnedOK'
  <2>1. ASSUME NEW key \in Keys PROVE Cardinality({i \in DOMAIN owned' : owned'[i].key = key}) <= 1
    BY <1>10, AtMostOne, TenancyAssumption DEF SigninInv, TenancyAssumption
  <2> QED
    BY <1>2, <1>6, <2>1 DEF OwnedOK, WorkspacesInv
<1> QED
  BY <1>9, <1>10, <1>11, <1>12 DEF WorkspacesInv

(* The row a request commits is the one it inserted.                       *)
LEMMA MineIsUncommitted ==
    ASSUME WorkspacesInv, NEW r \in Requests, session[r].step = "stamped"
    PROVE  Mine(r) \in Uncommitted /\ owned[Mine(r)].by = r
  BY DEF WorkspacesInv, OwnedInv, Uncommitted, Mine

LEMMA CommitWorkspaceInv ==
    ASSUME PoolInv, WorkspacesInv, NEW r \in Requests, CommitWorkspace(r)
    PROVE  WorkspacesInv'
<1> DEFINE k == Mine(r)
<1>1. /\ Len(owned) \in Nat /\ DOMAIN owned = 1..Len(owned)
      /\ \A i \in DOMAIN owned : owned[i] \in Workspace
      /\ \A i \in DOMAIN owned : owned[i].by \in Requests
      /\ Uncommitted \subseteq DOMAIN owned /\ Committed \subseteq DOMAIN owned
  BY OwnedRows DEF WorkspacesInv
<1>2. k \in Uncommitted /\ owned[k].by = r /\ session[r].step = "stamped"
  BY MineIsUncommitted DEF CommitWorkspace
<1>3. owned' = [owned EXCEPT ![k].committed = TRUE] /\ raced' = raced
  BY DEF CommitWorkspace
<1> HIDE DEF k
<1>4. /\ DOMAIN owned' = DOMAIN owned
      /\ \A i \in DOMAIN owned : i # k => owned'[i] = owned[i]
      /\ owned'[k].key = owned[k].key /\ owned'[k].committed = TRUE
      /\ owned'[k].by = r
  BY <1>1, <1>2, <1>3 DEF Workspace
<1>5. owned' \in Seq(Workspace)
  <2>1. [owned[k] EXCEPT !.committed = TRUE] \in Workspace
    BY <1>1, <1>2 DEF Workspace
  <2>2. \A e \in Workspace : [owned EXCEPT ![k] = e] \in Seq(Workspace)
    BY <1>1, <1>2 DEF WorkspacesInv, OwnedOK
  <2> QED
    BY <1>3, <2>1, <2>2
<1>6. Committed' = Committed \cup {k} /\ Uncommitted' = Uncommitted \ {k}
  BY <1>1, <1>2, <1>4 DEF Committed, Uncommitted
<1>7. /\ session'[r].kind = "closed" /\ session'[r].step = "ended"
      /\ \A q \in Requests : q # r => session'[q] = session[q]
  BY DEF CommitWorkspace, NoSession, PoolInv, PoolOK
<1>8. Making' = Making \ {r} /\ r \in Making
  BY <1>2, <1>7 DEF Making, PoolInv, SessionInv
<1>9. \A i \in Uncommitted' : i # k /\ owned[i].by \in Requests /\ owned[i].by # r
  BY <1>1, <1>2, <1>6 DEF WorkspacesInv, OwnedInv
<1>10. OwnedInv'
  <2>1. ASSUME NEW i \in Uncommitted'
        PROVE  /\ session'[owned'[i].by].step = "stamped"
               /\ owned'[i].key = session'[owned'[i].by].tenant
    <3>1. owned'[i] = owned[i] /\ session'[owned[i].by] = session[owned[i].by]
      BY <1>1, <1>4, <1>6, <1>7, <1>9
    <3> QED
      BY <1>6, <3>1 DEF WorkspacesInv, OwnedInv
  <2>2. \A i, j \in Uncommitted' : owned'[i].by = owned'[j].by => i = j
    BY <1>1, <1>4, <1>6, <1>9 DEF WorkspacesInv, OwnedInv
  <2>3. ASSUME NEW q \in Requests, session'[q].step = "stamped"
        PROVE  \E i \in Uncommitted' : owned'[i].by = q
    <3>1. q # r /\ session[q].step = "stamped"
      BY <1>7, <2>3
    <3>2. PICK i \in Uncommitted : owned[i].by = q
      BY <3>1 DEF WorkspacesInv, OwnedInv
    <3>3. i # k
      BY <1>2, <3>1, <3>2
    <3> QED
      BY <1>1, <1>4, <1>6, <3>2, <3>3
  <2> QED
    BY <2>1, <2>2, <2>3 DEF OwnedInv
<1>11. SigninInv'
  <2>1. \A q, s \in Requests :
             session'[q].kind = "signin" /\ session'[s].kind = "signin" => q = s
    BY <1>7 DEF WorkspacesInv, SigninInv
  <2>2. ASSUME NEW q \in Requests, NEW i \in Committed', session'[q].kind = "signin"
        PROVE  owned'[i].key # session'[q].tenant
    <3>1. q # r /\ session[q].kind = "signin" /\ session'[q] = session[q]
      BY <1>7, <2>2
    <3>2. CASE i = k
      <4>1. session[r].kind # "signin"
        BY <3>1 DEF WorkspacesInv, SigninInv
      <4>2. owned[k].key = None
        BY <1>2, <1>8, <4>1 DEF WorkspacesInv, OwnedInv, PoolInv, SessionInv, Making
      <4>3. session[q].tenant \in Keys
        BY <3>1 DEF PoolInv, SessionInv
      <4> QED
        BY <1>4, <3>1, <3>2, <4>2, <4>3, TenancyAssumption DEF TenancyAssumption
    <3>3. CASE i # k
      BY <1>1, <1>4, <1>6, <3>1, <3>3 DEF WorkspacesInv, SigninInv
    <3> QED
      BY <3>2, <3>3
  <2>3. \A i, j \in DOMAIN owned' : owned'[i].key = owned'[j].key => i = j \/ owned'[i].key = None
    BY <1>4 DEF WorkspacesInv, SigninInv
  <2> QED
    BY <2>1, <2>2, <2>3 DEF SigninInv
<1>12. OrderInv'
  <2> SUFFICES ASSUME ~raced
               PROVE  /\ \A q, s \in Making' : q = s
                      /\ \A i \in Uncommitted', j \in Committed' : j < i
    BY <1>3 DEF OrderInv
  <2>1. \A q, s \in Making : q = s
    BY DEF WorkspacesInv, OrderInv
  <2>2. Uncommitted' = {}
    <3>1. \A i \in Uncommitted : session[owned[i].by].step = "stamped"
      BY DEF WorkspacesInv, OwnedInv
    <3>2. \A i \in Uncommitted : owned[i].by \in Making
      BY <1>1, <3>1 DEF PoolInv, SessionInv
    <3> QED
      BY <1>6, <1>8, <1>9, <2>1, <3>2
  <2> QED
    BY <1>8, <2>1, <2>2
<1>13. OwnedOK'
  <2>1. ASSUME NEW key \in Keys PROVE Cardinality({i \in DOMAIN owned' : owned'[i].key = key}) <= 1
    BY <1>11, AtMostOne, TenancyAssumption DEF SigninInv, TenancyAssumption
  <2> QED
    BY <1>3, <1>5, <2>1 DEF OwnedOK, WorkspacesInv
<1> QED
  BY <1>10, <1>11, <1>12, <1>13 DEF WorkspacesInv

LEMMA WorkspacesNext ==
    ASSUME PoolInv, WorkspacesInv, TenancyNext
    PROVE  WorkspacesInv'
  BY OthersAreAside, AsideInv, LookInv, InsertInv, CommitWorkspaceInv, Zenon DEF TenancyNext

-----------------------------------------------------------------------------
(* What the console shows.                                                 *)

(* order_by(created_at).first() is the oldest committed row.               *)
LEMMA OldestIsLeast ==
    ASSUME WorkspacesInv, Committed # {}
    PROVE  OldestOf \in Committed /\ \A j \in Committed : OldestOf <= j
<1>1. Committed \in SUBSET Nat
  BY OwnedRows DEF WorkspacesInv
<1>2. \E i \in Committed : \A j \in Committed : i <= j
  BY <1>1, LeastExists, Zenon
<1> QED
  BY <1>2, Zenon DEF OldestOf

LEMMA CommitKeepsConsole ==
    ASSUME PoolInv, WorkspacesInv, NEW r \in Requests, CommitWorkspace(r), ~raced,
           Committed # {}
    PROVE  ConsoleWorkspace' = ConsoleWorkspace
<1> DEFINE k == Mine(r)
           o == OldestOf
<1>1. o \in Committed /\ \A j \in Committed : o <= j
  BY OldestIsLeast
<1>2. k \in Uncommitted
  BY MineIsUncommitted DEF CommitWorkspace
<1>3. o < k
  BY <1>1, <1>2 DEF WorkspacesInv, OrderInv
<1>4. Committed \in SUBSET Nat /\ Uncommitted \in SUBSET Nat /\ k \in DOMAIN owned
  BY <1>2, OwnedRows DEF WorkspacesInv
<1>5. owned' = [owned EXCEPT ![k].committed = TRUE]
  BY DEF CommitWorkspace
<1> HIDE DEF k, o
<1>6. Committed' = Committed \cup {k}
  BY <1>2, <1>4, <1>5, OwnedRows DEF Committed, WorkspacesInv, Workspace
<1>7. WorkspacesInv'
  BY CommitWorkspaceInv
<1>8. o \in Committed' /\ \A j \in Committed' : o <= j
  BY <1>1, <1>3, <1>4, <1>6
<1>9. OldestOf' = o
  <2>1. \A i \in Committed' : (\A j \in Committed' : i <= j) => i = o
    BY <1>4, <1>6, <1>8
  <2>2. OldestOf' = CHOOSE i \in Committed' : \A j \in Committed' : i <= j
    BY DEF OldestOf
  <2> QED
    BY <1>8, <2>1, <2>2
<1>10. owned'[o] = owned[o]
  BY <1>1, <1>3, <1>4, <1>5
<1>11. Committed' # {}
  BY <1>8
<1> QED
  BY <1>9, <1>10, <1>11 DEF ConsoleWorkspace, o

(* Only a commit changes what the console finds.                           *)
LEMMA ConsoleStep ==
    ASSUME PoolInv, WorkspacesInv, TenancyNext
    PROVE  ConsoleWorkspace' = ConsoleWorkspace \/ ConsoleWorkspace = None \/ raced
<1>1. CASE UNCHANGED owned
  BY <1>1 DEF ConsoleWorkspace, OldestOf, Committed
<1>2. ASSUME NEW r \in Requests, InsertWorkspace(r)
      PROVE  ConsoleWorkspace' = ConsoleWorkspace
  <2> DEFINE row == [key |-> session[r].tenant, by |-> r, committed |-> FALSE]
             n == Len(owned) + 1
  <2>1. /\ Len(owned) \in Nat /\ DOMAIN owned = 1..Len(owned) /\ owned \in Seq(Workspace)
        /\ \A i \in DOMAIN owned : owned[i].committed \in BOOLEAN
    BY OwnedRows DEF WorkspacesInv, OwnedOK
  <2>2. owned' = Append(owned, row) /\ row.committed = FALSE
    BY <1>2 DEF InsertWorkspace
  <2> HIDE DEF row
  <2>3. /\ DOMAIN owned' = DOMAIN owned \cup {n}
        /\ \A i \in DOMAIN owned : owned'[i] = owned[i]
        /\ owned'[n] = row
    BY <2>1, <2>2
  <2>4. Committed' = Committed
    BY <2>1, <2>2, <2>3 DEF Committed
  <2>5. OldestOf' = OldestOf
    BY <2>4 DEF OldestOf
  <2>6. CASE Committed = {}
    BY <2>4, <2>6 DEF ConsoleWorkspace
  <2>7. CASE Committed # {}
    <3>1. OldestOf \in DOMAIN owned
      BY <2>7, OldestIsLeast, OwnedRows DEF WorkspacesInv
    <3> QED
      BY <2>3, <2>4, <2>5, <2>7, <3>1 DEF ConsoleWorkspace
  <2> QED
    BY <2>6, <2>7
<1>3. ASSUME NEW r \in Requests, CommitWorkspace(r)
      PROVE  ConsoleWorkspace' = ConsoleWorkspace \/ ConsoleWorkspace = None \/ raced
  BY <1>3, CommitKeepsConsole DEF ConsoleWorkspace
<1>4. \/ UNCHANGED owned
      \/ \E r \in Requests : InsertWorkspace(r) \/ CommitWorkspace(r)
  BY DEF TenancyNext, OpenTenant, OpenPlain, Commit, GoOn, Close, Look
<1> QED
  BY <1>1, <1>2, <1>3, <1>4

(* Row-level security, from what is set on the connections.                *)
LEMMA PoolHidesForeignRows ==
    ASSUME PoolInv
    PROVE  NoForeignRows
<1> SUFFICES ASSUME NEW r \in Requests, role = "wa_app", session[r].on # None
             PROVE  Rows(r) = IF InContext(session[r]) THEN {session[r].tenant} ELSE {}
  BY DEF NoForeignRows, InContext
<1>1. session[r].on \in Connections /\ setting[session[r].on] \in Tenants \cup {None}
  BY DEF PoolInv, PoolOK, Session
<1>2. Rows(r) = {t \in Tenants : t = setting[session[r].on]}
  BY DEF Rows
<1>3. CASE InContext(session[r])
  <2>1. setting[session[r].on] = session[r].tenant /\ session[r].tenant \in Tenants
    BY <1>1, <1>3 DEF PoolInv, SettingInv, InContext
  <2> QED
    BY <1>2, <1>3, <2>1
<1>4. CASE ~InContext(session[r])
  <2>1. setting[session[r].on] = None
    <3>1. ASSUME NEW q \in Requests, session[q].on = session[r].on, InContext(session[q])
          PROVE  FALSE
      BY <1>4, <3>1 DEF PoolInv, PoolOK
    <3> QED
      BY <1>1, <3>1 DEF PoolInv, SettingInv, InContext
  <2> QED
    BY <1>2, <1>4, <2>1, TenancyAssumption DEF TenancyAssumption
<1> QED
  BY <1>3, <1>4

-----------------------------------------------------------------------------
(* Stripe's events.                                                        *)

(* A later event does not change what was so after an earlier one.         *)
LEMMA PastIsStable ==
    ASSUME NEW events \in Seq(Event), NEW e \in Event, NEW n \in 0..Len(events)
    PROVE  /\ \A id \in Subscriptions : Past(Append(events, e), n, id) = Past(events, n, id)
           /\ LiveAfter(Append(events, e), n) = LiveAfter(events, n)
<1>1. \A i \in 1..n : Append(events, e)[i] = events[i]
  OBVIOUS
<1>2. \A id \in Subscriptions : Past(Append(events, e), n, id) = Past(events, n, id)
  BY <1>1 DEF Past
<1>3. \A id \in Subscriptions : \A i \in Past(events, n, id) :
        Append(events, e)[i].deleted = events[i].deleted
  BY <1>1 DEF Past
<1> QED
  BY <1>2, <1>3, Zenon DEF LiveAfter

LEMMA AppendInOrder ==
    ASSUME NEW events \in Seq(Event), InOrder(events), NEW e \in Event,
           \/ e.id \in LiveAfter(events, Len(events))
           \/ ~e.deleted /\ Past(events, Len(events), e.id) = {}
    PROVE  InOrder(Append(events, e))
<1> DEFINE log2 == Append(events, e)
<1>1. /\ Len(events) \in Nat /\ Len(log2) = Len(events) + 1
      /\ log2[Len(events) + 1] = e
      /\ \A i \in 1..Len(events) : log2[i] = events[i]
  OBVIOUS
<1>2. \A n \in 0..Len(events) :
        /\ \A id \in Subscriptions : Past(log2, n, id) = Past(events, n, id)
        /\ LiveAfter(log2, n) = LiveAfter(events, n)
  BY PastIsStable
<1>3. e.id \in Subscriptions /\ \A i \in 1..Len(events) : events[i].id \in Subscriptions
  <2>1. \A i \in 1..Len(events) : events[i] \in Event
    OBVIOUS
  <2> QED
    BY <2>1 DEF Event
<1> HIDE DEF log2
<1>4. ASSUME NEW n \in 1..Len(log2)
      PROVE  \/ log2[n].id \in LiveAfter(log2, n - 1)
             \/ ~log2[n].deleted /\ Past(log2, n - 1, log2[n].id) = {}
  <2>1. n - 1 \in 0..Len(events)
    BY <1>1, <1>4
  <2>2. CASE n = Len(events) + 1
    BY <1>1, <1>2, <1>3, <2>1, <2>2
  <2>3. CASE n # Len(events) + 1
    <3>1. n \in 1..Len(events)
      BY <1>1, <1>4, <2>3
    <3> QED
      BY <1>1, <1>2, <1>3, <2>1, <3>1 DEF InOrder
  <2> QED
    BY <2>2, <2>3
<1> QED
  BY <1>4 DEF InOrder, log2

(* A plan that the newest deciding event names is paid for: nothing ended  *)
(* its subscription since, and the price is still the one it named.        *)
LEMMA NewestIsPaid ==
    ASSUME NEW events \in Seq(Event), InOrder(events), Faithful(events),
           NEW n \in 1..Len(events), IsNewest(events, n), ~events[n].deleted,
           events[n].named # None
    PROVE  events[n].price \in PaidPlans(events)
<1> DEFINE e == events[n]
<1>1. /\ Len(events) \in Nat
      /\ \A i \in 1..Len(events) : events[i].id \in Subscriptions /\ events[i].deleted \in BOOLEAN
  <2>1. \A i \in 1..Len(events) : events[i] \in Event
    OBVIOUS
  <2> QED
    BY <2>1 DEF Event
<1>2. \A i \in 1..Len(events) : i > n => ~events[i].deleted /\ events[i].named = None
  BY <1>1 DEF IsNewest, Decides
<1>3. \A i \in 1..(n - 1) : events[i].id = e.id => ~events[i].deleted
  BY <1>1 DEF InOrder, LiveAfter, Past
<1>4. e.id \in LiveAfter(events, Len(events))
  <2>1. n \in Past(events, Len(events), e.id)
    BY DEF Past
  <2>2. \A i \in Past(events, Len(events), e.id) : ~events[i].deleted
    BY <1>1, <1>2, <1>3 DEF Past
  <2> QED
    BY <1>1, <2>1, <2>2 DEF LiveAfter
<1>5. \A j \in Past(events, Len(events), e.id) : j > n => events[j].price = e.price
  <2> SUFFICES ASSUME NEW j \in 1..Len(events), events[j].id = e.id, j > n
               PROVE  events[j].price = e.price
    BY DEF Past
  <2>1. ~events[j].deleted /\ events[j].named = None
    BY <1>2
  <2>2. \/ events[j].named = events[j].price
        \/ \A i \in 1..(j - 1) : events[i].id = events[j].id => events[i].price = events[j].price
    BY <2>1 DEF Faithful
  <2>3. events[j].named # events[j].price
    <3>1. events[j] \in Event
      OBVIOUS
    <3> QED
      BY <2>1, <3>1, BillingAssumption DEF BillingAssumption, Event
  <2>4. n \in 1..(j - 1)
    OBVIOUS
  <2> QED
    BY <2>2, <2>3, <2>4
<1> QED
  BY <1>4, <1>5 DEF PaidPlans

-----------------------------------------------------------------------------
(* Plans and numbers.                                                      *)

LEMMA PlanType ==
    ASSUME BillingTypeOK, NEW t \in Customers
    PROVE  CurrentPlan(t) \in DOMAIN PLANS
  BY PlanHasNumber DEF BillingTypeOK, CurrentPlan

LEMMA EventPlan ==
    ASSUME BillingTypeOK, NEW t \in Customers, NEW e \in Event
    PROVE  /\ PlanAfter(t, e) \in DOMAIN PLANS
           /\ PlanAfter(t, e) = IF Decides(e) THEN Decided(e) ELSE CurrentPlan(t)
<1>1. e.deleted \in BOOLEAN
  BY DEF Event
<1>2. PlanAfter(t, e) = IF Decides(e) THEN Decided(e) ELSE CurrentPlan(t)
  BY <1>1 DEF PlanAfter, Decides, Decided
<1>3. Decided(e) \in DOMAIN PLANS
  BY PlanHasNumber DEF Decided, GetPlan
<1> QED
  BY <1>2, <1>3, PlanType

LEMMA StripeEventInv ==
    ASSUME BillingInv, NEW t \in Customers, StripeEvent(t)
    PROVE  BillingInv'
<1>1. PICK e \in Event :
        /\ \/ e.id \in LiveAfter(log[t], Len(log[t]))
           \/ ~e.deleted /\ Past(log[t], Len(log[t]), e.id) = {}
        /\ log' = [log EXCEPT ![t] = Append(@, e)]
  BY DEF StripeEvent, MayFollow
<1>2. \A u \in Customers : log[u] \in Seq(Event) /\ Len(log[u]) \in Nat
  BY DEF BillingInv, BillingTypeOK
<1>3. log'[t] = Append(log[t], e) /\ \A u \in Customers : u # t => log'[u] = log[u]
  BY <1>1 DEF BillingInv, BillingTypeOK
<1>4. UNCHANGED <<plan, numbers, applied>>
  BY DEF StripeEvent
<1>5. \A u \in Customers : log'[u] \in Seq(Event)
  <2>1. log[t] \in Seq(Event) /\ e \in Event
    BY <1>2
  <2>2. log'[t] \in Seq(Event)
    BY <1>3, <2>1
  <2>3. ASSUME NEW u \in Customers, u # t PROVE log'[u] \in Seq(Event)
    BY <1>2, <1>3, <2>3
  <2> QED
    BY <2>2, <2>3
<1>6. BillingTypeOK'
  <2>1. log' \in [Customers -> Seq(Event)]
    BY <1>1, <1>2, <1>5 DEF BillingInv, BillingTypeOK
  <2> QED
    BY <1>4, <2>1 DEF BillingInv, BillingTypeOK
<1>7. LogInv'
  <2>1. InOrder(Append(log[t], e))
    BY <1>1, <1>2, AppendInOrder DEF BillingInv, LogInv
  <2> QED
    BY <1>3, <2>1 DEF BillingInv, LogInv
<1>8. PlanInv'
  <2>1. \A u \in Customers : /\ Len(log'[u]) \in Nat /\ Len(log'[u]) >= Len(log[u])
                             /\ \A i \in 1..Len(log[u]) : log'[u][i] = log[u][i]
    BY <1>2, <1>3
  <2>2. ASSUME NEW u \in Customers
        PROVE  /\ applied[u] \in 0..Len(log'[u])
               /\ applied[u] # 0 => log'[u][applied[u]] = log[u][applied[u]]
    <3>1. applied[u] \in 0..Len(log[u])
      BY DEF BillingInv, PlanInv
    <3> QED
      BY <1>2, <2>1, <3>1
  <2>3. \A u \in Customers : CurrentPlan(u)' = CurrentPlan(u)
    BY <1>4 DEF CurrentPlan
  <2> QED
    BY <1>4, <2>2, <2>3 DEF BillingInv, PlanInv
<1> QED
  BY <1>6, <1>7, <1>8 DEF BillingInv

(* An event that names a plan or ends a subscription leaves its plan.      *)
LEMMA HandleEventInv ==
    ASSUME BillingInv, NEW r \in Requests, NEW t \in Customers,
           NEW i \in 1..Len(log[t]), HandleEvent(r, t, i)
    PROVE  BillingInv'
<1> DEFINE e == log[t][i]
<1>1. /\ plan' = [plan EXCEPT ![t] = PlanAfter(t, e)]
      /\ applied' = [applied EXCEPT ![t] = IF Decides(e) THEN i ELSE applied[t]]
      /\ UNCHANGED <<numbers, log>>
  BY DEF HandleEvent
<1>2. log[t] \in Seq(Event) /\ Len(log[t]) \in Nat /\ i \in Nat /\ i > 0 /\ e \in Event
  BY DEF BillingInv, BillingTypeOK
<1>3. /\ PlanAfter(t, e) \in DOMAIN PLANS
      /\ PlanAfter(t, e) = IF Decides(e) THEN Decided(e) ELSE CurrentPlan(t)
  BY <1>2, EventPlan DEF BillingInv
<1> HIDE DEF e
<1>4. BillingTypeOK'
  BY <1>1, <1>2, <1>3 DEF BillingInv, BillingTypeOK
<1>5. LogInv'
  BY <1>1 DEF BillingInv, LogInv
<1>6. /\ plan'[t] = PlanAfter(t, e) /\ applied'[t] = IF Decides(e) THEN i ELSE applied[t]
      /\ \A u \in Customers : u # t => applied'[u] = applied[u] /\ plan'[u] = plan[u]
  BY <1>1 DEF BillingInv, BillingTypeOK
<1>7. plan'[t] # None /\ CurrentPlan(t)' = plan'[t]
  BY <1>3, <1>6, BillingAssumption DEF BillingAssumption, CurrentPlan
<1>8. ASSUME NEW u \in Customers
      PROVE  /\ applied'[u] \in 0..Len(log[u])
             /\ applied'[u] = 0 => CurrentPlan(u)' = "free"
             /\ applied'[u] # 0 => /\ Decides(log[u][applied'[u]])
                                   /\ plan'[u] = Decided(log[u][applied'[u]])
  <2>1. CASE u = t /\ Decides(e)
    BY <1>2, <1>3, <1>6, <2>1 DEF e
  <2>2. CASE u = t /\ ~Decides(e)
    <3>1. applied'[t] = applied[t] /\ plan'[t] = CurrentPlan(t)
      BY <1>3, <1>6, <2>2
    <3>2. applied[t] # 0 => CurrentPlan(t) = plan[t]
      <4>1. applied[t] # 0 => plan[t] \in DOMAIN PLANS
        BY PlanHasNumber DEF BillingInv, PlanInv, Decided, GetPlan
      <4> QED
        BY <4>1, BillingAssumption DEF BillingAssumption, CurrentPlan
    <3> QED
      BY <1>7, <2>2, <3>1, <3>2 DEF BillingInv, PlanInv
  <2>3. CASE u # t
    <3>1. applied'[u] = applied[u] /\ plan'[u] = plan[u]
      BY <1>6, <2>3
    <3>2. CurrentPlan(u)' = CurrentPlan(u)
      BY <3>1 DEF CurrentPlan
    <3> QED
      BY <3>1, <3>2 DEF BillingInv, PlanInv
  <2> QED
    BY <2>1, <2>2, <2>3
<1>9. PlanInv'
  BY <1>1, <1>8 DEF PlanInv
<1> QED
  BY <1>4, <1>5, <1>9 DEF BillingInv

(* The billing page and connect_number make the row they need.             *)
LEMMA RowIsMade ==
    ASSUME BillingInv, NEW t \in Customers,
           plan' \in {plan, [plan EXCEPT ![t] = CurrentPlan(t)]},
           numbers' \in {numbers, [numbers EXCEPT ![t] = @ + 1]},
           UNCHANGED <<log, applied>>
    PROVE  BillingInv'
<1>1. CurrentPlan(t) \in DOMAIN PLANS
  BY PlanType DEF BillingInv
<1>2. BillingTypeOK'
  <2>1. plan' \in [Customers -> DOMAIN PLANS \cup {None}]
    BY <1>1 DEF BillingInv, BillingTypeOK
  <2>2. numbers' \in [Customers -> Nat]
    BY DEF BillingInv, BillingTypeOK
  <2> QED
    BY <2>1, <2>2 DEF BillingInv, BillingTypeOK
<1>3. \A u \in Customers :
        plan'[u] = plan[u] \/ (u = t /\ plan'[u] = CurrentPlan(t))
  BY DEF BillingInv, BillingTypeOK
<1>4. ASSUME NEW u \in Customers, applied[u] # 0
      PROVE  plan[u] # None
  <2>1. plan[u] \in DOMAIN PLANS
    BY <1>4, PlanHasNumber DEF BillingInv, PlanInv, Decided, GetPlan
  <2> QED
    BY <2>1, BillingAssumption DEF BillingAssumption
<1>5. PlanInv'
  <2>1. ASSUME NEW u \in Customers
        PROVE  /\ applied[u] \in 0..Len(log[u])
               /\ applied[u] = 0 => CurrentPlan(u)' = "free"
               /\ applied[u] # 0 => /\ Decides(log[u][applied[u]])
                                    /\ plan'[u] = Decided(log[u][applied[u]])
    <3>1. /\ applied[u] \in 0..Len(log[u])
          /\ applied[u] = 0 => CurrentPlan(u) = "free"
          /\ applied[u] # 0 => /\ Decides(log[u][applied[u]])
                               /\ plan[u] = Decided(log[u][applied[u]])
      BY Zenon DEF BillingInv, PlanInv
    <3>2. CurrentPlan(u)' = CurrentPlan(u)
      <4>1. CASE plan'[u] = plan[u]
        BY <4>1 DEF CurrentPlan
      <4>2. CASE u = t /\ plan'[u] = CurrentPlan(t)
        <5>1. plan'[u] # None
          BY <1>1, <4>2, BillingAssumption DEF BillingAssumption
        <5> QED
          BY <4>2, <5>1 DEF CurrentPlan
      <4> QED
        BY <1>3, <4>1, <4>2
    <3>3. applied[u] # 0 => plan'[u] = plan[u]
      BY <1>3, <1>4 DEF CurrentPlan
    <3> QED
      BY <3>1, <3>2, <3>3
  <2> QED
    BY <2>1, Zenon DEF PlanInv
<1> QED
  BY <1>2, <1>5 DEF BillingInv, LogInv

LEMMA BillingStepInv ==
    ASSUME BillingInv, BillingNext
    PROVE  BillingInv'
<1>1. ASSUME NEW t \in Customers, StripeEvent(t) PROVE BillingInv'
  BY <1>1, StripeEventInv
<1>2. ASSUME NEW r \in Requests, ConnectNumber(r) PROVE BillingInv'
  <2>1. PICK t \in Customers : /\ plan' = [plan EXCEPT ![t] = CurrentPlan(t)]
                               /\ numbers' = [numbers EXCEPT ![t] = @ + 1]
    BY <1>2 DEF ConnectNumber
  <2> QED
    BY <1>2, <2>1, RowIsMade DEF ConnectNumber
<1>3. ASSUME NEW r \in Requests, NEW t \in Customers, NEW i \in 1..Len(log[t]),
             HandleEvent(r, t, i)
      PROVE  BillingInv'
  BY <1>3, HandleEventInv
<1>4. ASSUME NEW r \in Requests, NEW t \in Customers, GetBilling(r, t) PROVE BillingInv'
  BY <1>4, RowIsMade DEF GetBilling
<1>5. ASSUME NEW r \in Requests, NEW t \in Customers, ProvisionNumber(r, t)
      PROVE  BillingInv'
  BY <1>5, RowIsMade DEF ProvisionNumber
<1> QED
  BY <1>1, <1>2, <1>3, <1>4, <1>5 DEF BillingNext

(* To the tenancy, a handler's body is its commit.                         *)
LEMMA BillingIsCommit ==
    ASSUME BillingNext
    PROVE  TenancyNext \/ UNCHANGED tenancy
<1>1. (\E r \in Requests : Commit(r)) \/ UNCHANGED tenancy
  BY DEF BillingNext, StripeEvent, ConnectNumber, HandleEvent, GetBilling, ProvisionNumber
<1> QED
  BY <1>1 DEF TenancyNext

-----------------------------------------------------------------------------
(* The theorems.                                                           *)

LEMMA InitInv == Init => Inv
<1> SUFFICES ASSUME Init PROVE Inv
  OBVIOUS
<1>1. PoolInv
  <2>1. NoSession \in Session
    BY DEF NoSession, Session, Kind, Step
  <2>2. PoolOK
    BY <2>1 DEF Init, TenancyInit, PoolOK, NoSession
  <2>3. SessionInv
    BY DEF Init, TenancyInit, SessionInv, Making, NoSession
  <2>4. SettingInv
    BY DEF Init, TenancyInit, SettingInv, NoSession
  <2> QED
    BY <2>2, <2>3, <2>4 DEF PoolInv
<1>2. WorkspacesInv
  <2>1. owned = <<>> /\ raced = FALSE /\ \A r \in Requests : session[r] = NoSession
    BY DEF Init, TenancyInit
  <2>2. Uncommitted = {} /\ Committed = {} /\ DOMAIN owned = {}
    BY <2>1 DEF Uncommitted, Committed
  <2>3. \A r \in Requests : session[r].kind = "closed" /\ session[r].step = "ended"
    BY <2>1 DEF NoSession
  <2>4. OwnedOK
    <3>1. \A key \in Keys : {i \in DOMAIN owned : owned[i].key = key} = {}
      BY <2>2
    <3>2. \A key \in Keys : Cardinality({i \in DOMAIN owned : owned[i].key = key}) = 0
      BY <3>1, FS_EmptySet
    <3>3. <<>> \in Seq(Workspace)
      OBVIOUS
    <3>4. raced \in BOOLEAN
      BY <2>1, Zenon
    <3> QED
      BY <2>1, <3>2, <3>3, <3>4 DEF OwnedOK
  <2>5. OwnedInv
    BY <2>2, <2>3 DEF OwnedInv
  <2>6. SigninInv
    BY <2>2, <2>3 DEF SigninInv
  <2>7. OrderInv
    BY <2>2, <2>3 DEF OrderInv, Making
  <2> QED
    BY <2>4, <2>5, <2>6, <2>7 DEF WorkspacesInv
<1>3. BillingInv
  <2>1. BillingTypeOK
    BY DEF Init, BillingInit, BillingTypeOK
  <2>2. \A t \in Customers : Len(log[t]) = 0
    BY DEF Init, BillingInit
  <2>3. LogInv
    BY <2>2 DEF LogInv, InOrder
  <2>4. PlanInv
    BY <2>2 DEF Init, BillingInit, PlanInv, CurrentPlan
  <2> QED
    BY <2>1, <2>3, <2>4 DEF BillingInv
<1> QED
  BY <1>1, <1>2, <1>3 DEF Inv

LEMMA NextInv == Inv /\ [Next]_vars => Inv'
<1> SUFFICES ASSUME Inv, [Next]_vars PROVE Inv'
  OBVIOUS
<1>1. PoolInv /\ WorkspacesInv /\ BillingInv
  BY DEF Inv
<1>2. ASSUME UNCHANGED tenancy PROVE PoolInv' /\ WorkspacesInv'
  <2>1. UNCHANGED <<role, setting, session, owned, raced>>
    BY <1>2 DEF tenancy
  <2>2. PoolInv'
    BY <1>1, <2>1 DEF PoolInv, PoolOK, SessionInv, SettingInv, Making
  <2>3. WorkspacesInv'
    BY <1>1, <2>1 DEF WorkspacesInv, OwnedOK, OwnedInv, SigninInv, OrderInv,
                      Uncommitted, Committed, Making
  <2> QED
    BY <2>2, <2>3
<1>3. PoolInv' /\ WorkspacesInv'
  <2>1. TenancyNext \/ UNCHANGED tenancy
    BY BillingIsCommit DEF Next, vars
  <2>2. TenancyNext => PoolInv' /\ WorkspacesInv'
    BY <1>1, PoolNext, WorkspacesNext
  <2> QED
    BY <1>2, <2>1, <2>2
<1>4. BillingInv'
  <2>1. UNCHANGED billing \/ BillingNext
    BY DEF Next, vars
  <2>2. UNCHANGED billing => BillingInv'
    BY <1>1 DEF billing, BillingInv, BillingTypeOK, LogInv, PlanInv, CurrentPlan
  <2>3. BillingNext => BillingInv'
    BY <1>1, BillingStepInv
  <2> QED
    BY <2>1, <2>2, <2>3
<1> QED
  BY <1>3, <1>4 DEF Inv

LEMMA Invariance == Spec => []Inv
  BY InitInv, NextInv, PTL DEF Spec

(* Whatever the requests, the pool and Stripe do, every variable keeps its *)
(* type: a connection serves one session, and a tenant key belongs to one  *)
(* workspace at most.                                                      *)
THEOREM TypeCorrect == Spec => []TypeOK
<1>1. Inv => TypeOK
  BY DEF Inv, PoolInv, WorkspacesInv, BillingInv, TypeOK, TenancyTypeOK
<1> QED
  BY <1>1, Invariance, PTL

(* tenant_context and the policies: for any number of tenants and of       *)
(* requests over any pool, a transaction has its own tenant's rows or none.*)
THEOREM RowsAreIsolated == Spec => []NoForeignRows
<1>1. Inv => NoForeignRows
  BY PoolHidesForeignRows DEF Inv
<1> QED
  BY <1>1, Invariance, PTL

(* _ensure_workspace: without a race the console stays with the workspace  *)
(* it has shown, however many the person comes to own.                     *)
THEOREM ConsoleStays == Spec => ConsoleStable
<1>1. Inv /\ [Next]_vars =>
        [ConsoleWorkspace' = ConsoleWorkspace \/ ConsoleWorkspace = None \/ raced]_tenancy
  <2> SUFFICES ASSUME Inv, [Next]_vars
               PROVE  \/ ConsoleWorkspace' = ConsoleWorkspace \/ ConsoleWorkspace = None \/ raced
                      \/ UNCHANGED tenancy
    OBVIOUS
  <2>1. TenancyNext \/ UNCHANGED tenancy
    BY BillingIsCommit DEF Next, vars
  <2> QED
    BY <2>1, ConsoleStep DEF Inv
<1> QED
  BY <1>1, Invariance, PTL DEF Spec, ConsoleStable

(* connect_number and get_qr: for any tenants, events and plans, numbers   *)
(* are added only within the plan of that moment.                          *)
THEOREM NumbersStayWithinPlan == Spec => NumbersWithinPlan
<1>1. Inv /\ [Next]_vars =>
        [\A t \in Customers :
           numbers'[t] > numbers[t] => numbers'[t] <= PLANS[CurrentPlan(t)]]_billing
  <2> SUFFICES ASSUME Inv, [Next]_vars, NEW t \in Customers, numbers'[t] > numbers[t],
                      ~UNCHANGED billing
               PROVE  numbers'[t] <= PLANS[CurrentPlan(t)]
    OBVIOUS
  <2>1. numbers \in [Customers -> Nat]
    BY DEF Inv, BillingInv, BillingTypeOK
  <2>2. PLANS[CurrentPlan(t)] \in Nat /\ PLANS[CurrentPlan(t)] >= 1
    BY PlanType, PlanHasNumber DEF Inv, BillingInv
  <2>3. BillingNext
    BY DEF Next, vars
  <2>4. ASSUME NEW r \in Requests, ConnectNumber(r)
        PROVE  numbers'[t] <= PLANS[CurrentPlan(t)]
    <3>1. PICK u \in Customers : CanAddNumber(u) /\ numbers' = [numbers EXCEPT ![u] = @ + 1]
      BY <2>4 DEF ConnectNumber
    <3>2. u = t
      BY <2>1, <3>1
    <3> QED
      BY <2>1, <2>2, <3>1, <3>2 DEF CanAddNumber
  <2>5. ASSUME NEW r \in Requests, NEW u \in Customers, ProvisionNumber(r, u)
        PROVE  numbers'[t] <= PLANS[CurrentPlan(t)]
    <3>1. numbers[u] = 0 /\ numbers' = [numbers EXCEPT ![u] = @ + 1]
      BY <2>5 DEF ProvisionNumber
    <3>2. u = t
      BY <2>1, <3>1
    <3> QED
      BY <2>1, <2>2, <3>1, <3>2
  <2>6. CASE UNCHANGED numbers
    BY <2>1, <2>6
  <2>7. \/ \E r \in Requests : ConnectNumber(r)
        \/ \E r \in Requests, u \in Customers : ProvisionNumber(r, u)
        \/ UNCHANGED numbers
    BY <2>3 DEF BillingNext, StripeEvent, HandleEvent, GetBilling
  <2> QED
    BY <2>4, <2>5, <2>6, <2>7
<1> QED
  BY <1>1, Invariance, PTL DEF Spec, NumbersWithinPlan

(* handle_event: for any number of subscriptions and events, applied in    *)
(* any order and however often, a tenant is never on a plan it never paid  *)
(* for; and once the newest deciding event was the last of these to be     *)
(* applied it is on one that a live subscription pays for, or was put on   *)
(* free by the end of one.                                                 *)
THEOREM PlanIsPaidFor == Spec => []PaidPlanHolds
<1>1. Inv => PaidPlanHolds
  <2> SUFFICES ASSUME Inv, NEW t \in Customers, Faithful(log[t])
               PROVE  /\ \/ CurrentPlan(t) = "free"
                         \/ \E i \in 1..Len(log[t]) : log[t][i].price = plan[t]
                      /\ (applied[t] # 0 /\ IsNewest(log[t], applied[t])) =>
                           \/ plan[t] \in PaidPlans(log[t])
                           \/ plan[t] = "free" /\ log[t][applied[t]].deleted
    BY DEF PaidPlanHolds
  <2>1. log[t] \in Seq(Event) /\ InOrder(log[t]) /\ applied[t] \in 0..Len(log[t])
        /\ plan[t] \in DOMAIN PLANS \cup {None}
    BY DEF Inv, BillingInv, BillingTypeOK, LogInv, PlanInv
  <2>2. CASE applied[t] = 0
    BY <2>2 DEF Inv, BillingInv, PlanInv
  <2>3. CASE applied[t] # 0
    <3> DEFINE n == applied[t]
               e == log[t][n]
    <3>1. n \in 1..Len(log[t]) /\ e \in Event
      BY <2>1, <2>3
    <3>2. Decides(e) /\ plan[t] = Decided(e)
      BY <2>3 DEF Inv, BillingInv, PlanInv
    <3>3. CASE e.deleted
      <4>1. plan[t] = "free"
        BY <3>2, <3>3 DEF Decided
      <4> QED
        BY <3>3, <4>1 DEF CurrentPlan
    <3>4. CASE ~e.deleted
      <4>1. e.named # None
        BY <3>2, <3>4 DEF Decides
      <4>2. e.named = e.price
        BY <3>1, <3>4, <4>1 DEF Faithful
      <4>3. plan[t] = e.price
        <5>1. e.price \in DOMAIN PLANS
          BY <3>1, BillingAssumption DEF BillingAssumption, Event
        <5> QED
          BY <3>2, <3>4, <4>2, <5>1 DEF Decided, GetPlan
      <4>4. IsNewest(log[t], n) => e.price \in PaidPlans(log[t])
        BY <2>1, <3>1, <3>4, <4>1, NewestIsPaid
      <4> QED
        BY <3>1, <4>3, <4>4
    <3> QED
      BY <3>3, <3>4
  <2> QED
    BY <2>2, <2>3
<1> QED
  BY <1>1, Invariance, PTL

=============================================================================
