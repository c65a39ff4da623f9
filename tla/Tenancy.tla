------------------------------- MODULE Tenancy -------------------------------
(***************************************************************************)
(* Row-level security over a connection pool, and the workspaces that      *)
(* sign-in and the console make.                                           *)
(*                                                                         *)
(* tenant_context (core/tenancy.py) opens a session and sets the tenant    *)
(* for its transaction; the policies of the migration show and accept only *)
(* rows of the tenant that is set, unless the backend connects as the      *)
(* superuser, whom they do not bind.  provision (core/auth.py) and         *)
(* _ensure_workspace (api/endpoints/mvp.py) run on plain sessions.         *)
(*                                                                         *)
(* The second part follows one person, a row of users found by its email,  *)
(* who signs in with several tenant keys: one for each Clerk user with that*)
(* email, and the organisations whose first member to come was this person.*)
(***************************************************************************)
EXTENDS Naturals, Sequences, FiniteSets

CONSTANTS
    Tenants,
    Keys,           \* the tenant keys of the person
    Requests,
    Connections,    \* of the pool
    MaxOwned,       \* bound: workspaces of the person
    None

ASSUME TenancyAssumption ==
    /\ None \notin Tenants \cup Keys \cup Connections
    /\ MaxOwned \in Nat

VARIABLES
    role,           \* the role the backend connects as
    setting,        \* app.tenant_id on every connection
    session,        \* the session of every request
    owned,          \* the person's workspaces, by created_at
    raced           \* history: two requests were making one at the same time

tenancy == <<role, setting, session, owned, raced>>

(* clerk_org_id holds the tenant key; a workspace of the console has none. *)
Workspace == [key : Keys \cup {None}, by : Requests, committed : BOOLEAN]

Kind == {"closed", "tenant", "plain", "console", "signin"}

(* A transaction is the session's first, or there is none, or a later one. *)
Step == {"first", "ended", "again", "stamped"}

Session == [kind : Kind, tenant : Tenants \cup Keys \cup {None}, step : Step,
            on : Connections \cup {None}]

NoSession == [kind |-> "closed", tenant |-> None, step |-> "ended", on |-> None]

(* A connection serves one session at a time.                              *)
PoolOK ==
    /\ role \in {"postgres", "wa_app"}
    /\ setting \in [Connections -> Tenants \cup {None}]
    /\ session \in [Requests -> Session]
    /\ \A r \in Requests : (session[r].on = None) <=> (session[r].step = "ended")
    /\ \A r, s \in Requests :
         (session[r].on = session[s].on /\ r # s) => session[r].on = None

(* clerk_org_id is unique.                                                 *)
OwnedOK ==
    /\ owned \in Seq(Workspace)
    /\ \A key \in Keys : Cardinality({i \in DOMAIN owned : owned[i].key = key}) <= 1
    /\ raced \in BOOLEAN

TenancyTypeOK == PoolOK /\ OwnedOK

TenancyInit ==
    /\ role \in {"postgres", "wa_app"}
    /\ setting = [c \in Connections |-> None]
    /\ session = [r \in Requests |-> NoSession]
    /\ owned = <<>>
    /\ raced = FALSE

-----------------------------------------------------------------------------
(* The pool and the policies.                                              *)

Free == Connections \ {session[r].on : r \in Requests}

(* The policies, for what is read and for what is written.                 *)
Rows(r) ==
    IF role = "postgres" THEN Tenants ELSE {t \in Tenants : t = setting[session[r].on]}

Opened(kind, t, c) == [kind |-> kind, tenant |-> t, step |-> "first", on |-> c]

(* tenant_context: the first statement sets the tenant.                    *)
OpenTenant(r, t) ==
    /\ session[r] = NoSession
    /\ \E c \in Free :
         /\ session' = [session EXCEPT ![r] = Opened("tenant", t, c)]
         /\ setting' = [setting EXCEPT ![c] = t]
    /\ UNCHANGED <<role, owned, raced>>

OpenPlain(r) ==
    /\ session[r] = NoSession
    /\ \E c \in Free : session' = [session EXCEPT ![r] = Opened("plain", None, c)]
    /\ UNCHANGED <<role, setting, owned, raced>>

(* Mutant: set for the connection.                                         *)
SettingOutlives(c) == setting

(* set_config(..., true): the setting ends with its transaction.           *)
SettingEnds(c) == [setting EXCEPT ![c] = None]

(* The handler commits; the session gives its connection back.             *)
Commit(r) ==
    /\ session[r].step \in {"first", "again"}
    /\ session[r].kind \in {"tenant", "plain"}
    /\ session' = [session EXCEPT ![r].step = "ended", ![r].on = None]
    /\ setting' = SettingEnds(session[r].on)
    /\ UNCHANGED <<role, owned, raced>>

(* It goes on, a refresh or another query, on a connection of the pool.    *)
GoOn(r) ==
    /\ session[r].kind \in {"tenant", "plain"}
    /\ session[r].step = "ended"
    /\ \E c \in Free : session' = [session EXCEPT ![r].step = "again", ![r].on = c]
    /\ UNCHANGED <<role, setting, owned, raced>>

(* The request ends, by a commit, an error or neither.                     *)
Close(r) ==
    /\ session[r].kind \in {"tenant", "plain"}
    /\ session' = [session EXCEPT ![r] = NoSession]
    /\ setting' = IF session[r].on = None THEN setting ELSE SettingEnds(session[r].on)
    /\ UNCHANGED <<role, owned, raced>>

-----------------------------------------------------------------------------
(* The person's workspaces.                                                *)

Making == {r \in Requests : session[r].kind \in {"console", "signin"}}

(* A query sees what is committed.                                         *)
Committed == {i \in DOMAIN owned : owned[i].committed}

(* Mutant: the newest.                                                     *)
NewestOf == CHOOSE i \in Committed : \A j \in Committed : j <= i

OldestOf == CHOOSE i \in Committed : \A j \in Committed : i <= j

ConsoleWorkspace == IF Committed = {} THEN None ELSE owned[OldestOf]

(* The look that finds none: _ensure_workspace, on a thread of the pool.   *)
LookForConsole(r) ==
    /\ ConsoleWorkspace = None
    /\ \E c \in Free : session' = [session EXCEPT ![r] = Opened("console", None, c)]

(* Mutant: a sign-in makes a workspace, whether there is one or not.       *)
LookForNothing(r, key) ==
    \E c \in Free : session' = [session EXCEPT ![r] = Opened("signin", key, c)]

(* provision, in the event loop: one sign-in at a time.                    *)
LookForTenant(r, key) ==
    /\ \A i \in Committed : owned[i].key # key
    /\ \A s \in Requests : session[s].kind # "signin"
    /\ \E c \in Free : session' = [session EXCEPT ![r] = Opened("signin", key, c)]

Look(r) ==
    /\ session[r] = NoSession
    /\ Len(owned) + Cardinality({s \in Making : session[s].step = "first"}) < MaxOwned
    /\ LookForConsole(r) \/ \E key \in Keys : LookForTenant(r, key)
    /\ raced' = (raced \/ Making # {})
    /\ UNCHANGED <<role, setting, owned>>

(* The flush stamps created_at and inserts.                                *)
InsertWorkspace(r) ==
    /\ r \in Making
    /\ session[r].step = "first"
    /\ session' = [session EXCEPT ![r].step = "stamped"]
    /\ owned' = Append(owned, [key |-> session[r].tenant, by |-> r, committed |-> FALSE])
    /\ UNCHANGED <<role, setting, raced>>

Mine(r) == CHOOSE i \in DOMAIN owned : owned[i].by = r /\ ~owned[i].committed

(* The console's session row, which comes after, does not undo it.         *)
CommitWorkspace(r) ==
    /\ session[r].step = "stamped"
    /\ owned' = [owned EXCEPT ![Mine(r)].committed = TRUE]
    /\ session' = [session EXCEPT ![r] = NoSession]
    /\ UNCHANGED <<role, setting, raced>>

-----------------------------------------------------------------------------

TenancyNext == \E r \in Requests :
    \/ \E t \in Tenants : OpenTenant(r, t)
    \/ OpenPlain(r)
    \/ Commit(r)
    \/ GoOn(r)
    \/ Close(r)
    \/ Look(r)
    \/ InsertWorkspace(r)
    \/ CommitWorkspace(r)

-----------------------------------------------------------------------------
(* Properties.                                                             *)

(* Fail closed, whatever the connection served before: as wa_app, a        *)
(* transaction has its tenant's rows when tenant_context began it, and     *)
(* none after the handler's commit or on a plain session.                  *)
NoForeignRows ==
    \A r \in Requests :
        (role = "wa_app" /\ session[r].on # None) =>
            Rows(r) = IF session[r].kind = "tenant" /\ session[r].step = "first"
                      THEN {session[r].tenant} ELSE {}

(* The console stays with the workspace it has shown, sign-ins with other  *)
(* claims included, unless two requests were making one at the same time.  *)
ConsoleStable ==
    [][ConsoleWorkspace' = ConsoleWorkspace \/ ConsoleWorkspace = None \/ raced]_tenancy
=============================================================================
