------------------------------- MODULE Inbound -------------------------------
(***************************************************************************)
(* What happens to a WhatsApp message before the reply task: which tenant  *)
(* it is for, whether it is stored, and whether a task is queued for it.   *)
(* Two webhooks take messages: wacli's (webhook_wacli.py and               *)
(* services/inbound_wacli.py), which may post the same message again, and  *)
(* the gateway's (webhook.py), which posts it once.  Group messages that   *)
(* show a need also get a row of the listening feed                        *)
(* (services/listening.py), which reply tasks finalize and people dismiss. *)
(*                                                                         *)
(* Both endpoints are coroutines without an await after the body is read,  *)
(* so the event loop runs one call at a time; reply tasks and the          *)
(* dashboard are other processes and threads.  A call is cut where it      *)
(* commits: at the end of the transaction, and before that in              *)
(* upload_asset, which commits the message while its conversation is still *)
(* to be made.                                                             *)
(***************************************************************************)
EXTENDS Naturals, FiniteSets

CONSTANTS
    Tenants,
    Contacts,
    Messages,
    Owner,      \* the tenant whose number each message was sent to
    From,       \* the contact who wrote it
    Source,     \* who posts it: "wacli" or "gateway"
    Hint,       \* what wacli's sync names in the URL: "workspace", "account", "none"
    Grouped,    \* the messages written in a group
    WithMedia,  \* the messages wacli posts with a media URL
    WithId,     \* the messages whose payload carries an id
    OwnAccount, \* the tenants whose number, once added, carries that account
    MaxNumbers, \* bound: wacli numbers of a tenant
    MaxPosts,   \* bound: posts of each message by wacli
    MaxOpen     \* bound: transactions that have a listening row loaded

ASSUME InboundAssumption ==
    /\ Owner \in [Messages -> Tenants]
    /\ From \in [Messages -> Contacts]
    /\ Source \in [Messages -> {"wacli", "gateway"}]
    /\ Hint \in [Messages -> {"workspace", "account", "none"}]
    /\ Grouped \subseteq Messages
    /\ WithMedia \subseteq Messages
    /\ WithId \subseteq Messages
    /\ OwnAccount \subseteq Tenants
    /\ MaxNumbers \in Nat
    /\ MaxPosts \in [Messages -> Nat]
    /\ MaxOpen \in Nat

VARIABLES
    role,           \* the database role: "postgres" skips row-level security
    numbers,        \* how many wacli numbers each tenant has
    monitored,      \* tenants whose target group is active
    lead,           \* lead rows: <<tenant, contact>>
    convo,          \* conversation rows, by their lead
    stored,         \* message rows of each message in each tenant
    listening,      \* the status of each message's row in listening_leads
    posts,          \* how often each message was posted and served
    call,           \* the call the event loop is running
    task,           \* the reply task of each message in each tenant
    dismissing,     \* listening rows a dismissal has loaded
    fault,          \* history: messages whose call broke after a commit
    overlapped      \* history: listening rows written under another transaction

tenancy == <<role, numbers, monitored>>
rows == <<lead, convo, stored>>
requests == <<posts, call>>
feed == <<listening, dismissing, overlapped>>
vars == <<tenancy, rows, requests, feed, task, fault>>

Keys == Tenants \X Messages

LeadOf(k) == <<k[1], From[k[2]]>>

NoCall == [phase |-> "none"]

FeedStatus == {"none", "detected", "sent", "blocked", "dismissed"}

NoTask == [phase |-> "none"]

Queued == [phase |-> "queued"]

Finalizing == [phase : {"finalizing"}, row : Keys, outcome : {"sent", "blocked"}]

TenancyOK ==
    /\ role \in {"postgres", "wa_app"}
    /\ numbers \in [Tenants -> 0..MaxNumbers]
    /\ monitored \in SUBSET Tenants

(* With the foreign keys of conversations and messages.                    *)
RowsOK ==
    /\ lead \in SUBSET (Tenants \X Contacts)
    /\ convo \in SUBSET lead
    /\ stored \in [Keys -> Nat]
    /\ \A k \in Keys : stored[k] > 0 => LeadOf(k) \in lead

FeedOK ==
    /\ listening \in [Keys -> FeedStatus]
    /\ dismissing \in SUBSET Keys
    /\ overlapped \in SUBSET Keys

CallsOK ==
    /\ posts \in [Messages -> Nat]
    /\ call \in [phase : {"halfway", "committed"}, key : Keys] \cup {NoCall}
    /\ fault \in SUBSET Keys

TasksOK == task \in [Keys -> Finalizing \cup {Queued, NoTask}]

TypeOK == TenancyOK /\ RowsOK /\ FeedOK /\ CallsOK /\ TasksOK

Init ==
    /\ role \in {"postgres", "wa_app"}
    /\ numbers = [t \in Tenants |-> 0]
    /\ monitored = {}
    /\ lead = {}
    /\ convo = {}
    /\ stored = [k \in Keys |-> 0]
    /\ listening = [k \in Keys |-> "none"]
    /\ posts = [m \in Messages |-> 0]
    /\ call = NoCall
    /\ task = [k \in Keys |-> NoTask]
    /\ dismissing = {}
    /\ fault = {}
    /\ overlapped = {}

-----------------------------------------------------------------------------
(* The tenants: numbers are only ever added; a group is added, paused and  *)
(* taken up again.                                                         *)

ConnectNumber(t) ==
    /\ numbers[t] < MaxNumbers
    /\ numbers' = [numbers EXCEPT ![t] = @ + 1]
    /\ UNCHANGED <<role, monitored, rows, requests, feed, task, fault>>

ToggleGroup(t) ==
    /\ monitored' = IF t \in monitored THEN monitored \ {t} ELSE monitored \cup {t}
    /\ UNCHANGED <<role, numbers, rows, requests, feed, task, fault>>

-----------------------------------------------------------------------------
(* Requests.  One that gets lost on its way does not happen; requests may  *)
(* be served in any order.                                                 *)

(* wacli posts again what was not answered; pushWebhook has one try.       *)
MayPost(m) ==
    IF Source[m] = "gateway" THEN posts[m] = 0 ELSE posts[m] < MaxPosts[m]

(* The event loop takes a request that posts m.                            *)
Serve(m) ==
    /\ call = NoCall
    /\ MayPost(m)
    /\ posts' = [posts EXCEPT ![m] = @ + 1]

(* Answered without a trace, but for the log.                              *)
Answer(m) ==
    /\ Serve(m)
    /\ UNCHANGED <<tenancy, rows, call, feed, task, fault>>

registered == {t \in Tenants : numbers[t] > 0}

(* The tenant of the only wacli number of the system, if there is just one.*)
OnlyNumber == {t \in registered : numbers[t] = 1 /\ registered = {t}}

(* Mutant: a workspace without a number is looked for by the other means.  *)
ResolveAnyHow(m) ==
    IF Hint[m] # "none" /\ Owner[m] \in registered \cap OwnAccount
    THEN {Owner[m]}
    ELSE OnlyNumber

(* resolve_wacli_number: the tenant a wacli message is for, or none.       *)
Resolve(m) ==
    IF Hint[m] = "workspace"
    THEN registered \cap {Owner[m]}
    ELSE IF Hint[m] = "account" /\ Owner[m] \in registered \cap OwnAccount
         THEN {Owner[m]}
         ELSE OnlyNumber

(* Mutant: a duplicate is a message that already has its reply task.       *)
IsDuplicateIfAnswered(k) == task[k] # NoTask

(* A row with this wa_message_id, if the payload has an id to compare.     *)
IsDuplicate(k) == k[2] \in WithId /\ stored[k] > 0

Ongoing(k) ==
    \E m \in Messages : LeadOf(<<k[1], m>>) = LeadOf(k) /\ stored[<<k[1], m>>] > 0

(* message_looks_like_need, or match_intent: any verdict.                  *)
LooksLikeNeed == BOOLEAN

(* A group message is taken if its group is monitored and, from a new      *)
(* contact, if it shows a need.                                            *)
Engages(k, need) ==
    k[2] \in Grouped => k[1] \in monitored /\ (need \/ Ongoing(k))

(* A number nobody has registered: 400.                                    *)
Unresolved(m) ==
    /\ Source[m] = "wacli"
    /\ Resolve(m) = {}
    /\ Answer(m)

Duplicate(t, m) ==
    /\ Source[m] = "wacli"
    /\ t \in Resolve(m)
    /\ IsDuplicate(<<t, m>>)
    /\ Answer(m)

Ignore(t, m, need) ==
    /\ \/ Source[m] = "wacli" /\ t \in Resolve(m) /\ ~IsDuplicate(<<t, m>>)
       \/ Source[m] = "gateway" /\ t = Owner[m]
    /\ ~Engages(<<t, m>>, need)
    /\ Answer(m)

(* Mutant: every group message that shows a need is a detection.           *)
DetectOngoing(k, need) == k[2] \in Grouped /\ need

(* record_detection, by the wacli webhook only.                            *)
Detects(k, need) == k[2] \in Grouped /\ need /\ ~Ongoing(k)

StoreMessage(k) ==
    /\ stored' = [stored EXCEPT ![k] = @ + 1]
    /\ lead' = lead \cup {LeadOf(k)}

(* Mutant: only looks the conversation up.                                 *)
FindConversation(k) == convo

EnsureConversation(k) == convo \cup {LeadOf(k)}

(* ingest_wacli_message up to its first commit.  With media that could be  *)
(* downloaded and kept, that is the commit of the asset.                   *)
Store(t, m, need, kept) ==
    LET k == <<t, m>> IN
    /\ Source[m] = "wacli"
    /\ t \in Resolve(m)
    /\ ~IsDuplicate(k)
    /\ Engages(k, need)
    /\ kept => m \in WithMedia
    /\ Serve(m)
    /\ StoreMessage(k)
    /\ listening' = IF Detects(k, need)
                    THEN [listening EXCEPT ![k] = "detected"]
                    ELSE listening
    /\ convo' = IF kept THEN convo ELSE EnsureConversation(k)
    /\ call' = [phase |-> IF kept THEN "halfway" ELSE "committed", key |-> k]
    /\ UNCHANGED <<tenancy, dismissing, overlapped, task, fault>>

(* The gateway's webhook.  Its session sets no tenant: with row-level      *)
(* security its groups and leads do not exist and its INSERT is refused.   *)
StoreLegacy(m, need) ==
    LET k == <<Owner[m], m>> IN
    /\ Source[m] = "gateway"
    /\ role = "postgres"
    /\ Engages(k, need)
    /\ Serve(m)
    /\ StoreMessage(k)
    /\ convo' = EnsureConversation(k)
    /\ call' = [phase |-> "committed", key |-> k]
    /\ UNCHANGED <<tenancy, feed, task, fault>>

RefuseLegacy(m) ==
    /\ Source[m] = "gateway"
    /\ role = "wa_app"
    /\ Answer(m)

(* The rest of the transaction after the commit of the asset, which ended  *)
(* the tenant's setting too.                                               *)
FinishConversation ==
    /\ call.phase = "halfway"
    /\ role = "postgres"
    /\ LeadOf(call.key) \in lead
    /\ convo' = EnsureConversation(call.key)
    /\ call' = [call EXCEPT !.phase = "committed"]
    /\ UNCHANGED <<tenancy, lead, stored, posts, feed, task, fault>>

(* Row-level security, or a deletion, took the lead away: a 500, and when  *)
(* wacli posts the message again it is a duplicate.                        *)
ConversationFails ==
    /\ call.phase = "halfway"
    /\ role = "wa_app" \/ LeadOf(call.key) \notin lead
    /\ fault' = fault \cup {call.key}
    /\ call' = NoCall
    /\ UNCHANGED <<tenancy, rows, posts, feed, task>>

(* Mutant: a direct message is not worth a task.                           *)
QueueGrouped(k) == IF k[2] \in Grouped THEN [task EXCEPT ![k] = Queued] ELSE task

(* The task of a lead that is gone by now does nothing.                    *)
Queue(k) == IF LeadOf(k) \in lead THEN [task EXCEPT ![k] = Queued] ELSE task

(* set_pending_reply and apply_async.                                      *)
Schedule ==
    /\ call.phase = "committed"
    /\ task' = Queue(call.key)
    /\ call' = NoCall
    /\ UNCHANGED <<tenancy, rows, posts, feed, fault>>

(* The broker refuses: logged, and answered with 200.                      *)
ScheduleFails ==
    /\ call.phase = "committed"
    /\ fault' = fault \cup {call.key}
    /\ call' = NoCall
    /\ UNCHANGED <<tenancy, rows, posts, feed, task>>

(* The web process dies: its call is gone, what it committed is not.       *)
Crash ==
    /\ call # NoCall
    /\ fault' = fault \cup {call.key}
    /\ call' = NoCall
    /\ UNCHANGED <<tenancy, rows, posts, feed, task>>

-----------------------------------------------------------------------------
(* Dashboard and reply tasks.                                              *)

(* Mutant: the conversation stays.                                         *)
KeepConversation(l) == convo

WithoutConversation(l) == convo \ {l}

(* delete_lead: messages and conversation go with it, and its tasks end    *)
(* early.  A listening row only loses its lead: no task finds it any more, *)
(* and what those that had it loaded write to it is not followed.          *)
DeleteLead(l) ==
    LET Kept(f, none) == [k \in Keys |-> IF LeadOf(k) = l THEN none ELSE f[k]]
        Others(keys) == {k \in keys : LeadOf(k) # l}
    IN
    /\ l \in lead
    /\ lead' = lead \ {l}
    /\ convo' = WithoutConversation(l)
    /\ stored' = Kept(stored, 0)
    /\ listening' = Kept(listening, "none")
    /\ task' = Kept(task, NoTask)
    /\ dismissing' = Others(dismissing)
    /\ overlapped' = Others(overlapped)
    /\ fault' = Others(fault)
    /\ UNCHANGED <<tenancy, requests>>

(* Whoever has loaded row k and not written it yet, but for the writer.    *)
LoadedBy(k) ==
    {<<"task", j>> : j \in {j \in Keys : task[j].phase = "finalizing" /\ task[j].row = k}}
    \cup {<<"dismissal", j>> : j \in dismissing \cap {k}}

Write(who, k, status) ==
    /\ listening' = [listening EXCEPT ![k] = status]
    /\ overlapped' = IF LoadedBy(k) \ {who} # {} THEN overlapped \cup {k} ELSE overlapped

(* Mutant: any row of the lead.                                            *)
RowsOfLead(j) == {k \in Keys : LeadOf(k) = LeadOf(j) /\ listening[k] # "none"}

(* The rows of its lead that finalize_reply looks at.                      *)
OpenRows(j) ==
    {k \in Keys : LeadOf(k) = LeadOf(j) /\ listening[k] = "detected"}

RoomForOne ==
    Cardinality({j \in Keys : task[j].phase = "finalizing"}) + Cardinality(dismissing)
        < MaxOpen

(* A reply task got as far as its answer and loads the row to finalize.    *)
LoadOpenRow(j, k, outcome) ==
    /\ RoomForOne
    /\ task[j] = Queued
    /\ k \in OpenRows(j)
    /\ task' = [task EXCEPT ![j] = [phase |-> "finalizing", row |-> k, outcome |-> outcome]]
    /\ UNCHANGED <<tenancy, rows, requests, feed, fault>>

(* The task may run again, by Celery's retries.                            *)
FinalizeReply(j) ==
    /\ task[j].phase = "finalizing"
    /\ Write(<<"task", j>>, task[j].row, task[j].outcome)
    /\ task' = [task EXCEPT ![j] = Queued]
    /\ UNCHANGED <<tenancy, rows, requests, dismissing, fault>>

FinalizeFails(j) ==
    /\ task[j].phase = "finalizing"
    /\ task' = [task EXCEPT ![j] = Queued]
    /\ UNCHANGED <<tenancy, rows, requests, feed, fault>>

LoadForDismissal(k) ==
    /\ RoomForOne
    /\ k \notin dismissing
    /\ listening[k] \notin {"none", "dismissed"}
    /\ dismissing' = dismissing \cup {k}
    /\ UNCHANGED <<tenancy, rows, requests, listening,
                   overlapped, task, fault>>

Dismiss(k) ==
    /\ k \in dismissing
    /\ Write(<<"dismissal", k>>, k, "dismissed")
    /\ dismissing' = dismissing \ {k}
    /\ UNCHANGED <<tenancy, rows, requests, task, fault>>

-----------------------------------------------------------------------------

Webhook(m) ==
    \/ Unresolved(m)
    \/ \E t \in Tenants, need \in LooksLikeNeed :
         \/ Duplicate(t, m)
         \/ Ignore(t, m, need)
         \/ \E kept \in BOOLEAN : Store(t, m, need, kept)
    \/ \E need \in LooksLikeNeed : StoreLegacy(m, need)
    \/ RefuseLegacy(m)

CallGoesOn == FinishConversation \/ ConversationFails \/ Schedule \/ ScheduleFails

Tasks ==
    \E j \in Keys :
        \/ \E k \in Keys, outcome \in {"sent", "blocked"} : LoadOpenRow(j, k, outcome)
        \/ FinalizeReply(j)
        \/ FinalizeFails(j)

People ==
    \/ \E t \in Tenants : ConnectNumber(t) \/ ToggleGroup(t)
    \/ \E l \in Tenants \X Contacts : DeleteLead(l)
    \/ \E k \in Keys : LoadForDismissal(k) \/ Dismiss(k)

Next == (\E m \in Messages : Webhook(m)) \/ CallGoesOn \/ Crash \/ Tasks \/ People

Spec == Init /\ [][Next]_vars

(* The event loop goes on with its call.                                   *)
FairSpec == Spec /\ WF_vars(CallGoesOn)

-----------------------------------------------------------------------------
(* Properties.                                                             *)

(* However often wacli posts a message that carries an id, and wherever    *)
(* the call broke before, it is stored once.                               *)
StoredOnce ==
    \A k \in Keys : Source[k[2]] = "wacli" /\ k[2] \in WithId => stored[k] <= 1

(* A message is stored in another tenant only when its sync named neither  *)
(* the workspace nor an account that its tenant's number carries: then the *)
(* only wacli number of the whole system gets it.                          *)
RoutedHome ==
    [][\A k \in Keys :
         stored'[k] > stored[k] =>
            \/ k[1] = Owner[k[2]]
            \/ /\ Hint[k[2]] # "workspace"
               /\ Hint[k[2]] = "none" \/ Owner[k[2]] \notin registered \cap OwnAccount]_vars

(* A lead is detected once in its life, for its first message.             *)
OneDetectionPerLead ==
    \A j, k \in Keys :
        LeadOf(j) = LeadOf(k) /\ listening[j] # "none" /\ listening[k] # "none" => j = k

(* What the feed says of a message stands: once sent, blocked or dismissed *)
(* it changes only by a dismissal or with its lead, unless two             *)
(* transactions had the row.                                               *)
OutcomeStands ==
    [][\A k \in Keys :
         /\ listening[k] \in {"sent", "blocked", "dismissed"}
         /\ listening'[k] # listening[k]
         => \/ listening'[k] = "dismissed"
            \/ LeadOf(k) \notin lead'
            \/ k \in overlapped]_vars

(* The early commit of an asset is made good: between two calls a stored   *)
(* message has its conversation, unless its call broke.                    *)
StoredIsWhole ==
    call = NoCall =>
        \A k \in Keys : stored[k] > 0 => LeadOf(k) \in convo \/ k \in fault

(* No stored message waits for its reply task for ever: again and again    *)
(* each has one, but for those whose call broke.                           *)
StoredIsScheduled ==
    []<>(\A k \in Keys : stored[k] > 0 => task[k] # NoTask \/ k \in fault)
=============================================================================
