# WA SaaS: TLA+ models and proofs

These modules model the backend and the gateway of the WhatsApp sales agent: the
reply loop with its compliance gate and daily counter, the webhooks in front of
it, the send queue behind it, the console beside it, the gateway that links a
number, and the tenants, plans and numbers underneath. TLC checks them on small
instances; TLAPS proves, for every value of the constants, each safety property the
passing runs check and that the send tasks implement their channel.

    tlc -workers 2 -config MCReplyAgent_thread.cfg MCReplyAgent.tla
    tlapm DraftConsole_proofs.tla

Paths below are relative to `src/backend/app/` unless they begin with `src/`.

## 1. The system

A tenant (a *workspace*) pairs a WhatsApp number. What contacts write to it
reaches the backend as webhooks; a Celery task asks an LLM for an answer, and the
answer is sent at once or kept as a draft for a person.

| Component | State it keeps | Operations | What makes it correct | Module |
|---|---|---|---|---|
| Inbound ingest: `services/inbound_wacli.py`, `api/endpoints/webhook*.py` | leads, conversations, inbound messages, the debounce slot in Redis | webhook, ingest, schedule | a message is stored once, whole, in its tenant, and scheduled or reported | `Inbound`, `ReplyAgent` |
| Reply agent: `tasks/ai_tasks.py`, `services/debounce.py`, `services/conversations.py` | the task's snapshots, message rows, lead and conversation columns | `generate_ai_reply` and its retries | no message without a basis; no message lost; retries bounded; people can silence it | `ReplyAgent` |
| Outreach policy: `core/outreach_policy.py`; counter: `services/crm.py` | none; `messages_sent_today`, `last_daily_reset_at` | `gate`, `daily_quota_available`, `bump_sent_counter` | the gate is the only authority; the counter tells the truth about a day | `OutreachPolicy` |
| Inbox and lead dashboard: `api/endpoints/conversations.py`, `leads.py`, `settings.py`, `mvp.py` | takeover, do-not-contact, meeting status, switches | reply, takeover, patch, start, stop, settings | what a person decides holds from then on | `ReplyAgent`, `DraftConsole` |
| Draft console: `mvp.py`, `messages.py`, `tasks/followup_tasks.py` | draft rows | approve, send manually, follow up, delete, reset | a draft is sent once; drafts do not pile up; the person learns what did not leave | `DraftConsole` |
| Promo beat: `tasks/followup_tasks.py` | `last_promo_sent_at`, the counter | `send_group_promos`, `trigger_outreach` | one post per group and interval, within the quota | `DraftConsole`, `ReplyAgent` |
| Send queue and providers: `tasks/whatsapp_tasks.py`, `messaging/` | Celery's queue | look for a provider, send, retry | copies are bounded, a report is true | `Delivery`, `SendChannel` |
| Media library: `services/media.py` | asset rows, binaries | upload, delete, read | a row has its binary | `MediaLibrary` |
| Gateway: `src/go-gateway/main.go` | clients by workspace, session rows | start, send, events | status in the database is the status of the session | `Gateway` |
| Tenancy and sign-in: `core/tenancy.py`, `core/auth.py`, `db/session.py` | the tenant setting of a transaction, workspaces | `tenant_context`, `provision`, `_ensure_workspace` | no query sees another tenant's rows; the console keeps its workspace | `Tenancy` |
| Billing and onboarding: `services/billing.py`, `endpoints/billing.py`, `endpoints/onboarding.py` | subscription, numbers | Stripe events, connect, poll | the plan is what is paid for; numbers stay within it | `Billing`, `Gateway` |
| Group listening: `services/listening.py` | audit rows | detect, finalize, dismiss | an audit row ends in the state that happened | `Inbound` |
| Memory, AI pipeline, typing delay, read models, frontend, scripts | data, or nothing the rest depends on | | left out, reasons in section 8 | |

They interact through the database (everyone reads and writes the same workspace,
lead, conversation and message rows; no row is locked), through Redis (the
debounce slot and Celery's queue), through the gateway's HTTP interface and through
WhatsApp. The gateway tells the backend about a link only by updating its session
row, and about messages only by a webhook.

**What is hard here.** A reply task lives for tens of seconds: 6 s of debounce
countdown, an LLM call, a typing pause. Everything it read may have changed when
it acts: the contact wrote again, opted out or fell out of the 24 h window, a
person took over, the day ended, another task moved the counter. Tasks are acknowledged
when they start and retried on any exception (the send tasks on a refusal or a
timeout), so they may be lost in the middle or run again after they committed. Between the gate and
the send there is always a gap: a typing pause, a commit, a queue. Redis
and the broker may refuse. Console requests run in threads and beats in workers, so
two of them load the same counter. A commit in the middle of a request ends its tenant
setting. A send that timed out may have left. The gateway writes one row from several
goroutines in no order. Stripe orders nothing. The list of hazards, each with its
line and the properties that watch it, is in `PROJECT.json`.

## 2. Modules

| Module | What it is | Extends |
|---|---|---|
| `OutreachPolicy` | `gate()` rule by rule, the daily counter, and the ORM's write of changed columns, as operators | |
| `ReplyAgent` | ingest, scheduling, the reply task, its faults, the dashboard, the promo beat, the clock | `OutreachPolicy` |
| `DraftConsole` | approvals, manual messages, follow-up drafts, posts in groups, deletions, on one workspace row | `OutreachPolicy` |
| `Inbound` | both webhooks up to the task they queue, and the listening feed | |
| `MediaLibrary` | asset rows and binaries | |
| `Delivery` | the send tasks and their providers, over the library and the numbers | `MediaLibrary` |
| `SendChannel` | what the send queue promises to its callers; `Delivery` implements it | |
| `Gateway` | linking a number: gateway, session row, onboarding poll, console | |
| `Tenancy` | tenant setting on pooled connections; who makes a workspace | |
| `Billing` | plans, Stripe's events, numbers, in the sessions of `Tenancy` | `Tenancy` |
| `Account` | composes the two: billing requests among requests that touch no billing | `Billing` |
| `MC*` | instances for TLC: model values, functions from messages, symmetry | |
| `X_proofs` | the theorems about `X` and their lemmas, for `ReplyAgent`, `DraftConsole`, `Inbound`, `Delivery` (with `MediaLibrary` and the refinement), `Gateway`, `Account` (with `Tenancy` and `Billing`) | `X` |
| `OutreachPolicy_proofs` | what the counter's helpers return, for the two modules that count | `OutreachPolicy` |
| `SetLemmas` | small cardinalities, least elements | |

### Common ground

* The database is at READ COMMITTED and sessions expire their objects at each
  commit: a read after a commit sees the latest rows. `Flushed` is SQLAlchemy's unit
  of work, which writes only the columns that changed. This is what makes the counter
  hard: whoever loads it and writes `loaded + 1` later loses what came between.
* A plain `def` endpoint runs in FastAPI's thread pool, so it overlaps everything. An
  `async def` endpoint that never awaits runs in the event loop of the one uvicorn
  process (`src/ops/start.sh`), so it is atomic beside other such endpoints and not
  beside threads, workers and the gateway. Each module is cut accordingly.
* The database role decides whether row-level security binds: the default `postgres`
  is a superuser; `wa_app` is the role the deployment notes ask for. `Inbound`, `Delivery` and
  `Account` start with either; the others assume the default.
* History variables (named so in each module) are read by properties and bounds only.

### `ReplyAgent`

| Variable | In the program |
|---|---|
| `workspace`, `lead`, `convo`, `messages` | the database rows, last committed version |
| `token[l]` | Redis key `reply_debounce:<lead>`; 0 is no key |
| `pc[l][i]`, `retries[l][i]`, `local[l][i]` | the Celery task of the i-th inbound message of lead l: where it is, retries used, what its session remembers |
| `inbox[l]` | an inbox reply between its gate and its commit: what it has loaded |
| `today`, `clicks` | the date; a bound on dashboard requests |

`pc` walks `none, stored, queued, thinking, (confirmed,) replied, typing, sent`,
or ends as `draft, agent_off, silenced, opted_out, superseded, failed, lost` or
`dropped`. The cuts are the commits and the slow calls of `generate_ai_reply`:

| Action | Code | Cut because |
|---|---|---|
| `Ingest`, then `Schedule` or `ScheduleFails` | `inbound_wacli.py` 74-297 | commit, then Redis and the broker |
| `AgentOff`, `Silenced`, `HonorOptOut`, `Superseded` | `ai_tasks.py` 149-202 | the early returns, in their order |
| `Think` | 204-247 | the LLM call follows |
| `StopNonLead`, `ConfirmMeeting` | 249-256, 274-288 | `log_agent_step` commits what is pending |
| `CommitReply` | 265-320 | the reply row's commit, SENT or DRAFT |
| `BeginTyping`, `Deliver`, `FinishDraft` | 322-364 | the pause of seconds between them; last commit |
| `TaskFails`, `DeliverUnrecorded`, `WorkerKilled` | 129-135, 331-375; `celery_app.py` | autoretry, and acknowledgement at the start |
| `OpenReply`, then `SendReply` | `conversations.py` 184-200, 202-228 | it runs in a thread: others commit between its gate and its commit |
| `ToggleTakeover`, `UpdateLead`, `PatchLead`, `SwitchAgent`, `SaveSettings` | the endpoints | one transaction each |
| `SendGroupPromos` | `followup_tasks.py` 64-101 | one transaction |

The checks before the LLM call (149-202) read the rows within milliseconds and are
one action. Time is `today`, the closing of a lead's window, the expiry of the slot: each
may happen at any moment, and a queued task may run at any moment too. Text is "stop"
(what `detect_opt_out` accepts), "plain" or "disclosed"; any verdict of the LLM is possible.
`meeting_status` has OPEN for every value the agent does not test. `auto` is the
conjunction of `auto_reply_enabled` and `auto_send_matched_leads`; the webhooks always pass
`auto_send_allowed=True` and the pipeline never returns an empty reply, so these are no
conditions. The daily limit is a constant, although `save_settings` may change it.
`charged[d]` counts the jobs handed over and the inbox replies booked on day d (a broker that refuses the latter
is only logged). A lead has at most one inbox reply open at a time, which is a bound; one that is refused or dies
before its commit leaves nothing behind and is not followed.

### `DraftConsole`

A sending request (`approve_draft`, `approve_message`, `send_manual`) has three parts:
`Load...` reads and tests its rows, `Commit...` writes them (`CommitStale` when they are
gone: an UPDATE that matches no row or a foreign key), `QueueJob` or `QueueFails` follows on
rows read again. `check_stale_leads` is `FindStale` and `CommitFollowups`/`FollowupsFail`. A run
that posts in groups keeps the row it loaded, posts one group at a time (`PostIn`, the job is
in the broker at once) and commits once (`CommitPosts`) or rolls back what is not in the broker
(`PostsFail`); the beat and a person (`trigger_outreach`) each have one run. `contested`,
`overlapped`, `told` and `excused` record what the properties except; a draft of the reply agent is the same row
as one of `add_followup`. `Close` and `Reopen` are the conversion and the do-not-contact patch, which can be taken
back.

`tally` is the history of what really happened to today's messages, apart from the counter: `left` counts every job
that reached the broker, those of `approve_message` and of runs that were rolled back included; `unbooked` those of
them the counter does not show; `refused` the rows that are counted and whose job was never queued; `untested` the
posts of `trigger_outreach`, which asks no quota. It is kept until two transactions have the counter loaded at once.

### `Inbound`

One call at a time (`call`): `Store` is `ingest_wacli_message` up to its first commit, which
is that of the asset when media was kept (`halfway`), else the end of the transaction
(`committed`); `FinishConversation`/`ConversationFails`, then `Schedule`/`ScheduleFails`, or
`Crash`. `Unresolved`, `Duplicate`, `Ignore` are the early answers; `StoreLegacy` and
`RefuseLegacy` are the gateway's webhook, whose session sets no tenant. A message is its
owner, contact, source, whether its payload carries an id (without one the test for a duplicate is skipped),
and what its sync names in the URL; `MaxPosts` bounds how often
wacli posts it, and the gateway posts once. Reply tasks appear as far as they
touch the feed (`LoadOpenRow`, `FinalizeReply`), people by `LoadForDismissal` and `Dismiss`.

### `Delivery`, `MediaLibrary`, `SendChannel`

A job is queued; each attempt reads its asset and looks for a CONNECTED number (`FindNumber`, `FindNone`); if it sees
none, a second query takes the workspace's default (`FallBack`), and onboarding may commit between the two. As
`wa_app` no number is visible to this session, and the workspace is. A fallback to the Cloud API has no credentials and
ends the job (`unarmed`). Then a copy may leave (`Transmit`), and the attempt ends by `Succeed`, `AnswerUnreadable` (the
gateway answers plain text, a proxy of the Cloud API may: `res.json()` raises), `DownloadFails`, `Refused` or `TimesOut`;
the last two are `Retry`, from the top. `AssetNotFound` and `FileNotFound` end it before. The library's two writes are separate steps
with a crash between (`PutBinary`, `InsertRow`; `RemoveBinary`, `RemoveRow`), under S3 or a local
directory. The refinement maps a job to what its caller can know (`ChannelStatus`): queued,
between the queries and sending are *accepted*; failed, missing and unarmed are *failed*.

### `Gateway`

`session` and `number` are the rows, `shown` the onboarding page. The gateway has start requests waiting
(`starts`), the one that holds the manager's lock (`starting`), the client in its map, its
websockets, and the updates its goroutines still have to make (`writes`), which happen in any
order. `startSession` is `AlreadyConnected`, `Reconnect` or `NewClient` then
`Connect`/`ConnectFails`. `Reconnect` only starts a goroutine, which connects when the lock is free again (`Dial`), or
after the client was unlinked and replaced (`DialFormer`; one such client is followed at a time). `NewClient` looks for
the device with the JID it read, or without one when that query failed, which the code logs and goes on. `WriteJID` and
`FindClient` wait for the lock. A Cloud API number has nothing to link: its row says CONNECTED at once (`"CLOUD"`). `get_qr_status` is
`Provision` (no number yet) and `PollQR`. `LoggedOut` is the tenant unlinking on the phone;
`AuthLogout` changes the row only, as the code does not tell the gateway. A request to send is
followed one at a time.

### `Tenancy`, `Billing`, `Account`

A session takes a free connection (`OpenTenant`, `OpenPlain`), ends its transaction (`Commit`),
may go on, on whatever connection the pool gives (`GoOn`), and closes. `Rows(r)` is what the
policies show it. The second half follows one person, which is one row of `users`, found
by its email. Such a person may sign in under several tenant keys (`Keys`): one for each Clerk user with the email, and
the organisations whose first member it was. A request is a query that finds no workspace (`Look`), the flush that stamps
`created_at`, the commit; `provision` runs in the event loop and `_ensure_workspace` in threads. In `Billing` a handler's body is one step inside such a session:
`HandleEvent` applies any event of Stripe's log at any time, `ConnectNumber` tests the plan,
`ProvisionNumber` (the poll of a tenant without a number) does not. An event has the price that is charged and, apart
from it, the plan that its metadata names, if any: `handle_event` reads the second only, and leaves the plan alone where
there is none. No code of the repository writes that metadata, so the model lets it say anything, a plan that
does not exist included (`GetPlan` reads it as free).

## 3. Runs

All runs set `CHECK_DEADLOCK FALSE`: the system stops when nobody writes and nothing
is scheduled, and the bounds stop everything in the end.

| Run | Instance | Checks, besides `TypeOK` |
|---|---|---|
| `thread` | one lead, 2 messages of either kind, no retry, 1 dashboard request (any); exceptions, killed workers, unreadable Redis, expiring slots; fair | `SupersededIsCovered`, `NoSendWithoutBasis`, `BurstIsHandled` |
| `quota` | two leads (symmetric), 1 message each, 1 retry, 1 inbox reply, 1 midnight, 1 post, limit 2; exceptions, refusing broker | `RetryAmplificationBounded`, `CounterNeverOvercounts` |
| `delivery` | a text job and a media job, one asset, 2 deletes at once, one number, 1 retry, both roles; timeouts, refusals, bad answers, failing downloads, killed workers; fair | `ImplementsSendChannel`, `LibraryConsistent`, `DuplicatesNeedDoubt`, `UnarmedNeedsCrossing`, `EveryJobEnds` |
| `console` | one lead, one group, 2 messages, 2 sending requests, 2 transactions open at once, limit 1, 1 midnight, 2 posts an interval; fair | `SecondSendNeedsOverlap`, `CounterExactWhenSerial`, `QuotaHoldsWhenSerial`, `OneFollowupPerLead`, `OnePromoPerInterval`, `JobsLeaveForSentRows`, `SentIsQueuedOrTold` |
| `inbound` | one contact of two tenants; a photo with an id and a group message without one, whose sync names an account, each posted twice, a direct message through the gateway; both roles, 2 transactions on the feed; fair | `StoredOnce`, `RoutedHome`, `OneDetectionPerLead`, `OutcomeStands`, `StoredIsWhole`, `StoredIsScheduled` |
| `gateway` | 1 start request waiting, 2 linked devices; any number of restarts, polls, updates, failing queries; fair | `ConnectedNeedsPairing`, `OneSocket`, `NoSecondDevice`, `CodeReachesRow`, `SendIsAnswered` |
| `account` | 2 requests on 2 connections, two tenants, one of them a customer with 2 subscriptions to 2 plans and 3 events, 2 tenant keys and 2 workspaces of the person (requests, connections, subscriptions, keys symmetric); both roles | `NoForeignRows`, `ConsoleStable`, `PaidPlanHolds`, `NumbersWithinPlan` |
| `takeover` | one message, one click, no faults | `TakeoverSilencesAgent`, violated |
| `optout` | two messages, no faults | `OptOutIsHonored`, violated |
| `daily_cap` | two leads, one midnight, limit 1 | `DailyCapIsDaily`, violated |
| `fail_open` | two messages, Redis SET may fail | `SupersededIsCovered`, violated |
| `disclosure` | two messages, no faults | `DisclosureComesFirst`, violated |

**Why the bounds are enough.**
* `thread`, `quota`: debouncing, opt-outs and the disclosure are about one
  thread and an order of two messages: a third only lengthens the chain, and the proofs
  drop the bound. The counter is about two writers and a midnight, one of the writers a
  task with a pause: two leads, and the promo beat as the third that resets. A limit of 2
  is reached, and passed by a lost update. One click is enough to change any decision
  under a running task, and to open an inbox reply during which the window closes or a task honors an opt-out;
  the do-not-contact patch during an inbox reply takes a second, which only the proof covers. In `quota` the
  constraint `OnlyReplies` spends the click on an inbox reply, and leaves windows and meeting requests alone:
  nothing else of the dashboard reaches the counter, except by keeping a task from it. `NonLeadTurns` is 2 or 3 (3 in the code) so that `StopNonLead` is
  reached with two messages (with one in `quota`, it is not).
* `delivery`: jobs share only the library and the numbers, so one of each kind suffices; one
  retry gives a second attempt by another provider, with a second copy. One number decides
  between "first CONNECTED" and the default, and may be connected between an attempt's two queries; which of
  two numbers is first is not at stake.
* `console`: every exception is about two transactions, so two may be open at once, and two
  messages and a limit of 1 are enough to pass the quota, to send twice and to have two drafts.
* `inbound`: a repeated post with an id and one without, a second message of the same lead, a second tenant that
  could receive it or has a second number (`MaxNumbers` is 2), and both webhooks are all there; a third
  message adds no new relation. `FewRepeats` keeps the combinations apart: the message without an id is posted again,
  or a tenant gets its second number, only with at most four posts and numbers in all.
* `gateway`: one workspace, since clients and rows of different workspaces share only the lock
  (whose holder may be taken for another tenant's, as far as `SendIsAnswered` goes). Two
  devices are the first state `NoSecondDevice` could forbid. One start waits while another holds the lock; a
  third would do what the second does.
* `account`: two requests reuse each other's connections in either order; three events are
  the fewest that make one subscription, change it, and end it, or cross two. Two plans are on sale, and metadata may
  name either, one that does not exist, or none. Two workspaces are what a race, a sign-in after the console
  or two keys can make, and the first that `ConsoleStable` could confuse. `FewEvents` allows three events as
  `postgres` while the person has no workspace, and one elsewhere: as `wa_app` none is applied, and the person's
  workspaces share no variable with the plans but the pool.

**What the passing runs show.**
* `NoSendWithoutBasis`: from the moment a contact is do-not-contact or outside the window, nothing new to it gets past
  the gate, by a task or by an inbox reply, and while the agent is off no task does. The gate of a task runs in the
  transaction that commits the row, on rows reloaded after the LLM call; the snapshots never authorise a send. What had
  passed it before still leaves: a reply in its typing pause, and an inbox reply that is refused by nothing
  between its gate and its commit. So one message of each such task or request may follow an opt-out (and the send job's own retries), where
  `src/.agents/skills/wa-saas-compliance/SKILL.md:33` says that "future sends are blocked"; the property says that it is
  no more.
* `SupersededIsCovered` and `BurstIsHandled`: whatever expires or cannot be read, a
  superseded task has a newer one behind it, and each scheduled message is followed by the
  end, other than superseded, of its task or of a later one. An end may be a draft, a
  silence, a failure or a lost worker: the second property says that the burst does not
  vanish through debouncing, not that WhatsApp delivers.
* `RetryAmplificationBounded`: a retried task may answer again (the row is committed
  before the job is queued), but at most once per run, and never sends without a row.
* `CounterNeverOvercounts`: lost updates only ever lose charges, except by a typing pause or an inbox reply that spans
  midnight (`straddled`): it resets its old copy and writes 1 on the new day, so a count
  may end up on a day it does not belong to. An inbox reply is charged when it is booked, even if the broker then
  refuses it: `charged` counts it so.
* `CounterExactWhenSerial`, `QuotaHoldsWhenSerial`: the converse, for the console's writers. Until two transactions
  have the counter loaded at once (`overlapped`; after that the code promises nothing), the counter and what really
  left differ by exactly what `tally` names, and what left exceeds the limit by no more than that. The code gives no
  more: a beat that posted and was rolled back leaves its posts uncounted, so that the next request goes over the limit
  with no overlap at all; `approve_message` is never counted, although `src/context/architecture.md:366` says that
  "a tenant over quota cannot send"; a reset starts the day's count again; a job the broker refused stays counted.
* `SecondSendNeedsOverlap`: approvals one after the other, by either endpoint, send a draft once.
  Two that both read DRAFT before either commits send it twice (`contested`); nothing else does.
* `OneFollowupPerLead`, `OnePromoPerInterval`: the hourly check and the beat each look before
  they write and have one run at a time, and nothing the console does between makes them repeat
  themselves. The exceptions of the second are a person's `trigger_outreach` and a run rolled back
  after it posted (`excused`): the harm such a rollback does is excepted here, and measured by the two
  properties before. The first is about the check's own drafts only.
* `JobsLeaveForSentRows`, `SentIsQueuedOrTold`: the job is made from rows read again after the
  commit, so no job leaves for a row a deletion took; and a row that says SENT without a job is
  one whose person got an error or no answer (`told`).
* `ImplementsSendChannel`: each step of a job is a step of `SendChannel` or a stutter: at most
  `MaxRetries + 1` copies, *sent* only after a copy left, nothing after the report. *failed*
  promises nothing, and could not: through the gateway's text answer even a clean send is
  reported as an error. `DuplicatesNeedDoubt` says where second copies come from: from an attempt
  that ended in doubt (a timeout, or that answer), never from one that was refused or succeeded.
* `EveryJobEnds`, `LibraryConsistent`, `UnarmedNeedsCrossing`: retries run out; a row without
  binary is being deleted and a binary without row being uploaded, but for crashes and an object
  store that refuses (`stray`); a job is lost to a Cloud API without credentials only as `wa_app`, or when such a
  number was connected between the two queries of its last attempt.
* `StoredOnce`, `StoredIsWhole`, `StoredIsScheduled`: a repeated post finds the row, even where the
  first call broke in the middle, if the payload carries an id. (Without one nothing is compared, and each post is a
  message of its own.) The price is that such a message (`fault`) stays without
  conversation or task for ever: the duplicate is answered and dropped.
* `RoutedHome`: a message is stored in another tenant only if its sync named neither its workspace
  nor an account its number carries, by the rule of the only number.
* `OneDetectionPerLead`, `OutcomeStands`: one row of the feed per life of a lead; what it says
  changes only by a dismissal, unless a reply and a dismissal had loaded it together.
* `ConnectedNeedsPairing`: CONNECTED of a linked number means a scan, but for a start that finds an unpaired client
  connected and reports it (`vouched`), which `get_qr_status` itself provokes when it kicks. Of a Cloud API number the page
  says CONNECTED at once, and no row makes more of it. `OneSocket`: starts, goroutines, losses and returns leave one
  websocket, beside that of a client which was replaced while its reconnection was pending. `NoSecondDevice`: one linked
  device, unless the gateway stopped between the scan and the save of the JID, or a start could not read the
  JID that was saved (`estranged`).
* `CodeReachesRow`, `SendIsAnswered`: see section 4.
* `NoForeignRows`: as `wa_app`, the tenant of a `tenant_context` is in force for its first
  transaction and for nothing else, whatever the connection served before. As `postgres`, all rows
  are visible, as the code's deployment notes say.
* `ConsoleStable`: the console stays with the oldest workspace although a sign-in may make
  another, unless two requests were making one at the same time (`raced`).
* `PaidPlanHolds` is about tenants whose subscriptions name in their metadata the plan they charge (`Faithful`): for
  the others the plan is what the metadata says, whatever is paid. Such a tenant is never on a plan it never paid for,
  whatever the order of the events; a late event may put it on one it paid for once. When the newest event that
  names a plan or ends a subscription was the last of these to be applied, it is on a plan that a live subscription pays for,
  or on free because that event ended one, even where another subscription lives on. `NumbersWithinPlan`: by
  both doors numbers grow only within the plan; the second door does not ask but adds only the first.

**What the other runs show** (`findings` in `PROJECT.json`):
* `takeover`: `human_takeover` is read before the LLM call only (`ai_tasks.py:162`).
* `optout`: only the newest row is tested (`ai_tasks.py:183`). A "stop" followed by "one
  more thing" within the 6 s countdown is never acted on.
* `daily_cap`: the gate compares yesterday's count (`outreach_policy.py:92`) and denies
  before `daily_quota_available` could reset it.
* `fail_open`: a failed SET leaves the older message in the slot (`debounce.py:49`); the
  newer task reads it and steps aside for a task that is already done.
* `disclosure`: a first reply kept as a draft carries the disclosure and counts as the
  first agent message (`ai_tasks.py:206`), so the first one that is sent carries none. The
  trace gets its draft from a window that closes during the LLM call; a disabled switch, a spent
  quota or the hourly follow-up draft do the same.

## 4. Fairness

Each `Spec` has none, and the safety properties would hold under it; `FairSpec`, for the
liveness properties, adds what the code's scheduling gives and no more.

| Module | Fair | Because |
|---|---|---|
| `ReplyAgent` | weakly: `Schedule \/ ScheduleFails`; `TaskStep` of each task | the web process finishes the synchronous call it began (its death is `ScheduleFails`); workers run what is queued, and the LLM client has a timeout |
| `Delivery` | weakly: `JobStep` of each job | the same workers; every provider call has a timeout |
| `DraftConsole` | weakly: `QueueJob \/ QueueFails` of each request | a request that committed goes on or its process dies, which is `QueueFails` |
| `Inbound` | weakly: `CallGoesOn` | the event loop goes on with its call; a crash is another step |
| `Gateway` | weakly: `QRCode`, `WriteCode` | WhatsApp sends codes while a client is open, and goroutines run |
| `Gateway` | weakly: `Connect \/ ConnectFails`, `SendMessage` | an attempt to connect ends, with a websocket or an error |
| `Gateway` | strongly: `FindClient` | `sync.RWMutex` lets waiting readers in before the next writer: weak fairness would let one start after the other overtake a send for ever |

People, faults, the beats, the clock and Stripe owe nobody a step, and neither does a crash.
`StoredIsScheduled` and `SentIsQueuedOrTold` are `[]<>` over all rows at once: a moment in which each has
its task, or its job, comes again and again. The instances bound the posts and the requests, so no row
can hide behind the next one.

## 5. What is proved

Every safety property of a passing run, invariant or action property, is a theorem of the
module's `Spec` (which states no fairness), for every set of tenants, leads, messages, requests,
assets, connections and for all values of the bounds. The assumptions are the named
ones on the constants (`LimitsAssumption`, `DraftConsoleAssumption`, `BillingAssumption`...): bounds
are numbers, sets are finite where something is counted, model values differ from data. One theorem needs more:
`DebounceLosesNothing` also assumes that the broker accepts tasks and Redis accepts SETs
(`ReliableScheduling`); the run `fail_open` shows what happens otherwise.

| Module | Theorem | Property |
|---|---|---|
| `ReplyAgent_proofs` | `TypeCorrect` | `TypeOK` |
| | `RetriesAmplifyAtMostOnce` | `RetryAmplificationBounded` |
| | `DebounceLosesNothing` | `SupersededIsCovered` |
| | `NoReplyWithoutBasis` | `NoSendWithoutBasis`, of steps |
| | `CounterIsHonest` | `CounterNeverOvercounts` |
| `DraftConsole_proofs` | `TypeCorrect` | `TypeOK` |
| | `JobsAreOfSentRows` | `JobsLeaveForSentRows`, of steps |
| | `SecondSendIsARace` | `SecondSendNeedsOverlap` |
| | `CounterIsExact` | `CounterExactWhenSerial` |
| | `QuotaHolds` | `QuotaHoldsWhenSerial` |
| | `FollowupsDoNotPileUp` | `OneFollowupPerLead` |
| | `PromosKeepTheInterval` | `OnePromoPerInterval` |
| | `NoSentRowIsForgotten` | `Pursued`: what `SentIsQueuedOrTold` waits for is always under way |
| `Inbound_proofs` | `TypeCorrect` | `TypeOK` |
| | `NoDuplicateMessage` | `StoredOnce` |
| | `DetectedOnce` | `OneDetectionPerLead` |
| | `NothingHalfStored` | `StoredIsWhole` |
| | `MessagesRoutedHome` | `RoutedHome`, of steps |
| | `SettledOutcomeStands` | `OutcomeStands`, of steps |
| | `NoMessageForgotten` | `Accounted`: what `StoredIsScheduled` waits for is always under way |
| `Delivery_proofs` | `TypeCorrect` | `TypeOK` |
| | `TasksImplementChannel` | `ImplementsSendChannel`, the refinement |
| | `DuplicatesComeFromDoubt` | `DuplicatesNeedDoubt` |
| | `LibraryIsConsistent` | `LibraryConsistent` |
| | `UnarmedIsCrossed` | `UnarmedNeedsCrossing` |
| `Gateway_proofs` | `TypeCorrect` | `TypeOK` |
| | `ConnectedAfterPairing` | `ConnectedNeedsPairing` |
| | `SingleSocket` | `OneSocket` |
| | `SecondDeviceNeedsLoss` | `NoSecondDevice` |
| `Account_proofs` | `TypeCorrect` | `TypeOK` |
| | `RowsAreIsolated` | `NoForeignRows` |
| | `ConsoleStays` | `ConsoleStable`, of steps |
| | `NumbersStayWithinPlan` | `NumbersWithinPlan`, of steps |
| | `PlanIsPaidFor` | `PaidPlanHolds` |

Few of these are inductive. Each module of proofs begins with its strengthening, which TLC checked on the
module's run before it was proved, and goes through it action by action; the theorems are at its end.
What the strengthenings add, and why:

**`ReplyAgent`**
* `RepliesInv`. The bound on `replies` is not inductive: `CommitReply` adds a reply. The
  strengthening counts by place: before `CommitReply` a task has at most `retries` replies,
  after it at most `retries + 1`; `sends` is below `replies` wherever a send is still to
  come. A retry moves the task back and raises `retries` with it.
* `ArrivalInv` and `SlotInv`. Messages of a lead are stored in order; one call is between
  commit and scheduling at a time; the slot holds the newest scheduled message or nothing.
  A task that finds another holder therefore finds a newer one. The failing SET breaks
  exactly this last part.
* `CounterInv`. `sent <= charged[reset_day]` is not enough: `Deliver` and `SendReply` write from what they
  loaded. Every copy in a typing task obeys the bound for its own day too, `charged` only
  grows, and no copy is from a later day than the row; hence one more charge covers one more count. An inbox reply was
  opened today, so the row is still what it loaded, or was brought up to the day since (`InboxIsCovered`).
* `NoSendWithoutBasis` needs type correctness and that only `CommitReply` and `OpenReply` take a message past `Gate`,
  and `Deliver` and `SendReply` only one that is past it.

**`DraftConsole`**
* `ApprovalInv`. Of a draft that is not contested at most one approval is open, or one commit waits
  for its job, never both; no job was queued before either. So the job the last part of the request queues
  is the first. `UnusedInv` keeps new ids free of a past; `CommittedInv` is what
  `JobsAreOfSentRows` adds to the guard of `QueueJob`: a committed request's row is SENT, or gone.
* `CounterInv`. Until two transactions overlapped, one holds the counter (`SoleHolder`), and what it
  loaded is the row (`LoadedInv`, `RunInv`): its write loses nothing. A request that holds the counter
  still has room in the limit, since the quota it tested is the row's; a run's row is the counter plus its own posts of
  that day, so that one commit of many posts charges them all. A run that sees midnight carries a count of
  yesterday, which is worth nothing (`Counter`).
* `BalanceInv`. The equation of `CounterExactWhenSerial`, which each step keeps by moving the same number on both sides: a
  commit from a run's own posts to the counter, a rollback from them to `unbooked`, a reset from the counter there, a
  commit of a request to `Booked`, and its job from there to `left` or `refused`. With `ValueInv` (the counter is within the
  limit but for the posts nobody tested) it gives `QuotaHoldsWhenSerial`.
* `FollowupInv`. A lead that the running check found stale has no draft of the check; nobody else makes one.
* `PromoInv`. A group the beat has still to look at has no post of the interval, and one that is due has
  none, or the beat has just made it; the rollback after a post is the exception.

**`Inbound`**
* `WholeInv`. A message without conversation belongs to the call that is halfway, or its call broke; with one
  call at a time nothing else stores.
* `FeedInv`. A loaded row of the feed is of the task's lead and still "detected", or two
  transactions have it. `RoutedHome` needs no invariant but types: the resolution reads one state.

**`Delivery`**
* `JobInv`. An attempt makes at most one copy; copies stay within the doubts, plus one for the attempt
  that has one out. The mapped status then moves as `SendChannel` lets it: `copies < tries` where a copy may
  leave gives the bound `MaxRetries + 1`.
* `NumberInv`. While no number is CONNECTED the default is not the Cloud API. So an attempt that saw none and then reads that
  default was crossed by the connection that made it, or has the role that hides numbers.
* `LibraryInv`. The order of the two writes: the binary is there while its row is put, and gone while it is
  removed, but for a stray.

**`Gateway`**
* `ClientInv`, `DeviceInv`. The lock: a start that connects has no client in the map; a goroutine has only a client to
  reconnect that had an identity. An unscanned code is shown only where nothing is saved, or what is saved
  could not be read; a device that is neither saved nor in use was lost by a stop.
* `PairingInv`. Before the first scan nothing in the gateway, the pending writes included, speaks of a connected number.

**`Account`**
* `SettingInv`. The setting of a connection is that of the `tenant_context` transaction on it, and where there is
  no such transaction there is no setting.
* `OwnedInv`, `SigninInv`, `OrderInv`. An uncommitted workspace has one request that makes it; each tenant key has one
  workspace; unless requests raced, the oldest stamp is the oldest commit.
* `LogInv`, `PlanInv`. Stripe's log makes a subscription, changes it while it lives or ends it; and the plan is that of
  the deciding event applied last. In a log that is `Faithful` that event names the price its subscription has had since, so
  if it is the newest to decide anything, the plan is the one a live subscription is charged for.

**Not proved, and why**
* Liveness: `BurstIsHandled`, `EveryJobEnds`, `SentIsQueuedOrTold`, `StoredIsScheduled`, `CodeReachesRow`,
  `SendIsAnswered`. They rest on fairness, so on ENABLED, which the prover does not handle; TLC checks them.
  Of two the safety half is proved: a row that still waits has a request, or a call, whose next step
  the fairness is about (`NoSentRowIsForgotten`, `NoMessageForgotten`).
* The five statements that are violated: TLC has the traces.
* `LiveAfter`, `Past` and `PlanAfter` are not recursive, so nothing here needs induction over the log.

## 6. Plan: what is left to prove

| Theorem | Argument |
|---|---|
| what holds in place of the violated statements: a takeover silences every task that has not passed its checks; the counter's day is the gate's day unless midnight came since the last write | the invariants of `ReplyAgent_proofs`, with the place of a task (`pc`) at the moment of the click |
| the safety half of the other liveness properties, as `Pursued` and `Accounted` are of two of them | place by place, as `RepliesInv` |
| `Inbound` and `ReplyAgent` agree on what a stored message is | `Inbound` as an implementation of the ingest of `ReplyAgent` |

## 7. Reading the models beside the code

`PROJECT.json` maps every definition to the lines it stands for. Operators keep the names
of the functions (`Gate`, `SetPendingReply`, `SendReply`, `ToggleTakeover`); early
returns are actions named for their reason. Each property has a plausible wrong version of one
mapped definition, defined right before it and marked "Mutant", that the run tells apart from the code.

## 8. Not modelled, and why

* `ai/`: prompts, parsing and vendor fallback are data; the model lets the LLM say anything.
* `services/memory.py`: similarity search that shapes prompts.
* `services/typing_delay.py`: arithmetic on lengths; the pause is kept as a cut.
* The typing flag in `debounce.py` and the presence event that sets it: read by nobody.
* Signatures of webhooks, verification of tokens, member roles: a request is one that passed.
* `needs_response`, scores, labels and activity rows: they feed pages, and no decision modelled here.
* `configure` and the texts of the settings; checkout, which only redirects to Stripe; a
  subscription's status, which is only shown; the usage meters, which nobody calls.
* In the gateway: late events of a client that was replaced, the text of the group list, and the
  expiry of a code, which is a matter of minutes and of nothing else.
* The 5 s limits on calls between backend and gateway, beyond what a lost call does: a request may
  not arrive (`Kick`), a message may never be posted.
* Temporary files of the send tasks: removed after each answer, read by no other attempt.
* Read models, users, frontend, migrations, seeds and scripts: no state others depend on.
