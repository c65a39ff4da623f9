----------------------------- MODULE ReplyAgent -----------------------------
(***************************************************************************)
(* The agent's reply loop for the leads of one workspace: an inbound       *)
(* WhatsApp message is stored and scheduled (services/inbound_wacli.py), a *)
(* Celery task later decides whether to answer it (tasks/ai_tasks.py,      *)
(* generate_ai_reply), and the people of the tenant change the same rows   *)
(* from the dashboard while the task runs.                                 *)
(*                                                                         *)
(* A task is cut at its commits and at its slow calls (the LLM, the typing *)
(* pause): what happens between two of them is one action, and so are the  *)
(* checks before the LLM call, which follow each other within milliseconds *)
(* and whose log entries nothing reads.  The database gives every statement*)
(* the latest committed rows (READ COMMITTED, expire_on_commit), and an    *)
(* UPDATE writes only the columns the session changed.  Nothing is locked. *)
(*                                                                         *)
(* task (l, i) is the task scheduled for the i-th inbound message of lead  *)
(* l.  It moves through                                                    *)
(*                                                                         *)
(*   none -> stored -> queued -> thinking -> replied -> typing -> sent     *)
(*                                  |  ^                                   *)
(*                                  v  | (confirmed)   drafted -> draft    *)
(*                                                                         *)
(* and ends early as agent_off, silenced, opted_out, superseded, failed    *)
(* (retries used up), lost (worker killed) or dropped (never scheduled).   *)
(***************************************************************************)
EXTENDS OutreachPolicy, Sequences, FiniteSets

CONSTANTS
    Leads,          \* the contacts of the workspace
    Texts,          \* what a contact may write: "stop" is an opt-out, "plain" is not
    MaxInbound,     \* bound: inbound messages per lead
    MaxRetries,     \* generate_ai_reply's max_retries (2)
    NonLeadTurns,   \* inbound turns before a non-lead may be dropped (3)
    MaxDay,         \* bound: midnights
    MaxClicks,      \* bound: requests of the dashboard
    MaxPosts,       \* bound: the promos post only while fewer messages left that day
    Faults          \* the faults of the environment this instance allows

FaultKinds == {"exception", "worker_kill", "broker", "redis_set", "redis_get",
               "redis_expiry"}

ASSUME ReplyAgentAssumption ==
    /\ Texts \subseteq {"stop", "plain"}
    /\ MaxInbound \in Nat \ {0}
    /\ MaxRetries \in Nat
    /\ NonLeadTurns \in Nat \ {0}
    /\ MaxDay \in Nat
    /\ MaxClicks \in Nat
    /\ MaxPosts \in Nat
    /\ Faults \subseteq FaultKinds

VARIABLES
    workspace,  \* the workspace row
    lead,       \* the lead rows
    convo,      \* the conversation rows
    messages,   \* the message rows of each lead, in timestamp order
    token,      \* Redis: the message that holds the debounce slot, 0 if none
    today,      \* the date (UTC)
    clicks,     \* requests the dashboard has made
    inbox,      \* the open inbox reply to each lead: what it has loaded
    pc,         \* where each task is
    retries,    \* the retries each task has used
    local,      \* what each running task remembers
    replies,    \* history: SENT rows committed by each task
    sends,      \* history: send jobs each task handed to the broker
    charged,    \* history: jobs handed over and inbox replies booked, per day
    straddled   \* history: a typing pause or an inbox reply spanned midnight

rows == <<workspace, lead, convo, messages>>
tasks == <<pc, retries, local>>
history == <<replies, sends, charged, straddled>>
vars == <<workspace, lead, convo, messages, token, today, clicks, inbox,
          pc, retries, local, replies, sends, charged, straddled>>

Inbound == 1..MaxInbound

Running == {"queued", "thinking", "confirmed", "replied", "typing", "drafted"}

Ended == {"agent_off", "silenced", "opted_out", "superseded", "draft", "sent",
          "failed", "lost"}

TaskState == {"none", "stored", "dropped"} \cup Running \cup Ended

(* A message row.  The text matters only as far as detect_opt_out() tells  *)
(* it apart, and whether it carries the disclosure line.                   *)
MessageRow ==
    [role : {"USER", "AGENT", "HUMAN"},
     text : {"stop", "plain", "disclosed"},
     sent : BOOLEAN]

(* What a task keeps in memory: from the reads before the LLM call, whether*)
(* the thread had no agent message, the auto-send switches and whether the *)
(* thread is long enough to drop a non-lead; from the read before the      *)
(* typing pause, the counter.  The webhooks always pass auto_send_allowed, *)
(* and the pipeline never returns an empty reply: neither is a condition.  *)
TaskLocal ==
    [first     : BOOLEAN,
     auto      : BOOLEAN,
     may_drop  : BOOLEAN,
     sent      : Nat,
     reset_day : Nat]

NoLocal ==
    [first |-> FALSE, auto |-> FALSE, may_drop |-> FALSE,
     sent |-> 0, reset_day |-> 0]

(* The rows an inbox reply has loaded, as far as its commit compares them; *)
(* each lead has at most one reply open (a bound).                         *)
InboxReply ==
    [phase : {"loaded"}, sent : Nat, reset_day : Nat, human_takeover : BOOLEAN,
     status : {"active", "paused", "ended"}, needs_response : BOOLEAN]

NoReply == [phase |-> "none"]

RowsOK ==
    /\ workspace \in WorkspaceRow
    /\ lead \in [Leads -> LeadRow]
    /\ convo \in [Leads -> [human_takeover : BOOLEAN,
                            status : {"active", "paused", "ended"}]]
    /\ messages \in [Leads -> Seq(MessageRow)]

TasksOK ==
    /\ pc \in [Leads -> [Inbound -> TaskState]]
    /\ retries \in [Leads -> [Inbound -> 0..MaxRetries]]
    /\ local \in [Leads -> [Inbound -> TaskLocal]]

HistoryOK ==
    /\ replies \in [Leads -> [Inbound -> Nat]]
    /\ sends \in [Leads -> [Inbound -> Nat]]
    /\ charged \in [0..MaxDay -> Nat]
    /\ straddled \in BOOLEAN

TypeOK ==
    /\ RowsOK
    /\ token \in [Leads -> 0..MaxInbound]
    /\ today \in 0..MaxDay
    /\ clicks \in 0..MaxClicks
    /\ inbox \in [Leads -> InboxReply \cup {NoReply}]
    /\ TasksOK
    /\ HistoryOK

(* The tenant has gone live, with the default configuration, and nobody    *)
(* has written yet.                                                        *)
Init ==
    /\ workspace = [agent_enabled |-> TRUE, is_running |-> TRUE,
                    auto_send |-> TRUE, sent |-> 0, reset_day |-> 0]
    /\ lead = [l \in Leads |->
                 [do_not_contact |-> FALSE, last_inbound |-> "never",
                  meeting |-> "OPEN", needs_response |-> FALSE]]
    /\ convo = [l \in Leads |-> [human_takeover |-> FALSE, status |-> "active"]]
    /\ messages = [l \in Leads |-> <<>>]
    /\ token = [l \in Leads |-> 0]
    /\ today = 0
    /\ clicks = 0
    /\ inbox = [l \in Leads |-> NoReply]
    /\ pc = [l \in Leads |-> [i \in Inbound |-> "none"]]
    /\ retries = [l \in Leads |-> [i \in Inbound |-> 0]]
    /\ local = [l \in Leads |-> [i \in Inbound |-> NoLocal]]
    /\ replies = [l \in Leads |-> [i \in Inbound |-> 0]]
    /\ sends = [l \in Leads |-> [i \in Inbound |-> 0]]
    /\ charged = [d \in 0..MaxDay |-> 0]
    /\ straddled = FALSE

-----------------------------------------------------------------------------
(* Inbound.                                                                *)

Goto(l, i, state) == pc' = [pc EXCEPT ![l][i] = state]

Rows(l, role) == {k \in DOMAIN messages[l] : messages[l][k].role = role}

AddMessage(l, role, text, sent) ==
    messages' = [messages EXCEPT
                   ![l] = Append(@, [role |-> role, text |-> text, sent |-> sent])]

(* ingest_wacli_message up to its commit.  The webhook endpoint is a       *)
(* coroutine that runs this synchronously, so one call ends before the     *)
(* next begins: no other message is between its commit and its scheduling. *)
Ingest(l, i, text) ==
    /\ \A k \in Leads, j \in Inbound : pc[k][j] # "stored"
    /\ pc[l][i] = "none"
    /\ \A j \in Inbound : j < i => pc[l][j] # "none"
    /\ AddMessage(l, "USER", text, TRUE)
    /\ lead' = [lead EXCEPT ![l] =
                 [@ EXCEPT !.last_inbound = "recent", !.needs_response = TRUE]]
    /\ convo' = [convo EXCEPT ![l].status = IF @ = "ended" THEN "active" ELSE @]
    /\ Goto(l, i, "stored")
    /\ UNCHANGED <<workspace, token, today, clicks, inbox, retries, local, history>>

(* Mutant: SET NX, a slot that is taken stays taken.                       *)
SetPendingReplyIfFree(l, i) == {[token EXCEPT ![l] = IF @ = 0 THEN i ELSE @]}

(* The slots set_pending_reply may leave: a failing Redis SET is swallowed.*)
SetPendingReply(l, i) ==
    {[token EXCEPT ![l] = i]} \cup {t \in {token} : "redis_set" \in Faults}

(* set_pending_reply, then apply_async.                                    *)
Schedule(l, i) ==
    /\ pc[l][i] = "stored"
    /\ token' \in SetPendingReply(l, i)
    /\ Goto(l, i, "queued")
    /\ UNCHANGED <<rows, today, clicks, inbox, retries, local, history>>

(* apply_async raised, or the web process died first: the message stays in *)
(* the database, its webhook retry is a "duplicate", and no task exists.   *)
ScheduleFails(l, i) ==
    /\ "broker" \in Faults
    /\ pc[l][i] = "stored"
    /\ token' \in {token} \cup SetPendingReply(l, i)
    /\ Goto(l, i, "dropped")
    /\ UNCHANGED <<rows, today, clicks, inbox, retries, local, history>>

(* The Redis key is gone after 180 s, whether the task has run or not.     *)
TokenExpires(l) ==
    /\ "redis_expiry" \in Faults
    /\ token[l] # 0
    /\ token' = [token EXCEPT ![l] = 0]
    /\ UNCHANGED <<rows, today, clicks, inbox, tasks, history>>

-----------------------------------------------------------------------------
(* The reply task, before the LLM call: the early returns in their order.  *)

TaskEnds(l, i, state) ==
    /\ Goto(l, i, state)
    /\ local' = [local EXCEPT ![l][i] = NoLocal]
    /\ UNCHANGED retries

HeldByPeople(l) == convo[l].human_takeover \/ lead[l].meeting = "CONFIRMED"

(* Only the newest row of the thread is looked at, whoever wrote it.       *)
LatestIsOptOut(l) ==
    messages[l] # <<>> /\ messages[l][Len(messages[l])].text = "stop"

HoldsSlot(l, i) == token[l] \in {0, i} \/ "redis_get" \in Faults

AgentOff(l, i) ==
    /\ pc[l][i] = "queued"
    /\ ~workspace.agent_enabled
    /\ TaskEnds(l, i, "agent_off")
    /\ UNCHANGED <<rows, token, today, clicks, inbox, history>>

Silenced(l, i) ==
    /\ pc[l][i] = "queued"
    /\ workspace.agent_enabled
    /\ HeldByPeople(l)
    /\ lead' = [lead EXCEPT ![l].needs_response = FALSE]
    /\ TaskEnds(l, i, "silenced")
    /\ UNCHANGED <<workspace, convo, messages, token, today, clicks, inbox, history>>

HonorOptOut(l, i) ==
    /\ pc[l][i] = "queued"
    /\ workspace.agent_enabled
    /\ ~HeldByPeople(l)
    /\ LatestIsOptOut(l)
    /\ lead' = [lead EXCEPT ![l] =
                 [@ EXCEPT !.do_not_contact = TRUE, !.needs_response = FALSE]]
    /\ convo' = [convo EXCEPT ![l].status = "ended"]
    /\ TaskEnds(l, i, "opted_out")
    /\ UNCHANGED <<workspace, messages, token, today, clicks, inbox, history>>

(* Mutant: an expired slot counts as somebody else's.                      *)
SupersededByExpiry(l, i) ==
    /\ pc[l][i] = "queued"
    /\ workspace.agent_enabled
    /\ ~HeldByPeople(l)
    /\ ~LatestIsOptOut(l)
    /\ token[l] # i
    /\ TaskEnds(l, i, "superseded")
    /\ UNCHANGED <<rows, token, today, clicks, inbox, history>>

Superseded(l, i) ==
    /\ pc[l][i] = "queued"
    /\ workspace.agent_enabled
    /\ ~HeldByPeople(l)
    /\ ~LatestIsOptOut(l)
    /\ token[l] \notin {0, i}
    /\ TaskEnds(l, i, "superseded")
    /\ UNCHANGED <<rows, token, today, clicks, inbox, history>>

(* The task takes its snapshots and calls the LLM, which takes seconds.    *)
Think(l, i) ==
    /\ pc[l][i] = "queued"
    /\ workspace.agent_enabled
    /\ ~HeldByPeople(l)
    /\ ~LatestIsOptOut(l)
    /\ HoldsSlot(l, i)
    /\ local' = [local EXCEPT ![l][i] =
                   [NoLocal EXCEPT
                      !.first = (Rows(l, "AGENT") = {}),
                      !.auto = workspace.auto_send,
                      !.may_drop = (Cardinality(Rows(l, "USER")) >= NonLeadTurns)]]
    /\ Goto(l, i, "thinking")
    /\ UNCHANGED <<rows, token, today, clicks, inbox, retries, history>>

-----------------------------------------------------------------------------
(* After the LLM call.                                                     *)

StopNonLead(l, i) ==
    /\ pc[l][i] = "thinking"
    /\ local[l][i].may_drop
    /\ lead' = [lead EXCEPT ![l].needs_response = FALSE]
    /\ TaskEnds(l, i, "silenced")
    /\ UNCHANGED <<workspace, convo, messages, token, today, clicks, inbox, history>>

(* meeting_confirmed: committed by the log entry, before the reply exists. *)
ConfirmMeeting(l, i) ==
    /\ pc[l][i] = "thinking"
    /\ lead' = [lead EXCEPT ![l] =
                 [@ EXCEPT !.meeting = "CONFIRMED", !.needs_response = FALSE]]
    /\ convo' = [convo EXCEPT ![l].status = "ended"]
    /\ Goto(l, i, "confirmed")
    /\ UNCHANGED <<workspace, messages, token, today, clicks, inbox, retries, local, history>>

(* The reply with the disclosure line in front, if it is the first.        *)
EnsureDisclosure(is_first) == IF is_first THEN "disclosed" ELSE "plain"

(* The gate reads fresh rows; the switches are the snapshot.  The reply is *)
(* committed as SENT or as a DRAFT, with the lead columns and, when the    *)
(* quota test ran, the counter it may have reset.                          *)
AutoSend(l, i) ==
    /\ Gate(workspace, lead[l], "agent_reply")
    /\ local[l][i].auto
    /\ DailyQuotaAvailable(workspace, today)

CommitReply(l, i, meeting) ==
    /\ \/ /\ pc[l][i] = "thinking"
          /\ meeting \in {lead[l].meeting, "REQUESTED"}
          /\ lead' = [lead EXCEPT ![l] =
                 [@ EXCEPT !.needs_response = FALSE, !.meeting = meeting]]
       \/ /\ pc[l][i] = "confirmed"
          /\ meeting = lead[l].meeting
          /\ UNCHANGED lead
    /\ workspace' = IF Gate(workspace, lead[l], "agent_reply") /\ local[l][i].auto
                    THEN ResetIfNewDay(workspace, today)
                    ELSE workspace
    /\ AddMessage(l, "AGENT", EnsureDisclosure(local[l][i].first), AutoSend(l, i))
    /\ Goto(l, i, IF AutoSend(l, i) THEN "replied" ELSE "drafted")
    /\ replies' = IF AutoSend(l, i)
                  THEN [replies EXCEPT ![l][i] = @ + 1]
                  ELSE replies
    /\ UNCHANGED <<convo, token, today, clicks, inbox, retries, local, sends, charged, straddled>>

(* The activity log and the listening row: the last commit of a draft.     *)
FinishDraft(l, i) ==
    /\ pc[l][i] = "drafted"
    /\ TaskEnds(l, i, "draft")
    /\ UNCHANGED <<rows, token, today, clicks, inbox, history>>

(* _resolve_provider touches the expired workspace row, which loads every  *)
(* column of it, the counter included; then the task sleeps for seconds.   *)
BeginTyping(l, i) ==
    /\ pc[l][i] = "replied"
    /\ local' = [local EXCEPT ![l][i] =
                   [@ EXCEPT !.sent = workspace.sent, !.reset_day = workspace.reset_day]]
    /\ Goto(l, i, "typing")
    /\ UNCHANGED <<rows, token, today, clicks, inbox, retries, history>>

HandOver(l, i) ==
    /\ sends' = [sends EXCEPT ![l][i] = @ + 1]
    /\ charged' = [charged EXCEPT ![today] = @ + 1]
    /\ UNCHANGED replies

(* The row the session loaded before the pause.                            *)
Loaded(l, i) ==
    [workspace EXCEPT !.sent = local[l][i].sent, !.reset_day = local[l][i].reset_day]

Deliver(l, i) ==
    /\ pc[l][i] = "typing"
    /\ HandOver(l, i)
    /\ workspace' = Flushed(workspace, Loaded(l, i), BumpSentCounter(Loaded(l, i), today))
    /\ straddled' = (straddled \/ local[l][i].reset_day # today)
    /\ TaskEnds(l, i, "sent")
    /\ UNCHANGED <<lead, convo, messages, token, today, clicks, inbox>>

-----------------------------------------------------------------------------
(* Faults of the task.                                                     *)

(* Mutant: no limit on the retries.                                        *)
RunAgainForever(l, i) ==
    /\ local' = [local EXCEPT ![l][i] = NoLocal]
    /\ retries' = [retries EXCEPT ![l][i] = @ + 1]
    /\ Goto(l, i, "queued")

(* Mutant: a retry that does not count as one.                             *)
RunAgainUncounted(l, i) ==
    /\ local' = [local EXCEPT ![l][i] = NoLocal]
    /\ Goto(l, i, "queued")
    /\ UNCHANGED retries

(* Rollback; autoretry_for=(Exception,) runs the task again from the top.  *)
RunAgain(l, i) ==
    /\ local' = [local EXCEPT ![l][i] = NoLocal]
    /\ IF retries[l][i] < MaxRetries
       THEN /\ retries' = [retries EXCEPT ![l][i] = @ + 1]
            /\ Goto(l, i, "queued")
       ELSE /\ Goto(l, i, "failed")
            /\ UNCHANGED retries

(* A database or broker error, wherever the task is.                       *)
TaskFails(l, i) ==
    /\ "exception" \in Faults
    /\ pc[l][i] \in Running
    /\ RunAgain(l, i)
    /\ UNCHANGED <<rows, token, today, clicks, inbox, history>>

(* The job was handed over, the commit after it failed.                    *)
DeliverUnrecorded(l, i) ==
    /\ "exception" \in Faults
    /\ pc[l][i] = "typing"
    /\ HandOver(l, i)
    /\ RunAgain(l, i)
    /\ UNCHANGED <<rows, token, today, clicks, inbox, straddled>>

(* Tasks are acknowledged when they start: a killed worker loses its task. *)
WorkerKilled(l, i) ==
    /\ "worker_kill" \in Faults
    /\ pc[l][i] \in Running \ {"queued"}
    /\ TaskEnds(l, i, "lost")
    /\ UNCHANGED <<rows, token, today, clicks, inbox, history>>

-----------------------------------------------------------------------------
(* The dashboard.                                                          *)

Click == clicks < MaxClicks /\ clicks' = clicks + 1

(* POST /conversations/{id}/messages is a plain function, so it runs in a  *)
(* thread.  It loads its rows and asks the gate and the quota of them; one *)
(* that is refused, or that dies before its commit, leaves nothing behind. *)
OpenReply(l) ==
    /\ Click
    /\ messages[l] # <<>>
    /\ inbox[l] = NoReply
    /\ Gate(workspace, lead[l], "human_approved")
    /\ DailyQuotaAvailable(workspace, today)
    /\ inbox' = [inbox EXCEPT ![l] =
                   [phase |-> "loaded",
                    sent |-> workspace.sent,
                    reset_day |-> workspace.reset_day,
                    human_takeover |-> convo[l].human_takeover,
                    status |-> convo[l].status,
                    needs_response |-> lead[l].needs_response]]
    /\ UNCHANGED <<rows, token, today, tasks, history>>

LoadedByInbox(l) ==
    [workspace EXCEPT !.sent = inbox[l].sent, !.reset_day = inbox[l].reset_day]

(* Then it commits the HUMAN row, the takeover and the counter, naming the *)
(* columns that differ from what it loaded; whether the broker then takes  *)
(* the job is only logged.                                                 *)
SendReply(l) ==
    LET loaded == inbox[l] IN
    /\ loaded # NoReply
    /\ AddMessage(l, "HUMAN", "plain", TRUE)
    /\ convo' = [convo EXCEPT ![l] =
                 [human_takeover |-> convo[l].human_takeover \/ ~loaded.human_takeover,
                  status |-> IF loaded.status = "paused" THEN convo[l].status ELSE "paused"]]
    /\ lead' = [lead EXCEPT ![l].needs_response = @ /\ ~loaded.needs_response]
    /\ workspace' = Flushed(workspace, LoadedByInbox(l),
                            BumpSentCounter(LoadedByInbox(l), today))
    /\ charged' = [charged EXCEPT ![today] = @ + 1]
    /\ inbox' = [inbox EXCEPT ![l] = NoReply]
    /\ UNCHANGED <<token, today, clicks, tasks, replies, sends, straddled>>

ToggleTakeover(l, on) ==
    /\ Click
    /\ messages[l] # <<>>
    /\ convo' = [convo EXCEPT ![l] =
                 [@ EXCEPT !.human_takeover = on, !.status = IF on THEN "paused" ELSE "active"]]
    /\ UNCHANGED <<workspace, lead, messages, token, today, inbox, tasks, history>>

(* PATCH /leads/{id}: the do-not-contact flag, and the meeting status.     *)
UpdateLead(l, dnc, meeting) ==
    /\ Click
    /\ messages[l] # <<>>
    /\ lead' = [lead EXCEPT ![l] =
                 [@ EXCEPT !.do_not_contact = dnc, !.meeting = meeting]]
    /\ UNCHANGED <<workspace, convo, messages, token, today, inbox, tasks, history>>

(* PATCH /leads/{id}: the columns the agent reads, but for the meeting.    *)
PatchLead(l, dnc) == UpdateLead(l, dnc, lead[l].meeting)

(* What each switch of the dashboard makes of the two columns.             *)
AgentStart(enabled, running) == enabled /\ running

AgentStop(enabled, running) == enabled = workspace.agent_enabled /\ ~running

AuthLogout(enabled, running) == ~enabled /\ ~running

ToggleAgent(enabled, running) == running = workspace.is_running

SwitchAgent(enabled, running) ==
    /\ Click
    /\ \/ AgentStart(enabled, running)
       \/ AgentStop(enabled, running)
       \/ AuthLogout(enabled, running)
       \/ ToggleAgent(enabled, running)
    /\ workspace' = [workspace EXCEPT !.agent_enabled = enabled,
                                      !.is_running = running]
    /\ UNCHANGED <<lead, convo, messages, token, today, inbox, tasks, history>>

SaveSettings(auto) ==
    /\ Click
    /\ workspace' = [workspace EXCEPT !.auto_send = auto]
    /\ UNCHANGED <<lead, convo, messages, token, today, inbox, tasks, history>>

-----------------------------------------------------------------------------
(* Time, and the beat.                                                     *)

(* send_group_promos, every 30 minutes: its quota test resets the counter. *)
(* A later error rolls the counter back and leaves the jobs in the broker. *)
SendGroupPromos(posts) ==
    /\ workspace.agent_enabled /\ workspace.is_running
    /\ \/ /\ posts
          /\ DailyQuotaAvailable(workspace, today)
          /\ charged[today] < MaxPosts
          /\ workspace' = BumpSentCounter(workspace, today)
          /\ charged' = [charged EXCEPT ![today] = @ + 1]
       \/ /\ ~posts
          /\ workspace' = ResetIfNewDay(workspace, today)
          /\ UNCHANGED charged
       \/ /\ posts
          /\ "exception" \in Faults
          /\ DailyQuotaAvailable(workspace, today)
          /\ charged[today] < MaxPosts
          /\ charged' = [charged EXCEPT ![today] = @ + 1]
          /\ UNCHANGED workspace
    /\ UNCHANGED <<lead, convo, messages, token, today, clicks, inbox, tasks,
                   replies, sends, straddled>>

WindowCloses(l) ==
    /\ lead[l].last_inbound = "recent"
    /\ lead' = [lead EXCEPT ![l].last_inbound = "old"]
    /\ UNCHANGED <<workspace, convo, messages, token, today, clicks, inbox, tasks, history>>

Midnight ==
    /\ today < MaxDay
    /\ today' = today + 1
    /\ straddled' = (straddled \/ \E l \in Leads : inbox[l] # NoReply)
    /\ UNCHANGED <<rows, token, clicks, inbox, tasks, replies, sends, charged>>

-----------------------------------------------------------------------------

Web(l, i) ==
    \/ \E text \in Texts : Ingest(l, i, text)
    \/ Schedule(l, i)
    \/ ScheduleFails(l, i)

TaskStep(l, i) ==
    \/ AgentOff(l, i)
    \/ Silenced(l, i)
    \/ HonorOptOut(l, i)
    \/ Superseded(l, i)
    \/ Think(l, i)
    \/ StopNonLead(l, i)
    \/ ConfirmMeeting(l, i)
    \/ \E meeting \in MeetingStatus : CommitReply(l, i, meeting)
    \/ FinishDraft(l, i)
    \/ BeginTyping(l, i)
    \/ Deliver(l, i)

TaskFault(l, i) ==
    \/ TaskFails(l, i)
    \/ DeliverUnrecorded(l, i)
    \/ WorkerKilled(l, i)

Dashboard ==
    \/ \E l \in Leads : OpenReply(l) \/ SendReply(l)
    \/ \E l \in Leads, on \in BOOLEAN : ToggleTakeover(l, on)
    \/ \E l \in Leads, dnc \in BOOLEAN, meeting \in MeetingStatus :
         UpdateLead(l, dnc, meeting)
    \/ \E l \in Leads, dnc \in BOOLEAN : PatchLead(l, dnc)
    \/ \E enabled \in BOOLEAN, running \in BOOLEAN : SwitchAgent(enabled, running)
    \/ \E auto \in BOOLEAN : SaveSettings(auto)

Clock ==
    \/ \E posts \in BOOLEAN : SendGroupPromos(posts)
    \/ \E l \in Leads : TokenExpires(l)
    \/ \E l \in Leads : WindowCloses(l)
    \/ Midnight

Next ==
    \/ \E l \in Leads, i \in Inbound : Web(l, i) \/ TaskStep(l, i) \/ TaskFault(l, i)
    \/ Dashboard
    \/ Clock

Spec == Init /\ [][Next]_vars

(* The web process finishes a call it began, and the Celery workers take   *)
(* up and run every task; the LLM call has a timeout.  Nothing else is     *)
(* fair: people, faults and the clock owe nobody a step.                   *)
FairSpec ==
    /\ Spec
    /\ \A l \in Leads, i \in Inbound :
         /\ WF_vars(Schedule(l, i) \/ ScheduleFails(l, i))
         /\ WF_vars(TaskStep(l, i))

-----------------------------------------------------------------------------
(* Properties.                                                             *)

(* However often a task fails and is run again, one inbound message leads  *)
(* to at most MaxRetries + 1 replies, and a send job never leaves without  *)
(* a SENT row of its own behind it (generate_ai_reply commits the row      *)
(* before it calls enqueue_agent_outbound).                                *)
RetryAmplificationBounded ==
    \A l \in Leads, i \in Inbound :
        /\ replies[l][i] <= retries[l][i] + 1
        /\ sends[l][i] <= replies[l][i]

(* A reply skipped as superseded always has the task of a newer message    *)
(* behind it: debouncing merges replies and loses none.                    *)
SupersededIsCovered ==
    \A l \in Leads, i \in Inbound :
        pc[l][i] = "superseded" =>
            \E j \in Inbound : j > i /\ pc[l][j] \in Running \cup Ended

(* While a contact is opted out, or outside the 24 h window, nothing new    *)
(* to it gets past the gate, however the flag changes around a running     *)
(* task or an open inbox reply: jobs still leave, and HUMAN rows are still *)
(* booked, only for what was past the gate before.  While the agent is off *)
(* the same holds of the tasks.  (So the typing pause, and an inbox reply  *)
(* that has asked the gate, let one message out after the opt-out, where   *)
(* wa-saas-compliance/SKILL.md promises that future sends are blocked.)   *)
Outbound(l) ==
    {k \in DOMAIN messages[l] : messages[l][k].role # "USER" /\ messages[l][k].sent}

PastGate(l, i) == sends[l][i] + (IF pc[l][i] \in {"replied", "typing"} THEN 1 ELSE 0)

Unreachable(l) == lead[l].do_not_contact \/ lead[l].last_inbound # "recent"

NoSendWithoutBasis ==
    [][\A l \in Leads :
         /\ Unreachable(l) \/ ~(workspace.agent_enabled /\ workspace.is_running)
              => \A i \in Inbound : PastGate(l, i)' <= PastGate(l, i)
         /\ Unreachable(l)
              => /\ inbox'[l] \in {inbox[l], NoReply}
                 /\ Outbound(l)' = Outbound(l) \/ inbox'[l] # inbox[l]]_vars

(* messages_sent_today never charges a tenant for more messages than were *)
(* handed over on that day, for all the lost updates between typing pauses *)
(* and requests; a person's reply counts when it is booked, for the code   *)
(* only logs a broker that refuses it.  The one exception is a reply, of   *)
(* the agent or of a person, that was under way at midnight.               *)
CounterNeverOvercounts ==
    straddled \/ workspace.sent <= charged[workspace.reset_day]

(* Every scheduled message is dealt with in the end, by its own task or by *)
(* that of a later message of the burst.                                   *)
BurstIsHandled ==
    \A l \in Leads, i \in Inbound :
        pc[l][i] = "stored" ~>
            \E j \in Inbound : j >= i /\ pc[l][j] \in Ended \ {"superseded"}

(* What the documents say and the code does not do.                        *)

(* services/conversations.py: "human_takeover - when true, the agent must  *)
(* NOT auto-reply".                                                        *)
TakeoverSilencesAgent ==
    [][\A l \in Leads : convo[l].human_takeover => replies'[l] = replies[l]]_vars

(* ai_tasks.py: "Opt-out is honored immediately, before anything else": a  *)
(* task that starts on a thread with a "stop" in it goes no further,       *)
(* unless the opt-out was honored before and a person lifted it.           *)
OptOutIsHonored ==
    [][\A l \in Leads, i \in Inbound :
         /\ pc[l][i] = "queued"
         /\ pc'[l][i] = "thinking"
         /\ \E k \in DOMAIN messages[l] : messages[l][k].text = "stop"
         => \E j \in Inbound : pc[l][j] = "opted_out"]_vars

(* persona.py: "Disclosure is required on the first agent message of a     *)
(* thread": the first message the contact receives from the agent carries  *)
(* it.                                                                     *)
FromAgent(l) == {k \in Rows(l, "AGENT") : messages[l][k].sent}

DisclosureComesFirst ==
    \A l \in Leads : \A k \in FromAgent(l) :
        (\A n \in FromAgent(l) : k <= n) => messages[l][k].text = "disclosed"

(* outreach_policy.py: "per-tenant daily message cap": a reply is held     *)
(* back for the quota only when the messages of that day have used it up.  *)
DailyCapIsDaily ==
    [][\A l \in Leads, i \in Inbound :
         /\ pc[l][i] \in {"thinking", "confirmed"}
         /\ pc'[l][i] = "drafted"
         /\ DeniedByQuota(workspace, lead[l], "agent_reply")
         => charged[today] >= DailyLimit]_vars
=============================================================================
