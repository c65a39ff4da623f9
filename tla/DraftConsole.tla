---------------------------- MODULE DraftConsole ----------------------------
(***************************************************************************)
(* The people and the beats that send beside the agent: drafts approved in *)
(* the console (api/endpoints/mvp.py) or through the older endpoint        *)
(* (messages.py), manual messages, media, follow-up drafts and the posts   *)
(* in groups (tasks/followup_tasks.py).                                    *)
(*                                                                         *)
(* The endpoints are plain functions, so FastAPI runs them in threads: two *)
(* requests of a tenant, or a request and a beat, overlap.  A request that *)
(* sends is cut in three: it loads its rows and tests them (Load...), it   *)
(* commits, and it queues the job on rows read again after the commit.  An *)
(* UPDATE that matches no row fails the request (StaleDataError), and so   *)
(* does an INSERT whose lead is gone (foreign key).                        *)
(*                                                                         *)
(* None of this asks the compliance gate: only the daily quota is tested.  *)
(***************************************************************************)
EXTENDS OutreachPolicy, FiniteSets

CONSTANTS
    Contacts,       \* leads of the workspace
    MaxMessages,    \* bound: message rows
    MaxRequests,    \* bound: sending requests, numbered as they come
    Groups,         \* active target groups
    MaxDay,         \* bound: midnights
    MaxPosts,       \* bound: posts in one group within an interval
    MaxSent,        \* bound: no post once the counter is there
    MaxOpen         \* bound: transactions open at once

ASSUME DraftConsoleAssumption ==
    /\ MaxMessages \in Nat
    /\ MaxRequests \in Nat
    /\ MaxDay \in Nat
    /\ MaxPosts \in Nat
    /\ MaxSent \in Nat
    /\ MaxOpen \in Nat

VARIABLES
    workspace,      \* the workspace row
    contact,        \* the lead rows, as far as they decide here
    message,        \* the agent's message rows: lead and status
    group,          \* target_groups: due (no promo within the interval), posted, gone
    request,        \* the sending requests
    stale,          \* check_stale_leads: the leads it found, {} when it is not running
    promo,          \* the runs that post in groups, of the beat and of a person
    today,
    jobs,           \* history: send jobs queued for each message
    contested,      \* history: drafts with an approval begun while another was open
    told,           \* history: messages whose request ended in an error
    overlapped,     \* history: two transactions had loaded the counter at once
    tally,          \* history: of today, kept until overlapped (see Tally)
    posts,          \* history: posts in each group in the current interval
    excused         \* history: groups whose interval does not promise one post

rows == <<workspace, contact, message, group>>
history == <<jobs, contested, told, overlapped, tally, posts, excused>>
vars == <<rows, request, stale, promo, today, history>>

MessageIds == 1..MaxMessages

Requests == 1..MaxRequests

(* by: who wrote it, the hourly check or anybody else.                     *)
Row == [lead : Contacts, by : {"check", "other"}, status : {"DRAFT", "SENT"}]

NoRow == [status |-> "none"]

Gone == [status |-> "gone"]

(* What a request has loaded; on is its message, or the new one's lead.    *)
Loaded ==
    [op : {"approve", "approve_plain", "manual"}, phase : {"loaded", "committed"},
     on : MessageIds \cup Contacts, sent : Nat, reset_day : Nat]

Idle == [phase |-> "idle"]

(* Who posts in groups: the beat, or a person through trigger_outreach.    *)
Posters == {"beat", "person"}

(* A run that posts: the groups it has yet to look at and those it posted  *)
(* in, the workspace row as loaded and as changed since, and its posts of  *)
(* the day that row counts.                                                *)
Posting ==
    [left : SUBSET Groups, done : SUBSET Groups, loaded : WorkspaceRow,
     row : WorkspaceRow, counted : Nat, phase : {"posting"}]

(* left: jobs handed to the broker today.  unbooked: of these, the ones the *)
(* counter does not show: approvals by messages.py, posts of a run that    *)
(* was rolled back, what a reset wiped, jobs booked before midnight.       *)
(* refused: booked, but the job was not handed over.  untested: posts of   *)
(* trigger_outreach, which asks no quota, as far as the counter shows them.*)
Tally == [left : Nat, unbooked : Nat, refused : Nat, untested : Nat]

NoTally == [left |-> 0, unbooked |-> 0, refused |-> 0, untested |-> 0]

(* The tables, and the foreign key: a message's lead exists.               *)
RowsOK ==
    /\ workspace \in WorkspaceRow
    /\ contact \in [Contacts -> {"open", "closed", "deleted"}]
    /\ message \in [MessageIds -> Row \cup {NoRow, Gone}]
    /\ \A m \in MessageIds :
         message[m].status \in {"DRAFT", "SENT"} => contact[message[m].lead] # "deleted"
    /\ group \in [Groups -> {"due", "posted", "gone"}]

RunsOK ==
    /\ request \in [Requests -> Loaded \cup {Idle, [phase |-> "ended"]}]
    /\ stale \in SUBSET Contacts
    /\ promo \in [Posters -> Posting \cup {Idle}]
    /\ today \in 0..MaxDay

HistoryOK ==
    /\ jobs \in [MessageIds -> Nat]
    /\ contested \in SUBSET MessageIds
    /\ told \in SUBSET MessageIds
    /\ overlapped \in BOOLEAN
    /\ tally \in Tally
    /\ posts \in [Groups -> Nat]
    /\ excused \in SUBSET Groups

TypeOK == RowsOK /\ RunsOK /\ HistoryOK

Init ==
    /\ workspace = [agent_enabled |-> TRUE, is_running |-> TRUE,
                    auto_send |-> TRUE, sent |-> 0, reset_day |-> 0]
    /\ contact = [c \in Contacts |-> "open"]
    /\ message = [m \in MessageIds |-> NoRow]
    /\ group = [g \in Groups |-> "due"]
    /\ request = [r \in Requests |-> Idle]
    /\ stale = {}
    /\ promo = [by \in Posters |-> Idle]
    /\ today = 0
    /\ jobs = [m \in MessageIds |-> 0]
    /\ contested = {}
    /\ told = {}
    /\ overlapped = FALSE
    /\ tally = NoTally
    /\ posts = [g \in Groups |-> 0]
    /\ excused = {}

-----------------------------------------------------------------------------
(* Rows.                                                                   *)

Present == {c \in Contacts : contact[c] # "deleted"}

Drafts(c) ==
    {m \in MessageIds : message[m].status = "DRAFT" /\ message[m].lead = c}

(* The id a new row gets.                                                  *)
Fresh(m) ==
    /\ message[m] = NoRow
    /\ \A n \in MessageIds : n < m => message[n] # NoRow

(* The bound on what is open at once.                                      *)
RoomForOne ==
    Cardinality({r \in Requests : request[r].phase \in {"loaded", "committed"}})
    + Cardinality({by \in Posters : promo[by] # Idle})
    + (IF stale = {} THEN 0 ELSE 1) < MaxOpen

(* Transactions that have loaded the counter and will write it.            *)
CounterLoaded ==
    \/ \E by \in Posters : promo[by] # Idle
    \/ \E r \in Requests :
         request[r].phase = "loaded" /\ request[r].op # "approve_plain"

(* From the first overlap on the tally says nothing and is dropped.        *)
LoadCounter(new) ==
    /\ overlapped' = (overlapped \/ CounterLoaded)
    /\ tally' = IF overlapped' THEN NoTally ELSE new

Count(new) == tally' = IF overlapped THEN tally ELSE new

(* What the counter shows for today.                                       *)
Counter == IF workspace.reset_day = today THEN workspace.sent ELSE 0

(* Requests that are in the counter and whose job is still to be queued.   *)
Booked ==
    {r \in Requests : request[r].phase = "committed" /\ request[r].op # "approve_plain"}

(* Today's posts of a run that has not ended.                              *)
OpenPosts(by) ==
    IF promo[by] # Idle /\ promo[by].row.reset_day = today THEN promo[by].counted ELSE 0

-----------------------------------------------------------------------------
(* Sending requests, first part: load and test.                            *)

Load(r, op, on) ==
    /\ request[r] = Idle
    /\ \A q \in Requests : q < r => request[q] # Idle
    /\ RoomForOne
    /\ request' = [request EXCEPT ![r] =
                     [op |-> op, phase |-> "loaded", on |-> on,
                      sent |-> workspace.sent, reset_day |-> workspace.reset_day]]

OpenApproval(m) ==
    \E r \in Requests :
        /\ request[r].phase = "loaded"
        /\ request[r].op # "manual"
        /\ request[r].on = m

(* Mutant: anything that is not deleted can be approved, again and again.  *)
ApprovableTwice(m) == message[m].status \in {"DRAFT", "SENT"}

Approvable(m) == message[m].status = "DRAFT"

(* Mutant: the quota is looked at for approvals only.                      *)
NoQuotaTest(op) == op # "approve" \/ DailyQuotaAvailable(workspace, today)

QuotaTest(op) == op = "approve_plain" \/ DailyQuotaAvailable(workspace, today)

LoadApproval(r, op, m) ==
    /\ op \in {"approve", "approve_plain"}
    /\ Approvable(m)
    /\ QuotaTest(op)
    /\ Load(r, op, m)
    /\ contested' = IF OpenApproval(m) THEN contested \cup {m} ELSE contested
    /\ IF op = "approve" THEN LoadCounter(tally) ELSE UNCHANGED <<overlapped, tally>>
    /\ UNCHANGED <<rows, stale, promo, today, jobs, told, posts, excused>>

LoadManual(r, c) ==
    /\ c \in Present
    /\ QuotaTest("manual")
    /\ Load(r, "manual", c)
    /\ LoadCounter(tally)
    /\ UNCHANGED <<rows, stale, promo, today, jobs, contested, told, posts, excused>>

(* Second part: commit.                                                    *)

LoadedRow(r) ==
    [workspace EXCEPT !.sent = request[r].sent, !.reset_day = request[r].reset_day]

(* Mutant: bump_sent_counter forgotten.                                    *)
NoBump(r) == UNCHANGED workspace

BumpCounter(r) ==
    workspace' = Flushed(workspace, LoadedRow(r), BumpSentCounter(LoadedRow(r), today))

CommitApproval(r) ==
    LET m == request[r].on IN
    /\ request[r].phase = "loaded"
    /\ request[r].op # "manual"
    /\ message[m] # Gone
    /\ message' = [message EXCEPT ![m].status = "SENT"]
    /\ IF request[r].op = "approve" THEN BumpCounter(r) ELSE UNCHANGED workspace
    /\ request' = [request EXCEPT ![r].phase = "committed"]
    /\ UNCHANGED <<contact, group, stale, promo, today, history>>

CommitManual(r, m) ==
    LET c == request[r].on IN
    /\ request[r].phase = "loaded"
    /\ request[r].op = "manual"
    /\ c \in Present
    /\ Fresh(m)
    /\ message' = [message EXCEPT ![m] = [lead |-> c, by |-> "other", status |-> "SENT"]]
    /\ BumpCounter(r)
    /\ request' = [request EXCEPT ![r].phase = "committed", ![r].on = m]
    /\ UNCHANGED <<contact, group, stale, promo, today, history>>

(* The rows went away between load and commit: an error, nothing written.  *)
CommitStale(r) ==
    /\ request[r].phase = "loaded"
    /\ IF request[r].op = "manual"
       THEN request[r].on \notin Present
       ELSE message[request[r].on] = Gone
    /\ request' = [request EXCEPT ![r] = [phase |-> "ended"]]
    /\ UNCHANGED <<rows, stale, promo, today, history>>

(* Third part: queue the job.                                              *)

(* Mutant: the job is made from what was loaded before the commit.         *)
QueueUnread(r) ==
    LET m == request[r].on IN
    /\ request[r].phase = "committed"
    /\ jobs' = [jobs EXCEPT ![m] = @ + 1]
    /\ request' = [request EXCEPT ![r] = [phase |-> "ended"]]
    /\ Count([tally EXCEPT !.left = @ + 1,
                            !.unbooked = IF r \in Booked THEN @ ELSE @ + 1])
    /\ UNCHANGED <<rows, stale, promo, today, contested, told, overlapped, posts,
                   excused>>

(* Mutant: the request answers and forgets the job.                        *)
QueueNothing(r) ==
    /\ request[r].phase = "committed"
    /\ request' = [request EXCEPT ![r] = [phase |-> "ended"]]
    /\ UNCHANGED <<rows, stale, promo, today, history>>

(* The commit expired the objects: lead and message are read again.        *)
QueueJob(r) ==
    LET m == request[r].on IN
    /\ request[r].phase = "committed"
    /\ message[m] # Gone
    /\ jobs' = [jobs EXCEPT ![m] = @ + 1]
    /\ request' = [request EXCEPT ![r] = [phase |-> "ended"]]
    /\ Count([tally EXCEPT !.left = @ + 1,
                            !.unbooked = IF r \in Booked THEN @ ELSE @ + 1])
    /\ UNCHANGED <<rows, stale, promo, today, contested, told, overlapped, posts,
                   excused>>

(* The rows are gone, the broker refuses, or the process dies: the person  *)
(* gets no answer or an error, and the row, if any, stays SENT.            *)
QueueFails(r) ==
    /\ request[r].phase = "committed"
    /\ told' = told \cup {request[r].on}
    /\ request' = [request EXCEPT ![r] = [phase |-> "ended"]]
    /\ Count([tally EXCEPT !.refused = IF r \in Booked THEN @ + 1 ELSE @])
    /\ UNCHANGED <<rows, stale, promo, today, jobs, contested, overlapped, posts,
                   excused>>

-----------------------------------------------------------------------------
(* Requests of one transaction.                                            *)

(* add_followup; a draft of the reply agent is the same row.               *)
AddDraft(c, m) ==
    /\ c \in Present
    /\ Fresh(m)
    /\ message' = [message EXCEPT ![m] = [lead |-> c, by |-> "other", status |-> "DRAFT"]]
    /\ UNCHANGED <<workspace, contact, group, request, stale, promo, today, jobs,
                   contested, told, tally, overlapped, posts, excused>>

(* convert, and the do-not-contact patch: the lead is not followed up any  *)
(* more.                                                                   *)
Close(c) ==
    /\ contact[c] = "open"
    /\ contact' = [contact EXCEPT ![c] = "closed"]
    /\ UNCHANGED <<workspace, message, group, request, stale, promo, today, history>>

(* The do-not-contact patch, taken back, and a meeting that is off.        *)
Reopen(c) ==
    /\ contact[c] = "closed"
    /\ contact' = [contact EXCEPT ![c] = "open"]
    /\ UNCHANGED <<workspace, message, group, request, stale, promo, today, history>>

(* Mutant: no cascade.                                                     *)
KeepMessagesOf(leads) == message

WithoutMessagesOf(leads) ==
    [m \in MessageIds |->
        IF message[m].status \in {"DRAFT", "SENT"} /\ message[m].lead \in leads
        THEN Gone
        ELSE message[m]]

(* The cascade takes the messages along.                                   *)
DeleteLead(c) ==
    /\ c \in Present
    /\ contact' = [contact EXCEPT ![c] = "deleted"]
    /\ message' = WithoutMessagesOf({c})
    /\ UNCHANGED <<workspace, group, request, stale, promo, today, history>>

ResetWorkspace ==
    /\ Present # {}
    /\ contact' = [c \in Contacts |-> "deleted"]
    /\ message' = WithoutMessagesOf(Contacts)
    /\ group' = [g \in Groups |-> "gone"]
    /\ workspace' = [workspace EXCEPT !.sent = 0, !.is_running = FALSE]
    /\ LoadCounter([tally EXCEPT !.unbooked = @ + Counter, !.untested = 0])
    /\ UNCHANGED <<request, stale, promo, today, jobs, contested, told, posts, excused>>

-----------------------------------------------------------------------------
(* check_stale_leads, every hour: one transaction over all leads.          *)

AgentOn == workspace.agent_enabled /\ workspace.is_running

(* Mutant: a lead with an open draft gets another one.                     *)
StaleAgain == {c \in Contacts : contact[c] = "open"}

Stale == {c \in Contacts : contact[c] = "open" /\ Drafts(c) = {}}

(* Any of them may have written too recently.                              *)
FindStale(found) ==
    /\ AgentOn
    /\ stale = {}
    /\ RoomForOne
    /\ found # {}
    /\ found \subseteq Stale
    /\ stale' = found
    /\ UNCHANGED <<rows, request, promo, today, history>>

CommitFollowups(row) ==
    /\ stale # {}
    /\ stale \subseteq Present
    /\ row \in [stale -> MessageIds]
    /\ \A b, c \in stale : b # c => row[b] # row[c]
    /\ \A m \in MessageIds :
         (\E c \in stale : m <= row[c]) /\ message[m] = NoRow => \E c \in stale : row[c] = m
    /\ \A c \in stale : message[row[c]] = NoRow
    /\ message' = [m \in MessageIds |->
                     IF \E c \in stale : row[c] = m
                     THEN [lead |-> CHOOSE c \in stale : row[c] = m, by |-> "check", status |-> "DRAFT"]
                     ELSE message[m]]
    /\ stale' = {}
    /\ UNCHANGED <<workspace, contact, group, request, promo, today, history>>

(* One deleted lead rolls the drafts of all leads back.                    *)
FollowupsFail ==
    /\ stale # {}
    /\ ~(stale \subseteq Present)
    /\ stale' = {}
    /\ UNCHANGED <<rows, request, promo, today, history>>

-----------------------------------------------------------------------------
(* Posts in groups.                                                        *)

StartPosting(by, groups) ==
    /\ promo[by] = Idle
    /\ RoomForOne
    /\ groups # {}
    /\ promo' = [promo EXCEPT ![by] =
                   [left |-> groups, done |-> {}, loaded |-> workspace,
                    row |-> IF by = "beat" THEN ResetIfNewDay(workspace, today) ELSE workspace,
                    counted |-> 0, phase |-> "posting"]]
    /\ LoadCounter(tally)
    /\ UNCHANGED <<rows, request, stale, today, jobs, contested, told, posts, excused>>

(* Mutant: the beat does not look at last_promo_sent_at.                   *)
DueAnyway == {g \in Groups : group[g] # "gone"}

Due == {g \in Groups : group[g] = "due"}

(* send_group_promos for this workspace, every 30 minutes.                 *)
StartBeat ==
    /\ AgentOn
    /\ DailyQuotaAvailable(workspace, today)
    /\ StartPosting("beat", Due)

(* trigger_outreach: every active group, neither interval nor quota.       *)
TriggerOutreach == StartPosting("person", {g \in Groups : group[g] # "gone"})

(* The job is queued at once; the beat stops when the quota is used up.    *)
PostIn(by, g) ==
    LET run == promo[by] IN
    /\ run # Idle
    /\ g \in run.left
    /\ (by = "beat" => DailyQuotaAvailable(run.row, today))
    /\ posts[g] < MaxPosts
    /\ ResetIfNewDay(run.row, today).sent < MaxSent
    /\ posts' = [posts EXCEPT ![g] = @ + 1]
    /\ excused' = IF by = "person" THEN excused \cup {g} ELSE excused
    /\ promo' = [promo EXCEPT ![by] =
                   [run EXCEPT !.left = @ \ {g}, !.done = @ \cup {g},
                               !.row = BumpSentCounter(run.row, today),
                               !.counted = IF run.row.reset_day = today THEN @ + 1 ELSE 1]]
    /\ Count([tally EXCEPT !.left = @ + 1])
    /\ UNCHANGED <<rows, request, stale, today, jobs, contested, told, overlapped>>

(* The only commit of the run.                                             *)
CommitPosts(by) ==
    LET run == promo[by] IN
    /\ run # Idle
    /\ \/ run.left = {}
       \/ by = "beat" /\ ~DailyQuotaAvailable(run.row, today)
    /\ \A g \in run.done : group[g] # "gone"
    /\ group' = [g \in Groups |-> IF g \in run.done THEN "posted" ELSE group[g]]
    /\ workspace' = Flushed(workspace, run.loaded, run.row)
    /\ Count([tally EXCEPT !.untested = IF by = "person" THEN @ + OpenPosts(by) ELSE @])
    /\ promo' = [promo EXCEPT ![by] = Idle]
    /\ UNCHANGED <<contact, message, request, stale, today, jobs, contested, told,
                   overlapped, posts, excused>>

(* An error, or rows that are gone: the counter and last_promo_sent_at are *)
(* rolled back, the posts are not.                                         *)
PostsFail(by) ==
    LET run == promo[by] IN
    /\ run # Idle
    /\ excused' = IF by = "beat" THEN excused \cup run.done ELSE excused
    /\ promo' = [promo EXCEPT ![by] = Idle]
    /\ Count([tally EXCEPT !.unbooked = @ + OpenPosts(by)])
    /\ UNCHANGED <<rows, request, stale, today, jobs, contested, told, overlapped, posts>>

(* Hours, where a run takes seconds.                                       *)
IntervalPasses(g) ==
    /\ group[g] = "posted"
    /\ \A by \in Posters : promo[by] = Idle
    /\ group' = [group EXCEPT ![g] = "due"]
    /\ posts' = [posts EXCEPT ![g] = 0]
    /\ excused' = excused \ {g}
    /\ UNCHANGED <<workspace, contact, message, request, stale, promo, today, jobs,
                   contested, told, tally, overlapped>>

Midnight ==
    /\ today < MaxDay
    /\ today' = today + 1
    /\ Count([NoTally EXCEPT !.unbooked = Cardinality(Booked)])
    /\ UNCHANGED <<rows, request, stale, promo, jobs, contested, told, overlapped,
                   posts, excused>>

-----------------------------------------------------------------------------

RequestStep(r) ==
    \/ \E op \in {"approve", "approve_plain"}, m \in MessageIds : LoadApproval(r, op, m)
    \/ \E c \in Contacts : LoadManual(r, c)
    \/ CommitApproval(r)
    \/ \E m \in MessageIds : CommitManual(r, m)
    \/ CommitStale(r)
    \/ QueueJob(r)
    \/ QueueFails(r)

People ==
    \/ \E c \in Contacts, m \in MessageIds : AddDraft(c, m)
    \/ \E c \in Contacts : Close(c) \/ Reopen(c) \/ DeleteLead(c)
    \/ ResetWorkspace
    \/ TriggerOutreach

Beat ==
    \/ \E found \in SUBSET Contacts : FindStale(found)
    \/ \E row \in [stale -> MessageIds] : CommitFollowups(row)
    \/ FollowupsFail
    \/ StartBeat
    \/ \E by \in Posters, g \in Groups : PostIn(by, g)
    \/ \E by \in Posters : CommitPosts(by) \/ PostsFail(by)
    \/ \E g \in Groups : IntervalPasses(g)
    \/ Midnight

Next == (\E r \in Requests : RequestStep(r)) \/ People \/ Beat

Spec == Init /\ [][Next]_vars

(* A request that committed goes on, or its process dies.                  *)
FairSpec == Spec /\ \A r \in Requests : WF_vars(QueueJob(r) \/ QueueFails(r))

-----------------------------------------------------------------------------
(* Properties.                                                             *)

(* A job leaves for a row that is in the database as SENT at that moment:  *)
(* not for a draft whose approval is not committed yet, and not for a lead *)
(* that was deleted between the commit and the job.                        *)
JobsLeaveForSentRows ==
    [][\A m \in MessageIds :
         jobs'[m] # jobs[m] => message[m].status = "SENT"]_vars

(* One draft, one message: a draft is sent a second time only by an        *)
(* approval that overlapped another one before it committed; approvals one *)
(* after the other, of either endpoint, send it once.                      *)
SecondSendNeedsOverlap ==
    \A m \in MessageIds : jobs[m] <= 1 \/ m \in contested

(* While no two transactions hold the counter at once, the counter and     *)
(* what really left today differ by nothing but what Tally names: posts    *)
(* that are rolled back have left uncounted, as approvals by messages.py;  *)
(* a row whose job was refused is counted and has not left.                *)
CounterExactWhenSerial ==
    \/ overlapped
    \/ Counter + OpenPosts("beat") + OpenPosts("person") + tally.unbooked
         = tally.left + Cardinality(Booked) + tally.refused

(* And then what leaves on a day exceeds its limit by no more than what    *)
(* trigger_outreach adds and what left without the counter's knowledge.    *)
QuotaHoldsWhenSerial ==
    \/ overlapped
    \/ tally.left <= (IF DailyLimit = 0 THEN DefaultLimit ELSE DailyLimit)
                     + tally.untested + OpenPosts("person") + tally.unbooked

(* The hourly check never piles drafts up: whatever the order of           *)
(* approvals, deletions and checks, at most one of a lead's open drafts is *)
(* its own.                                                                *)
OneFollowupPerLead ==
    \A c \in Contacts : Cardinality({m \in Drafts(c) : message[m].by = "check"}) <= 1

(* A group gets one scheduled promo per interval; only trigger_outreach,   *)
(* or the rollback of a run that had posted, makes it get more.            *)
OnePromoPerInterval ==
    \A g \in Groups : posts[g] <= 1 \/ g \in excused

(* No row marked SENT waits for its job for ever: again and again each was *)
(* queued, or its person was told.                                         *)
SentIsQueuedOrTold ==
    []<>(\A m \in MessageIds :
            message[m].status = "SENT" => jobs[m] > 0 \/ m \in told)

=============================================================================
