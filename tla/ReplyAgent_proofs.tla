-------------------------- MODULE ReplyAgent_proofs --------------------------
(***************************************************************************)
(* Theorems about ReplyAgent, for every number of leads, messages, retries *)
(* and days.  Three inductive invariants carry them: RepliesInv says where *)
(* a task stands with its SENT rows and its send jobs, CounterInv what the *)
(* counter is worth in the row, in the tasks that wait out a typing pause  *)
(* and in open inbox replies, SlotInv which task holds the debounce slot.  *)
(***************************************************************************)
EXTENDS ReplyAgent, OutreachPolicy_proofs

-----------------------------------------------------------------------------
(* The inductive invariants.                                               *)

Scheduled(l, i) == pc[l][i] \in Running \cup Ended

RepliesInv ==
    \A l \in Leads, i \in Inbound :
        /\ pc[l][i] \in {"none", "stored", "dropped", "queued", "thinking", "confirmed"}
             => replies[l][i] <= retries[l][i]
        /\ replies[l][i] <= retries[l][i] + 1
        /\ sends[l][i] <= replies[l][i]
        /\ pc[l][i] \in {"replied", "typing"} => sends[l][i] < replies[l][i]

(* An inbox reply was opened today: the row is as it loaded it, or has     *)
(* been brought up to the day since.                                       *)
InboxIsCovered(loaded) ==
    /\ loaded.reset_day <= workspace.reset_day
    /\ loaded.sent <= charged[loaded.reset_day]
    /\ \/ workspace.reset_day = today
       \/ workspace.sent = loaded.sent /\ workspace.reset_day = loaded.reset_day

CounterInv ==
    /\ workspace.reset_day <= today
    /\ ~straddled =>
         /\ workspace.sent <= charged[workspace.reset_day]
         /\ \A l \in Leads, i \in Inbound :
              pc[l][i] = "typing" =>
                 /\ local[l][i].reset_day <= workspace.reset_day
                 /\ local[l][i].sent <= charged[local[l][i].reset_day]
         /\ \A l \in Leads : inbox[l] # NoReply => InboxIsCovered(inbox[l])

(* Messages arrive in order, one call at a time.                           *)
ArrivalInv ==
    \A l \in Leads, i, j \in Inbound :
        i < j =>
            /\ pc[l][i] = "none" => pc[l][j] = "none"
            /\ pc[l][i] = "stored" => pc[l][j] = "none"

SlotInv ==
    \A l \in Leads :
        /\ token[l] # 0 => Scheduled(l, token[l])
        /\ \A i \in Inbound : Scheduled(l, i) => token[l] = 0 \/ token[l] >= i

(* Nothing is lost between the database, Redis and the broker.             *)
ReliableScheduling == {"redis_set", "broker"} \cap Faults = {}

-----------------------------------------------------------------------------
(* Type correctness.                                                       *)

LEMMA TypeInit == Init => TypeOK
<1> SUFFICES ASSUME Init PROVE TypeOK
  OBVIOUS
<1> USE ReplyAgentAssumption DEF ReplyAgentAssumption, Init
<1>1. RowsOK
  <2>1. workspace \in WorkspaceRow
    BY DEF WorkspaceRow
  <2>2. lead \in [Leads -> LeadRow]
    BY DEF LeadRow, InboundAge, MeetingStatus
  <2>3. convo \in [Leads -> [human_takeover : BOOLEAN, status : {"active", "paused", "ended"}]]
    OBVIOUS
  <2>4. messages \in [Leads -> Seq(MessageRow)]
    OBVIOUS
  <2> QED
    BY <2>1, <2>2, <2>3, <2>4 DEF RowsOK
<1>2. TasksOK
  <2>1. "none" \in TaskState /\ NoLocal \in TaskLocal
    BY DEF TaskState, TaskLocal, NoLocal
  <2> QED
    BY <2>1 DEF TasksOK
<1>3. HistoryOK
  BY DEF HistoryOK
<1> QED
  BY <1>1, <1>2, <1>3 DEF TypeOK

LEMMA GotoType ==
    ASSUME TasksOK, NEW l \in Leads, NEW i \in Inbound,
           NEW state \in TaskState, Goto(l, i, state)
    PROVE  pc' \in [Leads -> [Inbound -> TaskState]]
  BY DEF TasksOK, Goto

LEMMA ForgetType ==
    ASSUME TasksOK, NEW l \in Leads, NEW i \in Inbound,
           local' = [local EXCEPT ![l][i] = NoLocal]
    PROVE  local' \in [Leads -> [Inbound -> TaskLocal]]
<1>1. NoLocal \in TaskLocal
  BY DEF NoLocal, TaskLocal
<1> QED
  BY <1>1 DEF TasksOK

LEMMA TaskEndsType ==
    ASSUME TasksOK, NEW l \in Leads, NEW i \in Inbound,
           NEW state \in TaskState, TaskEnds(l, i, state)
    PROVE  TasksOK'
  BY GotoType, ForgetType DEF TasksOK, TaskEnds

LEMMA RunAgainType ==
    ASSUME TasksOK, NEW l \in Leads, NEW i \in Inbound, RunAgain(l, i)
    PROVE  TasksOK'
<1>1. {"queued", "failed"} \subseteq TaskState
  BY DEF TaskState, Running, Ended
<1>2. pc' \in [Leads -> [Inbound -> TaskState]]
  BY <1>1, GotoType DEF RunAgain
<1>3. retries' \in [Leads -> [Inbound -> 0..MaxRetries]]
  <2>1. retries[l][i] \in 0..MaxRetries
    BY DEF TasksOK
  <2>2. CASE retries[l][i] < MaxRetries
    <3>1. retries[l][i] + 1 \in 0..MaxRetries
      BY <2>1, <2>2, ReplyAgentAssumption DEF ReplyAgentAssumption
    <3>2. retries' = [retries EXCEPT ![l][i] = retries[l][i] + 1]
      BY <2>2 DEF RunAgain
    <3> HIDE DEF RunAgain
    <3> QED
      BY <3>1, <3>2, Zenon DEF TasksOK
  <2>3. CASE ~(retries[l][i] < MaxRetries)
    BY <2>3 DEF RunAgain, TasksOK
  <2> QED
    BY <2>2, <2>3
<1> QED
  BY <1>2, <1>3, ForgetType DEF TasksOK, RunAgain

LEMMA AddMessageType ==
    ASSUME RowsOK, NEW l \in Leads,
           NEW role \in {"USER", "AGENT", "HUMAN"},
           NEW text \in {"stop", "plain", "disclosed"},
           NEW sent \in BOOLEAN,
           AddMessage(l, role, text, sent)
    PROVE  messages' \in [Leads -> Seq(MessageRow)]
<1>1. [role |-> role, text |-> text, sent |-> sent] \in MessageRow
  BY DEF MessageRow
<1> QED
  BY <1>1 DEF RowsOK, AddMessage

(* Every update of a lead row the system makes.                            *)
LEMMA LeadRowType ==
    ASSUME NEW row \in LeadRow, NEW age \in InboundAge, NEW m \in MeetingStatus,
           NEW b \in BOOLEAN, NEW c \in BOOLEAN
    PROVE  /\ [row EXCEPT !.needs_response = b] \in LeadRow
           /\ [row EXCEPT !.last_inbound = age] \in LeadRow
           /\ [row EXCEPT !.last_inbound = age, !.needs_response = b] \in LeadRow
           /\ [row EXCEPT !.do_not_contact = c, !.needs_response = b] \in LeadRow
           /\ [row EXCEPT !.meeting = m, !.needs_response = b] \in LeadRow
           /\ [row EXCEPT !.needs_response = b, !.meeting = m] \in LeadRow
           /\ [row EXCEPT !.do_not_contact = c, !.meeting = m] \in LeadRow
  BY DEF LeadRow

LEMMA LeadType ==
    ASSUME RowsOK, NEW l \in Leads, NEW row \in LeadRow,
           lead' = [lead EXCEPT ![l] = row]
    PROVE  lead' \in [Leads -> LeadRow]
  BY DEF RowsOK

LEMMA WebType ==
    ASSUME TypeOK, NEW l \in Leads, NEW i \in Inbound, Web(l, i)
    PROVE  TypeOK'
<1> USE ReplyAgentAssumption DEF ReplyAgentAssumption
<1>0. {"stored", "queued", "dropped"} \subseteq TaskState
  BY DEF TaskState, Running
<1>1. ASSUME NEW text \in Texts, Ingest(l, i, text) PROVE TypeOK'
  <2>1. messages' \in [Leads -> Seq(MessageRow)]
    BY <1>1, AddMessageType DEF TypeOK, Ingest
  <2>2. lead' \in [Leads -> LeadRow]
    <3> DEFINE row == [lead[l] EXCEPT !.last_inbound = "recent", !.needs_response = TRUE]
    <3>1. lead[l] \in LeadRow
      BY DEF TypeOK, RowsOK
    <3>2. row \in LeadRow
      BY <3>1, LeadRowType, Zenon DEF InboundAge, MeetingStatus
    <3>3. lead' = [lead EXCEPT ![l] = row]
      BY <1>1 DEF Ingest
    <3> HIDE DEF row
    <3> QED
      BY <3>2, <3>3, LeadType DEF TypeOK
  <2>3. convo' \in [Leads -> [human_takeover : BOOLEAN, status : {"active", "paused", "ended"}]]
    <3>1. convo \in [Leads -> [human_takeover : BOOLEAN, status : {"active", "paused", "ended"}]]
      BY DEF TypeOK, RowsOK
    <3>2. convo' = [convo EXCEPT ![l].status = IF @ = "ended" THEN "active" ELSE @]
      BY <1>1 DEF Ingest
    <3> QED
      BY <3>1, <3>2
  <2>4. pc' \in [Leads -> [Inbound -> TaskState]]
    BY <1>0, <1>1, GotoType DEF TypeOK, Ingest
  <2> QED
    BY <1>1, <2>1, <2>2, <2>3, <2>4 DEF TypeOK, RowsOK, TasksOK, HistoryOK, Ingest, history
<1>2. CASE Schedule(l, i) \/ ScheduleFails(l, i)
  <2>1. token' \in [Leads -> 0..MaxInbound]
    BY <1>2 DEF TypeOK, Schedule, ScheduleFails, SetPendingReply, Inbound
  <2>2. pc' \in [Leads -> [Inbound -> TaskState]]
    BY <1>0, <1>2, GotoType DEF TypeOK, Schedule, ScheduleFails
  <2> QED
    BY <1>2, <2>1, <2>2
    DEF TypeOK, RowsOK, TasksOK, HistoryOK, Schedule, ScheduleFails, rows, history
<1> QED
  BY <1>1, <1>2 DEF Web

LEMMA LoadedType ==
    ASSUME TypeOK, NEW l \in Leads, NEW i \in Inbound
    PROVE  Loaded(l, i) \in WorkspaceRow
<1>1. local[l][i].sent \in Nat /\ local[l][i].reset_day \in Nat
  BY DEF TypeOK, TasksOK, TaskLocal
<1>2. workspace \in WorkspaceRow
  BY DEF TypeOK, RowsOK
<1> QED
  BY <1>1, <1>2 DEF Loaded, WorkspaceRow

LEMMA ChargeType ==
    ASSUME TypeOK, charged' = [charged EXCEPT ![today] = @ + 1]
    PROVE  charged' \in [0..MaxDay -> Nat]
<1>1. charged \in [0..MaxDay -> Nat] /\ today \in 0..MaxDay
  BY DEF TypeOK, HistoryOK
<1>2. charged[today] + 1 \in Nat
  BY <1>1
<1>3. PICK n \in Nat : charged' = [charged EXCEPT ![today] = n]
  BY <1>2
<1> QED
  BY <1>1, <1>3, Zenon

LEMMA HandOverType ==
    ASSUME TypeOK, NEW l \in Leads, NEW i \in Inbound, HandOver(l, i)
    PROVE  /\ replies' \in [Leads -> [Inbound -> Nat]]
           /\ sends' \in [Leads -> [Inbound -> Nat]]
           /\ charged' \in [0..MaxDay -> Nat]
<1>1. sends' \in [Leads -> [Inbound -> Nat]]
  BY DEF HandOver, TypeOK, HistoryOK
<1>2. charged' \in [0..MaxDay -> Nat]
  BY ChargeType DEF HandOver
<1> QED
  BY <1>1, <1>2 DEF HandOver, TypeOK, HistoryOK

LEMMA TaskStepType ==
    ASSUME TypeOK, NEW l \in Leads, NEW i \in Inbound, TaskStep(l, i)
    PROVE  TypeOK'
<1> USE ReplyAgentAssumption DEF ReplyAgentAssumption
<1>0. Running \cup Ended \subseteq TaskState
  BY DEF TaskState
<1>1. lead[l] \in LeadRow /\ convo[l] \in [human_takeover : BOOLEAN, status : {"active", "paused", "ended"}]
  BY DEF TypeOK, RowsOK
<1>2. [convo[l] EXCEPT !.status = "ended"] \in [human_takeover : BOOLEAN, status : {"active", "paused", "ended"}]
  BY <1>1
<1>3. /\ [lead[l] EXCEPT !.needs_response = FALSE] \in LeadRow
      /\ [lead[l] EXCEPT !.do_not_contact = TRUE, !.needs_response = FALSE] \in LeadRow
      /\ [lead[l] EXCEPT !.meeting = "CONFIRMED", !.needs_response = FALSE] \in LeadRow
  BY <1>1 DEF LeadRow, MeetingStatus
<1>4. CASE AgentOff(l, i) \/ Superseded(l, i) \/ FinishDraft(l, i)
  <2>1. TasksOK'
    BY <1>0, <1>4, TaskEndsType DEF AgentOff, Superseded, FinishDraft, TypeOK, Ended
  <2> QED
    BY <1>4, <2>1 DEF TypeOK, RowsOK, HistoryOK, AgentOff, Superseded, FinishDraft, rows, history
<1>5. CASE Silenced(l, i) \/ StopNonLead(l, i)
  <2>1. TasksOK'
    BY <1>0, <1>5, TaskEndsType DEF Silenced, StopNonLead, TypeOK, Ended
  <2>2. lead' \in [Leads -> LeadRow]
    BY <1>3, <1>5 DEF Silenced, StopNonLead, TypeOK, RowsOK
  <2> QED
    BY <1>5, <2>1, <2>2 DEF TypeOK, RowsOK, HistoryOK, Silenced, StopNonLead, history
<1>6. CASE HonorOptOut(l, i)
  <2>1. TasksOK'
    BY <1>0, <1>6, TaskEndsType DEF HonorOptOut, TypeOK, Ended
  <2>2. lead' \in [Leads -> LeadRow]
    BY <1>3, <1>6 DEF HonorOptOut, TypeOK, RowsOK
  <2>3. convo' \in [Leads -> [human_takeover : BOOLEAN, status : {"active", "paused", "ended"}]]
    BY <1>2, <1>6 DEF HonorOptOut, TypeOK, RowsOK
  <2> QED
    BY <1>6, <2>1, <2>2, <2>3 DEF TypeOK, RowsOK, HistoryOK, HonorOptOut, history
<1>7. CASE Think(l, i)
  <2> DEFINE memory == [NoLocal EXCEPT
                          !.first = (Rows(l, "AGENT") = {}),
                          !.auto = workspace.auto_send,
                          !.may_drop = (Cardinality(Rows(l, "USER")) >= NonLeadTurns)]
  <2>1. memory \in TaskLocal
    <3>1. /\ workspace.auto_send \in BOOLEAN
          /\ (Rows(l, "AGENT") = {}) \in BOOLEAN
          /\ (Cardinality(Rows(l, "USER")) >= NonLeadTurns) \in BOOLEAN
      BY DEF TypeOK, RowsOK, WorkspaceRow
    <3>2. \A a, b, c \in BOOLEAN :
             [NoLocal EXCEPT !.first = a, !.auto = b, !.may_drop = c] \in TaskLocal
      BY DEF NoLocal, TaskLocal
    <3> QED
      BY <3>1, <3>2
  <2>2. local' \in [Leads -> [Inbound -> TaskLocal]]
    BY <1>7, <2>1 DEF Think, TypeOK, TasksOK
  <2>3. pc' \in [Leads -> [Inbound -> TaskState]]
    BY <1>0, <1>7, GotoType DEF Think, TypeOK, Running
  <2> QED
    BY <1>7, <2>2, <2>3 DEF TypeOK, RowsOK, TasksOK, HistoryOK, Think, rows, history
<1>8. CASE ConfirmMeeting(l, i)
  <2>1. pc' \in [Leads -> [Inbound -> TaskState]]
    BY <1>0, <1>8, GotoType DEF ConfirmMeeting, TypeOK, Running
  <2>2. lead' \in [Leads -> LeadRow]
    BY <1>3, <1>8 DEF ConfirmMeeting, TypeOK, RowsOK
  <2>3. convo' \in [Leads -> [human_takeover : BOOLEAN, status : {"active", "paused", "ended"}]]
    BY <1>2, <1>8 DEF ConfirmMeeting, TypeOK, RowsOK
  <2> QED
    BY <1>8, <2>1, <2>2, <2>3 DEF TypeOK, RowsOK, TasksOK, HistoryOK, ConfirmMeeting, history
<1>9. ASSUME NEW m \in MeetingStatus, CommitReply(l, i, m) PROVE TypeOK'
  <2>1. workspace' \in WorkspaceRow
    BY <1>9, ResetType DEF CommitReply, TypeOK, RowsOK
  <2>2. lead' \in [Leads -> LeadRow]
    <3>1. [lead[l] EXCEPT !.needs_response = FALSE, !.meeting = m] \in LeadRow
      BY <1>1, <1>9 DEF LeadRow
    <3> QED
      BY <1>9, <3>1 DEF CommitReply, TypeOK, RowsOK
  <2>3. messages' \in [Leads -> Seq(MessageRow)]
    <3>1. AutoSend(l, i) \in BOOLEAN
      BY DEF AutoSend, Gate, DailyQuotaAvailable, NotOptedOut, TypeOK, RowsOK, TasksOK, TaskLocal
    <3> QED
      BY <1>9, <3>1, AddMessageType DEF CommitReply, EnsureDisclosure, TypeOK
  <2>4. pc' \in [Leads -> [Inbound -> TaskState]]
    BY <1>0, <1>9, GotoType DEF CommitReply, TypeOK, Running
  <2>5. replies' \in [Leads -> [Inbound -> Nat]]
    BY <1>9 DEF CommitReply, TypeOK, HistoryOK
  <2> QED
    BY <1>9, <2>1, <2>2, <2>3, <2>4, <2>5 DEF TypeOK, RowsOK, TasksOK, HistoryOK, CommitReply
<1>10. CASE BeginTyping(l, i)
  <2>1. [local[l][i] EXCEPT !.sent = workspace.sent, !.reset_day = workspace.reset_day] \in TaskLocal
    <3>1. workspace.sent \in Nat /\ workspace.reset_day \in Nat
      BY DEF TypeOK, RowsOK, WorkspaceRow
    <3>2. local[l][i] \in TaskLocal
      BY DEF TypeOK, TasksOK
    <3> QED
      BY <3>1, <3>2 DEF TaskLocal
  <2>2. local' \in [Leads -> [Inbound -> TaskLocal]]
    BY <1>10, <2>1 DEF BeginTyping, TypeOK, TasksOK
  <2>3. pc' \in [Leads -> [Inbound -> TaskState]]
    BY <1>0, <1>10, GotoType DEF BeginTyping, TypeOK, Running
  <2> QED
    BY <1>10, <2>2, <2>3 DEF TypeOK, RowsOK, TasksOK, HistoryOK, BeginTyping, rows, history
<1>11. CASE Deliver(l, i)
  <2>1. TasksOK'
    BY <1>0, <1>11, TaskEndsType DEF Deliver, TypeOK, Ended
  <2>2. workspace' \in WorkspaceRow
    <3>1. today \in Nat /\ workspace \in WorkspaceRow
      BY DEF TypeOK, RowsOK
    <3>2. Loaded(l, i) \in WorkspaceRow
      BY LoadedType
    <3>3. BumpSentCounter(Loaded(l, i), today) \in WorkspaceRow
      BY <3>1, <3>2, ResetType
    <3> QED
      BY <1>11, <3>1, <3>2, <3>3, FlushedType DEF Deliver
  <2>3. HistoryOK'
    <3>1. straddled' \in BOOLEAN
      BY <1>11 DEF Deliver
    <3> QED
      BY <1>11, <3>1, HandOverType DEF Deliver, TypeOK, HistoryOK
  <2> QED
    BY <1>11, <2>1, <2>2, <2>3 DEF TypeOK, RowsOK, Deliver
<1> QED
  BY <1>4, <1>5, <1>6, <1>7, <1>8, <1>9, <1>10, <1>11 DEF TaskStep

LEMMA TaskFaultType ==
    ASSUME TypeOK, NEW l \in Leads, NEW i \in Inbound, TaskFault(l, i)
    PROVE  TypeOK'
<1>1. CASE TaskFails(l, i)
  BY <1>1, RunAgainType DEF TaskFails, TypeOK, RowsOK, HistoryOK, rows, history
<1>2. CASE DeliverUnrecorded(l, i)
  <2>1. HistoryOK'
    BY <1>2, HandOverType DEF DeliverUnrecorded, TypeOK, HistoryOK
  <2>2. TasksOK'
    BY <1>2, RunAgainType DEF DeliverUnrecorded, TypeOK
  <2> QED
    BY <1>2, <2>1, <2>2 DEF DeliverUnrecorded, TypeOK, RowsOK, rows
<1>3. CASE WorkerKilled(l, i)
  <2>1. "lost" \in TaskState
    BY DEF TaskState, Ended
  <2>2. TasksOK'
    BY <1>3, <2>1, TaskEndsType DEF WorkerKilled, TypeOK
  <2> QED
    BY <1>3, <2>2 DEF WorkerKilled, TypeOK, RowsOK, HistoryOK, rows, history
<1> QED
  BY <1>1, <1>2, <1>3 DEF TaskFault

LEMMA ClickType ==
    ASSUME TypeOK, Click
    PROVE  clicks' \in 0..MaxClicks
  BY ReplyAgentAssumption DEF TypeOK, Click, ReplyAgentAssumption

(* What an inbox reply loads, and the row it stands for.                   *)
LEMMA InboxType ==
    ASSUME TypeOK, NEW l \in Leads, OpenReply(l)
    PROVE  /\ \E loaded \in InboxReply :
                /\ inbox' = [inbox EXCEPT ![l] = loaded]
                /\ loaded.sent = workspace.sent /\ loaded.reset_day = workspace.reset_day
           /\ inbox' \in [Leads -> InboxReply \cup {NoReply}]
<1> DEFINE loaded == [phase |-> "loaded", sent |-> workspace.sent,
                      reset_day |-> workspace.reset_day,
                      human_takeover |-> convo[l].human_takeover,
                      status |-> convo[l].status,
                      needs_response |-> lead[l].needs_response]
<1>1. /\ workspace.sent \in Nat /\ workspace.reset_day \in Nat
      /\ convo[l].human_takeover \in BOOLEAN /\ lead[l].needs_response \in BOOLEAN
      /\ convo[l].status \in {"active", "paused", "ended"}
  BY DEF TypeOK, RowsOK, WorkspaceRow, LeadRow
<1>2. loaded \in InboxReply /\ loaded.sent = workspace.sent /\ loaded.reset_day = workspace.reset_day
  BY <1>1 DEF InboxReply
<1>3. inbox' = [inbox EXCEPT ![l] = loaded]
  BY DEF OpenReply
<1> HIDE DEF loaded
<1> QED
  BY <1>2, <1>3 DEF TypeOK

LEMMA InboxRowType ==
    ASSUME TypeOK, NEW l \in Leads, inbox[l] # NoReply
    PROVE  /\ inbox[l].sent \in Nat /\ inbox[l].reset_day \in Nat
           /\ LoadedByInbox(l) \in WorkspaceRow
           /\ LoadedByInbox(l).sent = inbox[l].sent
           /\ LoadedByInbox(l).reset_day = inbox[l].reset_day
<1>1. inbox[l].sent \in Nat /\ inbox[l].reset_day \in Nat
  BY DEF TypeOK, InboxReply
<1>2. workspace \in WorkspaceRow
  BY DEF TypeOK, RowsOK
<1> QED
  BY <1>1, <1>2 DEF LoadedByInbox, WorkspaceRow

LEMMA DashboardType ==
    ASSUME TypeOK, Dashboard
    PROVE  TypeOK'
<1> DEFINE ConvoRow == [human_takeover : BOOLEAN, status : {"active", "paused", "ended"}]
<1>0. ASSUME NEW l \in Leads, OpenReply(l) PROVE TypeOK'
  <2>1. inbox' \in [Leads -> InboxReply \cup {NoReply}]
    BY <1>0, InboxType DEF OpenReply, TypeOK
  <2> QED
    BY <1>0, <2>1, ClickType DEF OpenReply, TypeOK, RowsOK, TasksOK, HistoryOK, rows, tasks, history
<1>1. ASSUME NEW l \in Leads, SendReply(l) PROVE TypeOK'
  <2>1. messages' \in [Leads -> Seq(MessageRow)]
    BY <1>1, AddMessageType DEF SendReply, TypeOK
  <2>2. convo' \in [Leads -> ConvoRow]
    <3> DEFINE row == [human_takeover |-> convo[l].human_takeover \/ ~inbox[l].human_takeover,
                       status |-> IF inbox[l].status = "paused" THEN convo[l].status ELSE "paused"]
    <3>1. convo[l].status \in {"active", "paused", "ended"}
      BY DEF TypeOK, RowsOK
    <3>2. row \in ConvoRow
      BY <3>1
    <3>3. convo' = [convo EXCEPT ![l] = row]
      BY <1>1 DEF SendReply
    <3> HIDE DEF row
    <3> QED
      BY <3>2, <3>3 DEF TypeOK, RowsOK
  <2>3. lead' \in [Leads -> LeadRow]
    <3>1. PICK b \in BOOLEAN : lead' = [lead EXCEPT ![l].needs_response = b]
      <4>1. (lead[l].needs_response /\ ~inbox[l].needs_response) \in BOOLEAN
        OBVIOUS
      <4> QED
        BY <1>1, <4>1 DEF SendReply
    <3>2. [lead[l] EXCEPT !.needs_response = b] \in LeadRow
      BY DEF TypeOK, RowsOK, LeadRow
    <3> QED
      BY <3>1, <3>2 DEF TypeOK, RowsOK
  <2>4. workspace' \in WorkspaceRow
    <3>1. today \in Nat /\ workspace \in WorkspaceRow
      BY DEF TypeOK, RowsOK
    <3>2. LoadedByInbox(l) \in WorkspaceRow
      BY <1>1, InboxRowType DEF SendReply
    <3>3. BumpSentCounter(LoadedByInbox(l), today) \in WorkspaceRow
      BY <3>1, <3>2, ResetType
    <3>4. workspace' = Flushed(workspace, LoadedByInbox(l), BumpSentCounter(LoadedByInbox(l), today))
      BY <1>1 DEF SendReply
    <3> QED
      BY <3>1, <3>2, <3>3, <3>4, FlushedType
  <2>5. inbox' \in [Leads -> InboxReply \cup {NoReply}]
    BY <1>1 DEF SendReply, TypeOK
  <2>6. charged' \in [0..MaxDay -> Nat] /\ UNCHANGED <<token, today, clicks, tasks, replies, sends, straddled>>
    BY <1>1, ChargeType DEF SendReply
  <2> QED
    BY <2>1, <2>2, <2>3, <2>4, <2>5, <2>6 DEF TypeOK, RowsOK, TasksOK, HistoryOK, tasks
<1>2. ASSUME NEW l \in Leads, NEW on \in BOOLEAN, ToggleTakeover(l, on) PROVE TypeOK'
  <2>1. convo' \in [Leads -> ConvoRow]
    BY <1>2 DEF ToggleTakeover, TypeOK, RowsOK
  <2> QED
    BY <1>2, <2>1, ClickType DEF ToggleTakeover, TypeOK, RowsOK, TasksOK, HistoryOK, tasks, history
<1>3. ASSUME NEW l \in Leads, NEW dnc \in BOOLEAN, NEW m \in MeetingStatus,
             UpdateLead(l, dnc, m)
      PROVE  TypeOK'
  <2>1. [lead[l] EXCEPT !.do_not_contact = dnc, !.meeting = m] \in LeadRow
    BY DEF TypeOK, RowsOK, LeadRow
  <2>2. lead' \in [Leads -> LeadRow]
    BY <1>3, <2>1 DEF UpdateLead, TypeOK, RowsOK
  <2> QED
    BY <1>3, <2>2, ClickType DEF UpdateLead, TypeOK, RowsOK, TasksOK, HistoryOK, tasks, history
<1>4. ASSUME NEW enabled \in BOOLEAN, NEW running \in BOOLEAN, SwitchAgent(enabled, running)
      PROVE  TypeOK'
  <2>1. workspace' \in WorkspaceRow
    BY <1>4 DEF SwitchAgent, TypeOK, RowsOK, WorkspaceRow
  <2> QED
    BY <1>4, <2>1, ClickType DEF SwitchAgent, TypeOK, RowsOK, TasksOK, HistoryOK, tasks, history
<1>5. ASSUME NEW auto \in BOOLEAN, SaveSettings(auto) PROVE TypeOK'
  <2>1. workspace' \in WorkspaceRow
    BY <1>5 DEF SaveSettings, TypeOK, RowsOK, WorkspaceRow
  <2> QED
    BY <1>5, <2>1, ClickType DEF SaveSettings, TypeOK, RowsOK, TasksOK, HistoryOK, tasks, history
<1>6. ASSUME NEW l \in Leads, NEW dnc \in BOOLEAN, PatchLead(l, dnc) PROVE TypeOK'
  <2>1. lead[l].meeting \in MeetingStatus
    BY DEF TypeOK, RowsOK, LeadRow
  <2> QED
    BY <1>3, <1>6, <2>1 DEF PatchLead
<1> QED
  BY <1>0, <1>1, <1>2, <1>3, <1>4, <1>5, <1>6 DEF Dashboard

LEMMA ClockType ==
    ASSUME TypeOK, Clock
    PROVE  TypeOK'
<1> USE ReplyAgentAssumption DEF ReplyAgentAssumption
<1>1. ASSUME NEW posts \in BOOLEAN, SendGroupPromos(posts) PROVE TypeOK'
  <2>1. workspace' \in WorkspaceRow
    BY <1>1, ResetType DEF SendGroupPromos, TypeOK, RowsOK
  <2>2. charged' \in [0..MaxDay -> Nat]
    BY <1>1, ChargeType DEF SendGroupPromos, TypeOK, HistoryOK
  <2> QED
    BY <1>1, <2>1, <2>2 DEF SendGroupPromos, TypeOK, RowsOK, TasksOK, HistoryOK, tasks
<1>2. ASSUME NEW l \in Leads, TokenExpires(l) PROVE TypeOK'
  BY <1>2 DEF TokenExpires, TypeOK, RowsOK, TasksOK, HistoryOK, rows, tasks, history
<1>3. ASSUME NEW l \in Leads, WindowCloses(l) PROVE TypeOK'
  <2>1. lead' \in [Leads -> LeadRow]
    <3> DEFINE row == [lead[l] EXCEPT !.last_inbound = "old"]
    <3>1. lead \in [Leads -> LeadRow]
      BY DEF TypeOK, RowsOK
    <3>2. row \in LeadRow
      BY <3>1 DEF LeadRow, InboundAge
    <3>3. lead' = [lead EXCEPT ![l] = row]
      BY <1>3 DEF WindowCloses
    <3> HIDE DEF row
    <3> QED
      BY <3>1, <3>2, <3>3
  <2> QED
    BY <1>3, <2>1 DEF WindowCloses, TypeOK, RowsOK, TasksOK, HistoryOK, tasks, history
<1>4. CASE Midnight
  <2>1. straddled' \in BOOLEAN /\ today' \in 0..MaxDay
    BY <1>4 DEF Midnight, TypeOK, HistoryOK
  <2> QED
    BY <1>4, <2>1 DEF Midnight, TypeOK, RowsOK, TasksOK, HistoryOK, rows, tasks
<1> QED
  BY <1>1, <1>2, <1>3, <1>4 DEF Clock

(* Every variable keeps its type: the rows the schema allows, and a        *)
(* counter of retries that never passes max_retries.                       *)
THEOREM TypeCorrect == Spec => []TypeOK
<1>1. TypeOK /\ [Next]_vars => TypeOK'
  <2> SUFFICES ASSUME TypeOK, [Next]_vars PROVE TypeOK'
    OBVIOUS
  <2>1. CASE UNCHANGED vars
    BY <2>1 DEF vars, TypeOK, RowsOK, TasksOK, HistoryOK
  <2> QED
    BY <2>1, WebType, TaskStepType, TaskFaultType, DashboardType, ClockType DEF Next
<1> QED
  BY <1>1, TypeInit, PTL DEF Spec

-----------------------------------------------------------------------------
(* Replies and retries.                                                    *)

LEMMA RepliesInit == Init => RepliesInv
  BY DEF Init, RepliesInv, Inbound

(* A task that moves without touching its counters, from one of the states *)
(* the first and the last conjunct tell apart to a state they allow.       *)
LEMMA RepliesMove ==
    ASSUME TypeOK, RepliesInv, NEW l \in Leads, NEW i \in Inbound,
           NEW state \in TaskState, Goto(l, i, state),
           UNCHANGED <<retries, replies, sends>>,
           \/ state \notin {"none", "stored", "dropped", "queued", "thinking",
                            "confirmed", "replied", "typing"}
           \/ /\ pc[l][i] \in {"none", "stored", "queued", "thinking"}
              /\ state \in {"stored", "dropped", "queued", "thinking", "confirmed"}
           \/ pc[l][i] = "replied" /\ state = "typing"
    PROVE  RepliesInv'
<1> SUFFICES ASSUME NEW k \in Leads, NEW j \in Inbound
             PROVE  /\ pc'[k][j] \in {"none", "stored", "dropped", "queued", "thinking",
                                       "confirmed"} => replies[k][j] <= retries[k][j]
                    /\ pc'[k][j] \in {"replied", "typing"} => sends[k][j] < replies[k][j]
  BY DEF RepliesInv
<1>1. CASE k = l /\ j = i
  <2>1. pc'[k][j] = state
    BY <1>1 DEF Goto, TypeOK, TasksOK
  <2> QED
    BY <1>1, <2>1 DEF RepliesInv
<1>2. CASE ~(k = l /\ j = i)
  <2>1. pc'[k][j] = pc[k][j]
    BY <1>2 DEF Goto, TypeOK, TasksOK
  <2> QED
    BY <2>1 DEF RepliesInv
<1> QED
  BY <1>1, <1>2

(* The rows task (l, i) adds to the first conjunct are paid for by a retry. *)
LEMMA RepliesRunAgain ==
    ASSUME TypeOK, RepliesInv, NEW l \in Leads, NEW i \in Inbound,
           RunAgain(l, i), UNCHANGED replies,
           \/ UNCHANGED sends
           \/ pc[l][i] = "typing" /\ sends' = [sends EXCEPT ![l][i] = @ + 1]
    PROVE  RepliesInv'
<1> SUFFICES ASSUME NEW k \in Leads, NEW j \in Inbound
             PROVE  /\ pc'[k][j] \in {"none", "stored", "dropped", "queued", "thinking",
                                       "confirmed"} => replies[k][j] <= retries'[k][j]
                    /\ replies[k][j] <= retries'[k][j] + 1
                    /\ sends'[k][j] <= replies[k][j]
                    /\ pc'[k][j] \in {"replied", "typing"} => sends'[k][j] < replies[k][j]
  BY DEF RepliesInv
<1>0. /\ retries[k][j] \in Nat /\ replies[k][j] \in Nat /\ sends[k][j] \in Nat
  BY ReplyAgentAssumption DEF TypeOK, TasksOK, HistoryOK, ReplyAgentAssumption
<1>1. CASE k = l /\ j = i
  <2>1. sends'[k][j] <= replies[k][j]
    BY <1>0, <1>1 DEF RepliesInv, TypeOK, HistoryOK
  <2>2. CASE retries[l][i] < MaxRetries
    <3>1. retries'[k][j] = retries[k][j] + 1 /\ pc'[k][j] = "queued"
      BY <1>1, <2>2 DEF RunAgain, Goto, TypeOK, TasksOK
    <3> QED
      BY <1>0, <1>1, <2>1, <3>1 DEF RepliesInv
  <2>3. CASE ~(retries[l][i] < MaxRetries)
    <3>1. retries'[k][j] = retries[k][j] /\ pc'[k][j] = "failed"
      BY <1>1, <2>3 DEF RunAgain, Goto, TypeOK, TasksOK
    <3> QED
      BY <1>0, <1>1, <2>1, <3>1 DEF RepliesInv
  <2> QED
    BY <2>2, <2>3
<1>2. CASE ~(k = l /\ j = i)
  <2>1. pc'[k][j] = pc[k][j]
    BY <1>2 DEF RunAgain, Goto, TypeOK, TasksOK
  <2>2. retries'[k][j] = retries[k][j]
    BY <1>2 DEF RunAgain, TypeOK, TasksOK
  <2>3. sends'[k][j] = sends[k][j]
    BY <1>2 DEF TypeOK, HistoryOK
  <2> QED
    BY <2>1, <2>2, <2>3 DEF RepliesInv
<1> QED
  BY <1>1, <1>2

LEMMA RepliesTask ==
    ASSUME TypeOK, RepliesInv, NEW l \in Leads, NEW i \in Inbound,
           Web(l, i) \/ TaskStep(l, i) \/ TaskFault(l, i)
    PROVE  RepliesInv'
<1>0. Running \cup Ended \cup {"stored", "dropped"} \subseteq TaskState
  BY DEF TaskState
<1>1. CASE Web(l, i)
  <2>1. PICK state \in {"stored", "queued", "dropped"} :
          /\ Goto(l, i, state)
          /\ pc[l][i] \in {"none", "stored"}
          /\ UNCHANGED <<retries, replies, sends>>
    BY <1>1 DEF Web, Ingest, Schedule, ScheduleFails, history
  <2> QED
    BY <1>0, <2>1, RepliesMove DEF Running
<1>2. CASE \/ AgentOff(l, i) \/ Silenced(l, i) \/ HonorOptOut(l, i) \/ Superseded(l, i)
           \/ StopNonLead(l, i) \/ FinishDraft(l, i) \/ WorkerKilled(l, i)
  <2>1. PICK state \in Ended : Goto(l, i, state) /\ UNCHANGED <<retries, replies, sends>>
    BY <1>2 DEF AgentOff, Silenced, HonorOptOut, Superseded, StopNonLead, FinishDraft,
                WorkerKilled, TaskEnds, Ended, history
  <2> QED
    BY <1>0, <2>1, RepliesMove DEF Ended
<1>3. CASE Think(l, i) \/ ConfirmMeeting(l, i) \/ BeginTyping(l, i)
  <2>1. PICK state \in {"thinking", "confirmed", "typing"} :
          /\ Goto(l, i, state)
          /\ \/ pc[l][i] \in {"queued", "thinking"} /\ state \in {"thinking", "confirmed"}
             \/ pc[l][i] = "replied" /\ state = "typing"
          /\ UNCHANGED <<retries, replies, sends>>
    BY <1>3 DEF Think, ConfirmMeeting, BeginTyping, history
  <2> QED
    BY <1>0, <2>1, RepliesMove DEF Running
<1>4. ASSUME NEW m \in MeetingStatus, CommitReply(l, i, m) PROVE RepliesInv'
  <2>1. CASE ~AutoSend(l, i)
    <3>1. Goto(l, i, "drafted") /\ UNCHANGED <<retries, replies, sends>>
      BY <1>4, <2>1 DEF CommitReply
    <3> QED
      BY <1>0, <3>1, RepliesMove DEF Running
  <2>2. CASE AutoSend(l, i)
    <3>1. /\ pc[l][i] \in {"thinking", "confirmed"}
          /\ Goto(l, i, "replied")
          /\ replies' = [replies EXCEPT ![l][i] = @ + 1]
          /\ UNCHANGED <<retries, sends>>
      BY <1>4, <2>2 DEF CommitReply
    <3>2. ASSUME NEW k \in Leads, NEW j \in Inbound, ~(k = l /\ j = i)
          PROVE  pc'[k][j] = pc[k][j] /\ replies'[k][j] = replies[k][j]
      BY <3>1, <3>2 DEF Goto, TypeOK, TasksOK, HistoryOK
    <3>3. pc'[l][i] = "replied" /\ replies'[l][i] = replies[l][i] + 1
      BY <3>1 DEF Goto, TypeOK, TasksOK, HistoryOK
    <3>4. retries[l][i] \in Nat /\ replies[l][i] \in Nat /\ sends[l][i] \in Nat
      BY ReplyAgentAssumption DEF TypeOK, TasksOK, HistoryOK, ReplyAgentAssumption
    <3>5. /\ replies'[l][i] <= retries[l][i] + 1
          /\ sends[l][i] < replies'[l][i]
      BY <3>1, <3>3, <3>4 DEF RepliesInv
    <3> QED
      BY <3>1, <3>2, <3>3, <3>4, <3>5 DEF RepliesInv
  <2> QED
    BY <2>1, <2>2
<1>5. CASE Deliver(l, i)
  <2>1. /\ pc[l][i] = "typing" /\ Goto(l, i, "sent")
        /\ sends' = [sends EXCEPT ![l][i] = @ + 1]
        /\ UNCHANGED <<retries, replies>>
    BY <1>5 DEF Deliver, HandOver, TaskEnds
  <2>2. ASSUME NEW k \in Leads, NEW j \in Inbound, ~(k = l /\ j = i)
        PROVE  pc'[k][j] = pc[k][j] /\ sends'[k][j] = sends[k][j]
    BY <2>1, <2>2 DEF Goto, TypeOK, TasksOK, HistoryOK
  <2>3. pc'[l][i] = "sent" /\ sends'[l][i] = sends[l][i] + 1
    BY <2>1 DEF Goto, TypeOK, TasksOK, HistoryOK
  <2>4. replies[l][i] \in Nat /\ sends[l][i] \in Nat
    BY DEF TypeOK, HistoryOK
  <2>5. sends'[l][i] <= replies[l][i]
    BY <2>1, <2>3, <2>4 DEF RepliesInv
  <2> QED
    BY <2>1, <2>2, <2>3, <2>5 DEF RepliesInv
<1>6. CASE TaskFails(l, i)
  BY <1>6, RepliesRunAgain DEF TaskFails, history
<1>7. CASE DeliverUnrecorded(l, i)
  BY <1>7, RepliesRunAgain DEF DeliverUnrecorded, HandOver
<1> QED
  BY <1>1, <1>2, <1>3, <1>4, <1>5, <1>6, <1>7 DEF TaskStep, TaskFault

(* However often a task is run again, one inbound message leads to at most *)
(* max_retries + 1 replies, and no send job leaves without its own row.    *)
THEOREM RetriesAmplifyAtMostOnce == Spec => []RetryAmplificationBounded
<1>1. TypeOK /\ RepliesInv /\ [Next]_vars => RepliesInv'
  <2> SUFFICES ASSUME TypeOK, RepliesInv, [Next]_vars PROVE RepliesInv'
    OBVIOUS
  <2>1. CASE UNCHANGED vars
    BY <2>1 DEF vars, RepliesInv
  <2>2. CASE Dashboard \/ Clock
    <3>1. UNCHANGED <<pc, retries, replies, sends>>
      BY <2>2 DEF Dashboard, OpenReply, SendReply, ToggleTakeover, UpdateLead, PatchLead, SwitchAgent, SaveSettings,
                  Clock, SendGroupPromos, TokenExpires, WindowCloses, Midnight,
                  tasks, history
    <3> QED
      BY <3>1 DEF RepliesInv
  <2> QED
    BY <2>1, <2>2, RepliesTask DEF Next
<1>2. RepliesInv => RetryAmplificationBounded
  BY DEF RepliesInv, RetryAmplificationBounded
<1> QED
  BY <1>1, <1>2, RepliesInit, TypeCorrect, PTL DEF Spec

-----------------------------------------------------------------------------
(* Debouncing.                                                             *)

LEMMA DebounceInit == Init => ArrivalInv /\ SlotInv /\ SupersededIsCovered
  BY DEF Init, ArrivalInv, SlotInv, SupersededIsCovered, Scheduled, Running, Ended

(* A scheduled task only moves to states of a scheduled task, and only the *)
(* task itself is marked superseded.                                       *)
LEMMA ScheduledStays ==
    ASSUME TypeOK, NEW l \in Leads, NEW i \in Inbound, TaskStep(l, i) \/ TaskFault(l, i)
    PROVE  \E state \in Running \cup Ended :
             /\ Scheduled(l, i)
             /\ Goto(l, i, state)
             /\ state = "superseded" => Superseded(l, i)
             /\ UNCHANGED token
  BY DEF TaskStep, TaskFault, AgentOff, Silenced, HonorOptOut, Superseded, Think, StopNonLead,
         ConfirmMeeting, CommitReply, FinishDraft, BeginTyping, Deliver, TaskFails,
         DeliverUnrecorded, WorkerKilled, RunAgain, TaskEnds, Scheduled, Running, Ended

LEMMA DebounceTask ==
    ASSUME TypeOK, ArrivalInv, SlotInv, SupersededIsCovered,
           NEW l \in Leads, NEW i \in Inbound, TaskStep(l, i) \/ TaskFault(l, i)
    PROVE  ArrivalInv' /\ SlotInv' /\ SupersededIsCovered'
<1>1. PICK state \in Running \cup Ended :
        /\ Scheduled(l, i)
        /\ Goto(l, i, state)
        /\ state = "superseded" => Superseded(l, i)
        /\ UNCHANGED token
  BY ScheduledStays
<1>2. \A k \in Leads, j \in Inbound :
         pc'[k][j] = IF k = l /\ j = i THEN state ELSE pc[k][j]
  BY <1>1 DEF Goto, TypeOK, TasksOK
<1>3. \A k \in Leads, j \in Inbound :
         /\ Scheduled(k, j)' <=> Scheduled(k, j)
         /\ pc'[k][j] = "none" <=> pc[k][j] = "none"
         /\ pc'[k][j] = "stored" <=> pc[k][j] = "stored"
  BY <1>1, <1>2 DEF Scheduled, Running, Ended
<1>4. ArrivalInv'
  BY <1>3 DEF ArrivalInv
<1>5. \A k \in Leads : token[k] # 0 => token[k] \in Inbound
  BY ReplyAgentAssumption DEF TypeOK, Inbound, ReplyAgentAssumption
<1>6. SlotInv'
  BY <1>1, <1>3, <1>5 DEF SlotInv
<1>7. SupersededIsCovered'
  <2> SUFFICES ASSUME NEW k \in Leads, NEW j \in Inbound, pc'[k][j] = "superseded"
               PROVE  \E n \in Inbound : n > j /\ Scheduled(k, n)
    BY <1>3 DEF SupersededIsCovered, Scheduled
  <2>1. CASE pc[k][j] = "superseded"
    BY <2>1 DEF SupersededIsCovered, Scheduled
  <2>2. CASE pc[k][j] # "superseded"
    <3>1. k = l /\ j = i /\ Superseded(l, i)
      BY <1>1, <1>2, <2>2
    <3>2. token[l] # 0 /\ token[l] # i
      BY <3>1 DEF Superseded
    <3>3. Scheduled(l, token[l]) /\ token[l] >= i
      BY <1>1, <3>2 DEF SlotInv
    <3> QED
      BY <1>5, <3>1, <3>2, <3>3 DEF Inbound
  <2> QED
    BY <2>1, <2>2
<1> QED
  BY <1>4, <1>6, <1>7

LEMMA DebounceIngest ==
    ASSUME TypeOK, ArrivalInv, SlotInv, SupersededIsCovered,
           NEW l \in Leads, NEW i \in Inbound, NEW text \in Texts, Ingest(l, i, text)
    PROVE  ArrivalInv' /\ SlotInv' /\ SupersededIsCovered'
<1>1. \A k \in Leads, j \in Inbound :
         pc'[k][j] = IF k = l /\ j = i THEN "stored" ELSE pc[k][j]
  BY DEF Ingest, Goto, TypeOK, TasksOK
<1>2. /\ pc[l][i] = "none"
      /\ \A j \in Inbound : j < i => pc[l][j] # "none"
      /\ \A k \in Leads, j \in Inbound : pc[k][j] # "stored"
      /\ UNCHANGED token
  BY DEF Ingest
<1>3. \A k \in Leads, j \in Inbound : Scheduled(k, j)' <=> Scheduled(k, j)
  BY <1>1, <1>2 DEF Scheduled, Running, Ended
<1>4. ArrivalInv'
  <2> SUFFICES ASSUME NEW k \in Leads, NEW m \in Inbound, NEW n \in Inbound, m < n
               PROVE  /\ pc'[k][m] = "none" => pc'[k][n] = "none"
                      /\ pc'[k][m] = "stored" => pc'[k][n] = "none"
    BY DEF ArrivalInv
  <2>1. pc[k][m] = "none" => pc[k][n] = "none"
    BY DEF ArrivalInv
  <2> QED
    BY <1>1, <1>2, <2>1 DEF Inbound
<1>5. \A k \in Leads : token[k] # 0 => token[k] \in Inbound
  BY ReplyAgentAssumption DEF TypeOK, Inbound, ReplyAgentAssumption
<1>6. SlotInv'
  BY <1>2, <1>3, <1>5 DEF SlotInv
<1>7. SupersededIsCovered'
  BY <1>1, <1>3 DEF SupersededIsCovered, Scheduled
<1> QED
  BY <1>4, <1>6, <1>7

(* The newest message takes the slot: every scheduled task is an older one. *)
LEMMA DebounceSchedule ==
    ASSUME TypeOK, ArrivalInv, SlotInv, SupersededIsCovered, ReliableScheduling,
           NEW l \in Leads, NEW i \in Inbound, Schedule(l, i)
    PROVE  ArrivalInv' /\ SlotInv' /\ SupersededIsCovered'
<1>1. /\ pc[l][i] = "stored"
      /\ \A k \in Leads, j \in Inbound :
           pc'[k][j] = IF k = l /\ j = i THEN "queued" ELSE pc[k][j]
  BY DEF Schedule, Goto, TypeOK, TasksOK
<1>2. \A k \in Leads : token'[k] = IF k = l THEN i ELSE token[k]
  BY DEF Schedule, SetPendingReply, ReliableScheduling, TypeOK
<1>3. \A k \in Leads, j \in Inbound :
         Scheduled(k, j)' <=> Scheduled(k, j) \/ (k = l /\ j = i)
  BY <1>1 DEF Scheduled, Running
<1>4. ArrivalInv'
  <2> SUFFICES ASSUME NEW k \in Leads, NEW m \in Inbound, NEW n \in Inbound, m < n
               PROVE  /\ pc'[k][m] = "none" => pc'[k][n] = "none"
                      /\ pc'[k][m] = "stored" => pc'[k][n] = "none"
    BY DEF ArrivalInv
  <2>1. /\ pc[k][m] = "none" => pc[k][n] = "none"
        /\ pc[k][m] = "stored" => pc[k][n] = "none"
    BY DEF ArrivalInv
  <2> QED
    BY <1>1, <2>1
<1>5. \A k \in Leads : token[k] # 0 => token[k] \in Inbound
  BY ReplyAgentAssumption DEF TypeOK, Inbound, ReplyAgentAssumption
<1>6. \A j \in Inbound : Scheduled(l, j) => j <= i
  BY <1>1 DEF ArrivalInv, Scheduled, Running, Ended, Inbound
<1>7. SlotInv'
  <2>1. ASSUME NEW k \in Leads, token'[k] # 0 PROVE Scheduled(k, token[k])'
    BY <1>2, <1>3, <1>5, <2>1 DEF SlotInv
  <2>2. ASSUME NEW k \in Leads, NEW j \in Inbound, Scheduled(k, j)'
        PROVE  token'[k] = 0 \/ token'[k] >= j
    BY <1>2, <1>3, <1>6, <2>2 DEF SlotInv, Inbound
  <2> QED
    BY <2>1, <2>2 DEF SlotInv
<1>8. SupersededIsCovered'
  BY <1>1, <1>3 DEF SupersededIsCovered, Scheduled
<1> QED
  BY <1>4, <1>7, <1>8

LEMMA DebounceRest ==
    ASSUME TypeOK, ArrivalInv, SlotInv, SupersededIsCovered,
           Dashboard \/ Clock \/ UNCHANGED vars
    PROVE  ArrivalInv' /\ SlotInv' /\ SupersededIsCovered'
<1>1. /\ pc' = pc
      /\ \A k \in Leads : token'[k] = token[k] \/ token'[k] = 0
  BY DEF Dashboard, OpenReply, SendReply, ToggleTakeover, UpdateLead, PatchLead, SwitchAgent, SaveSettings,
         Clock, SendGroupPromos, TokenExpires, WindowCloses, Midnight, tasks, vars, TypeOK
<1> QED
  BY <1>1 DEF ArrivalInv, SlotInv, SupersededIsCovered, Scheduled

(* As long as Redis and the broker accept every write, a reply skipped as  *)
(* superseded has the task of a newer message behind it.                   *)
THEOREM DebounceLosesNothing ==
    ASSUME ReliableScheduling
    PROVE  Spec => []SupersededIsCovered
<1> DEFINE IInv == ArrivalInv /\ SlotInv /\ SupersededIsCovered
<1>1. TypeOK /\ IInv /\ [Next]_vars => IInv'
  <2> SUFFICES ASSUME TypeOK, IInv, [Next]_vars PROVE IInv'
    OBVIOUS
  <2>1. ASSUME NEW l \in Leads, NEW i \in Inbound, Web(l, i) PROVE IInv'
    <3>1. ~ScheduleFails(l, i)
      BY DEF ScheduleFails, ReliableScheduling
    <3> QED
      BY <2>1, <3>1, DebounceIngest, DebounceSchedule DEF Web
  <2> QED
    BY <2>1, DebounceTask, DebounceRest DEF Next
<1>2. Init => IInv
  BY DebounceInit
<1> QED
  BY <1>1, <1>2, TypeCorrect, PTL DEF Spec

-----------------------------------------------------------------------------
(* The basis of every message.                                             *)

LEMMA AppendUnsent ==
    ASSUME RowsOK, NEW l \in Leads, NEW role \in {"USER", "AGENT", "HUMAN"},
           NEW text \in {"stop", "plain", "disclosed"}, NEW sent \in BOOLEAN,
           AddMessage(l, role, text, sent),
           NEW k \in Leads,
           k # l \/ role = "USER" \/ ~sent
    PROVE  Outbound(k)' = Outbound(k)
<1>1. CASE k # l
  <2>1. messages'[k] = messages[k]
    BY <1>1 DEF AddMessage, RowsOK
  <2> QED
    BY <2>1 DEF Outbound
<1>2. CASE k = l
  <2> DEFINE row == [role |-> role, text |-> text, sent |-> sent]
  <2>1. messages[l] \in Seq(MessageRow) /\ messages'[l] = Append(messages[l], row)
    BY DEF AddMessage, RowsOK
  <2>2. /\ DOMAIN messages'[l] = 1..(Len(messages[l]) + 1)
        /\ DOMAIN messages[l] = 1..Len(messages[l])
        /\ Len(messages[l]) \in Nat
        /\ \A n \in 1..Len(messages[l]) : messages'[l][n] = messages[l][n]
        /\ messages'[l][Len(messages[l]) + 1] = row
    BY <2>1
  <2>3. row.role = "USER" \/ ~row.sent
    BY <1>2
  <2> HIDE DEF row
  <2> QED
    BY <1>2, <2>2, <2>3 DEF Outbound
<1> QED
  BY <1>1, <1>2

LEMMA BasisStep ==
    ASSUME TypeOK, [Next]_vars, NEW k \in Leads, Unreachable(k)
    PROVE  Outbound(k)' = Outbound(k) \/ inbox'[k] # inbox[k]
<1>1. CASE UNCHANGED messages
  BY <1>1 DEF Outbound
<1>2. ASSUME NEW l \in Leads, NEW i \in Inbound, NEW text \in Texts, Ingest(l, i, text)
      PROVE  Outbound(k)' = Outbound(k)
  <2>1. AddMessage(l, "USER", text, TRUE) /\ text \in {"stop", "plain", "disclosed"}
    BY <1>2, ReplyAgentAssumption DEF Ingest, ReplyAgentAssumption
  <2> QED
    BY <2>1, AppendUnsent DEF TypeOK
<1>3. ASSUME NEW l \in Leads, NEW i \in Inbound, NEW m \in MeetingStatus, CommitReply(l, i, m)
      PROVE  Outbound(k)' = Outbound(k)
  <2>1. PICK text \in {"stop", "plain", "disclosed"} : AddMessage(l, "AGENT", text, AutoSend(l, i))
    BY <1>3 DEF CommitReply, EnsureDisclosure
  <2>2. AutoSend(l, i) \in BOOLEAN
    BY DEF AutoSend, Gate, DailyQuotaAvailable, NotOptedOut, TypeOK, RowsOK, TasksOK, TaskLocal
  <2>3. k = l => ~AutoSend(l, i)
    BY DEF AutoSend, Gate, NotOptedOut, HasBasis, WithinServiceWindow, Unreachable
  <2> QED
    BY <2>1, <2>2, <2>3, AppendUnsent DEF TypeOK
<1>4. ASSUME NEW l \in Leads, SendReply(l)
      PROVE  Outbound(k)' = Outbound(k) \/ inbox'[k] # inbox[k]
  <2>1. CASE k = l
    BY <1>4, <2>1 DEF SendReply, TypeOK
  <2>2. CASE k # l
    <3>1. AddMessage(l, "HUMAN", "plain", TRUE)
      BY <1>4 DEF SendReply
    <3> QED
      BY <2>2, <3>1, AppendUnsent DEF TypeOK
  <2> QED
    BY <2>1, <2>2
<1>5. ASSUME NEW l \in Leads, NEW i \in Inbound,
             \/ Schedule(l, i) \/ ScheduleFails(l, i) \/ TaskFault(l, i)
             \/ TaskStep(l, i) /\ ~(\E m \in MeetingStatus : CommitReply(l, i, m))
      PROVE  UNCHANGED messages
  BY <1>5 DEF Schedule, ScheduleFails, TaskFault, TaskFails, DeliverUnrecorded, WorkerKilled,
              TaskStep, AgentOff, Silenced, HonorOptOut, Superseded, Think, StopNonLead,
              ConfirmMeeting, FinishDraft, BeginTyping, Deliver, rows
<1>6. CASE (Dashboard /\ ~(\E l \in Leads : SendReply(l))) \/ Clock \/ UNCHANGED vars
  <2>1. UNCHANGED messages
    BY <1>6 DEF Dashboard, OpenReply, ToggleTakeover, UpdateLead, PatchLead, SwitchAgent, SaveSettings, Clock,
                SendGroupPromos, TokenExpires, WindowCloses, Midnight, rows, vars
  <2> QED
    BY <1>1, <2>1
<1>7. ASSUME Dashboard
      PROVE  Outbound(k)' = Outbound(k) \/ inbox'[k] # inbox[k]
  <2>1. CASE \E l \in Leads : SendReply(l)
    BY <1>4, <2>1
  <2>2. CASE ~\E l \in Leads : SendReply(l)
    BY <1>6, <1>7, <2>2
  <2> QED
    BY <2>1, <2>2
<1>8. ASSUME NEW l \in Leads, NEW i \in Inbound, Web(l, i) \/ TaskStep(l, i) \/ TaskFault(l, i)
      PROVE  Outbound(k)' = Outbound(k)
  <2>1. CASE \E text \in Texts : Ingest(l, i, text)
    BY <1>2, <2>1
  <2>2. CASE \E m \in MeetingStatus : CommitReply(l, i, m)
    BY <1>3, <2>2
  <2>3. CASE ~(\E text \in Texts : Ingest(l, i, text)) /\ ~\E m \in MeetingStatus : CommitReply(l, i, m)
    <3>1. UNCHANGED messages
      BY <1>5, <1>8, <2>3 DEF Web
    <3> QED
      BY <3>1 DEF Outbound
  <2> QED
    BY <2>1, <2>2, <2>3
<1> QED
  BY <1>6, <1>7, <1>8 DEF Next

(* Only the gate opens an inbox reply.                                     *)
LEMMA InboxStep ==
    ASSUME TypeOK, [Next]_vars, NEW k \in Leads, Unreachable(k)
    PROVE  inbox'[k] \in {inbox[k], NoReply}
<1>1. CASE UNCHANGED inbox
  BY <1>1
<1>2. ASSUME NEW l \in Leads, OpenReply(l) PROVE inbox'[k] = inbox[k]
  <2>1. k # l
    BY <1>2 DEF OpenReply, Gate, NotOptedOut, HasBasis, WithinServiceWindow, Unreachable
  <2>2. \E loaded : inbox' = [inbox EXCEPT ![l] = loaded]
    BY <1>2, InboxType
  <2> QED
    BY <2>1, <2>2 DEF TypeOK
<1>3. ASSUME NEW l \in Leads, SendReply(l) PROVE inbox'[k] \in {inbox[k], NoReply}
  BY <1>3 DEF SendReply, TypeOK
<1>4. ASSUME NEW l \in Leads, NEW i \in Inbound, Web(l, i) \/ TaskStep(l, i) \/ TaskFault(l, i)
      PROVE  UNCHANGED inbox
  BY <1>4 DEF Web, Ingest, Schedule, ScheduleFails, TaskFault, TaskFails, DeliverUnrecorded,
              WorkerKilled, TaskStep, AgentOff, Silenced, HonorOptOut, Superseded, Think,
              StopNonLead, ConfirmMeeting, CommitReply, FinishDraft, BeginTyping, Deliver
<1>5. CASE Dashboard
  BY <1>1, <1>2, <1>3, <1>5
  DEF Dashboard, ToggleTakeover, UpdateLead, PatchLead, SwitchAgent, SaveSettings
<1>6. CASE Clock \/ UNCHANGED vars
  <2>1. UNCHANGED inbox
    BY <1>6 DEF Clock, SendGroupPromos, TokenExpires, WindowCloses, Midnight, vars
  <2> QED
    BY <2>1
<1> QED
  BY <1>1, <1>4, <1>5, <1>6 DEF Next

(* A task that moves without passing the gate.                             *)
LEMMA GateMove ==
    ASSUME TypeOK, NEW l \in Leads, NEW j \in Inbound, NEW state, Goto(l, j, state),
           \/ /\ UNCHANGED sends
              /\ state \notin {"replied", "typing"} \/ pc[l][j] \in {"replied", "typing"}
           \/ /\ sends' = [sends EXCEPT ![l][j] = @ + 1]
              /\ pc[l][j] = "typing" /\ state \notin {"replied", "typing"}
    PROVE  \A k \in Leads, i \in Inbound : PastGate(k, i)' <= PastGate(k, i)
<1> SUFFICES ASSUME NEW k \in Leads, NEW i \in Inbound
             PROVE  PastGate(k, i)' <= PastGate(k, i)
  OBVIOUS
<1>1. sends[k][i] \in Nat /\ sends[l][j] \in Nat
  BY DEF TypeOK, HistoryOK
<1>2. CASE k = l /\ i = j
  <2>1. pc'[l][j] = state
    BY DEF Goto, TypeOK, TasksOK
  <2>2. CASE UNCHANGED sends
    BY <1>1, <1>2, <2>1, <2>2 DEF PastGate
  <2>3. CASE sends' = [sends EXCEPT ![l][j] = @ + 1]
    <3>1. sends'[l][j] = sends[l][j] + 1
      BY <2>3 DEF TypeOK, HistoryOK
    <3>2. sends'[l][j] # sends[l][j]
      BY <1>1, <3>1
    <3>3. pc[l][j] = "typing" /\ state \notin {"replied", "typing"}
      BY <3>2
    <3> QED
      BY <1>1, <1>2, <2>1, <3>1, <3>3 DEF PastGate
  <2> QED
    BY <2>2, <2>3
<1>3. CASE ~(k = l /\ i = j)
  <2>1. pc'[k][i] = pc[k][i]
    BY <1>3 DEF Goto, TypeOK, TasksOK
  <2>2. sends'[k][i] = sends[k][i]
    BY <1>3 DEF TypeOK, HistoryOK
  <2> QED
    BY <1>1, <2>1, <2>2 DEF PastGate
<1> QED
  BY <1>2, <1>3

LEMMA GateStep ==
    ASSUME TypeOK, [Next]_vars, NEW k \in Leads,
           Unreachable(k) \/ ~(workspace.agent_enabled /\ workspace.is_running)
    PROVE  \A i \in Inbound : PastGate(k, i)' <= PastGate(k, i)
<1>1. CASE UNCHANGED <<pc, sends>>
  <2>1. \A i \in Inbound : sends[k][i] \in Nat
    BY DEF TypeOK, HistoryOK
  <2> QED
    BY <1>1, <2>1 DEF PastGate
<1>2. ASSUME NEW l \in Leads, NEW j \in Inbound,
             \/ Web(l, j) \/ AgentOff(l, j) \/ Silenced(l, j) \/ HonorOptOut(l, j)
             \/ Superseded(l, j) \/ Think(l, j) \/ StopNonLead(l, j)
             \/ ConfirmMeeting(l, j) \/ FinishDraft(l, j) \/ TaskFails(l, j)
             \/ WorkerKilled(l, j)
      PROVE  \A i \in Inbound : PastGate(k, i)' <= PastGate(k, i)
  <2>1. PICK state \in TaskState \ {"replied", "typing"} : Goto(l, j, state)
    <3>1. CASE Web(l, j) \/ Think(l, j) \/ ConfirmMeeting(l, j)
      BY <3>1 DEF Web, Ingest, Schedule, ScheduleFails, Think, ConfirmMeeting, TaskState, Running
    <3>2. CASE ~(Web(l, j) \/ Think(l, j) \/ ConfirmMeeting(l, j))
      BY <1>2, <3>2 DEF AgentOff, Silenced, HonorOptOut, Superseded, StopNonLead, FinishDraft,
                        TaskFails, WorkerKilled, TaskEnds, RunAgain, TaskState, Running, Ended
    <3> QED
      BY <3>1, <3>2
  <2>2. UNCHANGED sends
    BY <1>2 DEF Web, Ingest, Schedule, ScheduleFails, AgentOff, Silenced, HonorOptOut,
                Superseded, Think, StopNonLead, ConfirmMeeting, FinishDraft, TaskFails,
                WorkerKilled, history
  <2> QED
    BY <2>1, <2>2, GateMove
<1>3. ASSUME NEW l \in Leads, NEW j \in Inbound, NEW m \in MeetingStatus, CommitReply(l, j, m)
      PROVE  \A i \in Inbound : PastGate(k, i)' <= PastGate(k, i)
  <2>1. UNCHANGED sends
    BY <1>3 DEF CommitReply
  <2>2. CASE ~AutoSend(l, j)
    <3>1. Goto(l, j, "drafted")
      BY <1>3, <2>2 DEF CommitReply
    <3> QED
      BY <2>1, <3>1, GateMove
  <2>3. CASE AutoSend(l, j)
    <3>1. k # l
      BY <2>3 DEF AutoSend, Gate, NotOptedOut, AgentLive, HasBasis, WithinServiceWindow,
                  Unreachable
    <3>2. Goto(l, j, "replied")
      BY <1>3, <2>3 DEF CommitReply
    <3>3. pc'[k] = pc[k] /\ sends' = sends
      BY <2>1, <3>1, <3>2 DEF Goto, TypeOK, TasksOK
    <3>4. \A i \in Inbound : sends[k][i] \in Nat
      BY DEF TypeOK, HistoryOK
    <3> QED
      BY <3>3, <3>4 DEF PastGate
  <2> QED
    BY <2>2, <2>3
<1>4. ASSUME NEW l \in Leads, NEW j \in Inbound, BeginTyping(l, j)
      PROVE  \A i \in Inbound : PastGate(k, i)' <= PastGate(k, i)
  <2>1. pc[l][j] = "replied" /\ Goto(l, j, "typing") /\ UNCHANGED sends
    BY <1>4 DEF BeginTyping, history
  <2> QED
    BY <2>1, GateMove
<1>5. ASSUME NEW l \in Leads, NEW j \in Inbound, Deliver(l, j) \/ DeliverUnrecorded(l, j)
      PROVE  \A i \in Inbound : PastGate(k, i)' <= PastGate(k, i)
  <2>1. /\ pc[l][j] = "typing" /\ sends' = [sends EXCEPT ![l][j] = @ + 1]
        /\ \E state \in {"sent", "queued", "failed"} : Goto(l, j, state)
    BY <1>5 DEF Deliver, DeliverUnrecorded, HandOver, TaskEnds, RunAgain
  <2> QED
    BY <2>1, GateMove
<1>6. CASE Dashboard \/ Clock \/ UNCHANGED vars
  <2>1. UNCHANGED <<pc, sends>>
    BY <1>6 DEF Dashboard, OpenReply, SendReply, ToggleTakeover, UpdateLead, PatchLead,
                SwitchAgent, SaveSettings, Clock, SendGroupPromos, TokenExpires,
                WindowCloses, Midnight, tasks, history, vars
  <2> QED
    BY <1>1, <2>1
<1> QED
  BY <1>2, <1>3, <1>4, <1>5, <1>6 DEF Next, TaskStep, TaskFault

(* While a lead is opted out or its last message is older than 24 h, no    *)
(* task and no inbox reply gets past the gate; a message leaves, or a      *)
(* HUMAN row is booked, only for one that had passed it before.            *)
THEOREM NoReplyWithoutBasis == Spec => NoSendWithoutBasis
<1>1. TypeOK /\ [Next]_vars =>
        [\A l \in Leads :
           /\ Unreachable(l) \/ ~(workspace.agent_enabled /\ workspace.is_running)
                => \A i \in Inbound : PastGate(l, i)' <= PastGate(l, i)
           /\ Unreachable(l)
                => /\ inbox'[l] \in {inbox[l], NoReply}
                   /\ Outbound(l)' = Outbound(l) \/ inbox'[l] # inbox[l]]_vars
  BY BasisStep, InboxStep, GateStep
<1> QED
  BY <1>1, TypeCorrect, PTL DEF Spec, NoSendWithoutBasis

-----------------------------------------------------------------------------
(* The daily counter.                                                      *)

(* An inbox reply is opened with the row as it is, or is as it was; and    *)
(* the row is left alone, or brought up to the day, while one is open.     *)
LoadedNow(l) ==
    inbox'[l].sent = workspace.sent /\ inbox'[l].reset_day = workspace.reset_day

CounterKept ==
    workspace'.sent = workspace.sent /\ workspace'.reset_day = workspace.reset_day

InboxKept ==
    \A l \in Leads :
        inbox'[l] # NoReply =>
            /\ inbox'[l] = inbox[l] \/ LoadedNow(l)
            /\ today' = today
            /\ workspace'.reset_day = today \/ CounterKept

(* What a step must do to keep the counter honest: move the row forward,   *)
(* keep it covered by the day's messages, and remember in a typing task    *)
(* nothing but what was remembered before or what the row says.            *)
LEMMA CounterFrame ==
    ASSUME TypeOK, TypeOK', CounterInv,
           workspace.reset_day <= workspace'.reset_day,
           workspace'.reset_day <= today',
           straddled => straddled',
           \A d \in 0..MaxDay : charged[d] <= charged'[d],
           ~straddled' => workspace'.sent <= charged'[workspace'.reset_day],
           \A k \in Leads, j \in Inbound :
              pc'[k][j] = "typing" =>
                 \/ pc[k][j] = "typing" /\ local'[k][j] = local[k][j]
                 \/ /\ local'[k][j].sent = workspace.sent
                    /\ local'[k][j].reset_day = workspace.reset_day,
           ~straddled' => InboxKept
    PROVE  CounterInv'
<1>0. ASSUME ~straddled', NEW k \in Leads, inbox'[k] # NoReply
      PROVE  InboxIsCovered(inbox[k])'
  <2>1. inbox'[k] = inbox[k] \/ LoadedNow(k)
    BY <1>0 DEF InboxKept
  <2>2. /\ inbox'[k].sent \in Nat /\ inbox'[k].reset_day \in Nat
        /\ inbox'[k].reset_day <= workspace.reset_day
        /\ inbox'[k].sent <= charged[inbox'[k].reset_day]
    <3>1. workspace.reset_day \in Nat /\ workspace.sent \in Nat
      BY DEF TypeOK, RowsOK, WorkspaceRow
    <3>2. CASE inbox'[k] = inbox[k]
      BY <1>0, <3>2, InboxRowType DEF CounterInv, InboxIsCovered
    <3>3. CASE LoadedNow(k)
      BY <1>0, <3>1, <3>3 DEF LoadedNow, CounterInv
    <3> QED
      BY <2>1, <3>2, <3>3
  <2>3. /\ workspace.reset_day \in Nat /\ workspace'.reset_day \in Nat /\ today \in 0..MaxDay
        /\ workspace.reset_day <= today
    BY DEF TypeOK, RowsOK, WorkspaceRow, CounterInv
  <2>4. inbox'[k].reset_day \in 0..MaxDay
    BY <2>2, <2>3, ReplyAgentAssumption DEF ReplyAgentAssumption
  <2>5. charged[inbox'[k].reset_day] \in Nat /\ charged'[inbox'[k].reset_day] \in Nat
    BY <2>4 DEF TypeOK, HistoryOK
  <2>6. inbox'[k].reset_day <= workspace'.reset_day
    BY <2>2, <2>3
  <2>7. inbox'[k].sent <= charged'[inbox'[k].reset_day]
    BY <2>2, <2>4, <2>5
  <2>8. \/ workspace'.reset_day = today'
        \/ workspace'.sent = inbox'[k].sent /\ workspace'.reset_day = inbox'[k].reset_day
    <3>1. today' = today /\ (workspace'.reset_day = today \/ CounterKept)
      BY <1>0 DEF InboxKept
    <3>2. CASE LoadedNow(k)
      BY <3>1, <3>2 DEF LoadedNow, CounterKept
    <3>3. CASE inbox'[k] = inbox[k]
      <4>1. \/ workspace.reset_day = today
            \/ workspace.sent = inbox[k].sent /\ workspace.reset_day = inbox[k].reset_day
        BY <1>0, <3>3 DEF CounterInv, InboxIsCovered
      <4> QED
        BY <3>1, <3>3, <4>1 DEF CounterKept
    <3> QED
      BY <2>1, <3>2, <3>3
  <2> QED
    BY <2>6, <2>7, <2>8 DEF InboxIsCovered
<1> SUFFICES ASSUME ~straddled', NEW k \in Leads, NEW j \in Inbound, pc'[k][j] = "typing"
             PROVE  /\ local'[k][j].reset_day <= workspace'.reset_day
                    /\ local'[k][j].sent <= charged'[local'[k][j].reset_day]
  BY <1>0 DEF CounterInv
<1>1. /\ workspace.reset_day \in Nat /\ workspace'.reset_day \in Nat
      /\ workspace.sent \in Nat
      /\ today \in 0..MaxDay
      /\ local[k][j].reset_day \in Nat /\ local[k][j].sent \in Nat
  <2>1. /\ workspace.reset_day \in Nat /\ workspace'.reset_day \in Nat
        /\ workspace.sent \in Nat
    BY DEF TypeOK, RowsOK, WorkspaceRow
  <2>2. local[k][j].reset_day \in Nat /\ local[k][j].sent \in Nat
    BY DEF TypeOK, TasksOK, TaskLocal
  <2> QED
    BY <2>1, <2>2 DEF TypeOK
<1>2. \A d \in 0..MaxDay : charged[d] \in Nat /\ charged'[d] \in Nat
  BY DEF TypeOK, HistoryOK
<1>3. /\ local'[k][j].reset_day \in Nat
      /\ local'[k][j].sent \in Nat
      /\ local'[k][j].reset_day <= workspace.reset_day
      /\ local'[k][j].sent <= charged[local'[k][j].reset_day]
  BY <1>1 DEF CounterInv
<1>4. local'[k][j].reset_day \in 0..MaxDay
  BY <1>1, <1>3, ReplyAgentAssumption DEF CounterInv, ReplyAgentAssumption
<1> QED
  BY <1>1, <1>2, <1>3, <1>4

LEMMA CounterInit == Init => CounterInv
  BY ReplyAgentAssumption DEF Init, CounterInv, ReplyAgentAssumption

(* What the rows and the history say of the numbers compared.              *)
LEMMA CounterTypes ==
    ASSUME TypeOK, CounterInv
    PROVE  /\ workspace \in WorkspaceRow
           /\ workspace.reset_day \in 0..MaxDay /\ workspace.sent \in Nat
           /\ today \in 0..MaxDay /\ today \in Nat
           /\ workspace.reset_day <= today
           /\ \A d \in 0..MaxDay : charged[d] \in Nat
  BY ReplyAgentAssumption
  DEF TypeOK, RowsOK, HistoryOK, WorkspaceRow, CounterInv, ReplyAgentAssumption

LEMMA CounterTask ==
    ASSUME TypeOK, TypeOK', CounterInv,
           NEW l \in Leads, NEW i \in Inbound, Web(l, i) \/ TaskStep(l, i) \/ TaskFault(l, i)
    PROVE  CounterInv'
<1>0. /\ workspace \in WorkspaceRow
      /\ workspace.reset_day \in 0..MaxDay /\ workspace.sent \in Nat
      /\ today \in 0..MaxDay /\ today \in Nat
      /\ workspace.reset_day <= today
      /\ \A d \in 0..MaxDay : charged[d] \in Nat
  BY CounterTypes
<1>1. CASE \/ Web(l, i) \/ AgentOff(l, i) \/ Silenced(l, i) \/ HonorOptOut(l, i)
           \/ Superseded(l, i) \/ Think(l, i) \/ StopNonLead(l, i) \/ ConfirmMeeting(l, i)
           \/ FinishDraft(l, i) \/ TaskFails(l, i) \/ WorkerKilled(l, i)
  <2>1. UNCHANGED <<workspace, today, charged, straddled>>
    BY <1>1 DEF Web, Ingest, Schedule, ScheduleFails, AgentOff, Silenced, HonorOptOut,
                Superseded, Think, StopNonLead, ConfirmMeeting, FinishDraft, TaskFails,
                WorkerKilled, rows, history
  <2>2. PICK state \in TaskState \ {"typing"} : Goto(l, i, state)
    <3>1. CASE Web(l, i) \/ Think(l, i) \/ ConfirmMeeting(l, i)
      BY <3>1 DEF Web, Ingest, Schedule, ScheduleFails, Think, ConfirmMeeting, TaskState, Running
    <3>2. CASE ~(Web(l, i) \/ Think(l, i) \/ ConfirmMeeting(l, i))
      BY <1>1, <3>2 DEF AgentOff, Silenced, HonorOptOut, Superseded, StopNonLead, FinishDraft,
                        TaskFails, WorkerKilled, TaskEnds, RunAgain, TaskState, Running, Ended
    <3> QED
      BY <3>1, <3>2
  <2>3. \/ UNCHANGED local
        \/ \E memory : local' = [local EXCEPT ![l][i] = memory]
    BY <1>1 DEF Web, Ingest, Schedule, ScheduleFails, AgentOff, Silenced, HonorOptOut,
                Superseded, Think, StopNonLead, ConfirmMeeting, FinishDraft, TaskFails,
                WorkerKilled, TaskEnds, RunAgain
  <2>4. \A k \in Leads, j \in Inbound :
          pc'[k][j] = "typing" => pc[k][j] = "typing" /\ local'[k][j] = local[k][j]
    BY <2>2, <2>3 DEF Goto, TypeOK, TasksOK
  <2>5. InboxKept
    BY <1>1, <2>1 DEF InboxKept, CounterKept, Web, Ingest, Schedule, ScheduleFails, AgentOff,
                Silenced, HonorOptOut, Superseded, Think, StopNonLead, ConfirmMeeting,
                FinishDraft, TaskFails, WorkerKilled
  <2> QED
    BY <1>0, <2>1, <2>4, <2>5, CounterFrame DEF CounterInv
<1>2. ASSUME NEW m \in MeetingStatus, CommitReply(l, i, m) PROVE CounterInv'
  <2>1. /\ UNCHANGED <<today, charged, straddled, local>>
        /\ workspace' \in {workspace, ResetIfNewDay(workspace, today)}
    BY <1>2 DEF CommitReply
  <2>2. \A k \in Leads, j \in Inbound : pc'[k][j] = "typing" => pc[k][j] = "typing"
    BY <1>2 DEF CommitReply, Goto, TypeOK, TasksOK
  <2>3. /\ workspace.reset_day <= workspace'.reset_day
        /\ workspace'.reset_day <= today
        /\ ~straddled => workspace'.sent <= charged[workspace'.reset_day]
    BY <1>0, <2>1, ResetValue DEF CounterInv
  <2>4. InboxKept
    BY <1>0, <1>2, <2>1, ResetValue DEF InboxKept, CounterKept, CommitReply
  <2> QED
    BY <1>0, <2>1, <2>2, <2>3, <2>4, CounterFrame
<1>3. CASE BeginTyping(l, i)
  <2>1. UNCHANGED <<workspace, today, charged, straddled>>
    BY <1>3 DEF BeginTyping, rows, history
  <2>2. \A k \in Leads, j \in Inbound :
          IF k = l /\ j = i
          THEN /\ local'[k][j].sent = workspace.sent
               /\ local'[k][j].reset_day = workspace.reset_day
          ELSE pc'[k][j] = pc[k][j] /\ local'[k][j] = local[k][j]
    BY <1>3 DEF BeginTyping, Goto, TypeOK, TasksOK, TaskLocal
  <2>3. InboxKept
    BY <1>3, <2>1 DEF InboxKept, CounterKept, BeginTyping
  <2> QED
    BY <1>0, <2>1, <2>2, <2>3, CounterFrame DEF CounterInv
<1>4. ASSUME HandOver(l, i)
      PROVE  /\ \A d \in 0..MaxDay :
                  charged'[d] = IF d = today THEN charged[d] + 1 ELSE charged[d]
             /\ \A d \in 0..MaxDay : charged[d] <= charged'[d]
  <2>1. charged \in [0..MaxDay -> Nat] /\ charged' = [charged EXCEPT ![today] = @ + 1]
    BY <1>4 DEF HandOver, TypeOK, HistoryOK
  <2>2. \A d \in 0..MaxDay :
          charged'[d] = IF d = today THEN charged[d] + 1 ELSE charged[d]
    BY <2>1
  <2> QED
    BY <1>0, <2>2
<1>5. CASE DeliverUnrecorded(l, i)
  <2>1. HandOver(l, i) /\ UNCHANGED <<workspace, today, straddled>>
    BY <1>5 DEF DeliverUnrecorded, rows
  <2>2. \A k \in Leads, j \in Inbound :
          pc'[k][j] = "typing" => pc[k][j] = "typing" /\ local'[k][j] = local[k][j]
    BY <1>5 DEF DeliverUnrecorded, RunAgain, Goto, TypeOK, TasksOK
  <2>3. ~straddled => workspace.sent <= charged'[workspace.reset_day]
    BY <1>0, <1>4, <2>1 DEF CounterInv
  <2>4. InboxKept
    BY <1>5, <2>1 DEF InboxKept, CounterKept, DeliverUnrecorded
  <2> QED
    BY <1>0, <1>4, <2>1, <2>2, <2>3, <2>4, CounterFrame
<1>6. CASE Deliver(l, i)
  <2> DEFINE loaded == Loaded(l, i)
             bumped == BumpSentCounter(loaded, today)
  <2>1. /\ loaded \in WorkspaceRow
        /\ loaded.sent = local[l][i].sent /\ loaded.reset_day = local[l][i].reset_day
    BY <1>0, LoadedType DEF Loaded, WorkspaceRow
  <2>2. bumped \in WorkspaceRow
    BY <1>0, <2>1, ResetType
  <2>3. /\ bumped.reset_day = today
        /\ loaded.reset_day = today => bumped.sent = loaded.sent + 1
    BY <1>0, <2>1, BumpValue
  <2>4. /\ HandOver(l, i)
        /\ workspace' = Flushed(workspace, loaded, bumped)
        /\ pc[l][i] = "typing"
        /\ straddled' = (straddled \/ local[l][i].reset_day # today)
        /\ UNCHANGED today
    BY <1>6 DEF Deliver
  <2> HIDE DEF loaded, bumped
  <2>5. /\ workspace'.sent = IF bumped.sent = loaded.sent THEN workspace.sent ELSE bumped.sent
        /\ workspace'.reset_day = IF bumped.reset_day = loaded.reset_day
                                  THEN workspace.reset_day ELSE bumped.reset_day
    BY <1>0, <2>4 DEF Flushed, WorkspaceRow
  <2>6. /\ workspace.reset_day <= workspace'.reset_day
        /\ workspace'.reset_day <= today
    BY <1>0, <2>3, <2>5
  <2>7. ASSUME ~straddled' PROVE workspace'.sent <= charged'[workspace'.reset_day]
    <3>1. ~straddled /\ local[l][i].reset_day = today
      BY <2>4, <2>7
    <3>2. workspace'.reset_day = today
      BY <1>0, <2>1, <2>3, <2>4, <2>5, <3>1 DEF CounterInv
    <3>3. loaded.sent \in Nat /\ workspace'.sent = loaded.sent + 1
      BY <2>1, <2>3, <2>5, <3>1 DEF WorkspaceRow
    <3>4. local[l][i].sent <= charged[today]
      BY <2>4, <3>1 DEF CounterInv
    <3> QED
      BY <1>0, <1>4, <2>1, <2>4, <3>2, <3>3, <3>4
  <2>8. \A k \in Leads, j \in Inbound :
          pc'[k][j] = "typing" => pc[k][j] = "typing" /\ local'[k][j] = local[k][j]
    BY <1>6 DEF Deliver, TaskEnds, Goto, TypeOK, TasksOK
  <2>9. ~straddled' => InboxKept
    <3>1. ~straddled' => workspace'.reset_day = today
      <4>1. ~straddled' => ~straddled /\ local[l][i].reset_day = today
        BY <2>4
      <4>2. ~straddled => local[l][i].reset_day <= workspace.reset_day
        BY <2>4 DEF CounterInv
      <4> QED
        BY <1>0, <2>1, <2>3, <2>5, <4>1, <4>2
    <3> QED
      BY <1>6, <2>4, <3>1 DEF InboxKept, Deliver
  <2> QED
    BY <1>4, <2>4, <2>6, <2>7, <2>8, <2>9, CounterFrame
<1> QED
  BY <1>1, <1>2, <1>3, <1>5, <1>6 DEF TaskStep, TaskFault

LEMMA CounterRest ==
    ASSUME TypeOK, TypeOK', CounterInv, Dashboard \/ Clock
    PROVE  CounterInv'
<1>0. /\ workspace \in WorkspaceRow
      /\ workspace.reset_day \in 0..MaxDay /\ workspace.sent \in Nat
      /\ today \in 0..MaxDay /\ today \in Nat
      /\ workspace.reset_day <= today
      /\ \A d \in 0..MaxDay : charged[d] \in Nat
  BY CounterTypes
<1>1. UNCHANGED <<pc, local>>
  BY DEF Dashboard, OpenReply, SendReply, ToggleTakeover, UpdateLead, PatchLead, SwitchAgent,
         SaveSettings, Clock, SendGroupPromos, TokenExpires, WindowCloses, Midnight, tasks
<1>7. straddled => straddled'
  BY DEF Dashboard, OpenReply, SendReply, ToggleTakeover, UpdateLead, PatchLead, SwitchAgent,
         SaveSettings, Clock, SendGroupPromos, TokenExpires, WindowCloses, Midnight, history
<1>2. ASSUME /\ charged' \in {charged, [charged EXCEPT ![today] = @ + 1]}
             /\ today' \in {today, today + 1}
             /\ \/ CounterKept
                \/ workspace' = ResetIfNewDay(workspace, today)
                \/ /\ charged' # charged
                   /\ workspace' = BumpSentCounter(workspace, today),
             ~straddled' => InboxKept
      PROVE  CounterInv'
  <2>1. \A d \in 0..MaxDay : charged[d] <= charged'[d]
    BY <1>0, <1>2 DEF TypeOK, HistoryOK
  <2>2. charged' # charged => charged'[today] = charged[today] + 1
    BY <1>0, <1>2 DEF TypeOK, HistoryOK
  <2>3. /\ workspace.reset_day <= workspace'.reset_day
        /\ workspace'.reset_day <= today'
    BY <1>0, <1>2, ResetValue, BumpValue DEF CounterKept
  <2>4. ASSUME ~straddled' PROVE workspace'.sent <= charged'[workspace'.reset_day]
    <3>1. workspace.sent <= charged[workspace.reset_day]
      <4>1. ~straddled
        BY <1>7, <2>4
      <4> QED
        BY <4>1 DEF CounterInv
    <3>2. charged'[today] \in Nat /\ charged'[workspace.reset_day] \in Nat
      BY <1>0 DEF TypeOK, HistoryOK
    <3>3. CASE CounterKept
      BY <1>0, <2>1, <3>1, <3>2, <3>3 DEF CounterKept
    <3>4. CASE workspace' = ResetIfNewDay(workspace, today)
      BY <1>0, <2>1, <3>1, <3>2, <3>4, ResetValue
    <3>5. CASE charged' # charged /\ workspace' = BumpSentCounter(workspace, today)
      BY <1>0, <2>2, <3>1, <3>2, <3>5, BumpValue
    <3> QED
      BY <1>2, <3>3, <3>4, <3>5
  <2> QED
    BY <1>1, <1>2, <1>7, <2>1, <2>3, <2>4, CounterFrame
<1>3. CASE Clock
  <2>1. ASSUME NEW posts \in BOOLEAN, SendGroupPromos(posts) PROVE CounterInv'
    <3>1. charged # [charged EXCEPT ![today] = @ + 1]
      BY <1>0 DEF TypeOK, HistoryOK
    <3>2. UNCHANGED <<today, inbox>>
      BY <2>1 DEF SendGroupPromos
    <3>3. \/ UNCHANGED workspace
          \/ workspace' = ResetIfNewDay(workspace, today)
          \/ charged' # charged /\ workspace' = BumpSentCounter(workspace, today)
      BY <2>1, <3>1 DEF SendGroupPromos
    <3>4. InboxKept
      BY <1>0, <3>2, <3>3, ResetValue, BumpValue DEF InboxKept, CounterKept
    <3>5. charged' \in {charged, [charged EXCEPT ![today] = @ + 1]}
      BY <2>1 DEF SendGroupPromos
    <3> QED
      BY <1>2, <3>2, <3>3, <3>4, <3>5 DEF CounterKept
  <2>2. CASE Midnight
    <3>1. UNCHANGED <<workspace, charged, inbox>> /\ today' = today + 1
      BY <2>2 DEF Midnight, rows
    <3>2. ~straddled' => \A l \in Leads : inbox[l] = NoReply
      BY <2>2 DEF Midnight
    <3> QED
      BY <1>2, <3>1, <3>2 DEF InboxKept, CounterKept
  <2>3. CASE \E l \in Leads : TokenExpires(l) \/ WindowCloses(l)
    <3>1. UNCHANGED <<workspace, charged, inbox, today>>
      BY <2>3 DEF TokenExpires, WindowCloses, rows, history
    <3> QED
      BY <1>2, <3>1 DEF InboxKept, CounterKept
  <2> QED
    BY <1>3, <2>1, <2>2, <2>3 DEF Clock
<1>4. ASSUME NEW l \in Leads, OpenReply(l) PROVE CounterInv'
  <2>1. UNCHANGED <<workspace, charged, today>>
    BY <1>4 DEF OpenReply, rows, history
  <2>2. PICK loaded :
          /\ inbox' = [inbox EXCEPT ![l] = loaded]
          /\ loaded.sent = workspace.sent /\ loaded.reset_day = workspace.reset_day
    BY <1>4, InboxType
  <2>3. \A k \in Leads : inbox'[k] = inbox[k] \/ LoadedNow(k)
    BY <2>2 DEF LoadedNow, TypeOK
  <2> QED
    BY <1>2, <2>1, <2>3 DEF InboxKept, CounterKept
<1>5. ASSUME NEW l \in Leads, SendReply(l) PROVE CounterInv'
  <2> DEFINE loaded == LoadedByInbox(l)
             bumped == BumpSentCounter(loaded, today)
  <2>1. /\ inbox[l] # NoReply
        /\ inbox[l].sent \in Nat /\ inbox[l].reset_day \in Nat
        /\ loaded \in WorkspaceRow
        /\ loaded.sent = inbox[l].sent /\ loaded.reset_day = inbox[l].reset_day
    BY <1>5, InboxRowType DEF SendReply
  <2>2. bumped \in WorkspaceRow
    BY <1>0, <2>1, ResetType
  <2>3. /\ bumped.reset_day = today
        /\ loaded.reset_day = today => bumped.sent = loaded.sent + 1
        /\ loaded.reset_day # today => bumped.sent = 1
    BY <1>0, <2>1, BumpValue
  <2>4. /\ workspace' = Flushed(workspace, loaded, bumped)
        /\ charged' = [charged EXCEPT ![today] = @ + 1]
        /\ inbox' = [inbox EXCEPT ![l] = NoReply]
        /\ UNCHANGED <<today, straddled>>
    BY <1>5 DEF SendReply
  <2> HIDE DEF loaded, bumped
  <2>5. /\ workspace'.sent = IF bumped.sent = loaded.sent THEN workspace.sent ELSE bumped.sent
        /\ workspace'.reset_day = IF bumped.reset_day = loaded.reset_day
                                  THEN workspace.reset_day ELSE bumped.reset_day
    BY <1>0, <2>4 DEF Flushed, WorkspaceRow
  <2>6. /\ workspace.reset_day <= workspace'.reset_day
        /\ workspace'.reset_day <= today
    BY <1>0, <2>3, <2>5
  <2>7. \A d \in 0..MaxDay :
          charged'[d] = IF d = today THEN charged[d] + 1 ELSE charged[d]
    BY <2>4 DEF TypeOK, HistoryOK
  <2>8. \A d \in 0..MaxDay : charged[d] <= charged'[d]
    BY <1>0, <2>7
  <2>9. ~straddled => InboxIsCovered(inbox[l])
    BY <2>1 DEF CounterInv
  <2>10. ~straddled => workspace'.reset_day = today
    BY <1>0, <2>1, <2>3, <2>5, <2>9 DEF InboxIsCovered
  <2>11. ASSUME ~straddled' PROVE workspace'.sent <= charged'[workspace'.reset_day]
    <3>1. ~straddled /\ workspace'.reset_day = today
      BY <2>4, <2>10, <2>11
    <3>2. charged[today] \in Nat /\ charged'[today] = charged[today] + 1
      BY <1>0, <2>7
    <3>3. CASE loaded.reset_day = today
      <4>1. workspace'.sent = loaded.sent + 1
        BY <2>1, <2>3, <2>5, <3>3
      <4>2. loaded.sent <= charged[today]
        BY <2>1, <2>9, <3>1, <3>3 DEF InboxIsCovered
      <4> QED
        BY <2>1, <3>1, <3>2, <4>1, <4>2
    <3>4. CASE loaded.reset_day # today
      <4>1. workspace'.sent = IF loaded.sent = 1 THEN workspace.sent ELSE 1
        BY <2>3, <2>5, <3>4
      <4>2. CASE loaded.sent # 1
        BY <3>1, <3>2, <4>1, <4>2
      <4>3. CASE loaded.sent = 1 /\ workspace.reset_day = today
        <5>1. workspace.sent <= charged[today]
          BY <3>1, <4>3 DEF CounterInv
        <5> QED
          BY <1>0, <3>1, <3>2, <4>1, <4>3, <5>1
      <4>4. CASE loaded.sent = 1 /\ workspace.reset_day # today
        <5>1. workspace.sent = 1
          BY <2>1, <2>9, <3>1, <4>4 DEF InboxIsCovered
        <5> QED
          BY <3>1, <3>2, <4>1, <4>4, <5>1
      <4> QED
        BY <4>2, <4>3, <4>4
    <3> QED
      BY <3>3, <3>4
  <2>12. \A k \in Leads : inbox'[k] # NoReply => inbox'[k] = inbox[k]
    BY <2>4 DEF TypeOK
  <2>13. ~straddled' => InboxKept
    BY <2>4, <2>10, <2>12 DEF InboxKept
  <2> QED
    BY <1>1, <1>7, <2>4, <2>6, <2>8, <2>11, <2>13, CounterFrame
<1>6. CASE Dashboard /\ ~\E l \in Leads : OpenReply(l) \/ SendReply(l)
  <2>1. /\ UNCHANGED <<charged, today, inbox>>
        /\ CounterKept
    BY <1>0, <1>6 DEF Dashboard, ToggleTakeover, UpdateLead, PatchLead, SwitchAgent, SaveSettings,
                      history, WorkspaceRow, CounterKept
  <2> QED
    BY <1>2, <2>1 DEF InboxKept
<1> QED
  BY <1>3, <1>4, <1>5, <1>6

(* Unless a reply is under way at midnight, a tenant is never charged for  *)
(* more messages than were handed over, or booked by a person's reply, on  *)
(* that day, whatever updates of the counter are lost.                     *)
THEOREM CounterIsHonest == Spec => []CounterNeverOvercounts
<1>1. TypeOK /\ TypeOK' /\ CounterInv /\ [Next]_vars => CounterInv'
  <2> SUFFICES ASSUME TypeOK, TypeOK', CounterInv, [Next]_vars PROVE CounterInv'
    OBVIOUS
  <2>1. CASE UNCHANGED vars
    BY <2>1 DEF vars, CounterInv, InboxIsCovered
  <2> QED
    BY <2>1, CounterTask, CounterRest DEF Next
<1>2. CounterInv => CounterNeverOvercounts
  BY DEF CounterInv, CounterNeverOvercounts
<1> QED
  BY <1>1, <1>2, CounterInit, TypeCorrect, PTL DEF Spec
=============================================================================
