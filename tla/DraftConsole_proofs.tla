------------------------ MODULE DraftConsole_proofs ------------------------
(***************************************************************************)
(* Theorems about DraftConsole, for every number of leads, messages,       *)
(* requests, groups and days.  ApprovalInv follows a message through its   *)
(* approvals to its job, CounterInv says what a transaction that holds the *)
(* counter knows of it, FollowupInv and PromoInv what a beat that is       *)
(* running may still do.  With the types they are inductive.               *)
(***************************************************************************)
EXTENDS DraftConsole, OutreachPolicy_proofs, SetLemmas

-----------------------------------------------------------------------------
(* The inductive invariants.                                               *)

(* r holds an approval of m that is not committed, or a commit not queued. *)
Approving(r, m) ==
    request[r].phase = "loaded" /\ request[r].op # "manual" /\ request[r].on = m

Committed(r, m) == request[r].phase = "committed" /\ request[r].on = m

RequestInv ==
    \A r \in Requests :
        /\ request[r].phase = "loaded" =>
             request[r].on \in (IF request[r].op = "manual" THEN Contacts ELSE MessageIds)
        /\ request[r].phase = "committed" => request[r].on \in MessageIds

(* An id that is not in use yet has no past.                               *)
UnusedInv ==
    \A m \in MessageIds : message[m].status = "none" =>
        jobs[m] = 0 /\ \A r \in Requests : ~Approving(r, m) /\ ~Committed(r, m)

CommittedInv ==
    \A m \in MessageIds, r \in Requests :
        Committed(r, m) => message[m].status \in {"SENT", "gone"}

(* Without overlap a draft has one approval, then one commit, then one job.*)
ApprovalInv ==
    \A m \in MessageIds \ contested :
        /\ jobs[m] <= 1
        /\ message[m].status = "DRAFT" => jobs[m] = 0
        /\ \A r, q \in Requests : Approving(r, m) /\ Approving(q, m) => r = q
        /\ \A r, q \in Requests : Committed(r, m) /\ Committed(q, m) => r = q
        /\ \A r \in Requests : Approving(r, m) =>
             jobs[m] = 0 /\ message[m].status \in {"DRAFT", "gone"}
        /\ \A r, q \in Requests : Committed(r, m) => jobs[m] = 0 /\ ~Approving(q, m)

(* The transactions that will write the counter they loaded.               *)
Holds(r) == request[r].phase = "loaded" /\ request[r].op # "approve_plain"

ValueInv ==
    /\ workspace.reset_day <= today
    /\ Counter <= Limit + tally.untested

SoleHolder ==
    /\ \A r, q \in Requests : Holds(r) /\ Holds(q) => r = q
    /\ \A r \in Requests, by \in Posters : Holds(r) => promo[by] = Idle
    /\ \A a, b \in Posters : promo[a] # Idle /\ promo[b] # Idle => a = b

LoadedInv ==
    \A r \in Requests : Holds(r) =>
        /\ request[r].sent = workspace.sent
        /\ request[r].reset_day = workspace.reset_day
        /\ Counter < Limit

RunInv ==
    \A by \in Posters : promo[by] # Idle =>
        LET run == promo[by] IN
        /\ run.loaded = workspace
        /\ workspace.reset_day <= run.row.reset_day
        /\ run.row.reset_day <= today
        /\ run.row.reset_day = today => run.row.sent = Counter + run.counted
        /\ by = "beat" /\ run.row.reset_day = today => run.row.sent <= Limit

CounterOK == ValueInv /\ SoleHolder /\ LoadedInv /\ RunInv

(* Without overlap there is one, and it knows the row; an approval or a    *)
(* manual message has room in the limit, and so has each post of the beat. *)
CounterInv == overlapped \/ CounterOK

(* What is shown, under way or excused on one side, what left, will leave  *)
(* or was refused on the other.                                            *)
Balance ==
    Counter + OpenPosts("beat") + OpenPosts("person") + tally.unbooked
        = tally.left + Cardinality(Booked) + tally.refused

BalanceInv == overlapped \/ Balance

(* A lead that is found stale has no follow-up draft of the check.         *)
CheckDraft(m) == message[m].status = "DRAFT" /\ message[m].by = "check"

FollowupInv ==
    /\ \A m \in MessageIds : CheckDraft(m) => message[m].lead \notin stale
    /\ \A m, n \in MessageIds :
         CheckDraft(m) /\ CheckDraft(n) /\ message[m].lead = message[n].lead => m = n

(* Where nothing is excused, the interval's post is the beat's.            *)
PromoInv ==
    \A g \in Groups \ excused :
        /\ posts[g] <= 1
        /\ promo["beat"] # Idle /\ g \in promo["beat"].left => posts[g] = 0
        /\ group[g] = "due" =>
             posts[g] = 0 \/ (promo["beat"] # Idle /\ g \in promo["beat"].done)

Inv ==
    /\ TypeOK
    /\ RequestInv
    /\ UnusedInv
    /\ CommittedInv
    /\ ApprovalInv
    /\ CounterInv
    /\ BalanceInv
    /\ FollowupInv
    /\ PromoInv

-----------------------------------------------------------------------------
(* Rows and requests as records.                                           *)

LEMMA MessageShape ==
    ASSUME RowsOK, NEW m \in MessageIds
    PROVE  /\ message[m].status \in {"none", "DRAFT", "SENT", "gone"}
           /\ message[m].status = "none" <=> message[m] = NoRow
           /\ message[m].status = "gone" <=> message[m] = Gone
           /\ message[m].status \in {"DRAFT", "SENT"} <=> message[m] \in Row
<1>1. message[m] \in Row \cup {NoRow, Gone}
  BY DEF RowsOK
<1>2. \A row \in Row : row.status \in {"DRAFT", "SENT"}
  BY DEF Row
<1>3. NoRow.status = "none" /\ Gone.status = "gone"
  BY DEF NoRow, Gone
<1> QED
  BY <1>1, <1>2, <1>3

LEMMA RequestShape ==
    ASSUME RunsOK, NEW r \in Requests
    PROVE  /\ request[r].phase \in {"idle", "loaded", "committed", "ended"}
           /\ request[r].phase = "idle" <=> request[r] = Idle
           /\ request[r].phase \in {"loaded", "committed"} <=> request[r] \in Loaded
           /\ request[r].phase \in {"loaded", "committed"} =>
                /\ request[r].op \in {"approve", "approve_plain", "manual"}
                /\ request[r].sent \in Nat /\ request[r].reset_day \in Nat
<1>1. request[r] \in Loaded \cup {Idle, [phase |-> "ended"]}
  BY DEF RunsOK
<1>2. \A q \in Loaded : /\ q.phase \in {"loaded", "committed"}
                        /\ q.op \in {"approve", "approve_plain", "manual"}
                        /\ q.sent \in Nat /\ q.reset_day \in Nat
  BY DEF Loaded
<1>3. Idle.phase = "idle" /\ [phase |-> "ended"].phase = "ended"
  BY DEF Idle
<1> QED
  BY <1>1, <1>2, <1>3

LEMMA PromoShape ==
    ASSUME RunsOK, NEW by \in Posters, promo[by] # Idle
    PROVE  /\ promo[by] \in Posting
           /\ promo[by].left \in SUBSET Groups /\ promo[by].done \in SUBSET Groups
           /\ promo[by].loaded \in WorkspaceRow /\ promo[by].row \in WorkspaceRow
           /\ promo[by].counted \in Nat
<1>1. promo[by] \in Posting
  BY DEF RunsOK
<1> QED
  BY <1>1 DEF Posting

(* A commit leaves a request as it was, but for its phase and its message. *)
LEMMA CommitApprovalRequest ==
    ASSUME RunsOK, NEW r \in Requests, CommitApproval(r)
    PROVE  \E s \in Loaded : /\ s.phase = "committed" /\ s.on = request[r].on
                             /\ request' = [request EXCEPT ![r] = s]
<1> DEFINE s == [request[r] EXCEPT !.phase = "committed"]
<1>1. request[r] \in Loaded
  BY RequestShape DEF CommitApproval
<1>2. s \in Loaded /\ s.phase = "committed" /\ s.on = request[r].on
  BY <1>1 DEF Loaded
<1>3. request' = [request EXCEPT ![r] = s]
  BY <1>1 DEF CommitApproval, RunsOK
<1> HIDE DEF s
<1> QED
  BY <1>2, <1>3

LEMMA CommitManualRequest ==
    ASSUME RunsOK, NEW r \in Requests, NEW m \in MessageIds, CommitManual(r, m)
    PROVE  \E s \in Loaded : /\ s.phase = "committed" /\ s.on = m
                             /\ request' = [request EXCEPT ![r] = s]
<1> DEFINE t == [request[r] EXCEPT !.phase = "committed"]
           s == [t EXCEPT !.on = m]
<1>1. request[r] \in Loaded
  BY RequestShape DEF CommitManual
<1>2. t \in Loaded /\ t.phase = "committed"
  BY <1>1 DEF Loaded
<1>3. s \in Loaded /\ s.phase = "committed" /\ s.on = m
  <2> HIDE DEF t
  <2> QED
    BY <1>2 DEF Loaded
<1>4. request' = [request EXCEPT ![r] = s]
  BY <1>1 DEF CommitManual, RunsOK
<1> HIDE DEF s
<1> QED
  BY <1>3, <1>4

(* An approval commits a row that is there.                                *)
LEMMA CommitApprovalMessage ==
    ASSUME RowsOK, RunsOK, RequestInv, UnusedInv, NEW r \in Requests, CommitApproval(r)
    PROVE  LET m == request[r].on IN
           /\ m \in MessageIds /\ Approving(r, m)
           /\ message[m] \in Row
           /\ \E row \in Row : /\ row.status = "SENT" /\ row.lead = message[m].lead
                               /\ row.by = message[m].by
                               /\ message' = [message EXCEPT ![m] = row]
<1> DEFINE m == request[r].on
           row == [message[m] EXCEPT !.status = "SENT"]
<1>1. m \in MessageIds /\ Approving(r, m) /\ message[m] # Gone
  BY DEF CommitApproval, RequestInv, Approving
<1>2. message[m] \in Row
  <2>1. message[m].status # "none"
    BY <1>1 DEF UnusedInv
  <2>2. /\ message[m].status \in {"none", "DRAFT", "SENT", "gone"}
        /\ message[m].status = "gone" <=> message[m] = Gone
        /\ message[m].status \in {"DRAFT", "SENT"} <=> message[m] \in Row
    BY <1>1, MessageShape, Zenon
  <2> QED
    BY <1>1, <2>1, <2>2
<1>3. row \in Row /\ row.status = "SENT" /\ row.lead = message[m].lead /\ row.by = message[m].by
  BY <1>2 DEF Row
<1>4. message' = [message EXCEPT ![m] = row]
  BY <1>1, <1>2 DEF CommitApproval, RowsOK
<1> HIDE DEF row
<1> QED
  BY <1>1, <1>2, <1>3, <1>4

(* A post moves its group from left to done and counts it.                 *)
LEMMA PostInRun ==
    ASSUME RunsOK, NEW by \in Posters, NEW g \in Groups, PostIn(by, g)
    PROVE  LET run == promo[by] IN
           \E s \in Posting :
              /\ s.left = run.left \ {g} /\ s.done = run.done \cup {g}
              /\ s.loaded = run.loaded /\ s.row = BumpSentCounter(run.row, today)
              /\ s.counted = (IF run.row.reset_day = today THEN run.counted + 1 ELSE 1)
              /\ promo' = [promo EXCEPT ![by] = s]
<1> DEFINE run == promo[by]
           n == IF run.row.reset_day = today THEN run.counted + 1 ELSE 1
           w == BumpSentCounter(run.row, today)
           s1 == [run EXCEPT !.left = run.left \ {g}]
           s2 == [s1 EXCEPT !.done = run.done \cup {g}]
           s3 == [s2 EXCEPT !.row = w]
           s == [s3 EXCEPT !.counted = n]
<1>1. /\ run \in Posting /\ run.left \in SUBSET Groups /\ run.done \in SUBSET Groups
      /\ run.loaded \in WorkspaceRow /\ run.row \in WorkspaceRow /\ run.counted \in Nat
  BY PromoShape DEF PostIn
<1>2. today \in Nat
  BY DraftConsoleAssumption DEF DraftConsoleAssumption, RunsOK
<1>3. w \in WorkspaceRow /\ n \in Nat
  BY <1>1, <1>2, ResetType
<1>4. promo' = [promo EXCEPT ![by] = s]
  BY <1>1 DEF PostIn
<1> HIDE DEF w, n, run
<1>5. s1 \in Posting /\ s1.left = run.left \ {g} /\ s1.loaded = run.loaded
  BY <1>1 DEF Posting
<1> HIDE DEF s1
<1>6. s2 \in Posting /\ s2.left = s1.left /\ s2.done = run.done \cup {g} /\ s2.loaded = s1.loaded
  BY <1>1, <1>5 DEF Posting
<1> HIDE DEF s2
<1>7. s3 \in Posting /\ s3.left = s2.left /\ s3.done = s2.done /\ s3.loaded = s2.loaded /\ s3.row = w
  BY <1>3, <1>6 DEF Posting
<1> HIDE DEF s3
<1>8. s \in Posting /\ s.left = s3.left /\ s.done = s3.done /\ s.loaded = s3.loaded
      /\ s.row = s3.row /\ s.counted = n
  BY <1>3, <1>7 DEF Posting
<1> HIDE DEF s
<1> QED
  BY <1>4, <1>5, <1>6, <1>7, <1>8 DEF run, w, n

LEMMA StartPostingRun ==
    ASSUME RowsOK, RunsOK, NEW by \in Posters, NEW groups \in SUBSET Groups,
           StartPosting(by, groups)
    PROVE  \E s \in Posting :
              /\ s.left = groups /\ s.done = {} /\ s.loaded = workspace /\ s.counted = 0
              /\ s.row = (IF by = "beat" THEN ResetIfNewDay(workspace, today) ELSE workspace)
              /\ promo' = [promo EXCEPT ![by] = s]
<1> DEFINE w == IF by = "beat" THEN ResetIfNewDay(workspace, today) ELSE workspace
           s == [left |-> groups, done |-> {}, loaded |-> workspace, row |-> w,
                 counted |-> 0, phase |-> "posting"]
<1>1. workspace \in WorkspaceRow /\ today \in Nat
  BY DraftConsoleAssumption DEF DraftConsoleAssumption, RowsOK, RunsOK
<1>2. w \in WorkspaceRow
  BY <1>1, ResetType
<1>3. promo' = [promo EXCEPT ![by] = s]
  BY DEF StartPosting
<1> HIDE DEF w
<1>4. s \in Posting
  BY <1>1, <1>2 DEF Posting
<1>5. s.left = groups /\ s.done = {} /\ s.loaded = workspace /\ s.counted = 0 /\ s.row = w
  OBVIOUS
<1> HIDE DEF s
<1> QED
  BY <1>3, <1>4, <1>5 DEF w

-----------------------------------------------------------------------------
(* Type correctness.                                                       *)

(* A new row is of a lead that is there.                                   *)
LEMMA NewMessageType ==
    ASSUME RowsOK, NEW m \in MessageIds, NEW row \in Row,
           message' = [message EXCEPT ![m] = row], contact[row.lead] # "deleted",
           UNCHANGED <<contact, group>>, workspace' \in WorkspaceRow
    PROVE  RowsOK'
<1>1. message' \in [MessageIds -> Row \cup {NoRow, Gone}]
  BY DEF RowsOK
<1>2. \A n \in MessageIds :
        message'[n].status \in {"DRAFT", "SENT"} => contact'[message'[n].lead] # "deleted"
  BY DEF RowsOK
<1> QED
  BY <1>1, <1>2 DEF RowsOK

LEMMA CascadeType ==
    ASSUME RowsOK, NEW leads \in SUBSET Contacts,
           message' = WithoutMessagesOf(leads),
           contact' \in [Contacts -> {"open", "closed", "deleted"}],
           \A c \in Contacts : contact'[c] = "deleted" => contact[c] = "deleted" \/ c \in leads,
           workspace' \in WorkspaceRow, group' \in [Groups -> {"due", "posted", "gone"}]
    PROVE  RowsOK'
<1>1. \A m \in MessageIds : message'[m] \in {message[m], Gone}
  BY DEF WithoutMessagesOf
<1>2. message' \in [MessageIds -> Row \cup {NoRow, Gone}]
  BY DEF WithoutMessagesOf, RowsOK
<1>3. ASSUME NEW m \in MessageIds, message'[m].status \in {"DRAFT", "SENT"}
      PROVE  contact'[message'[m].lead] # "deleted"
  <2>1. message'[m] = message[m]
    BY <1>1, <1>3 DEF Gone
  <2>2. message[m] \in Row /\ message[m].lead \notin leads
    <3>1. message[m] \in Row
      BY <1>3, <2>1, MessageShape
    <3>2. message[m].lead \in leads => message'[m] = Gone
      BY <1>3, <2>1 DEF WithoutMessagesOf
    <3> QED
      BY <1>3, <3>1, <3>2 DEF Gone
  <2>3. message[m].lead \in Contacts /\ contact[message[m].lead] # "deleted"
    BY <1>3, <2>1, <2>2 DEF RowsOK, Row
  <2> QED
    BY <2>1, <2>2, <2>3
<1> QED
  BY <1>2, <1>3 DEF RowsOK

(* The bump of a request, on whatever row it finds.                        *)
LEMMA BumpType ==
    ASSUME RowsOK, RunsOK, NEW r \in Requests,
           request[r].phase \in {"loaded", "committed"}
    PROVE  /\ LoadedRow(r) \in WorkspaceRow
           /\ LoadedRow(r).sent = request[r].sent
           /\ LoadedRow(r).reset_day = request[r].reset_day
           /\ BumpCounter(r) => workspace' \in WorkspaceRow
<1> DEFINE t == [workspace EXCEPT !.sent = request[r].sent]
           row == [t EXCEPT !.reset_day = request[r].reset_day]
<1>1. request[r].sent \in Nat /\ request[r].reset_day \in Nat
  BY RequestShape
<1>2. workspace \in WorkspaceRow /\ today \in Nat
  BY DraftConsoleAssumption DEF DraftConsoleAssumption, RowsOK, RunsOK
<1>3. t \in WorkspaceRow /\ t.sent = request[r].sent
  BY <1>1, <1>2 DEF WorkspaceRow
<1>4. LoadedRow(r) = row
  BY DEF LoadedRow
<1>5. row \in WorkspaceRow /\ row.sent = t.sent /\ row.reset_day = request[r].reset_day
  <2> HIDE DEF t
  <2> QED
    BY <1>1, <1>3 DEF WorkspaceRow
<1> HIDE DEF t, row
<1>6. BumpSentCounter(LoadedRow(r), today) \in WorkspaceRow
  BY <1>2, <1>4, <1>5, ResetType
<1>7. BumpCounter(r) => workspace' \in WorkspaceRow
  BY <1>2, <1>4, <1>5, <1>6, FlushedType DEF BumpCounter
<1> QED
  BY <1>3, <1>4, <1>5, <1>7

LEMMA RowsRequest ==
    ASSUME RowsOK, RunsOK, RequestInv, UnusedInv, NEW r \in Requests, RequestStep(r)
    PROVE  RowsOK'
<1>1. CASE UNCHANGED rows
  BY <1>1 DEF rows, RowsOK
<1>2. CASE CommitApproval(r)
  <2> DEFINE m == request[r].on
  <2>1. PICK row \in Row : /\ m \in MessageIds /\ message[m] \in Row
                           /\ row.lead = message[m].lead
                           /\ message' = [message EXCEPT ![m] = row]
    BY <1>2, CommitApprovalMessage
  <2>2. message[m].status \in {"DRAFT", "SENT"}
    BY <2>1 DEF Row
  <2>3. contact[row.lead] # "deleted"
    BY <2>1, <2>2 DEF RowsOK
  <2>4. workspace' \in WorkspaceRow /\ UNCHANGED <<contact, group>>
    <3>1. request[r].phase = "loaded" /\ UNCHANGED <<contact, group>>
          /\ (BumpCounter(r) \/ UNCHANGED workspace)
      BY <1>2 DEF CommitApproval
    <3> QED
      BY <3>1, BumpType DEF RowsOK
  <2> HIDE DEF m
  <2> QED
    BY <2>1, <2>3, <2>4, NewMessageType
<1>3. ASSUME NEW m \in MessageIds, CommitManual(r, m) PROVE RowsOK'
  <2> DEFINE row == [lead |-> request[r].on, by |-> "other", status |-> "SENT"]
  <2>1. /\ request[r].phase = "loaded" /\ request[r].on \in Contacts
        /\ contact[request[r].on] # "deleted" /\ BumpCounter(r)
        /\ UNCHANGED <<contact, group>> /\ message' = [message EXCEPT ![m] = row]
    BY <1>3 DEF CommitManual, Present
  <2>2. row \in Row /\ row.lead = request[r].on
    BY <2>1 DEF Row
  <2>3. workspace' \in WorkspaceRow
    BY <2>1, BumpType
  <2> HIDE DEF row
  <2> QED
    BY <2>1, <2>2, <2>3, NewMessageType
<1> QED
  BY <1>1, <1>2, <1>3 DEF RequestStep, LoadApproval, LoadManual, CommitStale, QueueJob, QueueFails

LEMMA RowsPeople ==
    ASSUME RowsOK, RunsOK, People
    PROVE  RowsOK'
<1>1. ASSUME NEW c \in Contacts, NEW m \in MessageIds, AddDraft(c, m) PROVE RowsOK'
  <2> DEFINE row == [lead |-> c, by |-> "other", status |-> "DRAFT"]
  <2>1. row \in Row /\ row.lead = c
    BY DEF Row
  <2>2. /\ contact[c] # "deleted" /\ message' = [message EXCEPT ![m] = row]
        /\ UNCHANGED <<contact, group, workspace>>
    BY <1>1 DEF AddDraft, Present
  <2>3. workspace' \in WorkspaceRow
    BY <2>2 DEF RowsOK
  <2> HIDE DEF row
  <2> QED
    BY <2>1, <2>2, <2>3, NewMessageType
<1>2. ASSUME NEW c \in Contacts, Close(c) \/ Reopen(c) PROVE RowsOK'
  <2>1. PICK is \in {"open", "closed"} :
          contact[c] # "deleted" /\ contact' = [contact EXCEPT ![c] = is]
    BY <1>2 DEF Close, Reopen
  <2>2. UNCHANGED <<workspace, message, group>>
    BY <1>2 DEF Close, Reopen
  <2> QED
    BY <2>1, <2>2 DEF RowsOK
<1>3. ASSUME NEW c \in Contacts, DeleteLead(c) PROVE RowsOK'
  <2>1. /\ message' = WithoutMessagesOf({c}) /\ {c} \in SUBSET Contacts
        /\ workspace' \in WorkspaceRow /\ group' \in [Groups -> {"due", "posted", "gone"}]
    BY <1>3 DEF DeleteLead, RowsOK
  <2>2. /\ contact' \in [Contacts -> {"open", "closed", "deleted"}]
        /\ \A d \in Contacts : contact'[d] = "deleted" => contact[d] = "deleted" \/ d \in {c}
    BY <1>3 DEF DeleteLead, RowsOK
  <2> QED
    BY <2>1, <2>2, CascadeType
<1>4. CASE ResetWorkspace
  <2>1. /\ message' = WithoutMessagesOf(Contacts) /\ Contacts \in SUBSET Contacts
        /\ group' \in [Groups -> {"due", "posted", "gone"}]
    BY <1>4 DEF ResetWorkspace
  <2>2. /\ contact' \in [Contacts -> {"open", "closed", "deleted"}]
        /\ \A d \in Contacts : contact'[d] = "deleted" => contact[d] = "deleted" \/ d \in Contacts
    BY <1>4 DEF ResetWorkspace
  <2>3. workspace' \in WorkspaceRow
    BY <1>4 DEF ResetWorkspace, RowsOK, WorkspaceRow
  <2> QED
    BY <2>1, <2>2, <2>3, CascadeType
<1>5. CASE TriggerOutreach
  BY <1>5 DEF TriggerOutreach, StartPosting, rows, RowsOK
<1> QED
  BY <1>1, <1>2, <1>3, <1>4, <1>5 DEF People

(* Each follow-up gets an id of its own.                                   *)
LEMMA FollowupRows ==
    ASSUME RowsOK, RunsOK, NEW row \in [stale -> MessageIds], CommitFollowups(row),
           NEW m \in MessageIds
    PROVE  \/ /\ message'[m] = message[m] /\ \A c \in stale : row[c] # m
           \/ \E c \in stale : /\ row[c] = m /\ message[m].status = "none"
                               /\ message'[m] \in Row
                               /\ message'[m].lead = c /\ message'[m].by = "check"
                               /\ message'[m].status = "DRAFT"
<1>1. message'[m] = IF \E c \in stale : row[c] = m
                    THEN [lead |-> CHOOSE c \in stale : row[c] = m,
                          by |-> "check", status |-> "DRAFT"]
                    ELSE message[m]
  BY DEF CommitFollowups
<1>2. CASE \E c \in stale : row[c] = m
  <2> DEFINE d == CHOOSE c \in stale : row[c] = m
  <2>1. d \in stale /\ row[d] = m
    BY <1>2, Zenon
  <2>2. message[m] = NoRow
    BY <2>1 DEF CommitFollowups
  <2>3. message'[m] = [lead |-> d, by |-> "check", status |-> "DRAFT"]
    BY <1>1, <1>2
  <2>4. d \in Contacts
    BY <2>1 DEF RunsOK
  <2> HIDE DEF d
  <2>5. message'[m] \in Row
    BY <2>3, <2>4 DEF Row
  <2> QED
    BY <2>1, <2>2, <2>3, <2>5 DEF NoRow
<1>3. CASE ~\E c \in stale : row[c] = m
  BY <1>1, <1>3
<1> QED
  BY <1>2, <1>3

LEMMA RowsBeat ==
    ASSUME RowsOK, RunsOK, Beat
    PROVE  RowsOK'
<1>1. CASE UNCHANGED rows
  BY <1>1 DEF rows, RowsOK
<1>2. ASSUME NEW row \in [stale -> MessageIds], CommitFollowups(row) PROVE RowsOK'
  <2>1. UNCHANGED <<workspace, contact, group>> /\ \A c \in stale : contact[c] # "deleted"
    BY <1>2 DEF CommitFollowups, Present
  <2>2. DOMAIN message' = MessageIds /\ message' = [m \in MessageIds |-> message'[m]]
    BY <1>2 DEF CommitFollowups
  <2>3. ASSUME NEW m \in MessageIds
        PROVE  /\ message'[m] \in Row \cup {NoRow, Gone}
               /\ message'[m].status \in {"DRAFT", "SENT"} => contact[message'[m].lead] # "deleted"
    <3>1. CASE message'[m] = message[m]
      BY <3>1 DEF RowsOK
    <3>2. CASE message'[m] # message[m]
      BY <1>2, <2>1, <3>2, FollowupRows
    <3> QED
      BY <3>1, <3>2
  <2>4. message' \in [MessageIds -> Row \cup {NoRow, Gone}]
    BY <2>2, <2>3
  <2> QED
    BY <2>1, <2>3, <2>4 DEF RowsOK
<1>3. ASSUME NEW by \in Posters, CommitPosts(by) PROVE RowsOK'
  <2>1. promo[by].loaded \in WorkspaceRow /\ promo[by].row \in WorkspaceRow
    BY <1>3, PromoShape DEF CommitPosts
  <2>2. workspace' \in WorkspaceRow
    BY <1>3, <2>1, FlushedType DEF CommitPosts, RowsOK
  <2>3. group' \in [Groups -> {"due", "posted", "gone"}] /\ UNCHANGED <<contact, message>>
    BY <1>3 DEF CommitPosts, RowsOK
  <2> QED
    BY <2>2, <2>3 DEF RowsOK
<1>4. ASSUME NEW g \in Groups, IntervalPasses(g) PROVE RowsOK'
  BY <1>4 DEF IntervalPasses, RowsOK
<1> QED
  BY <1>1, <1>2, <1>3, <1>4
  DEF Beat, FindStale, FollowupsFail, StartBeat, StartPosting, PostIn, PostsFail, Midnight

LEMMA RunsRequest ==
    ASSUME RowsOK, RunsOK, RequestInv, UnusedInv, NEW r \in Requests, RequestStep(r)
    PROVE  RunsOK'
<1>1. ASSUME NEW op \in {"approve", "approve_plain", "manual"},
             NEW on \in MessageIds \cup Contacts, Load(r, op, on),
             UNCHANGED <<stale, promo, today>>
      PROVE  RunsOK'
  <2> DEFINE s == [op |-> op, phase |-> "loaded", on |-> on,
                   sent |-> workspace.sent, reset_day |-> workspace.reset_day]
  <2>1. s \in Loaded
    BY DEF Loaded, RowsOK, WorkspaceRow
  <2>2. request' = [request EXCEPT ![r] = s]
    BY <1>1 DEF Load
  <2> HIDE DEF s
  <2> QED
    BY <1>1, <2>1, <2>2 DEF RunsOK
<1>2. ASSUME NEW op \in {"approve", "approve_plain"}, NEW m \in MessageIds,
             LoadApproval(r, op, m)
      PROVE  RunsOK'
  BY <1>1, <1>2 DEF LoadApproval
<1>3. ASSUME NEW c \in Contacts, LoadManual(r, c) PROVE RunsOK'
  BY <1>1, <1>3 DEF LoadManual
<1>4. CASE CommitApproval(r)
  <2>1. \E s \in Loaded : request' = [request EXCEPT ![r] = s]
    BY <1>4, CommitApprovalRequest
  <2>2. UNCHANGED <<stale, promo, today>>
    BY <1>4 DEF CommitApproval
  <2> QED
    BY <2>1, <2>2 DEF RunsOK
<1>5. ASSUME NEW m \in MessageIds, CommitManual(r, m) PROVE RunsOK'
  <2>1. \E s \in Loaded : request' = [request EXCEPT ![r] = s]
    BY <1>5, CommitManualRequest
  <2>2. UNCHANGED <<stale, promo, today>>
    BY <1>5 DEF CommitManual
  <2> QED
    BY <2>1, <2>2 DEF RunsOK
<1>6. CASE CommitStale(r) \/ QueueJob(r) \/ QueueFails(r)
  BY <1>6 DEF CommitStale, QueueJob, QueueFails, RunsOK
<1> QED
  BY <1>2, <1>3, <1>4, <1>5, <1>6 DEF RequestStep

LEMMA RunsPosting ==
    ASSUME RowsOK, RunsOK, NEW by \in Posters,
           \/ \E groups \in SUBSET Groups : StartPosting(by, groups)
           \/ \E g \in Groups : PostIn(by, g)
           \/ CommitPosts(by) \/ PostsFail(by)
    PROVE  RunsOK'
<1>1. /\ UNCHANGED <<request, stale, today>>
      /\ \E s \in Posting \cup {Idle} : promo' = [promo EXCEPT ![by] = s]
  <2>1. CASE \E groups \in SUBSET Groups : StartPosting(by, groups)
    BY <2>1, StartPostingRun DEF StartPosting
  <2>2. ASSUME NEW g \in Groups, PostIn(by, g)
        PROVE  /\ UNCHANGED <<request, stale, today>>
               /\ \E s \in Posting : promo' = [promo EXCEPT ![by] = s]
    <3>1. \E s \in Posting : promo' = [promo EXCEPT ![by] = s]
      BY <2>2, PostInRun
    <3>2. UNCHANGED <<request, stale, today>>
      BY <2>2 DEF PostIn
    <3> QED
      BY <3>1, <3>2
  <2>3. CASE CommitPosts(by) \/ PostsFail(by)
    BY <2>3 DEF CommitPosts, PostsFail
  <2> QED
    BY <2>1, <2>2, <2>3
<1> QED
  BY <1>1 DEF RunsOK

LEMMA RunsRest ==
    ASSUME RowsOK, RunsOK, People \/ Beat
    PROVE  RunsOK'
<1>1. CASE UNCHANGED <<request, stale, promo, today>>
  BY <1>1 DEF RunsOK
<1>2. ASSUME NEW found \in SUBSET Contacts, FindStale(found) PROVE RunsOK'
  BY <1>2 DEF FindStale, RunsOK
<1>3. ASSUME NEW row \in [stale -> MessageIds], CommitFollowups(row) PROVE RunsOK'
  BY <1>3 DEF CommitFollowups, RunsOK
<1>4. CASE FollowupsFail
  BY <1>4 DEF FollowupsFail, RunsOK
<1>5. CASE StartBeat \/ TriggerOutreach
  <2>1. \E by \in Posters, groups \in SUBSET Groups : StartPosting(by, groups)
    BY <1>5 DEF StartBeat, TriggerOutreach, Due, Posters
  <2> QED
    BY <2>1, RunsPosting
<1>6. ASSUME NEW by \in Posters, NEW g \in Groups, PostIn(by, g) PROVE RunsOK'
  BY <1>6, RunsPosting
<1>7. ASSUME NEW by \in Posters, CommitPosts(by) \/ PostsFail(by) PROVE RunsOK'
  BY <1>7, RunsPosting
<1>8. CASE Midnight
  BY <1>8, DraftConsoleAssumption DEF DraftConsoleAssumption, Midnight, RunsOK
<1> QED
  BY <1>1, <1>2, <1>3, <1>4, <1>5, <1>6, <1>7, <1>8
  DEF People, Beat, AddDraft, Close, Reopen, DeleteLead, ResetWorkspace, IntervalPasses

(* What the history remembers.                                             *)
LEMMA CountType ==
    ASSUME HistoryOK, NEW new \in Tally, Count(new)
    PROVE  tally' \in Tally
  BY DEF HistoryOK, Count

LEMMA LoadCounterType ==
    ASSUME HistoryOK, NEW new \in Tally, LoadCounter(new)
    PROVE  /\ overlapped' \in BOOLEAN /\ tally' \in Tally
<1>1. overlapped' \in BOOLEAN
  BY DEF HistoryOK, LoadCounter
<1>2. NoTally \in Tally
  BY DEF NoTally, Tally
<1>3. tally' = NoTally \/ tally' = new
  BY DEF LoadCounter
<1> QED
  BY <1>1, <1>2, <1>3

(* A tally whose fields grow is a tally.                                   *)
LEMMA TallyGrows ==
    ASSUME NEW t \in Tally, NEW n \in Nat
    PROVE  /\ [t EXCEPT !.left = @ + 1] \in Tally
           /\ [t EXCEPT !.unbooked = @ + n] \in Tally
           /\ [t EXCEPT !.unbooked = @ + n, !.untested = 0] \in Tally
           /\ [t EXCEPT !.refused = @ + n] \in Tally
           /\ [t EXCEPT !.untested = @ + n] \in Tally
           /\ [t EXCEPT !.left = @ + 1, !.unbooked = @ + n] \in Tally
           /\ [NoTally EXCEPT !.unbooked = n] \in Tally
<1>1. [t EXCEPT !.left = @ + 1] \in Tally
  BY DEF Tally
<1>2. [t EXCEPT !.unbooked = @ + n] \in Tally
  BY DEF Tally
<1>3. [t EXCEPT !.unbooked = @ + n, !.untested = 0] \in Tally
  <2> DEFINE u == [t EXCEPT !.unbooked = @ + n]
  <2>1. [t EXCEPT !.unbooked = @ + n, !.untested = 0] = [u EXCEPT !.untested = 0]
    OBVIOUS
  <2> HIDE DEF u
  <2>2. [u EXCEPT !.untested = 0] \in Tally
    BY <1>2 DEF Tally, u
  <2> QED
    BY <2>1, <2>2
<1>4. [t EXCEPT !.refused = @ + n] \in Tally
  BY DEF Tally
<1>5. [t EXCEPT !.untested = @ + n] \in Tally
  BY DEF Tally
<1>6. [t EXCEPT !.left = @ + 1, !.unbooked = @ + n] \in Tally
  <2> DEFINE u == [t EXCEPT !.left = @ + 1]
  <2>1. u \in Tally
    BY <1>1
  <2>2. [t EXCEPT !.left = @ + 1, !.unbooked = @ + n] = [u EXCEPT !.unbooked = @ + n]
    OBVIOUS
  <2> HIDE DEF u
  <2>3. [u EXCEPT !.unbooked = @ + n] \in Tally
    BY <2>1 DEF Tally
  <2> QED
    BY <2>2, <2>3
<1>7. [NoTally EXCEPT !.unbooked = n] \in Tally
  BY DEF Tally, NoTally
<1> QED
  BY <1>1, <1>2, <1>3, <1>4, <1>5, <1>6, <1>7

LEMMA BookedType ==
    /\ IsFiniteSet(Booked)
    /\ Cardinality(Booked) \in Nat
<1>1. IsFiniteSet(Requests)
  BY FS_Interval, DraftConsoleAssumption DEF Requests, DraftConsoleAssumption
<1>2. Booked \in SUBSET Requests
  BY DEF Booked
<1> QED
  BY <1>1, <1>2, FS_Subset, FS_CardinalityType

LEMMA OpenPostsType ==
    ASSUME RunsOK, NEW by \in Posters
    PROVE  OpenPosts(by) \in Nat
<1>1. promo[by] # Idle => promo[by].counted \in Nat
  BY PromoShape
<1> QED
  BY <1>1 DEF OpenPosts

LEMMA QueueCounts ==
    ASSUME HistoryOK, NEW r \in Requests, QueueJob(r)
    PROVE  /\ tally' \in Tally
           /\ ~overlapped =>
                /\ tally'.left = tally.left + 1
                /\ tally'.unbooked = tally.unbooked + (IF r \in Booked THEN 0 ELSE 1)
                /\ tally'.refused = tally.refused
                /\ tally'.untested = tally.untested
<1>1. tally \in Tally
  BY DEF HistoryOK
<1>2. tally' = IF overlapped THEN tally
               ELSE [tally EXCEPT !.left = @ + 1,
                                  !.unbooked = IF r \in Booked THEN @ ELSE @ + 1]
  BY Zenon DEF QueueJob, Count
<1>3. CASE overlapped
  BY <1>1, <1>2, <1>3
<1>4. CASE ~overlapped
  <2> DEFINE u == [tally EXCEPT !.left = @ + 1]
             n == IF r \in Booked THEN 0 ELSE 1
  <2>1. /\ u \in Tally /\ u.left = tally.left + 1 /\ u.unbooked = tally.unbooked
        /\ u.refused = tally.refused /\ u.untested = tally.untested
    BY <1>1 DEF Tally
  <2>2. n \in Nat /\ (IF r \in Booked THEN u.unbooked ELSE u.unbooked + 1) = u.unbooked + n
    BY <2>1 DEF Tally
  <2>3. tally' = [u EXCEPT !.unbooked = IF r \in Booked THEN u.unbooked ELSE u.unbooked + 1]
    BY <1>2, <1>4, <2>1
  <2> HIDE DEF u, n
  <2>4. tally' = [u EXCEPT !.unbooked = u.unbooked + n]
    BY <2>2, <2>3
  <2>5. /\ tally' \in Tally /\ tally'.left = u.left /\ tally'.unbooked = u.unbooked + n
        /\ tally'.refused = u.refused /\ tally'.untested = u.untested
    BY <2>1, <2>2, <2>4 DEF Tally
  <2> QED
    BY <2>1, <2>5 DEF n
<1> QED
  BY <1>3, <1>4

LEMMA RefusalCounts ==
    ASSUME HistoryOK, NEW r \in Requests, QueueFails(r)
    PROVE  /\ tally' \in Tally
           /\ ~overlapped =>
                /\ tally'.left = tally.left
                /\ tally'.unbooked = tally.unbooked
                /\ tally'.refused = tally.refused + (IF r \in Booked THEN 1 ELSE 0)
                /\ tally'.untested = tally.untested
<1>1. tally \in Tally
  BY DEF HistoryOK
<1>2. tally' = IF overlapped THEN tally
               ELSE [tally EXCEPT !.refused = IF r \in Booked THEN @ + 1 ELSE @]
  BY Zenon DEF QueueFails, Count
<1> QED
  BY <1>1, <1>2 DEF Tally

LEMMA HistoryRequest ==
    ASSUME RowsOK, RunsOK, HistoryOK, RequestInv, NEW r \in Requests, RequestStep(r)
    PROVE  HistoryOK'
<1>1. ASSUME NEW op \in {"approve", "approve_plain"}, NEW m \in MessageIds,
             LoadApproval(r, op, m)
      PROVE  HistoryOK'
  <2>1. contested' \in SUBSET MessageIds
    BY <1>1 DEF LoadApproval, HistoryOK
  <2>2. overlapped' \in BOOLEAN /\ tally' \in Tally
    BY <1>1, LoadCounterType DEF LoadApproval, HistoryOK
  <2> QED
    BY <1>1, <2>1, <2>2 DEF LoadApproval, HistoryOK
<1>2. ASSUME NEW c \in Contacts, LoadManual(r, c) PROVE HistoryOK'
  <2>1. overlapped' \in BOOLEAN /\ tally' \in Tally
    BY <1>2, LoadCounterType DEF LoadManual, HistoryOK
  <2> QED
    BY <1>2, <2>1 DEF LoadManual, HistoryOK
<1>3. CASE CommitApproval(r) \/ \E m \in MessageIds : CommitManual(r, m)
  BY <1>3 DEF CommitApproval, CommitManual, HistoryOK, history
<1>4. CASE CommitStale(r)
  BY <1>4 DEF CommitStale, HistoryOK, history
<1>5. CASE QueueJob(r)
  <2>1. jobs' \in [MessageIds -> Nat]
    <3>1. request[r].on \in MessageIds /\ jobs' = [jobs EXCEPT ![request[r].on] = @ + 1]
      BY <1>5 DEF QueueJob, RequestInv
    <3> QED
      BY <3>1 DEF HistoryOK
  <2>2. UNCHANGED <<contested, told, overlapped, posts, excused>>
    BY <1>5 DEF QueueJob
  <2>3. tally' \in Tally
    BY <1>5, QueueCounts
  <2> QED
    BY <2>1, <2>2, <2>3 DEF HistoryOK
<1>6. CASE QueueFails(r)
  <2>1. UNCHANGED <<jobs, contested, overlapped, posts, excused>>
    BY <1>6 DEF QueueFails
  <2>2. told' \in SUBSET MessageIds
    BY <1>6 DEF QueueFails, HistoryOK, RequestInv
  <2>3. tally' \in Tally
    BY <1>6, RefusalCounts
  <2> QED
    BY <2>1, <2>2, <2>3 DEF HistoryOK
<1> QED
  BY <1>1, <1>2, <1>3, <1>4, <1>5, <1>6 DEF RequestStep

LEMMA HistoryRest ==
    ASSUME RowsOK, RunsOK, HistoryOK, People \/ Beat
    PROVE  HistoryOK'
<1>1. CASE UNCHANGED history
  BY <1>1 DEF HistoryOK, history
<1>2. CASE ResetWorkspace
  <2>1. Counter \in Nat
    BY DEF Counter, RowsOK, WorkspaceRow
  <2>2. [tally EXCEPT !.unbooked = @ + Counter, !.untested = 0] \in Tally
    BY <2>1, TallyGrows DEF HistoryOK
  <2>3. overlapped' \in BOOLEAN /\ tally' \in Tally
    BY <1>2, <2>2, LoadCounterType DEF ResetWorkspace
  <2> QED
    BY <1>2, <2>3 DEF ResetWorkspace, HistoryOK
<1>3. CASE StartBeat \/ TriggerOutreach
  <2>1. overlapped' \in BOOLEAN /\ tally' \in Tally
    BY <1>3, LoadCounterType DEF StartBeat, TriggerOutreach, StartPosting, HistoryOK
  <2> QED
    BY <1>3, <2>1 DEF StartBeat, TriggerOutreach, StartPosting, HistoryOK
<1>4. ASSUME NEW by \in Posters, NEW g \in Groups, PostIn(by, g) PROVE HistoryOK'
  <2>1. posts' = [posts EXCEPT ![g] = @ + 1] /\ excused' \in {excused, excused \cup {g}}
    BY <1>4, Zenon DEF PostIn
  <2>2. posts' \in [Groups -> Nat] /\ excused' \in SUBSET Groups
    BY <2>1 DEF HistoryOK
  <2>3. UNCHANGED <<jobs, contested, told, overlapped>>
    BY <1>4 DEF PostIn
  <2>4. tally' \in Tally
    BY <1>4, CountType, TallyGrows DEF PostIn, HistoryOK
  <2> QED
    BY <2>2, <2>3, <2>4 DEF HistoryOK
<1>5. ASSUME NEW by \in Posters, CommitPosts(by) PROVE HistoryOK'
  <2>1. tally' \in Tally
    <3>1. OpenPosts(by) \in Nat /\ tally \in Tally
      BY OpenPostsType DEF HistoryOK
    <3>2. Count([tally EXCEPT !.untested = IF by = "person" THEN @ + OpenPosts(by) ELSE @])
      BY <1>5 DEF CommitPosts
    <3>3. [tally EXCEPT !.untested = IF by = "person" THEN @ + OpenPosts(by) ELSE @] \in Tally
      BY <3>1 DEF Tally
    <3> QED
      BY <3>2, <3>3, CountType
  <2>2. UNCHANGED <<jobs, contested, told, overlapped, posts, excused>>
    BY <1>5 DEF CommitPosts
  <2> QED
    BY <2>1, <2>2 DEF HistoryOK
<1>6. ASSUME NEW by \in Posters, PostsFail(by) PROVE HistoryOK'
  <2>1. promo[by].done \in SUBSET Groups
    BY <1>6, PromoShape DEF PostsFail
  <2>2. excused' \in SUBSET Groups
    BY <1>6, <2>1 DEF PostsFail, HistoryOK
  <2>3. tally' \in Tally
    <3>1. OpenPosts(by) \in Nat /\ tally \in Tally
      BY OpenPostsType DEF HistoryOK
    <3>2. [tally EXCEPT !.unbooked = @ + OpenPosts(by)] \in Tally
      BY <3>1, TallyGrows
    <3> QED
      BY <1>6, <3>2, CountType DEF PostsFail
  <2>4. UNCHANGED <<jobs, contested, told, overlapped, posts>>
    BY <1>6 DEF PostsFail
  <2> QED
    BY <2>2, <2>3, <2>4 DEF HistoryOK
<1>7. ASSUME NEW g \in Groups, IntervalPasses(g) PROVE HistoryOK'
  BY <1>7 DEF IntervalPasses, HistoryOK
<1>8. CASE Midnight
  <2>1. [NoTally EXCEPT !.unbooked = Cardinality(Booked)] \in Tally
    BY BookedType, TallyGrows DEF HistoryOK, Tally
  <2>2. tally' \in Tally
    BY <1>8, <2>1, CountType DEF Midnight
  <2> QED
    BY <1>8, <2>2 DEF Midnight, HistoryOK
<1> QED
  BY <1>1, <1>2, <1>3, <1>4, <1>5, <1>6, <1>7, <1>8
  DEF People, Beat, AddDraft, Close, Reopen, DeleteLead, FindStale, CommitFollowups, FollowupsFail, history

LEMMA TypeStep ==
    ASSUME TypeOK, RequestInv, UnusedInv, Next
    PROVE  TypeOK'
<1>1. CASE \E r \in Requests : RequestStep(r)
  BY <1>1, RowsRequest, RunsRequest, HistoryRequest DEF TypeOK
<1>2. CASE People \/ Beat
  BY <1>2, RowsPeople, RowsBeat, RunsRest, HistoryRest DEF TypeOK
<1> QED
  BY <1>1, <1>2 DEF Next

-----------------------------------------------------------------------------
(* From the approval to the job.                                           *)

ApprovalsOK == RequestInv /\ UnusedInv /\ CommittedInv /\ ApprovalInv

(* Whoever asks for nothing may add drafts and delete messages.            *)
LEMMA ApprovalFrame ==
    ASSUME ApprovalsOK, UNCHANGED <<request, jobs, contested>>,
           \A m \in MessageIds :
              \/ message'[m].status \in {message[m].status, "gone"}
              \/ message[m].status = "none" /\ message'[m].status = "DRAFT"
    PROVE  ApprovalsOK'
<1>1. \A r \in Requests, m \in MessageIds :
        (Approving(r, m)' <=> Approving(r, m)) /\ (Committed(r, m)' <=> Committed(r, m))
  BY DEF Approving, Committed
<1>2. RequestInv'
  BY DEF ApprovalsOK, RequestInv
<1>3. UnusedInv'
  BY <1>1 DEF ApprovalsOK, UnusedInv
<1>4. CommittedInv'
  BY <1>1 DEF ApprovalsOK, CommittedInv, UnusedInv
<1>5. ApprovalInv'
  BY <1>1 DEF ApprovalsOK, ApprovalInv, UnusedInv
<1> QED
  BY <1>2, <1>3, <1>4, <1>5 DEF ApprovalsOK

(* A request's step is its own.                                            *)
LEMMA OneRequest ==
    ASSUME RunsOK, NEW r \in Requests, NEW s, request' = [request EXCEPT ![r] = s]
    PROVE  /\ request'[r] = s
           /\ \A q \in Requests \ {r} :
                /\ request'[q] = request[q]
                /\ \A m \in MessageIds :
                     /\ Approving(q, m)' <=> Approving(q, m)
                     /\ Committed(q, m)' <=> Committed(q, m)
<1>1. request'[r] = s /\ \A q \in Requests \ {r} : request'[q] = request[q]
  BY DEF RunsOK
<1> QED
  BY <1>1 DEF Approving, Committed

LEMMA ApprovalLoaded ==
    ASSUME RunsOK, ApprovalsOK, NEW r \in Requests,
           NEW op \in {"approve", "approve_plain"}, NEW m \in MessageIds,
           LoadApproval(r, op, m)
    PROVE  ApprovalsOK'
<1> DEFINE s == [op |-> op, phase |-> "loaded", on |-> m,
                 sent |-> workspace.sent, reset_day |-> workspace.reset_day]
<1>1. /\ message[m].status = "DRAFT" /\ request' = [request EXCEPT ![r] = s]
      /\ request[r].phase = "idle" /\ UNCHANGED <<message, jobs>>
      /\ contested' = IF OpenApproval(m) THEN contested \cup {m} ELSE contested
  BY DEF LoadApproval, Approvable, Load, rows, Idle
<1>2. s.phase = "loaded" /\ s.on = m /\ s.op # "manual"
  OBVIOUS
<1> HIDE DEF s
<1>3. /\ request'[r] = s
      /\ \A q \in Requests \ {r} :
           /\ request'[q] = request[q]
           /\ \A n \in MessageIds : /\ Approving(q, n)' <=> Approving(q, n)
                                    /\ Committed(q, n)' <=> Committed(q, n)
  BY <1>1, OneRequest
<1>4. \A n \in MessageIds : ~Approving(r, n) /\ ~Committed(r, n) /\ ~Committed(r, n)'
  BY <1>1, <1>2, <1>3 DEF Approving, Committed
<1>5. \A n \in MessageIds : Approving(r, n)' <=> n = m
  BY <1>2, <1>3 DEF Approving
<1>6. m \notin contested' => \A q \in Requests : ~Approving(q, m)
  BY <1>1 DEF OpenApproval, Approving
<1>7. contested \subseteq contested'
  BY <1>1
<1>8. RequestInv'
  BY <1>2, <1>3 DEF ApprovalsOK, RequestInv
<1>9. UnusedInv'
  BY <1>1, <1>3, <1>4, <1>5 DEF ApprovalsOK, UnusedInv
<1>10. CommittedInv'
  BY <1>1, <1>3, <1>4 DEF ApprovalsOK, CommittedInv
<1>11. ApprovalInv'
  <2> SUFFICES ASSUME NEW n \in MessageIds, n \notin contested'
               PROVE  /\ jobs'[n] <= 1
                      /\ message'[n].status = "DRAFT" => jobs'[n] = 0
                      /\ \A p, q \in Requests : Approving(p, n)' /\ Approving(q, n)' => p = q
                      /\ \A p, q \in Requests : Committed(p, n)' /\ Committed(q, n)' => p = q
                      /\ \A q \in Requests : Approving(q, n)' =>
                           jobs'[n] = 0 /\ message'[n].status \in {"DRAFT", "gone"}
                      /\ \A p, q \in Requests : Committed(p, n)' => jobs'[n] = 0 /\ ~Approving(q, n)'
    BY DEF ApprovalInv
  <2>1. n \notin contested
    BY <1>7
  <2>2. CASE n # m
    BY <1>1, <1>3, <1>4, <1>5, <2>1, <2>2 DEF ApprovalsOK, ApprovalInv
  <2>3. CASE n = m
    <3>1. \A q \in Requests : ~Committed(q, m)
      BY <1>1 DEF ApprovalsOK, CommittedInv
    <3> QED
      BY <1>1, <1>3, <1>4, <1>5, <1>6, <2>1, <2>3, <3>1 DEF ApprovalsOK, ApprovalInv
  <2> QED
    BY <2>2, <2>3
<1> QED
  BY <1>8, <1>9, <1>10, <1>11 DEF ApprovalsOK

LEMMA ManualLoaded ==
    ASSUME RunsOK, ApprovalsOK, NEW r \in Requests, NEW c \in Contacts, LoadManual(r, c)
    PROVE  ApprovalsOK'
<1> DEFINE s == [op |-> "manual", phase |-> "loaded", on |-> c,
                 sent |-> workspace.sent, reset_day |-> workspace.reset_day]
<1>1. /\ request' = [request EXCEPT ![r] = s] /\ request[r].phase = "idle"
      /\ UNCHANGED <<message, jobs, contested>>
  BY DEF LoadManual, Load, rows, Idle
<1>2. s.phase = "loaded" /\ s.on = c /\ s.op = "manual"
  OBVIOUS
<1> HIDE DEF s
<1>3. /\ request'[r] = s
      /\ \A q \in Requests \ {r} :
           /\ request'[q] = request[q]
           /\ \A n \in MessageIds : /\ Approving(q, n)' <=> Approving(q, n)
                                    /\ Committed(q, n)' <=> Committed(q, n)
  BY <1>1, OneRequest
<1>4. \A n \in MessageIds : /\ ~Approving(r, n) /\ ~Committed(r, n)
                            /\ ~Approving(r, n)' /\ ~Committed(r, n)'
  BY <1>1, <1>2, <1>3 DEF Approving, Committed
<1>5. \A q \in Requests, n \in MessageIds :
        (Approving(q, n)' <=> Approving(q, n)) /\ (Committed(q, n)' <=> Committed(q, n))
  BY <1>3, <1>4
<1>6. RequestInv'
  BY <1>2, <1>3 DEF ApprovalsOK, RequestInv
<1>7. UnusedInv' /\ CommittedInv'
  BY <1>1, <1>5 DEF ApprovalsOK, UnusedInv, CommittedInv
<1>8. ApprovalInv'
  BY <1>1, <1>5 DEF ApprovalsOK, ApprovalInv
<1> QED
  BY <1>6, <1>7, <1>8 DEF ApprovalsOK

LEMMA ApprovalCommitted ==
    ASSUME RowsOK, RunsOK, ApprovalsOK, NEW r \in Requests, CommitApproval(r)
    PROVE  ApprovalsOK'
<1> DEFINE m == request[r].on
<1>1. /\ m \in MessageIds /\ Approving(r, m) /\ message[m] \in Row
      /\ \E row \in Row : row.status = "SENT" /\ message' = [message EXCEPT ![m] = row]
  BY CommitApprovalMessage DEF ApprovalsOK
<1>2. PICK s \in Loaded : s.phase = "committed" /\ s.on = m /\ request' = [request EXCEPT ![r] = s]
  BY CommitApprovalRequest
<1> HIDE DEF m
<1>3. /\ request'[r] = s
      /\ \A q \in Requests \ {r} :
           /\ request'[q] = request[q]
           /\ \A n \in MessageIds : /\ Approving(q, n)' <=> Approving(q, n)
                                    /\ Committed(q, n)' <=> Committed(q, n)
  BY <1>2, OneRequest
<1>4. /\ message[m].status \in {"DRAFT", "SENT"} /\ message'[m].status = "SENT"
      /\ \A n \in MessageIds : n # m => message'[n] = message[n]
  BY <1>1 DEF Row, RowsOK
<1>5. UNCHANGED <<jobs, contested>>
  BY DEF CommitApproval, history
<1>6. \A n \in MessageIds : /\ ~Approving(r, n)' /\ ~Committed(r, n)
                            /\ Committed(r, n)' <=> n = m
                            /\ Approving(r, n) => n = m
  BY <1>1, <1>2, <1>3 DEF Approving, Committed
<1>7. RequestInv'
  BY <1>1, <1>2, <1>3 DEF ApprovalsOK, RequestInv
<1>8. UnusedInv'
  BY <1>3, <1>4, <1>5, <1>6 DEF ApprovalsOK, UnusedInv
<1>9. CommittedInv'
  BY <1>3, <1>4, <1>6 DEF ApprovalsOK, CommittedInv
<1>10. ApprovalInv'
  <2> SUFFICES ASSUME NEW n \in MessageIds, n \notin contested
               PROVE  /\ jobs[n] <= 1
                      /\ message'[n].status = "DRAFT" => jobs[n] = 0
                      /\ \A p, q \in Requests : Approving(p, n)' /\ Approving(q, n)' => p = q
                      /\ \A p, q \in Requests : Committed(p, n)' /\ Committed(q, n)' => p = q
                      /\ \A q \in Requests : Approving(q, n)' =>
                           jobs[n] = 0 /\ message'[n].status \in {"DRAFT", "gone"}
                      /\ \A p, q \in Requests : Committed(p, n)' => jobs[n] = 0 /\ ~Approving(q, n)'
    BY <1>5 DEF ApprovalInv
  <2>1. CASE n # m
    BY <1>3, <1>4, <1>6, <2>1 DEF ApprovalsOK, ApprovalInv
  <2>2. CASE n = m
    <3>1. /\ jobs[m] = 0 /\ \A q \in Requests : ~Committed(q, m)
          /\ \A q \in Requests : Approving(q, m) => q = r
      BY <1>1, <2>2 DEF ApprovalsOK, ApprovalInv
    <3> QED
      BY <1>3, <1>4, <1>6, <2>2, <3>1
  <2> QED
    BY <2>1, <2>2
<1> QED
  BY <1>7, <1>8, <1>9, <1>10 DEF ApprovalsOK

LEMMA ManualCommitted ==
    ASSUME RowsOK, RunsOK, ApprovalsOK, NEW r \in Requests, NEW m \in MessageIds,
           CommitManual(r, m)
    PROVE  ApprovalsOK'
<1>1. /\ request[r].phase = "loaded" /\ request[r].op = "manual"
      /\ message[m].status = "none" /\ UNCHANGED <<jobs, contested>>
  BY DEF CommitManual, Fresh, NoRow, history
<1>2. PICK s \in Loaded : s.phase = "committed" /\ s.on = m /\ request' = [request EXCEPT ![r] = s]
  BY CommitManualRequest
<1>3. /\ request'[r] = s
      /\ \A q \in Requests \ {r} :
           /\ request'[q] = request[q]
           /\ \A n \in MessageIds : /\ Approving(q, n)' <=> Approving(q, n)
                                    /\ Committed(q, n)' <=> Committed(q, n)
  BY <1>2, OneRequest
<1>4. message'[m].status = "SENT" /\ \A n \in MessageIds : n # m => message'[n] = message[n]
  BY DEF CommitManual, RowsOK
<1>5. /\ jobs[m] = 0
      /\ \A q \in Requests : ~Approving(q, m) /\ ~Committed(q, m)
  BY <1>1 DEF ApprovalsOK, UnusedInv
<1>6. \A n \in MessageIds : /\ ~Approving(r, n) /\ ~Approving(r, n)' /\ ~Committed(r, n)
                            /\ Committed(r, n)' <=> n = m
  BY <1>1, <1>2, <1>3 DEF Approving, Committed
<1>7. RequestInv'
  BY <1>2, <1>3 DEF ApprovalsOK, RequestInv
<1>8. UnusedInv'
  BY <1>1, <1>3, <1>4, <1>6 DEF ApprovalsOK, UnusedInv
<1>9. CommittedInv'
  BY <1>3, <1>4, <1>5, <1>6 DEF ApprovalsOK, CommittedInv
<1>10. ApprovalInv'
  <2> SUFFICES ASSUME NEW n \in MessageIds, n \notin contested
               PROVE  /\ jobs[n] <= 1
                      /\ message'[n].status = "DRAFT" => jobs[n] = 0
                      /\ \A p, q \in Requests : Approving(p, n)' /\ Approving(q, n)' => p = q
                      /\ \A p, q \in Requests : Committed(p, n)' /\ Committed(q, n)' => p = q
                      /\ \A q \in Requests : Approving(q, n)' =>
                           jobs[n] = 0 /\ message'[n].status \in {"DRAFT", "gone"}
                      /\ \A p, q \in Requests : Committed(p, n)' => jobs[n] = 0 /\ ~Approving(q, n)'
    BY <1>1 DEF ApprovalInv
  <2>1. CASE n # m
    BY <1>3, <1>4, <1>6, <2>1 DEF ApprovalsOK, ApprovalInv
  <2>2. CASE n = m
    BY <1>3, <1>4, <1>5, <1>6, <2>2
  <2> QED
    BY <2>1, <2>2
<1> QED
  BY <1>7, <1>8, <1>9, <1>10 DEF ApprovalsOK

(* A request that ends leaves its message to nobody, with at most its job. *)
LEMMA RequestEnded ==
    ASSUME RunsOK, HistoryOK, ApprovalsOK, NEW r \in Requests,
           CommitStale(r) \/ QueueJob(r) \/ QueueFails(r)
    PROVE  ApprovalsOK'
<1> DEFINE m == request[r].on
           s == [phase |-> "ended"]
<1>1. /\ request' = [request EXCEPT ![r] = s] /\ s.phase = "ended"
      /\ UNCHANGED <<message, contested>>
  BY DEF CommitStale, QueueJob, QueueFails, rows, history
<1>2. \/ UNCHANGED jobs
      \/ m \in MessageIds /\ Committed(r, m) /\ jobs' = [jobs EXCEPT ![m] = @ + 1]
  BY DEF CommitStale, QueueJob, QueueFails, history, ApprovalsOK, RequestInv, Committed
<1> HIDE DEF m, s
<1>3. /\ request'[r] = s
      /\ \A q \in Requests \ {r} :
           /\ request'[q] = request[q]
           /\ \A n \in MessageIds : /\ Approving(q, n)' <=> Approving(q, n)
                                    /\ Committed(q, n)' <=> Committed(q, n)
  BY <1>1, OneRequest
<1>4. \A n \in MessageIds : ~Approving(r, n)' /\ ~Committed(r, n)'
  BY <1>1, <1>3 DEF Approving, Committed
<1>5. \A n \in MessageIds :
        \/ jobs'[n] = jobs[n]
        \/ n = m /\ Committed(r, m) /\ jobs'[n] = jobs[n] + 1
  BY <1>2 DEF HistoryOK
<1>6. RequestInv'
  BY <1>1, <1>3 DEF ApprovalsOK, RequestInv
<1>7. UnusedInv'
  BY <1>1, <1>3, <1>4, <1>5 DEF ApprovalsOK, UnusedInv
<1>8. CommittedInv'
  BY <1>1, <1>3, <1>4 DEF ApprovalsOK, CommittedInv
<1>9. ApprovalInv'
  <2> SUFFICES ASSUME NEW n \in MessageIds, n \notin contested
               PROVE  /\ jobs'[n] <= 1
                      /\ message[n].status = "DRAFT" => jobs'[n] = 0
                      /\ \A p, q \in Requests : Approving(p, n)' /\ Approving(q, n)' => p = q
                      /\ \A p, q \in Requests : Committed(p, n)' /\ Committed(q, n)' => p = q
                      /\ \A q \in Requests : Approving(q, n)' =>
                           jobs'[n] = 0 /\ message[n].status \in {"DRAFT", "gone"}
                      /\ \A p, q \in Requests : Committed(p, n)' => jobs'[n] = 0 /\ ~Approving(q, n)'
    BY <1>1 DEF ApprovalInv
  <2>1. CASE jobs'[n] = jobs[n]
    BY <1>3, <1>4, <2>1 DEF ApprovalsOK, ApprovalInv
  <2>2. CASE n = m /\ Committed(r, m) /\ jobs'[n] = jobs[n] + 1
    <3>1. /\ jobs[n] = 0 /\ message[n].status \in {"SENT", "gone"}
          /\ \A q \in Requests : ~Approving(q, n) /\ (Committed(q, n) => q = r)
      BY <2>2 DEF ApprovalsOK, ApprovalInv, CommittedInv
    <3> QED
      BY <1>3, <1>4, <2>2, <3>1
  <2> QED
    BY <1>5, <2>1, <2>2
<1> QED
  BY <1>6, <1>7, <1>8, <1>9 DEF ApprovalsOK

LEMMA ApprovalStep ==
    ASSUME TypeOK, ApprovalsOK, Next
    PROVE  ApprovalsOK'
<1>1. ASSUME NEW r \in Requests, RequestStep(r) PROVE ApprovalsOK'
  BY <1>1, ApprovalLoaded, ManualLoaded, ApprovalCommitted, ManualCommitted, RequestEnded
  DEF RequestStep, TypeOK
<1>2. CASE People \/ Beat
  <2>1. UNCHANGED <<request, jobs, contested>>
    BY <1>2 DEF People, Beat, AddDraft, Close, Reopen, DeleteLead, ResetWorkspace, TriggerOutreach,
      StartPosting, FindStale, CommitFollowups, FollowupsFail, StartBeat, PostIn, CommitPosts,
      PostsFail, IntervalPasses, Midnight, history
  <2> DEFINE Allowed(m) ==
               \/ message'[m].status \in {message[m].status, "gone"}
               \/ message[m].status = "none" /\ message'[m].status = "DRAFT"
  <2>2. ASSUME NEW m \in MessageIds PROVE Allowed(m)
    <3>1. CASE UNCHANGED message
      BY <3>1
    <3>2. ASSUME NEW c \in Contacts, NEW n \in MessageIds, AddDraft(c, n) PROVE Allowed(m)
      BY <3>2 DEF AddDraft, Fresh, NoRow, TypeOK, RowsOK
    <3>3. CASE \E leads \in SUBSET Contacts : message' = WithoutMessagesOf(leads)
      BY <3>3 DEF WithoutMessagesOf, Gone
    <3>4. ASSUME NEW row \in [stale -> MessageIds], CommitFollowups(row) PROVE Allowed(m)
      BY <3>4, FollowupRows DEF TypeOK
    <3> QED
      BY <1>2, <3>1, <3>2, <3>3, <3>4
      DEF People, Beat, Close, Reopen, DeleteLead, ResetWorkspace, TriggerOutreach,
        StartPosting, FindStale, FollowupsFail, StartBeat, PostIn, CommitPosts,
        PostsFail, IntervalPasses, Midnight, rows
  <2> QED
    BY <2>1, <2>2, ApprovalFrame
<1> QED
  BY <1>1, <1>2 DEF Next

-----------------------------------------------------------------------------
(* Follow-up drafts.                                                       *)

LEMMA FollowupFrame ==
    ASSUME FollowupInv, stale' \in {stale, {}},
           \A m \in MessageIds :
              CheckDraft(m)' => CheckDraft(m) /\ message'[m].lead = message[m].lead
    PROVE  FollowupInv'
  BY DEF FollowupInv

LEMMA FollowupStep ==
    ASSUME TypeOK, ApprovalsOK, FollowupInv, Next
    PROVE  FollowupInv'
<1> DEFINE Kept(m) == CheckDraft(m)' => CheckDraft(m) /\ message'[m].lead = message[m].lead
<1>1. ASSUME UNCHANGED message, stale' \in {stale, {}} PROVE FollowupInv'
  BY <1>1, FollowupFrame DEF CheckDraft
<1>2. ASSUME NEW r \in Requests, CommitApproval(r) PROVE FollowupInv'
  <2> DEFINE m == request[r].on
  <2>1. m \in MessageIds /\ \E row \in Row : row.status = "SENT" /\ message' = [message EXCEPT ![m] = row]
    BY <1>2, CommitApprovalMessage DEF ApprovalsOK, TypeOK
  <2> HIDE DEF m
  <2>2. \A n \in MessageIds : Kept(n)
    BY <2>1 DEF CheckDraft, TypeOK, RowsOK
  <2>3. UNCHANGED stale
    BY <1>2 DEF CommitApproval
  <2> QED
    BY <2>2, <2>3, FollowupFrame
<1>3. ASSUME NEW r \in Requests, NEW m \in MessageIds, CommitManual(r, m) PROVE FollowupInv'
  <2>1. UNCHANGED stale /\ \A n \in MessageIds : Kept(n)
    BY <1>3 DEF CommitManual, CheckDraft, TypeOK, RowsOK
  <2> QED
    BY <2>1, FollowupFrame
<1>4. ASSUME NEW c \in Contacts, NEW m \in MessageIds, AddDraft(c, m) PROVE FollowupInv'
  <2>1. UNCHANGED stale /\ \A n \in MessageIds : Kept(n)
    BY <1>4 DEF AddDraft, CheckDraft, TypeOK, RowsOK
  <2> QED
    BY <2>1, FollowupFrame
<1>5. ASSUME NEW leads \in SUBSET Contacts, message' = WithoutMessagesOf(leads), UNCHANGED stale
      PROVE  FollowupInv'
  <2>1. \A n \in MessageIds : Kept(n)
    BY <1>5 DEF WithoutMessagesOf, CheckDraft, Gone
  <2> QED
    BY <1>5, <2>1, FollowupFrame
<1>6. ASSUME NEW found \in SUBSET Contacts, FindStale(found) PROVE FollowupInv'
  <2>1. UNCHANGED message /\ stale' = found /\ found \subseteq Stale
    BY <1>6 DEF FindStale, rows
  <2>2. \A m \in MessageIds : CheckDraft(m) => message[m].lead \notin found
    BY <2>1 DEF Stale, Drafts, CheckDraft
  <2> QED
    BY <2>1, <2>2 DEF FollowupInv, CheckDraft
<1>7. ASSUME NEW row \in [stale -> MessageIds], CommitFollowups(row) PROVE FollowupInv'
  <2>1. \A m \in MessageIds :
          \/ message'[m] = message[m]
          \/ \E c \in stale : row[c] = m /\ message'[m].lead = c
    BY <1>7, FollowupRows DEF TypeOK
  <2>2. ASSUME NEW m \in MessageIds, NEW n \in MessageIds, CheckDraft(m)', CheckDraft(n)',
               message'[m].lead = message'[n].lead
        PROVE  m = n
    BY <2>1, <2>2 DEF FollowupInv, CheckDraft
  <2>3. stale' = {}
    BY <1>7 DEF CommitFollowups
  <2> QED
    BY <2>2, <2>3 DEF FollowupInv
<1> HIDE DEF Kept
<1>8. ASSUME NEW r \in Requests, RequestStep(r) PROVE FollowupInv'
  <2>1. CASE UNCHANGED <<message, stale>>
    BY <1>1, <2>1
  <2> QED
    BY <1>2, <1>3, <1>8, <2>1
    DEF RequestStep, LoadApproval, LoadManual, CommitStale, QueueJob, QueueFails, rows
<1>9. CASE People
  <2>1. CASE UNCHANGED <<message, stale>>
    BY <1>1, <2>1
  <2>2. ASSUME NEW c \in Contacts, DeleteLead(c) PROVE FollowupInv'
    BY <1>5, <2>2 DEF DeleteLead
  <2>3. CASE ResetWorkspace
    BY <1>5, <2>3 DEF ResetWorkspace
  <2> QED
    BY <1>4, <1>9, <2>1, <2>2, <2>3 DEF People, Close, Reopen, TriggerOutreach, StartPosting, rows
<1>10. CASE Beat
  <2>1. CASE UNCHANGED message /\ stale' \in {stale, {}}
    BY <1>1, <2>1
  <2> QED
    BY <1>6, <1>7, <1>10, <2>1
    DEF Beat, FollowupsFail, StartBeat, StartPosting, PostIn, CommitPosts, PostsFail,
      IntervalPasses, Midnight, rows
<1> QED
  BY <1>8, <1>9, <1>10 DEF Next

-----------------------------------------------------------------------------
(* Posts of an interval.                                                   *)

LEMMA PromoFrame ==
    ASSUME PromoInv, UNCHANGED posts, promo'["beat"] = promo["beat"],
           excused \subseteq excused',
           \A g \in Groups : group'[g] = "due" => group[g] = "due"
    PROVE  PromoInv'
  BY DEF PromoInv

LEMMA PromoStarted ==
    ASSUME TypeOK, PromoInv, NEW by \in Posters, NEW groups \in SUBSET Groups,
           StartPosting(by, groups), by = "beat" => groups = Due
    PROVE  PromoInv'
<1>1. /\ promo[by] = Idle /\ UNCHANGED <<group, posts, excused>>
      /\ \E s \in Posting : s.left = groups /\ s.done = {} /\ promo' = [promo EXCEPT ![by] = s]
  <2>1. promo[by] = Idle /\ UNCHANGED <<group, posts, excused>>
    BY DEF StartPosting, rows
  <2>2. \E s \in Posting : s.left = groups /\ s.done = {} /\ promo' = [promo EXCEPT ![by] = s]
    BY StartPostingRun DEF TypeOK
  <2> QED
    BY <2>1, <2>2
<1>2. CASE by = "beat"
  <2>1. promo'["beat"].left = Due /\ promo["beat"] = Idle
    BY <1>1, <1>2 DEF TypeOK, RunsOK
  <2>2. \A g \in Groups \ excused : posts[g] <= 1 /\ (group[g] = "due" => posts[g] = 0)
    BY <2>1 DEF PromoInv
  <2> QED
    BY <1>1, <2>1, <2>2 DEF PromoInv, Due
<1>3. CASE by # "beat"
  BY <1>1, <1>3, PromoFrame DEF TypeOK, RunsOK, Posters
<1> QED
  BY <1>2, <1>3

LEMMA PromoPosted ==
    ASSUME TypeOK, PromoInv, NEW by \in Posters, NEW g \in Groups, PostIn(by, g)
    PROVE  PromoInv'
<1> DEFINE run == promo[by]
<1>1. /\ run # Idle /\ g \in run.left /\ UNCHANGED group
      /\ posts' = [posts EXCEPT ![g] = @ + 1]
      /\ excused' = IF by = "person" THEN excused \cup {g} ELSE excused
  BY DEF PostIn, rows
<1>2. PICK s \in Posting : /\ s.left = run.left \ {g} /\ s.done = run.done \cup {g}
                           /\ promo' = [promo EXCEPT ![by] = s]
  BY PostInRun DEF TypeOK
<1>3. /\ \A h \in Groups : posts[h] \in Nat
      /\ posts'[g] = posts[g] + 1
      /\ \A h \in Groups \ {g} : posts'[h] = posts[h]
  BY <1>1 DEF TypeOK, HistoryOK
<1>4. promo'[by] = s /\ \A b \in Posters \ {by} : promo'[b] = promo[b]
  BY <1>2 DEF TypeOK, RunsOK
<1> HIDE DEF run
<1>5. CASE by = "beat"
  <2>1. excused' = excused /\ run = promo["beat"] /\ promo'["beat"] = s
    BY <1>1, <1>4, <1>5 DEF run
  <2>2. ASSUME NEW h \in Groups, h \notin excused
        PROVE  /\ posts'[h] <= 1
               /\ h \in s.left => posts'[h] = 0
               /\ group[h] = "due" => posts'[h] = 0 \/ h \in s.done
    <3>1. CASE h = g
      <4>1. posts[g] = 0
        BY <1>1, <2>1, <2>2, <3>1 DEF PromoInv
      <4> QED
        BY <1>2, <1>3, <3>1, <4>1
    <3>2. CASE h # g
      BY <1>1, <1>2, <1>3, <2>1, <2>2, <3>2 DEF PromoInv
    <3> QED
      BY <3>1, <3>2
  <2>3. s # Idle
    BY DEF Posting, Idle
  <2> QED
    BY <1>1, <2>1, <2>2, <2>3 DEF PromoInv
<1>6. CASE by = "person"
  <2>1. promo'["beat"] = promo["beat"] /\ excused' = excused \cup {g}
    BY <1>1, <1>4, <1>6 DEF Posters
  <2> QED
    BY <1>1, <1>3, <2>1 DEF PromoInv
<1> QED
  BY <1>5, <1>6 DEF Posters

LEMMA PromoEnded ==
    ASSUME TypeOK, PromoInv, NEW by \in Posters, CommitPosts(by) \/ PostsFail(by)
    PROVE  PromoInv'
<1>1. UNCHANGED posts /\ promo'[by] = Idle /\ \A b \in Posters \ {by} : promo'[b] = promo[b]
  BY DEF CommitPosts, PostsFail, TypeOK, RunsOK
<1>2. CASE CommitPosts(by)
  <2>1. /\ UNCHANGED excused
        /\ \A g \in Groups : group'[g] = "due" => group[g] = "due" /\ g \notin promo[by].done
    BY <1>2 DEF CommitPosts
  <2>2. CASE by = "beat"
    BY <1>1, <2>1, <2>2 DEF PromoInv
  <2>3. CASE by # "beat"
    BY <1>1, <2>1, <2>3, PromoFrame DEF Posters
  <2> QED
    BY <2>2, <2>3
<1>3. CASE PostsFail(by)
  <2>1. /\ UNCHANGED group
        /\ excused' = IF by = "beat" THEN excused \cup promo[by].done ELSE excused
    BY <1>3 DEF PostsFail, rows
  <2>2. CASE by = "beat"
    BY <1>1, <2>1, <2>2 DEF PromoInv
  <2>3. CASE by # "beat"
    BY <1>1, <2>1, <2>3, PromoFrame DEF Posters
  <2> QED
    BY <2>2, <2>3
<1> QED
  BY <1>2, <1>3

LEMMA PromoStep ==
    ASSUME TypeOK, PromoInv, Next
    PROVE  PromoInv'
<1>1. CASE UNCHANGED <<posts, promo, excused, group>>
  BY <1>1, PromoFrame
<1>2. CASE StartBeat \/ TriggerOutreach
  <2>1. /\ Due \in SUBSET Groups /\ {g \in Groups : group[g] # "gone"} \in SUBSET Groups
        /\ "beat" \in Posters /\ "person" \in Posters
    BY DEF Due, Posters
  <2> QED
    BY <1>2, <2>1, PromoStarted DEF StartBeat, TriggerOutreach
<1>3. CASE ResetWorkspace
  BY <1>3, PromoFrame DEF ResetWorkspace
<1>4. ASSUME NEW g \in Groups, IntervalPasses(g) PROVE PromoInv'
  <2>1. /\ promo' = promo /\ promo["beat"] = Idle
        /\ posts'[g] = 0 /\ \A h \in Groups \ {g} : posts'[h] = posts[h]
        /\ excused' = excused \ {g}
        /\ \A h \in Groups \ {g} : group'[h] = group[h]
    BY <1>4 DEF IntervalPasses, Posters, TypeOK, RowsOK, HistoryOK
  <2> QED
    BY <2>1 DEF PromoInv
<1> QED
  BY <1>1, <1>2, <1>3, <1>4, PromoPosted, PromoEnded
  DEF Next, RequestStep, LoadApproval, LoadManual, CommitApproval, CommitManual, CommitStale,
    QueueJob, QueueFails, People, AddDraft, Close, Reopen, DeleteLead, Beat, FindStale,
    CommitFollowups, FollowupsFail, Midnight, rows, history

-----------------------------------------------------------------------------
(* The counter while one transaction at a time holds it.                   *)

LEMMA NumbersType ==
    ASSUME TypeOK
    PROVE  /\ workspace \in WorkspaceRow /\ workspace.sent \in Nat /\ workspace.reset_day \in Nat
           /\ today \in Nat /\ Counter \in Nat /\ tally.untested \in Nat
  BY DraftConsoleAssumption
  DEF DraftConsoleAssumption, TypeOK, RowsOK, RunsOK, HistoryOK, WorkspaceRow,
    Counter, Tally

(* Who loads the counter alone finds nobody holding it.                    *)
LEMMA LoadedAlone ==
    ASSUME NEW new, LoadCounter(new), ~overlapped'
    PROVE  /\ ~overlapped /\ tally' = new /\ \A by \in Posters : promo[by] = Idle
           /\ \A r \in Requests : ~Holds(r)
<1>1. ~overlapped /\ ~CounterLoaded /\ tally' = new
  BY Zenon DEF LoadCounter
<1> QED
  BY <1>1, Zenon DEF CounterLoaded, Holds

LEMMA CounterFrame ==
    ASSUME CounterOK, UNCHANGED <<workspace, today, tally.untested>>,
           \A by \in Posters : promo'[by] \in {promo[by], Idle},
           \A r \in Requests : Holds(r)' =>
              /\ Holds(r) /\ request'[r].sent = request[r].sent
              /\ request'[r].reset_day = request[r].reset_day
    PROVE  CounterOK'
<1>1. ValueInv'
  BY DEF CounterOK, ValueInv, Counter
<1>2. SoleHolder'
  BY DEF CounterOK, SoleHolder
<1>3. LoadedInv'
  BY DEF CounterOK, LoadedInv, Counter
<1>4. RunInv'
  BY DEF CounterOK, RunInv, Counter
<1> QED
  BY <1>1, <1>2, <1>3, <1>4 DEF CounterOK

(* An approval or a manual message is loaded.                              *)
LEMMA CounterRequested ==
    ASSUME TypeOK, CounterOK, NEW r \in Requests, NEW s \in Loaded,
           request' = [request EXCEPT ![r] = s],
           s.sent = workspace.sent, s.reset_day = workspace.reset_day,
           DailyQuotaAvailable(workspace, today),
           \A by \in Posters : promo[by] = Idle, \A q \in Requests : ~Holds(q),
           UNCHANGED <<workspace, promo, today, tally.untested>>
    PROVE  CounterOK'
<1>1. request'[r] = s /\ \A q \in Requests : q # r => ~Holds(q)'
  BY DEF TypeOK, RunsOK, Holds
<1>2. Counter < Limit /\ UNCHANGED Counter
  BY NumbersType, QuotaValue, LimitType DEF CounterOK, ValueInv, Counter
<1>3. ValueInv'
  BY <1>2 DEF CounterOK, ValueInv
<1>4. SoleHolder'
  BY <1>1 DEF SoleHolder
<1>5. LoadedInv'
  BY <1>1, <1>2 DEF LoadedInv
<1>6. RunInv'
  BY DEF RunInv
<1> QED
  BY <1>3, <1>4, <1>5, <1>6 DEF CounterOK

(* The only holder commits: the day has one more, and room for it.         *)
LEMMA CounterBumped ==
    ASSUME TypeOK, CounterOK, NEW r \in Requests, Holds(r), BumpCounter(r), ~overlapped,
           ~Holds(r)', \A q \in Requests \ {r} : request'[q] = request[q],
           UNCHANGED <<promo, today, tally.untested>>
    PROVE  CounterOK' /\ Counter' = Counter + 1
<1> DEFINE loaded == LoadedRow(r)
           new == BumpSentCounter(loaded, today)
<1>1. loaded \in WorkspaceRow /\ loaded.sent = workspace.sent
      /\ loaded.reset_day = workspace.reset_day
  BY BumpType DEF TypeOK, Holds, CounterOK, LoadedInv
<1>2. /\ workspace \in WorkspaceRow /\ today \in Nat /\ Counter \in Nat /\ tally.untested \in Nat
      /\ workspace.sent \in Nat
  BY NumbersType
<1>3. /\ new \in WorkspaceRow /\ new.reset_day = today
      /\ new.sent = IF workspace.reset_day = today THEN workspace.sent + 1 ELSE 1
  <2> HIDE DEF loaded
  <2>1. new \in WorkspaceRow
    BY <1>1, <1>2, ResetType
  <2>2. /\ new.reset_day = today
        /\ \/ loaded.reset_day = today /\ new.sent = loaded.sent + 1
           \/ loaded.reset_day # today /\ new.sent = 1
    BY <1>1, <1>2, BumpValue
  <2> HIDE DEF new
  <2> QED
    BY <1>1, <2>1, <2>2
<1>4. workspace' = Flushed(workspace, loaded, new)
  BY Zenon DEF BumpCounter
<1> HIDE DEF loaded, new
<1>5. workspace'.sent = new.sent /\ workspace'.reset_day = today
  BY <1>1, <1>2, <1>3, <1>4, FlushedValue
<1>6. Counter < Limit
  BY DEF CounterOK, LoadedInv
<1>7. \A q \in Requests : ~Holds(q)'
  BY DEF CounterOK, SoleHolder, Holds
<1>8. \A by \in Posters : promo'[by] = Idle
  BY DEF CounterOK, SoleHolder
<1>9. Counter' = Counter + 1
  BY <1>2, <1>3, <1>5 DEF Counter
<1>10. ValueInv'
  BY <1>2, <1>5, <1>6, <1>9, LimitType DEF ValueInv
<1>11. SoleHolder' /\ LoadedInv' /\ RunInv'
  BY <1>7, <1>8 DEF SoleHolder, LoadedInv, RunInv
<1> QED
  BY <1>9, <1>10, <1>11 DEF CounterOK

(* A run that posts loads the row.                                         *)
LEMMA CounterRunStarted ==
    ASSUME TypeOK, CounterOK, NEW by \in Posters, NEW groups \in SUBSET Groups,
           StartPosting(by, groups), by = "beat" => DailyQuotaAvailable(workspace, today),
           ~overlapped'
    PROVE  CounterOK'
<1>1. (\A b \in Posters : promo[b] = Idle) /\ \A r \in Requests : ~Holds(r)
  BY LoadedAlone DEF StartPosting
<1>2. PICK s \in Posting :
        /\ s.loaded = workspace /\ s.counted = 0
        /\ s.row = (IF by = "beat" THEN ResetIfNewDay(workspace, today) ELSE workspace)
        /\ promo' = [promo EXCEPT ![by] = s]
  BY StartPostingRun DEF TypeOK
<1>3. UNCHANGED <<workspace, request, today, tally>>
  BY LoadedAlone DEF StartPosting, rows
<1>4. promo'[by] = s /\ \A b \in Posters \ {by} : promo'[b] = Idle
  BY <1>1, <1>2 DEF TypeOK, RunsOK
<1>5. /\ workspace \in WorkspaceRow /\ today \in Nat /\ workspace.reset_day \in Nat
      /\ workspace.reset_day <= today /\ Counter \in Nat
  BY NumbersType DEF CounterOK, ValueInv
<1>6. ValueInv' /\ UNCHANGED Counter
  BY <1>3 DEF CounterOK, ValueInv, Counter
<1>7. SoleHolder' /\ LoadedInv'
  BY <1>1, <1>3, <1>4 DEF SoleHolder, LoadedInv, Holds
<1>8. /\ workspace.reset_day <= s.row.reset_day /\ s.row.reset_day <= today
      /\ s.row.reset_day = today => s.row.sent = Counter
      /\ by = "beat" => s.row.sent <= Limit
  <2>1. CASE by = "beat"
    <3>1. s.row = ResetIfNewDay(workspace, today)
      BY <1>2, <2>1
    <3>2. s.row.sent < Limit
      BY <2>1, <3>1 DEF DailyQuotaAvailable, Limit
    <3>3. s.row.reset_day = today /\ s.row.sent = Counter
      BY <1>5, <3>1, ResetValue DEF Counter
    <3> QED
      BY <1>5, <3>2, <3>3, LimitType
  <2>2. CASE by # "beat"
    BY <1>2, <1>5, <2>2 DEF Counter
  <2> QED
    BY <2>1, <2>2
<1>9. RunInv'
  BY <1>2, <1>3, <1>4, <1>5, <1>6, <1>8 DEF RunInv
<1> QED
  BY <1>6, <1>7, <1>9 DEF CounterOK

(* What the row of a run says of the day.                                  *)
LEMMA RunFacts ==
    ASSUME TypeOK, CounterOK, NEW by \in Posters, promo[by] # Idle
    PROVE  LET run == promo[by] IN
           /\ run.loaded = workspace /\ run.row \in WorkspaceRow /\ run.counted \in Nat
           /\ run.row.sent \in Nat /\ run.row.reset_day \in Nat
           /\ workspace.reset_day <= run.row.reset_day /\ run.row.reset_day <= today
           /\ run.row.reset_day = today => run.row.sent = Counter + run.counted
           /\ run.row.reset_day # today => Counter = 0
           /\ by = "beat" /\ run.row.reset_day = today => run.row.sent <= Limit
           /\ \A r \in Requests : ~Holds(r)
           /\ \A b \in Posters \ {by} : promo[b] = Idle
<1>1. /\ promo[by].row \in WorkspaceRow /\ promo[by].counted \in Nat
      /\ promo[by].row.sent \in Nat /\ promo[by].row.reset_day \in Nat
  BY PromoShape DEF TypeOK, WorkspaceRow
<1>2. /\ promo[by].loaded = workspace
      /\ workspace.reset_day <= promo[by].row.reset_day /\ promo[by].row.reset_day <= today
      /\ promo[by].row.reset_day = today => promo[by].row.sent = Counter + promo[by].counted
      /\ by = "beat" /\ promo[by].row.reset_day = today => promo[by].row.sent <= Limit
  BY DEF CounterOK, RunInv
<1>3. promo[by].row.reset_day # today => Counter = 0
  BY <1>1, <1>2, NumbersType DEF CounterOK, ValueInv, Counter
<1>4. (\A r \in Requests : ~Holds(r)) /\ \A b \in Posters \ {by} : promo[b] = Idle
  BY DEF CounterOK, SoleHolder
<1> QED
  BY <1>1, <1>2, <1>3, <1>4

LEMMA CounterPosted ==
    ASSUME TypeOK, CounterOK, NEW by \in Posters, NEW g \in Groups, PostIn(by, g)
    PROVE  CounterOK'
<1> DEFINE run == promo[by]
<1>1. run # Idle /\ UNCHANGED <<workspace, request, today, tally.untested, Counter>>
      /\ (by = "beat" => DailyQuotaAvailable(run.row, today))
  <2>1. run # Idle /\ UNCHANGED <<workspace, request, today>>
        /\ (by = "beat" => DailyQuotaAvailable(run.row, today))
    BY DEF PostIn, rows
  <2>2. tally' = IF overlapped THEN tally ELSE [tally EXCEPT !.left = @ + 1]
    BY Zenon DEF PostIn, Count
  <2>3. UNCHANGED tally.untested
    BY <2>2 DEF TypeOK, HistoryOK, Tally
  <2> QED
    BY <2>1, <2>3 DEF Counter
<1>2. PICK s \in Posting :
        /\ s.loaded = run.loaded /\ s.row = BumpSentCounter(run.row, today)
        /\ s.counted = (IF run.row.reset_day = today THEN run.counted + 1 ELSE 1)
        /\ promo' = [promo EXCEPT ![by] = s]
  BY PostInRun DEF TypeOK
<1>3. /\ run.loaded = workspace /\ run.row \in WorkspaceRow /\ run.counted \in Nat
      /\ run.row.sent \in Nat /\ run.row.reset_day \in Nat
      /\ workspace.reset_day <= run.row.reset_day /\ run.row.reset_day <= today
      /\ run.row.reset_day = today => run.row.sent = Counter + run.counted
      /\ run.row.reset_day # today => Counter = 0
      /\ \A r \in Requests : ~Holds(r)
      /\ \A b \in Posters \ {by} : promo[b] = Idle
  BY <1>1, RunFacts
<1>4. promo'[by] = s /\ \A b \in Posters \ {by} : promo'[b] = Idle
  BY <1>2, <1>3 DEF TypeOK, RunsOK
<1>5. today \in Nat /\ Counter \in Nat /\ workspace.reset_day \in Nat
  BY NumbersType
<1>6. /\ s.row.reset_day = today
      /\ s.row.sent = IF run.row.reset_day = today THEN run.row.sent + 1 ELSE 1
  BY <1>2, <1>3, <1>5, BumpValue
<1>7. by = "beat" => s.row.sent <= Limit
  <2>1. by = "beat" /\ run.row.reset_day = today => run.row.sent < Limit
    BY <1>1, <1>3, <1>5, QuotaValue
  <2> QED
    BY <1>3, <1>6, <2>1, LimitType
<1> HIDE DEF run
<1>8. ValueInv'
  BY <1>1 DEF CounterOK, ValueInv
<1>9. SoleHolder' /\ LoadedInv'
  BY <1>1, <1>3, <1>4 DEF SoleHolder, LoadedInv, Holds
<1>10. RunInv'
  BY <1>1, <1>2, <1>3, <1>4, <1>5, <1>6, <1>7 DEF RunInv
<1> QED
  BY <1>8, <1>9, <1>10 DEF CounterOK

LEMMA CounterPostsCommitted ==
    ASSUME TypeOK, CounterOK, NEW by \in Posters, CommitPosts(by), ~overlapped
    PROVE  CounterOK' /\ Counter' = Counter + OpenPosts(by)
<1> DEFINE run == promo[by]
           n == OpenPosts(by)
<1>1. /\ run # Idle /\ UNCHANGED <<request, today>>
      /\ workspace' = Flushed(workspace, run.loaded, run.row)
      /\ promo' = [promo EXCEPT ![by] = Idle]
  BY Zenon DEF CommitPosts
<1>2. tally'.untested = IF by = "person" THEN tally.untested + n ELSE tally.untested
  <2>1. tally' = [tally EXCEPT !.untested = IF by = "person" THEN @ + n ELSE @]
    BY Zenon DEF CommitPosts, Count
  <2> QED
    BY <2>1 DEF TypeOK, HistoryOK, Tally
<1>3. /\ run.loaded = workspace /\ run.row \in WorkspaceRow /\ run.counted \in Nat
      /\ run.row.sent \in Nat /\ run.row.reset_day \in Nat
      /\ run.row.reset_day <= today
      /\ run.row.reset_day = today => run.row.sent = Counter + run.counted
      /\ run.row.reset_day # today => Counter = 0
      /\ by = "beat" /\ run.row.reset_day = today => run.row.sent <= Limit
      /\ \A r \in Requests : ~Holds(r)
      /\ \A b \in Posters \ {by} : promo[b] = Idle
  BY <1>1, RunFacts
<1>4. \A b \in Posters : promo'[b] = Idle
  <2>1. promo'[by] = Idle /\ \A b \in Posters \ {by} : promo'[b] = promo[b]
    BY <1>1 DEF TypeOK, RunsOK
  <2> QED
    BY <1>3, <2>1
<1>5. /\ workspace \in WorkspaceRow /\ today \in Nat /\ Counter \in Nat
      /\ tally.untested \in Nat /\ Counter <= Limit + tally.untested
  BY NumbersType DEF CounterOK, ValueInv
<1>6. workspace'.sent = run.row.sent /\ workspace'.reset_day = run.row.reset_day
  BY <1>1, <1>3, <1>5, FlushedValue
<1>7. /\ n \in Nat
      /\ run.row.reset_day = today => n = run.counted
      /\ run.row.reset_day # today => n = 0
  BY <1>1, <1>3 DEF OpenPosts
<1> HIDE DEF run, n
<1>8. Counter' = Counter + n
  BY <1>1, <1>3, <1>5, <1>6, <1>7 DEF Counter
<1>9. ValueInv'
  <2>1. workspace'.reset_day <= today'
    BY <1>1, <1>3, <1>6
  <2>2. Counter' <= Limit + tally'.untested
    <3>1. CASE by = "person"
      BY <1>2, <1>5, <1>7, <1>8, <3>1, LimitType
    <3>2. CASE by = "beat"
      <4>1. Counter + n <= Limit
        BY <1>3, <1>5, <1>7, <3>2, LimitType
      <4> QED
        BY <1>2, <1>5, <1>7, <1>8, <3>2, <4>1, LimitType
    <3> QED
      BY <3>1, <3>2 DEF Posters
  <2> QED
    BY <2>1, <2>2 DEF ValueInv
<1>10. SoleHolder' /\ LoadedInv' /\ RunInv'
  BY <1>1, <1>3, <1>4 DEF SoleHolder, LoadedInv, RunInv, Holds
<1> QED
  BY <1>8, <1>9, <1>10 DEF CounterOK, n

LEMMA CounterReset ==
    ASSUME TypeOK, CounterOK, ResetWorkspace, ~overlapped'
    PROVE  CounterOK' /\ Counter' = 0
<1>1. /\ UNCHANGED <<request, promo, today>> /\ tally'.untested = 0
      /\ workspace' = [workspace EXCEPT !.sent = 0, !.is_running = FALSE]
  <2>1. tally' = [tally EXCEPT !.unbooked = @ + Counter, !.untested = 0]
    BY LoadedAlone DEF ResetWorkspace
  <2>2. tally'.untested = 0
    BY <2>1 DEF TypeOK, HistoryOK, Tally
  <2> QED
    BY <2>2 DEF ResetWorkspace
<1>2. (\A by \in Posters : promo[by] = Idle) /\ \A r \in Requests : ~Holds(r)
  BY LoadedAlone DEF ResetWorkspace
<1>3. workspace'.sent = 0 /\ workspace'.reset_day = workspace.reset_day
  BY <1>1, NumbersType DEF WorkspaceRow
<1>4. Counter' = 0 /\ ValueInv'
  BY <1>1, <1>3, LimitType DEF CounterOK, ValueInv, Counter
<1>5. SoleHolder' /\ LoadedInv' /\ RunInv'
  BY <1>1, <1>2 DEF SoleHolder, LoadedInv, RunInv, Holds
<1> QED
  BY <1>4, <1>5 DEF CounterOK

LEMMA CounterMidnight ==
    ASSUME TypeOK, CounterOK, Midnight, ~overlapped
    PROVE  CounterOK' /\ Counter' = 0
<1>1. UNCHANGED <<workspace, request, promo>> /\ today' = today + 1
  BY DEF Midnight, rows
<1>2. workspace.reset_day \in Nat /\ today \in Nat /\ workspace.reset_day <= today
  BY NumbersType DEF CounterOK, ValueInv
<1>3. Counter' = 0
  BY <1>1, <1>2 DEF Counter
<1>4. tally'.untested = 0
  <2>1. tally' = [NoTally EXCEPT !.unbooked = Cardinality(Booked)]
    BY DEF Midnight, Count
  <2> QED
    BY <2>1 DEF NoTally
<1>5. ValueInv'
  BY <1>1, <1>2, <1>3, <1>4, LimitType DEF ValueInv
<1>6. SoleHolder'
  BY <1>1 DEF CounterOK, SoleHolder, Holds
<1>7. LoadedInv'
  BY <1>1, <1>3, LimitType DEF CounterOK, LoadedInv, Holds
<1>8. RunInv'
  <2>1. ASSUME NEW by \in Posters, promo[by] # Idle
        PROVE  /\ promo[by].loaded = workspace
               /\ workspace.reset_day <= promo[by].row.reset_day
               /\ promo[by].row.reset_day <= today + 1 /\ promo[by].row.reset_day # today + 1
    BY <1>2, <2>1, RunFacts
  <2> QED
    BY <1>1, <2>1 DEF RunInv
<1> QED
  BY <1>3, <1>5, <1>6, <1>7, <1>8 DEF CounterOK

LEMMA CounterStepRequest ==
    ASSUME TypeOK, ApprovalsOK, CounterOK, ~overlapped, NEW r \in Requests, RequestStep(r),
           ~overlapped'
    PROVE  CounterOK'
<1>1. ASSUME NEW op \in {"approve", "manual"}, NEW on \in MessageIds \cup Contacts,
             Load(r, op, on), QuotaTest(op), LoadCounter(tally),
             UNCHANGED <<workspace, promo, today>>
      PROVE  CounterOK'
  <2> DEFINE s == [op |-> op, phase |-> "loaded", on |-> on,
                   sent |-> workspace.sent, reset_day |-> workspace.reset_day]
  <2>1. s \in Loaded /\ s.sent = workspace.sent /\ s.reset_day = workspace.reset_day
    BY NumbersType DEF Loaded
  <2>2. request' = [request EXCEPT ![r] = s] /\ DailyQuotaAvailable(workspace, today)
    BY <1>1 DEF Load, QuotaTest
  <2>3. /\ \A by \in Posters : promo[by] = Idle
        /\ \A q \in Requests : ~Holds(q)
        /\ UNCHANGED tally.untested
    BY <1>1, LoadedAlone
  <2> HIDE DEF s
  <2> QED
    BY <1>1, <2>1, <2>2, <2>3, CounterRequested
<1>2. ASSUME NEW m \in MessageIds, LoadApproval(r, "approve", m) PROVE CounterOK'
  BY <1>1, <1>2 DEF LoadApproval, rows
<1>3. ASSUME NEW c \in Contacts, LoadManual(r, c) PROVE CounterOK'
  BY <1>1, <1>3 DEF LoadManual, rows
<1>4. ASSUME NEW s, request' = [request EXCEPT ![r] = s],
             s.phase # "loaded" \/ s.op = "approve_plain",
             UNCHANGED <<workspace, promo, today, tally.untested>>
      PROVE  CounterOK'
  <2>1. request'[r] = s /\ \A q \in Requests \ {r} : request'[q] = request[q]
    BY <1>4 DEF TypeOK, RunsOK
  <2> QED
    BY <1>4, <2>1, CounterFrame DEF Holds
<1>5. ASSUME NEW m \in MessageIds, LoadApproval(r, "approve_plain", m) PROVE CounterOK'
  <2> DEFINE s == [op |-> "approve_plain", phase |-> "loaded", on |-> m,
                   sent |-> workspace.sent, reset_day |-> workspace.reset_day]
  <2>1. request' = [request EXCEPT ![r] = s] /\ s.op = "approve_plain"
        /\ UNCHANGED <<workspace, promo, today, tally.untested>>
    BY <1>5 DEF LoadApproval, Load, rows
  <2> HIDE DEF s
  <2> QED
    BY <1>4, <2>1
<1>6. CASE CommitStale(r) \/ QueueJob(r) \/ QueueFails(r)
  <2> DEFINE s == [phase |-> "ended"]
  <2>1. request' = [request EXCEPT ![r] = s] /\ s.phase # "loaded"
        /\ UNCHANGED <<workspace, promo, today>>
    BY <1>6 DEF CommitStale, QueueJob, QueueFails, rows, history
  <2>2. UNCHANGED tally.untested
    BY <1>6, QueueCounts, RefusalCounts DEF CommitStale, history, TypeOK
  <2> HIDE DEF s
  <2> QED
    BY <1>4, <2>1, <2>2
<1>7. ASSUME NEW s \in Loaded, s.phase = "committed", request' = [request EXCEPT ![r] = s],
             request[r].phase = "loaded", UNCHANGED <<promo, today, tally>>,
             IF request[r].op = "approve_plain"
             THEN UNCHANGED workspace
             ELSE BumpCounter(r)
      PROVE  CounterOK'
  <2>1. request'[r] = s /\ \A q \in Requests \ {r} : request'[q] = request[q]
    BY <1>7 DEF TypeOK, RunsOK
  <2>2. CASE request[r].op = "approve_plain"
    BY <1>4, <1>7, <2>2
  <2>3. CASE request[r].op # "approve_plain"
    <3>1. Holds(r) /\ ~Holds(r)' /\ BumpCounter(r)
      BY <1>7, <2>1, <2>3 DEF Holds
    <3> QED
      BY <1>7, <2>1, <3>1, CounterBumped
  <2> QED
    BY <2>2, <2>3
<1>8. CASE CommitApproval(r)
  <2>1. \E s \in Loaded : s.phase = "committed" /\ request' = [request EXCEPT ![r] = s]
    BY <1>8, CommitApprovalRequest DEF TypeOK
  <2>2. request[r].op \in {"approve", "approve_plain"}
    BY <1>8, RequestShape DEF CommitApproval, TypeOK
  <2> QED
    BY <1>7, <1>8, <2>1, <2>2 DEF CommitApproval, history
<1>9. ASSUME NEW m \in MessageIds, CommitManual(r, m) PROVE CounterOK'
  <2>1. \E s \in Loaded : s.phase = "committed" /\ request' = [request EXCEPT ![r] = s]
    BY <1>9, CommitManualRequest DEF TypeOK
  <2> QED
    BY <1>7, <1>9, <2>1 DEF CommitManual, history
<1> QED
  BY <1>2, <1>3, <1>5, <1>6, <1>8, <1>9 DEF RequestStep

LEMMA CounterStepRest ==
    ASSUME TypeOK, CounterOK, ~overlapped, People \/ Beat, ~overlapped'
    PROVE  CounterOK'
<1>1. CASE UNCHANGED <<workspace, request, promo, today, tally.untested>>
  BY <1>1, CounterFrame DEF Holds
<1>2. CASE StartBeat \/ TriggerOutreach
  <2>1. /\ Due \in SUBSET Groups /\ {g \in Groups : group[g] # "gone"} \in SUBSET Groups
        /\ "beat" \in Posters /\ "person" \in Posters
    BY DEF Due, Posters
  <2> QED
    BY <1>2, <2>1, CounterRunStarted DEF StartBeat, TriggerOutreach
<1>3. ASSUME NEW by \in Posters, PostsFail(by) PROVE CounterOK'
  <2>1. /\ UNCHANGED <<workspace, request, today>>
        /\ \A b \in Posters : promo'[b] \in {promo[b], Idle}
    BY <1>3 DEF PostsFail, rows, TypeOK, RunsOK
  <2>2. UNCHANGED tally.untested
    <3>1. tally' = [tally EXCEPT !.unbooked = @ + OpenPosts(by)]
      BY <1>3, Zenon DEF PostsFail, Count
    <3> QED
      BY <3>1 DEF TypeOK, HistoryOK, Tally
  <2> QED
    BY <2>1, <2>2, CounterFrame DEF Holds
<1> QED
  BY <1>1, <1>2, <1>3, CounterPosted, CounterPostsCommitted, CounterReset, CounterMidnight
  DEF People, Beat, AddDraft, Close, Reopen, DeleteLead, FindStale, CommitFollowups, FollowupsFail,
    IntervalPasses, rows, history

(* Once two transactions have overlapped nothing is said any more.         *)
LEMMA OverlapStays ==
    ASSUME Next, overlapped
    PROVE  overlapped'
<1>1. CASE UNCHANGED overlapped
  BY <1>1, Zenon
<1>2. ASSUME NEW new, LoadCounter(new) PROVE overlapped'
  BY <1>2, Zenon DEF LoadCounter
<1> QED
  BY <1>1, <1>2
  DEF Next, RequestStep, LoadApproval, LoadManual, CommitApproval, CommitManual, CommitStale,
    QueueJob, QueueFails, People, AddDraft, Close, Reopen, DeleteLead, ResetWorkspace, TriggerOutreach,
    Beat, FindStale, CommitFollowups, FollowupsFail, StartBeat, StartPosting, PostIn,
    CommitPosts, PostsFail, IntervalPasses, Midnight, history

LEMMA CounterStep ==
    ASSUME TypeOK, ApprovalsOK, CounterInv, Next
    PROVE  CounterInv'
<1> SUFFICES ASSUME ~overlapped' PROVE CounterOK'
  BY Zenon DEF CounterInv
<1>1. ~overlapped
  BY OverlapStays, Zenon
<1>2. CounterOK
  BY <1>1, Zenon DEF CounterInv
<1> QED
  BY <1>1, <1>2, CounterStepRequest, CounterStepRest DEF Next

-----------------------------------------------------------------------------
(* The balance of the counter and what left.                               *)

(* One request changes; it is booked after the step or it is not.          *)
LEMMA BookedAfter ==
    ASSUME RunsOK, NEW r \in Requests, NEW s, request' = [request EXCEPT ![r] = s]
    PROVE  /\ s.phase = "committed" /\ s.op # "approve_plain" =>
                Cardinality(Booked)' = Cardinality(Booked) + (IF r \in Booked THEN 0 ELSE 1)
           /\ ~(s.phase = "committed" /\ s.op # "approve_plain") =>
                Cardinality(Booked) = Cardinality(Booked)' + (IF r \in Booked THEN 1 ELSE 0)
<1>1. request'[r] = s /\ \A q \in Requests \ {r} : request'[q] = request[q]
  BY DEF RunsOK
<1>2. /\ s.phase = "committed" /\ s.op # "approve_plain" => Booked' = Booked \cup {r}
      /\ ~(s.phase = "committed" /\ s.op # "approve_plain") => Booked' = Booked \ {r}
  BY <1>1 DEF Booked
<1>3. IsFiniteSet(Booked) /\ Cardinality(Booked) \in Nat
  BY BookedType
<1>4. r \in Booked => Booked \cup {r} = Booked /\ Booked = (Booked \ {r}) \cup {r}
  BY Zenon
<1>5. r \notin Booked => Booked \ {r} = Booked
  BY Zenon
<1>6. Cardinality(Booked \cup {r}) =
        IF r \in Booked THEN Cardinality(Booked) ELSE Cardinality(Booked) + 1
  BY <1>3, FS_AddElement, Zenon
<1>7. Cardinality(Booked \ {r}) =
        IF r \in Booked THEN Cardinality(Booked) - 1 ELSE Cardinality(Booked)
  BY <1>3, FS_RemoveElement, Zenon
<1>8. ASSUME s.phase = "committed", s.op # "approve_plain"
      PROVE  Cardinality(Booked)' = Cardinality(Booked) + (IF r \in Booked THEN 0 ELSE 1)
  <2>1. Cardinality(Booked)' = Cardinality(Booked \cup {r})
    BY <1>2, <1>8
  <2> QED
    BY <1>3, <1>6, <2>1
<1>9. ASSUME ~(s.phase = "committed" /\ s.op # "approve_plain")
      PROVE  Cardinality(Booked) = Cardinality(Booked)' + (IF r \in Booked THEN 1 ELSE 0)
  <2>1. Cardinality(Booked)' = Cardinality(Booked \ {r})
    BY <1>2, <1>9
  <2> QED
    BY <1>3, <1>7, <2>1
<1> QED
  BY <1>8, <1>9

(* One run changes: its posts of today are those of the new one.           *)
LEMMA PostsAfter ==
    ASSUME RunsOK, NEW by \in Posters, NEW s, promo' = [promo EXCEPT ![by] = s],
           UNCHANGED today
    PROVE  /\ OpenPosts(by)' =
                IF s # Idle /\ s.row.reset_day = today THEN s.counted ELSE 0
           /\ \A b \in Posters : b # by => OpenPosts(b)' = OpenPosts(b)
<1>1. promo'[by] = s /\ \A b \in Posters : b # by => promo'[b] = promo[b]
  BY DEF RunsOK
<1>2. OpenPosts(by)' = IF s # Idle /\ s.row.reset_day = today THEN s.counted ELSE 0
  BY <1>1 DEF OpenPosts
<1>3. ASSUME NEW b \in Posters, b # by PROVE OpenPosts(b)' = OpenPosts(b)
  BY <1>1, <1>3 DEF OpenPosts
<1> QED
  BY <1>2, <1>3

(* What a step adds to the counter, to the posts of a run under way and to *)
(* what is excused it takes from what left, will leave or was refused.     *)
Sides ==
    /\ Counter \in Nat /\ OpenPosts("beat") \in Nat /\ OpenPosts("person") \in Nat
    /\ Cardinality(Booked) \in Nat
    /\ tally.left \in Nat /\ tally.unbooked \in Nat /\ tally.refused \in Nat

LEMMA SidesType == TypeOK => Sides
  BY NumbersType, OpenPostsType, BookedType DEF TypeOK, HistoryOK, Posters, Sides, Tally

LEMMA BalanceRequest ==
    ASSUME TypeOK, ApprovalsOK, CounterOK, Balance, ~overlapped, NEW r \in Requests,
           RequestStep(r), TypeOK', ~overlapped'
    PROVE  Balance'
<1>1. Sides /\ Sides'
  BY SidesType, PTL
<1>2. ASSUME NEW s, request' = [request EXCEPT ![r] = s], r \notin Booked,
             s.phase # "committed" \/ s.op = "approve_plain",
             UNCHANGED <<workspace, promo, today, tally>>
      PROVE  Balance'
  <2>1. ~(s.phase = "committed" /\ s.op # "approve_plain")
    BY <1>2
  <2>2. Cardinality(Booked) = Cardinality(Booked)' + (IF r \in Booked THEN 1 ELSE 0)
    BY <1>2, <2>1, BookedAfter DEF TypeOK
  <2>3. Cardinality(Booked)' = Cardinality(Booked)
    BY <1>1, <1>2, <2>2 DEF Sides
  <2> QED
    BY <1>2, <2>3 DEF Balance, Counter, OpenPosts
<1>3. request[r].phase # "committed" => r \notin Booked
  BY DEF Booked
<1>4. ASSUME NEW op \in {"approve", "approve_plain", "manual"}, NEW on, Load(r, op, on),
             UNCHANGED <<workspace, promo, today, tally>>
      PROVE  Balance'
  <2> DEFINE s == [op |-> op, phase |-> "loaded", on |-> on,
                   sent |-> workspace.sent, reset_day |-> workspace.reset_day]
  <2>1. request' = [request EXCEPT ![r] = s] /\ s.phase = "loaded" /\ r \notin Booked
    BY <1>3, <1>4 DEF Load, Idle
  <2> HIDE DEF s
  <2> QED
    BY <1>2, <1>4, <2>1
<1>5. ASSUME NEW op \in {"approve", "approve_plain"}, NEW m \in MessageIds,
             LoadApproval(r, op, m)
      PROVE  Balance'
  <2>1. UNCHANGED tally
    BY <1>5, LoadedAlone DEF LoadApproval
  <2> QED
    BY <1>4, <1>5, <2>1 DEF LoadApproval, rows
<1>6. ASSUME NEW c \in Contacts, LoadManual(r, c) PROVE Balance'
  <2>1. UNCHANGED tally
    BY <1>6, LoadedAlone DEF LoadManual
  <2> QED
    BY <1>4, <1>6, <2>1 DEF LoadManual, rows
<1>7. ASSUME NEW s \in Loaded, s.phase = "committed", s.op = request[r].op,
             request' = [request EXCEPT ![r] = s], request[r].phase = "loaded",
             UNCHANGED <<promo, today, tally>>,
             IF request[r].op = "approve_plain" THEN UNCHANGED workspace ELSE BumpCounter(r)
      PROVE  Balance'
  <2>1. r \notin Booked
    BY <1>3, <1>7
  <2>2. CASE request[r].op = "approve_plain"
    BY <1>2, <1>7, <2>1, <2>2
  <2>3. CASE request[r].op # "approve_plain"
    <3>1. Cardinality(Booked)' = Cardinality(Booked) + 1
      BY <1>1, <1>7, <2>1, <2>3, BookedAfter DEF TypeOK, Sides
    <3>2. request'[r] = s /\ \A q \in Requests \ {r} : request'[q] = request[q]
      BY <1>7 DEF TypeOK, RunsOK
    <3>3. Counter' = Counter + 1
      <4>1. Holds(r) /\ ~Holds(r)' /\ BumpCounter(r)
        BY <1>7, <2>3, <3>2 DEF Holds
      <4> QED
        BY <1>7, <3>2, <4>1, CounterBumped
    <3>4. OpenPosts("beat")' = OpenPosts("beat") /\ OpenPosts("person")' = OpenPosts("person")
      BY <1>7 DEF OpenPosts
    <3> QED
      BY <1>1, <1>7, <3>1, <3>3, <3>4 DEF Balance, Sides
  <2> QED
    BY <2>2, <2>3
<1>8. CASE CommitApproval(r)
  <2>1. /\ request' = [request EXCEPT ![r].phase = "committed"]
        /\ request[r] \in Loaded /\ request[r].op \in {"approve", "approve_plain"}
    BY <1>8, RequestShape DEF CommitApproval, TypeOK
  <2> DEFINE s == [request[r] EXCEPT !.phase = "committed"]
  <2>2. s \in Loaded /\ s.phase = "committed" /\ s.op = request[r].op
    BY <2>1 DEF Loaded
  <2>3. request' = [request EXCEPT ![r] = s]
    BY <2>1
  <2> HIDE DEF s
  <2> QED
    BY <1>7, <1>8, <2>1, <2>2, <2>3 DEF CommitApproval, history
<1>9. ASSUME NEW m \in MessageIds, CommitManual(r, m) PROVE Balance'
  <2>1. /\ request' = [request EXCEPT ![r].phase = "committed", ![r].on = m]
        /\ request[r] \in Loaded /\ request[r].op = "manual"
    BY <1>9, RequestShape DEF CommitManual, TypeOK
  <2> DEFINE s == [request[r] EXCEPT !.phase = "committed", !.on = m]
  <2>2. s \in Loaded /\ s.phase = "committed" /\ s.op = request[r].op
    BY <2>1 DEF Loaded
  <2>3. request' = [request EXCEPT ![r] = s]
    BY <2>1
  <2> HIDE DEF s
  <2> QED
    BY <1>7, <1>9, <2>1, <2>2, <2>3 DEF CommitManual, history
<1>10. CASE CommitStale(r)
  <2> DEFINE s == [phase |-> "ended"]
  <2>1. request' = [request EXCEPT ![r] = s] /\ s.phase # "committed" /\ r \notin Booked
        /\ UNCHANGED <<workspace, promo, today, tally>>
    BY <1>3, <1>10 DEF CommitStale, rows, history
  <2> HIDE DEF s
  <2> QED
    BY <1>2, <2>1
<1>11. CASE QueueJob(r) \/ QueueFails(r)
  <2> DEFINE s == [phase |-> "ended"]
  <2>1. request' = [request EXCEPT ![r] = s] /\ s.phase # "committed"
        /\ UNCHANGED <<workspace, promo, today>>
    BY <1>11 DEF QueueJob, QueueFails, rows
  <2> HIDE DEF s
  <2>2. Cardinality(Booked) = Cardinality(Booked)' + (IF r \in Booked THEN 1 ELSE 0)
    BY <2>1, BookedAfter DEF TypeOK
  <2>3. /\ Counter' = Counter /\ OpenPosts("beat")' = OpenPosts("beat")
        /\ OpenPosts("person")' = OpenPosts("person")
    BY <2>1 DEF Counter, OpenPosts
  <2>4. CASE QueueJob(r)
    <3>1. /\ tally'.left = tally.left + 1
          /\ tally'.unbooked = tally.unbooked + (IF r \in Booked THEN 0 ELSE 1)
          /\ tally'.refused = tally.refused
      BY <2>4, QueueCounts DEF TypeOK
    <3> QED
      BY <1>1, <2>2, <2>3, <3>1 DEF Balance, Sides
  <2>5. CASE QueueFails(r)
    <3>1. /\ tally'.left = tally.left /\ tally'.unbooked = tally.unbooked
          /\ tally'.refused = tally.refused + (IF r \in Booked THEN 1 ELSE 0)
      BY <2>5, RefusalCounts DEF TypeOK
    <3> QED
      BY <1>1, <2>2, <2>3, <3>1 DEF Balance, Sides
  <2> QED
    BY <1>11, <2>4, <2>5
<1> QED
  BY <1>5, <1>6, <1>8, <1>9, <1>10, <1>11 DEF RequestStep

LEMMA BalanceRest ==
    ASSUME TypeOK, CounterOK, Balance, ~overlapped, People \/ Beat, TypeOK', ~overlapped'
    PROVE  Balance'
<1>1. Sides /\ Sides'
  BY SidesType, PTL
<1>2. CASE UNCHANGED <<workspace, request, promo, today, tally>>
  BY <1>2 DEF Balance, Counter, OpenPosts, Booked
<1>3. ASSUME NEW by \in Posters, NEW s, promo' = [promo EXCEPT ![by] = s],
             UNCHANGED <<request, today>>
      PROVE  /\ Cardinality(Booked)' = Cardinality(Booked)
             /\ OpenPosts(by)' = IF s # Idle /\ s.row.reset_day = today THEN s.counted ELSE 0
             /\ OpenPosts("beat")' + OpenPosts("person")' + OpenPosts(by)
                  = OpenPosts("beat") + OpenPosts("person") + OpenPosts(by)'
  <2>1. Booked' = Booked
    BY <1>3 DEF Booked
  <2>2. /\ OpenPosts(by)' = IF s # Idle /\ s.row.reset_day = today THEN s.counted ELSE 0
        /\ \A b \in Posters : b # by => OpenPosts(b)' = OpenPosts(b)
    BY <1>3, PostsAfter DEF TypeOK
  <2>3. OpenPosts("beat")' + OpenPosts("person")' + OpenPosts(by)
          = OpenPosts("beat") + OpenPosts("person") + OpenPosts(by)'
    BY <1>1, <2>2 DEF Posters, Sides
  <2> QED
    BY <2>1, <2>2, <2>3
<1>4. ASSUME NEW by \in Posters, NEW groups \in SUBSET Groups, StartPosting(by, groups)
      PROVE  Balance'
  <2>1. promo[by] = Idle /\ UNCHANGED <<workspace, request, today, tally>>
    BY <1>4, LoadedAlone DEF StartPosting, rows
  <2>2. PICK s \in Posting : s.counted = 0 /\ promo' = [promo EXCEPT ![by] = s]
    BY <1>4, StartPostingRun DEF TypeOK
  <2>3. OpenPosts(by) = 0
    BY <2>1 DEF OpenPosts
  <2>4. /\ Cardinality(Booked)' = Cardinality(Booked)
        /\ OpenPosts("beat")' + OpenPosts("person")' = OpenPosts("beat") + OpenPosts("person")
    <3>1. /\ Cardinality(Booked)' = Cardinality(Booked)
          /\ OpenPosts(by)' = IF s # Idle /\ s.row.reset_day = today THEN s.counted ELSE 0
          /\ OpenPosts("beat")' + OpenPosts("person")' + OpenPosts(by)
               = OpenPosts("beat") + OpenPosts("person") + OpenPosts(by)'
      BY <1>3, <2>1, <2>2
    <3>2. OpenPosts(by)' = 0
      BY <2>2, <3>1
    <3> QED
      BY <1>1, <2>3, <3>1, <3>2 DEF Sides
  <2>5. Counter' = Counter
    BY <2>1 DEF Counter
  <2> QED
    BY <1>1, <2>1, <2>4, <2>5 DEF Balance, Sides
<1>5. ASSUME NEW by \in Posters, NEW g \in Groups, PostIn(by, g) PROVE Balance'
  <2>1. promo[by] # Idle /\ UNCHANGED <<workspace, request, today>>
    BY <1>5 DEF PostIn, rows
  <2>2. PICK s \in Posting :
          /\ s.row = BumpSentCounter(promo[by].row, today)
          /\ s.counted = (IF promo[by].row.reset_day = today THEN promo[by].counted + 1 ELSE 1)
          /\ promo' = [promo EXCEPT ![by] = s]
    BY <1>5, PostInRun DEF TypeOK
  <2>3. s # Idle /\ s.row.reset_day = today
    <3>1. s # Idle
      BY DEF Posting, Idle
    <3>2. promo[by].row \in WorkspaceRow /\ today \in Nat
      BY <2>1, RunFacts, NumbersType
    <3> QED
      BY <2>2, <3>1, <3>2, BumpValue
  <2>4. OpenPosts(by)' = OpenPosts(by) + 1 /\ Cardinality(Booked)' = Cardinality(Booked)
    <3>1. OpenPosts(by)' = s.counted /\ Cardinality(Booked)' = Cardinality(Booked)
      BY <1>3, <2>1, <2>2, <2>3
    <3>2. OpenPosts(by) = IF promo[by].row.reset_day = today THEN promo[by].counted ELSE 0
      BY <2>1 DEF OpenPosts
    <3>3. OpenPosts(by) \in Nat
      BY OpenPostsType DEF TypeOK
    <3> QED
      BY <2>2, <3>1, <3>2, <3>3
  <2>5. OpenPosts("beat")' + OpenPosts("person")' + OpenPosts(by)
          = OpenPosts("beat") + OpenPosts("person") + OpenPosts(by)'
    BY <1>3, <2>1, <2>2
  <2>6. /\ tally'.left = tally.left + 1 /\ tally'.unbooked = tally.unbooked
        /\ tally'.refused = tally.refused /\ Counter' = Counter
    <3>1. tally' = [tally EXCEPT !.left = @ + 1]
      BY <1>5, Zenon DEF PostIn, Count
    <3> QED
      BY <2>1, <3>1 DEF TypeOK, HistoryOK, Tally, Counter
  <2>7. OpenPosts(by) \in Nat
    BY OpenPostsType DEF TypeOK
  <2>8. OpenPosts("beat")' + OpenPosts("person")' = OpenPosts("beat") + OpenPosts("person") + 1
    BY <1>1, <2>4, <2>5, <2>7 DEF Sides
  <2> QED
    BY <1>1, <2>4, <2>6, <2>8 DEF Balance, Sides
<1>6. ASSUME NEW by \in Posters, CommitPosts(by) \/ PostsFail(by)
      PROVE  /\ Cardinality(Booked)' = Cardinality(Booked) /\ OpenPosts(by) \in Nat
             /\ OpenPosts("beat")' + OpenPosts("person")' + OpenPosts(by)
                  = OpenPosts("beat") + OpenPosts("person")
  <2>1. promo' = [promo EXCEPT ![by] = Idle] /\ UNCHANGED <<request, today>>
    BY <1>6 DEF CommitPosts, PostsFail, rows
  <2>2. OpenPosts(by)' = 0 /\ OpenPosts(by) \in Nat
    BY <1>3, <2>1, OpenPostsType DEF TypeOK
  <2>3. /\ Cardinality(Booked)' = Cardinality(Booked)
        /\ OpenPosts("beat")' + OpenPosts("person")' + OpenPosts(by)
             = OpenPosts("beat") + OpenPosts("person") + OpenPosts(by)'
    BY <1>3, <2>1
  <2> QED
    BY <1>1, <2>2, <2>3 DEF Sides
<1>7. ASSUME NEW by \in Posters, CommitPosts(by) PROVE Balance'
  <2>1. Counter' = Counter + OpenPosts(by)
    BY <1>7, CounterPostsCommitted
  <2>2. /\ tally'.left = tally.left /\ tally'.unbooked = tally.unbooked
        /\ tally'.refused = tally.refused
    <3>1. tally' = [tally EXCEPT !.untested = IF by = "person" THEN @ + OpenPosts(by) ELSE @]
      BY <1>7, Zenon DEF CommitPosts, Count
    <3> QED
      BY <3>1 DEF TypeOK, HistoryOK, Tally
  <2> QED
    BY <1>1, <1>6, <1>7, <2>1, <2>2 DEF Balance, Sides
<1>8. ASSUME NEW by \in Posters, PostsFail(by) PROVE Balance'
  <2>1. Counter' = Counter
    BY <1>8 DEF PostsFail, rows, Counter
  <2>2. /\ tally'.left = tally.left /\ tally'.unbooked = tally.unbooked + OpenPosts(by)
        /\ tally'.refused = tally.refused
    <3>1. tally' = [tally EXCEPT !.unbooked = @ + OpenPosts(by)]
      BY <1>8, Zenon DEF PostsFail, Count
    <3> QED
      BY <3>1 DEF TypeOK, HistoryOK, Tally
  <2>3. /\ Cardinality(Booked)' = Cardinality(Booked) /\ OpenPosts(by) \in Nat
        /\ OpenPosts("beat")' + OpenPosts("person")' + OpenPosts(by)
             = OpenPosts("beat") + OpenPosts("person")
    BY <1>6, <1>8
  <2>4. Counter + OpenPosts("beat")' + OpenPosts("person")' + OpenPosts(by) + tally.unbooked
          = tally.left + Cardinality(Booked) + tally.refused
    BY <1>1, <2>3 DEF Balance, Sides
  <2> QED
    BY <1>1, <2>1, <2>2, <2>3, <2>4 DEF Balance, Sides
<1>9. CASE ResetWorkspace
  <2>1. Counter' = 0
    BY <1>9, CounterReset
  <2>2. /\ tally'.left = tally.left /\ tally'.unbooked = tally.unbooked + Counter
        /\ tally'.refused = tally.refused
    <3>1. tally' = [tally EXCEPT !.unbooked = @ + Counter, !.untested = 0]
      BY <1>9, LoadedAlone DEF ResetWorkspace
    <3> QED
      BY <3>1 DEF TypeOK, HistoryOK, Tally
  <2>3. /\ Cardinality(Booked)' = Cardinality(Booked)
        /\ OpenPosts("beat")' = OpenPosts("beat") /\ OpenPosts("person")' = OpenPosts("person")
    BY <1>9 DEF ResetWorkspace, Booked, OpenPosts
  <2> QED
    BY <1>1, <2>1, <2>2, <2>3 DEF Balance, Sides
<1>10. CASE Midnight
  <2>1. Counter' = 0
    BY <1>10, CounterMidnight
  <2>2. UNCHANGED <<promo, request>> /\ today' = today + 1
    BY <1>10 DEF Midnight
  <2>3. tally' = [NoTally EXCEPT !.unbooked = Cardinality(Booked)]
    BY <1>10 DEF Midnight, Count
  <2>4. ASSUME NEW by \in Posters PROVE OpenPosts(by)' = 0
    <3>1. CASE promo[by] = Idle
      BY <2>2, <3>1 DEF OpenPosts
    <3>2. CASE promo[by] # Idle
      <4>1. /\ promo[by].row.reset_day \in Nat /\ promo[by].row.reset_day <= today
            /\ today \in Nat
        BY <3>2, RunFacts, NumbersType
      <4> QED
        BY <2>2, <4>1 DEF OpenPosts
    <3> QED
      BY <3>1, <3>2
  <2>5. Cardinality(Booked)' = Cardinality(Booked)
    BY <2>2 DEF Booked
  <2>6. tally'.left = 0 /\ tally'.unbooked = Cardinality(Booked) /\ tally'.refused = 0
    BY <2>3 DEF NoTally
  <2> QED
    BY <1>1, <2>1, <2>4, <2>5, <2>6 DEF Balance, Sides, Posters
<1>11. CASE StartBeat \/ TriggerOutreach
  <2>1. /\ Due \in SUBSET Groups /\ {g \in Groups : group[g] # "gone"} \in SUBSET Groups
        /\ "beat" \in Posters /\ "person" \in Posters
    BY DEF Due, Posters
  <2> QED
    BY <1>4, <1>11, <2>1 DEF StartBeat, TriggerOutreach
<1> QED
  BY <1>2, <1>5, <1>7, <1>8, <1>9, <1>10, <1>11
  DEF People, Beat, AddDraft, Close, Reopen, DeleteLead, FindStale, CommitFollowups, FollowupsFail,
    IntervalPasses, rows, history

LEMMA BalanceStep ==
    ASSUME TypeOK, ApprovalsOK, CounterInv, BalanceInv, Next, TypeOK'
    PROVE  BalanceInv'
<1> SUFFICES ASSUME ~overlapped' PROVE Balance'
  BY Zenon DEF BalanceInv
<1>1. ~overlapped
  BY OverlapStays, Zenon
<1>2. CounterOK /\ Balance
  BY <1>1, Zenon DEF CounterInv, BalanceInv
<1> QED
  BY <1>1, <1>2, BalanceRequest, BalanceRest DEF Next

-----------------------------------------------------------------------------
(* The invariant.                                                          *)

LEMMA InitInv ==
    ASSUME Init
    PROVE  Inv
<1>1. workspace \in WorkspaceRow /\ workspace.sent = 0 /\ workspace.reset_day = 0
  BY DEF Init, WorkspaceRow
<1>2. RowsOK
  BY <1>1 DEF Init, RowsOK, NoRow
<1>3. RunsOK
  BY DraftConsoleAssumption DEF DraftConsoleAssumption, Init, RunsOK
<1>4. HistoryOK
  <2>1. NoTally \in Tally
    BY DEF NoTally, Tally
  <2> QED
    BY <2>1 DEF Init, HistoryOK
<1>5. \A r \in Requests : request[r].phase = "idle"
  BY DEF Init, Idle
<1>6. ApprovalsOK
  BY <1>5 DEF Init, ApprovalsOK, RequestInv, UnusedInv, CommittedInv, ApprovalInv, Approving,
    Committed, NoRow
<1>7. CounterInv
  <2>1. ValueInv
    BY <1>1, LimitType DEF Init, ValueInv, Counter, NoTally
  <2>2. SoleHolder /\ LoadedInv /\ RunInv
    BY <1>5 DEF Init, SoleHolder, LoadedInv, RunInv, Holds
  <2> QED
    BY <2>1, <2>2 DEF CounterInv, CounterOK
<1>8. FollowupInv /\ PromoInv
  BY DEF Init, FollowupInv, CheckDraft, PromoInv, NoRow, Posters
<1>9. BalanceInv
  <2>1. Booked = {}
    BY <1>5 DEF Booked
  <2>2. Cardinality(Booked) = 0
    BY <2>1, FS_EmptySet
  <2>3. \A by \in Posters : OpenPosts(by) = 0
    BY DEF Init, OpenPosts
  <2>4. tally = NoTally /\ Counter = 0
    BY <1>1 DEF Init, Counter
  <2> QED
    BY <2>2, <2>3, <2>4 DEF BalanceInv, Balance, NoTally, Posters
<1> QED
  BY <1>2, <1>3, <1>4, <1>6, <1>7, <1>8, <1>9 DEF Inv, TypeOK, ApprovalsOK

LEMMA NextInv ==
    ASSUME Inv, [Next]_vars
    PROVE  Inv'
<1> USE DEF Inv
<1>1. CASE Next
  <2>1. ApprovalsOK
    BY DEF ApprovalsOK
  <2>2. TypeOK'
    BY <1>1, TypeStep
  <2>3. ApprovalsOK'
    BY <1>1, <2>1, ApprovalStep
  <2>4. CounterInv'
    BY <1>1, <2>1, CounterStep
  <2>5. FollowupInv'
    BY <1>1, <2>1, FollowupStep
  <2>6. PromoInv'
    BY <1>1, PromoStep
  <2>7. BalanceInv'
    BY <1>1, <2>1, <2>2, BalanceStep
  <2> QED
    BY <2>2, <2>3, <2>4, <2>5, <2>6, <2>7 DEF ApprovalsOK
<1>2. CASE UNCHANGED vars
  <2>1. UNCHANGED <<workspace, contact, message, group, request, stale, promo, today, jobs,
                    contested, told, overlapped, tally, posts, excused>>
    BY <1>2 DEF vars, rows, history
  <2>2. TypeOK'
    BY <2>1 DEF TypeOK, RowsOK, RunsOK, HistoryOK
  <2>3. ApprovalsOK'
    BY <2>1, ApprovalFrame DEF ApprovalsOK
  <2>4. CounterInv'
    <3>1. CASE CounterOK
      <4>1. CounterOK'
        BY <2>1, <3>1, CounterFrame DEF Holds
      <4> QED
        BY <4>1 DEF CounterInv
    <3>2. CASE overlapped
      BY <2>1, <3>2, Zenon DEF CounterInv
    <3> QED
      BY <3>1, <3>2 DEF CounterInv
  <2>5. FollowupInv'
    BY <2>1, FollowupFrame DEF CheckDraft
  <2>6. PromoInv'
    BY <2>1, PromoFrame
  <2>7. BalanceInv'
    <3>1. /\ Counter' = Counter /\ Booked' = Booked
          /\ OpenPosts("beat")' = OpenPosts("beat")
          /\ OpenPosts("person")' = OpenPosts("person")
      BY <2>1 DEF Counter, Booked, OpenPosts
    <3> QED
      BY <2>1, <3>1 DEF BalanceInv, Balance
  <2> QED
    BY <2>2, <2>3, <2>4, <2>5, <2>6, <2>7 DEF ApprovalsOK
<1> QED
  BY <1>1, <1>2

LEMMA Invariance == Spec => []Inv
  BY InitInv, NextInv, PTL DEF Spec

-----------------------------------------------------------------------------
(* The theorems.                                                           *)

(* The rows, the requests and the runs keep their types; no message        *)
(* outlives its lead, though leads are deleted while requests hold them.   *)
THEOREM TypeCorrect == Spec => []TypeOK
<1>1. Inv => TypeOK
  BY DEF Inv
<1> QED
  BY <1>1, Invariance, PTL

(* approve, messages.approve and the manual send read the message again    *)
(* after the commit: whatever a deletion, a reset or another approval did  *)
(* since, the job they queue is of a row that is SENT at that moment.      *)
THEOREM JobsAreOfSentRows == Spec => JobsLeaveForSentRows
<1>1. Inv /\ [Next]_vars =>
        [\A m \in MessageIds : jobs'[m] # jobs[m] => message[m].status = "SENT"]_vars
  <2> SUFFICES ASSUME Inv, Next, NEW m \in MessageIds, jobs'[m] # jobs[m]
               PROVE  message[m].status = "SENT"
    OBVIOUS
  <2>1. PICK r \in Requests : QueueJob(r)
    BY DEF Next, RequestStep, LoadApproval, LoadManual, CommitApproval, CommitManual,
      CommitStale, QueueFails, People, AddDraft, Close, Reopen, DeleteLead, ResetWorkspace,
      TriggerOutreach, Beat, FindStale, CommitFollowups, FollowupsFail, StartBeat,
      StartPosting, PostIn, CommitPosts, PostsFail, IntervalPasses, Midnight, history
  <2>2. request[r].on = m /\ message[m] # Gone /\ Committed(r, m)
    BY <2>1 DEF QueueJob, Committed, Inv, TypeOK, HistoryOK
  <2>3. message[m].status \in {"SENT", "gone"}
    BY <2>2 DEF Inv, CommittedInv
  <2> QED
    BY <2>2, <2>3, MessageShape DEF Inv, TypeOK
<1> QED
  BY <1>1, Invariance, PTL DEF Spec, JobsLeaveForSentRows

(* Both approval endpoints test the status they loaded: a draft is sent    *)
(* twice only where two approvals were open at once.                       *)
THEOREM SecondSendIsARace == Spec => []SecondSendNeedsOverlap
<1>1. Inv => SecondSendNeedsOverlap
  BY DEF Inv, ApprovalInv, SecondSendNeedsOverlap
<1> QED
  BY <1>1, Invariance, PTL

(* services/crm.py: as long as no two transactions had loaded the counter  *)
(* at once, messages_sent_today and what left today differ by what Tally   *)
(* names and nothing else, over midnights, resets, stale commits, refused  *)
(* jobs and runs that are rolled back after they posted.                   *)
THEOREM CounterIsExact == Spec => []CounterExactWhenSerial
<1>1. Inv => CounterExactWhenSerial
  BY DEF Inv, BalanceInv, Balance, CounterExactWhenSerial
<1> QED
  BY <1>1, Invariance, PTL

(* daily_quota_available before the load bounds what leaves on a day, a    *)
(* run of many posts included: by the limit, the posts of trigger_outreach *)
(* and what left without being in the counter.                             *)
THEOREM QuotaHolds == Spec => []QuotaHoldsWhenSerial
<1>1. Inv => QuotaHoldsWhenSerial
  <2> SUFFICES ASSUME Inv, ~overlapped
               PROVE  tally.left <= Limit + tally.untested + OpenPosts("person")
                                    + tally.unbooked
    BY DEF QuotaHoldsWhenSerial, Limit
  <2>1. TypeOK /\ CounterOK /\ Balance
    BY Zenon DEF Inv, CounterInv, BalanceInv
  <2>2. /\ OpenPosts("beat") \in Nat /\ OpenPosts("person") \in Nat
        /\ Counter \in Nat /\ tally \in Tally /\ Cardinality(Booked) \in Nat
    BY <2>1, OpenPostsType, NumbersType, BookedType DEF TypeOK, HistoryOK, Posters
  <2>3. Counter + OpenPosts("beat") <= Limit + tally.untested
    <3>1. Counter <= Limit + tally.untested
      BY <2>1 DEF CounterOK, ValueInv
    <3>2. CASE OpenPosts("beat") = 0
      BY <2>2, <3>1, <3>2
    <3>3. CASE OpenPosts("beat") # 0
      <4>1. /\ promo["beat"] # Idle /\ promo["beat"].row.reset_day = today
            /\ OpenPosts("beat") = promo["beat"].counted
        BY <3>3 DEF OpenPosts
      <4>2. Counter + promo["beat"].counted <= Limit
        BY <2>1, <4>1, RunFacts DEF Posters
      <4> QED
        BY <2>2, <4>1, <4>2, LimitType DEF Tally
    <3> QED
      BY <3>2, <3>3
  <2> QED
    BY <2>1, <2>2, <2>3, LimitType DEF Balance, Tally
<1> QED
  BY <1>1, Invariance, PTL

(* check_stale_leads: the leads it found may be approved, drafted for or   *)
(* deleted before it commits, and still no lead gets a second draft of it. *)
THEOREM FollowupsDoNotPileUp == Spec => []OneFollowupPerLead
<1>1. Inv => OneFollowupPerLead
  <2> SUFFICES ASSUME Inv, NEW c \in Contacts
               PROVE  Cardinality({m \in Drafts(c) : message[m].by = "check"}) <= 1
    BY DEF OneFollowupPerLead
  <2>1. \A m, n \in {d \in Drafts(c) : message[d].by = "check"} : m = n
    BY DEF Inv, FollowupInv, CheckDraft, Drafts
  <2> QED
    BY <2>1, AtMostOne
<1> QED
  BY <1>1, Invariance, PTL

(* send_group_promos: a group that is due when the beat looks gets its     *)
(* post of the interval, and no second one from the beat unless a run that *)
(* had posted was rolled back.                                             *)
THEOREM PromosKeepTheInterval == Spec => []OnePromoPerInterval
<1>1. Inv => OnePromoPerInterval
  BY DEF Inv, PromoInv, OnePromoPerInterval
<1> QED
  BY <1>1, Invariance, PTL

-----------------------------------------------------------------------------
(* What SentIsQueuedOrTold promises in the end, the rows show at every     *)
(* moment.                                                                 *)

(* A SENT row has its job, or a person who was told, or a request that is  *)
(* on its way from the commit to the broker.                               *)
Pursued ==
    \A m \in MessageIds : message[m].status = "SENT" =>
        \/ jobs[m] > 0
        \/ m \in told
        \/ \E r \in Requests : Committed(r, m)

LEMMA PursuedCommit ==
    ASSUME RunsOK, HistoryOK, Pursued, NEW r \in Requests, NEW m \in MessageIds, NEW s,
           s.phase = "committed", s.on = m, request' = [request EXCEPT ![r] = s],
           request[r].phase = "loaded",
           \A n \in MessageIds \ {m} : message'[n] = message[n],
           UNCHANGED <<jobs, told>>
    PROVE  Pursued'
<1>1. request'[r] = s
  BY DEF RunsOK
<1>2. Committed(r, m)'
  BY <1>1 DEF Committed
<1>3. \A n \in MessageIds : ~Committed(r, n)
  BY DEF Committed
<1>4. \A q \in Requests, n \in MessageIds : Committed(q, n) => Committed(q, n)'
  BY <1>3, OneRequest
<1> QED
  BY <1>2, <1>4 DEF Pursued

LEMMA PursuedRequest ==
    ASSUME TypeOK, ApprovalsOK, Pursued, NEW r \in Requests, RequestStep(r)
    PROVE  Pursued'
<1> USE DEF TypeOK
<1>1. ASSUME NEW s, request' = [request EXCEPT ![r] = s], request[r].phase # "committed",
             UNCHANGED <<message, jobs, told>>
      PROVE  Pursued'
  <2>1. \A q \in Requests, m \in MessageIds : Committed(q, m) => Committed(q, m)'
    <3>1. \A m \in MessageIds : ~Committed(r, m)
      BY <1>1 DEF Committed
    <3> QED
      BY <1>1, <3>1, OneRequest
  <2> QED
    BY <1>1, <2>1 DEF Pursued
<1>2. CASE \/ \E op \in {"approve", "approve_plain"}, m \in MessageIds : LoadApproval(r, op, m)
           \/ \E c \in Contacts : LoadManual(r, c)
           \/ CommitStale(r)
  BY <1>1, <1>2 DEF LoadApproval, LoadManual, Load, CommitStale, Idle, rows, history
<1>3. CASE CommitApproval(r)
  <2> DEFINE m == request[r].on
  <2>1. /\ m \in MessageIds
        /\ \E row \in Row : message' = [message EXCEPT ![m] = row]
    BY <1>3, CommitApprovalMessage DEF ApprovalsOK
  <2>2. \E s \in Loaded : s.phase = "committed" /\ s.on = m /\ request' = [request EXCEPT ![r] = s]
    BY <1>3, CommitApprovalRequest
  <2>3. request[r].phase = "loaded" /\ UNCHANGED <<jobs, told>>
    BY <1>3 DEF CommitApproval, history
  <2> HIDE DEF m
  <2>4. \A n \in MessageIds \ {m} : message'[n] = message[n]
    BY <2>1 DEF RowsOK
  <2>5. RunsOK /\ HistoryOK /\ m \in MessageIds
    BY <2>1
  <2> QED
    BY <2>2, <2>3, <2>4, <2>5, PursuedCommit
<1>4. ASSUME NEW m \in MessageIds, CommitManual(r, m) PROVE Pursued'
  <2>1. \E s \in Loaded : s.phase = "committed" /\ s.on = m /\ request' = [request EXCEPT ![r] = s]
    BY <1>4, CommitManualRequest
  <2>2. request[r].phase = "loaded" /\ UNCHANGED <<jobs, told>>
    BY <1>4 DEF CommitManual, history
  <2>3. \A n \in MessageIds \ {m} : message'[n] = message[n]
    BY <1>4 DEF CommitManual, RowsOK
  <2> QED
    BY <2>1, <2>2, <2>3, PursuedCommit
<1>5. CASE QueueJob(r) \/ QueueFails(r)
  <2> DEFINE m == request[r].on
             s == [phase |-> "ended"]
  <2>1. /\ request' = [request EXCEPT ![r] = s] /\ UNCHANGED message
        /\ m \in MessageIds
    BY <1>5 DEF QueueJob, QueueFails, ApprovalsOK, RequestInv, rows
  <2>2. /\ jobs'[m] > 0 \/ m \in told'
        /\ told \subseteq told'
        /\ \A n \in MessageIds : jobs'[n] >= jobs[n]
    <3>1. CASE QueueJob(r)
      <4>1. jobs' = [jobs EXCEPT ![m] = @ + 1] /\ UNCHANGED told
        BY <3>1 DEF QueueJob
      <4> HIDE DEF m
      <4> QED
        BY <2>1, <4>1 DEF HistoryOK
    <3>2. CASE QueueFails(r)
      <4>1. told' = told \cup {m} /\ UNCHANGED jobs
        BY <3>2 DEF QueueFails
      <4> QED
        BY <4>1 DEF HistoryOK
    <3> QED
      BY <1>5, <3>1, <3>2
  <2>3. \A q \in Requests \ {r}, n \in MessageIds : Committed(q, n) => Committed(q, n)'
    <3> HIDE DEF s
    <3> QED
      BY <2>1, OneRequest
  <2>4. \A n \in MessageIds \ {m} : ~Committed(r, n)
    BY DEF Committed
  <2>5. \A n \in MessageIds : jobs[n] \in Nat /\ jobs'[n] >= jobs[n] /\ jobs[n] > 0 => jobs'[n] > 0
    <3>1. \A n \in MessageIds : jobs'[n] \in Nat
      BY <1>5, HistoryRequest DEF RequestStep, ApprovalsOK, HistoryOK
    <3> QED
      BY <3>1
  <2> HIDE DEF m
  <2> QED
    BY <2>1, <2>2, <2>3, <2>4, <2>5 DEF Pursued, HistoryOK
<1> QED
  BY <1>2, <1>3, <1>4, <1>5 DEF RequestStep

LEMMA PursuedRest ==
    ASSUME TypeOK, Pursued, People \/ Beat
    PROVE  Pursued'
<1>1. UNCHANGED <<request, jobs, told>>
  BY DEF People, Beat, AddDraft, Close, Reopen, DeleteLead, ResetWorkspace, TriggerOutreach,
    StartPosting, FindStale, CommitFollowups, FollowupsFail, StartBeat, PostIn, CommitPosts,
    PostsFail, IntervalPasses, Midnight, history
<1>2. ASSUME NEW m \in MessageIds, message'[m].status = "SENT"
      PROVE  message[m].status = "SENT"
  <2>1. CASE UNCHANGED message
    BY <1>2, <2>1
  <2>2. ASSUME NEW c \in Contacts, NEW n \in MessageIds, AddDraft(c, n)
        PROVE  message[m].status = "SENT"
    BY <1>2, <2>2 DEF AddDraft, TypeOK, RowsOK
  <2>3. CASE \E leads \in SUBSET Contacts : message' = WithoutMessagesOf(leads)
    BY <1>2, <2>3 DEF WithoutMessagesOf, Gone
  <2>4. ASSUME NEW row \in [stale -> MessageIds], CommitFollowups(row)
        PROVE  message[m].status = "SENT"
    BY <1>2, <2>4, FollowupRows DEF TypeOK
  <2> QED
    BY <2>1, <2>2, <2>3, <2>4
    DEF People, Beat, Close, Reopen, DeleteLead, ResetWorkspace, TriggerOutreach,
      StartPosting, FindStale, FollowupsFail, StartBeat, PostIn, CommitPosts,
      PostsFail, IntervalPasses, Midnight, rows
<1> QED
  BY <1>1, <1>2 DEF Pursued, Committed

(* approve_draft, messages.approve and send_manual: between the commit     *)
(* that says SENT and the job there is always the request, or the error it *)
(* ended in.                                                               *)
THEOREM NoSentRowIsForgotten == Spec => []Pursued
<1>1. Init => Pursued
  BY DEF Init, Pursued, NoRow
<1>2. Inv /\ Pursued /\ [Next]_vars => Pursued'
  <2>1. CASE UNCHANGED vars
    BY <2>1 DEF vars, rows, history, Pursued, Committed
  <2> QED
    BY <2>1, PursuedRequest, PursuedRest DEF Next, Inv, ApprovalsOK
<1> QED
  BY <1>1, <1>2, Invariance, PTL DEF Spec
=============================================================================
