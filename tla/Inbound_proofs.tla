---------------------------- MODULE Inbound_proofs ----------------------------
(***************************************************************************)
(* Theorems about Inbound, for every set of tenants, contacts and messages *)
(* and every routing of theirs.  WholeInv says which stored message may be *)
(* without its conversation, FeedInv what a transaction that has loaded a  *)
(* row of the listening feed may still count on.                           *)
(***************************************************************************)
EXTENDS Inbound, TLAPS

-----------------------------------------------------------------------------
(* The inductive invariants.                                               *)

(* Only the call that runs may have left a message without conversation.   *)
WholeInv ==
    \A k \in Keys :
        stored[k] > 0 /\ LeadOf(k) \notin convo /\ k \notin fault =>
            call.phase = "halfway" /\ call.key = k

(* A feed row belongs to a stored message; a task that has one loaded is   *)
(* of the same lead, and finds it as it was unless others had it too.      *)
FeedInv ==
    /\ \A k \in Keys : listening[k] # "none" => stored[k] > 0
    /\ \A k \in dismissing : listening[k] # "none"
    /\ \A j \in Keys :
         task[j].phase = "finalizing" =>
            /\ LeadOf(task[j].row) = LeadOf(j)
            /\ listening[task[j].row] # "none"
            /\ listening[task[j].row] = "detected" \/ task[j].row \in overlapped

Inv == TypeOK /\ StoredOnce /\ OneDetectionPerLead /\ WholeInv /\ FeedInv

-----------------------------------------------------------------------------
(* The call that stores a message.                                         *)

LEMMA KeyParts ==
    ASSUME NEW k \in Keys
    PROVE  /\ k = <<k[1], k[2]>>
           /\ k[1] \in Tenants /\ k[2] \in Messages
           /\ LeadOf(k) \in Tenants \X Contacts
  BY InboundAssumption DEF InboundAssumption, Keys, LeadOf

LEMMA InitInv == Init => Inv
<1> SUFFICES ASSUME Init PROVE Inv
  OBVIOUS
<1>1. TenancyOK
  BY InboundAssumption DEF Init, TenancyOK, InboundAssumption
<1>2. RowsOK
  BY DEF Init, RowsOK
<1>3. FeedOK
  BY DEF Init, FeedOK, FeedStatus
<1>4. CallsOK
  BY DEF Init, CallsOK
<1>5. TasksOK
  BY DEF Init, TasksOK
<1>6. StoredOnce /\ WholeInv
  BY DEF Init, StoredOnce, WholeInv
<1>7. OneDetectionPerLead
  BY DEF Init, OneDetectionPerLead
<1>8. FeedInv
  BY DEF Init, FeedInv, NoTask
<1> QED
  BY <1>1, <1>2, <1>3, <1>4, <1>5, <1>6, <1>7, <1>8 DEF Inv, TypeOK

(* A message is stored, by either webhook: it is new to wacli's, and it is *)
(* a detection only if nothing of its lead was stored before.              *)
LEMMA StoringInv ==
    ASSUME Inv, NEW k \in Keys, NEW kept \in BOOLEAN,
           call = NoCall,
           StoreMessage(k),
           convo' = IF kept THEN convo ELSE EnsureConversation(k),
           call' = [phase |-> IF kept THEN "halfway" ELSE "committed", key |-> k],
           Source[k[2]] = "wacli" /\ k[2] \in WithId => stored[k] = 0,
           \/ listening' = listening
           \/ ~Ongoing(k) /\ listening' = [listening EXCEPT ![k] = "detected"],
           posts' \in [Messages -> Nat],
           UNCHANGED <<tenancy, dismissing, overlapped, task, fault>>
    PROVE  Inv'
<1> USE KeyParts
<1>1. /\ stored \in [Keys -> Nat] /\ stored' \in [Keys -> Nat]
      /\ stored'[k] = stored[k] + 1
      /\ \A i \in Keys \ {k} : stored'[i] = stored[i]
  BY DEF Inv, TypeOK, RowsOK, StoreMessage
<1>2. listening \in [Keys -> FeedStatus] /\ listening' \in [Keys -> FeedStatus]
  BY DEF Inv, TypeOK, FeedOK, FeedStatus
<1>3. lead' = lead \cup {LeadOf(k)}
  BY DEF StoreMessage
<1>4. TypeOK'
  <2>1. TenancyOK' /\ TasksOK'
    BY DEF Inv, TypeOK, TenancyOK, TasksOK, tenancy
  <2>2. RowsOK'
    <3>1. lead' \in SUBSET (Tenants \X Contacts) /\ convo' \in SUBSET lead'
      BY <1>3 DEF Inv, TypeOK, RowsOK, EnsureConversation
    <3>2. \A i \in Keys : stored'[i] > 0 => LeadOf(i) \in lead'
      BY <1>1, <1>3 DEF Inv, TypeOK, RowsOK
    <3> QED
      BY <1>1, <3>1, <3>2 DEF RowsOK, LeadOf
  <2>3. FeedOK'
    BY <1>2 DEF Inv, TypeOK, FeedOK
  <2>4. CallsOK'
    BY DEF Inv, TypeOK, CallsOK
  <2> QED
    BY <2>1, <2>2, <2>3, <2>4 DEF TypeOK
<1>5. StoredOnce'
  BY <1>1 DEF Inv, StoredOnce
<1>6. WholeInv'
  <2> SUFFICES ASSUME NEW i \in Keys, stored'[i] > 0, LeadOf(i) \notin convo', i \notin fault
               PROVE  call'.phase = "halfway" /\ call'.key = i
    BY DEF WholeInv, LeadOf
  <2>1. convo \subseteq convo'
    BY DEF EnsureConversation
  <2>2. i = k
    BY <1>1, <2>1 DEF Inv, WholeInv, NoCall
  <2>3. kept
    BY <2>2 DEF EnsureConversation
  <2> QED
    BY <2>2, <2>3
<1>7. CASE listening' = listening
  <2>1. OneDetectionPerLead'
    BY <1>7 DEF Inv, OneDetectionPerLead, LeadOf
  <2>2. FeedInv'
    BY <1>1, <1>7 DEF Inv, FeedInv, LeadOf
  <2> QED
    BY <1>4, <1>5, <1>6, <2>1, <2>2 DEF Inv
<1>8. CASE ~Ongoing(k) /\ listening' = [listening EXCEPT ![k] = "detected"]
  <2>1. \A i \in Keys : LeadOf(i) = LeadOf(k) => listening[i] = "none"
    <3> SUFFICES ASSUME NEW i \in Keys, LeadOf(i) = LeadOf(k), stored[i] > 0 PROVE FALSE
      BY <1>1 DEF Inv, FeedInv
    <3>1. i = <<k[1], i[2]>> /\ i[2] \in Messages
      BY DEF LeadOf
    <3> QED
      BY <1>8, <3>1 DEF Ongoing
  <2>2. /\ listening'[k] = "detected"
        /\ \A i \in Keys \ {k} : listening'[i] = listening[i]
    BY <1>2, <1>8
  <2>3. OneDetectionPerLead'
    BY <2>1, <2>2 DEF Inv, OneDetectionPerLead, LeadOf
  <2>4. FeedInv'
    <3>1. \A i \in Keys : listening'[i] # "none" => stored'[i] > 0
      BY <1>1, <2>2 DEF Inv, FeedInv
    <3>2. \A i \in dismissing : listening'[i] # "none"
      BY <2>2 DEF Inv, FeedInv, TypeOK, FeedOK
    <3>3. ASSUME NEW j \in Keys, task[j].phase = "finalizing"
          PROVE  task[j].row \in Keys /\ task[j].row # k
      <4>1. task[j] \in Finalizing
        BY <3>3 DEF Inv, TypeOK, TasksOK, Queued, NoTask
      <4>2. LeadOf(task[j].row) = LeadOf(j) /\ listening[task[j].row] # "none"
        BY <3>3 DEF Inv, FeedInv
      <4> QED
        BY <2>1, <4>1, <4>2 DEF Finalizing
    <3> QED
      BY <2>2, <3>1, <3>2, <3>3 DEF Inv, FeedInv, LeadOf
  <2> QED
    BY <1>4, <1>5, <1>6, <2>3, <2>4 DEF Inv
<1> QED
  BY <1>7, <1>8

(* The requests that leave no trace.                                       *)
LEMMA AnswerInv ==
    ASSUME Inv, NEW m \in Messages, Answer(m)
    PROVE  Inv'
<1>1. /\ posts' = [posts EXCEPT ![m] = @ + 1]
      /\ UNCHANGED <<tenancy, rows, call, feed, task, fault>>
  BY DEF Answer, Serve
<1>2. TypeOK'
  BY <1>1 DEF Inv, TypeOK, TenancyOK, RowsOK, FeedOK, CallsOK, TasksOK, tenancy, rows, feed,
              LeadOf
<1>3. StoredOnce' /\ WholeInv'
  BY <1>1 DEF Inv, StoredOnce, WholeInv, rows, LeadOf
<1>4. OneDetectionPerLead'
  BY <1>1 DEF Inv, OneDetectionPerLead, feed, LeadOf
<1>5. FeedInv'
  BY <1>1 DEF Inv, FeedInv, rows, feed, LeadOf
<1> QED
  BY <1>2, <1>3, <1>4, <1>5 DEF Inv

LEMMA WebhookInv ==
    ASSUME Inv, NEW m \in Messages, Webhook(m)
    PROVE  Inv'
<1>1. CASE Answer(m)
  BY <1>1, AnswerInv
<1>2. ASSUME Serve(m)
      PROVE  call = NoCall /\ posts' \in [Messages -> Nat]
  BY <1>2 DEF Serve, Inv, TypeOK, CallsOK
<1>3. ASSUME NEW t \in Tenants, NEW need \in BOOLEAN, NEW kept \in BOOLEAN,
             Store(t, m, need, kept)
      PROVE  Inv'
  <2> DEFINE k == <<t, m>>
  <2>1. k \in Keys /\ k[2] = m
    BY DEF Keys
  <2>2. /\ ~IsDuplicate(k) /\ StoreMessage(k) /\ Serve(m)
        /\ convo' = IF kept THEN convo ELSE EnsureConversation(k)
        /\ call' = [phase |-> IF kept THEN "halfway" ELSE "committed", key |-> k]
        /\ UNCHANGED <<tenancy, dismissing, overlapped, task, fault>>
    BY <1>3, Zenon DEF Store
  <2>3. \/ listening' = listening
        \/ ~Ongoing(k) /\ listening' = [listening EXCEPT ![k] = "detected"]
    BY <1>3 DEF Store, Detects
  <2>4. k[2] \in WithId => stored[k] = 0
    BY <2>1, <2>2 DEF IsDuplicate, Inv, TypeOK, RowsOK
  <2> HIDE DEF k
  <2> QED
    BY <1>2, <2>1, <2>2, <2>3, <2>4, StoringInv
<1>4. ASSUME NEW need \in BOOLEAN, StoreLegacy(m, need)
      PROVE  Inv'
  <2> DEFINE k == <<Owner[m], m>>
  <2>1. k \in Keys /\ k[2] = m
    BY InboundAssumption DEF InboundAssumption, Keys
  <2>2. /\ Source[m] = "gateway" /\ StoreMessage(k) /\ Serve(m)
        /\ convo' = EnsureConversation(k)
        /\ call' = [phase |-> "committed", key |-> k]
        /\ UNCHANGED <<tenancy, feed, task, fault>>
    BY <1>4, Zenon DEF StoreLegacy
  <2>3. UNCHANGED <<listening, dismissing, overlapped>>
    BY <2>2 DEF feed
  <2> HIDE DEF k
  <2> QED
    BY <1>2, <2>1, <2>2, <2>3, StoringInv
<1> QED
  BY <1>1, <1>3, <1>4
     DEF Webhook, Unresolved, Duplicate, Ignore, RefuseLegacy, LooksLikeNeed

-----------------------------------------------------------------------------
(* The end of a call.                                                      *)

LEMMA CallType ==
    ASSUME Inv, call.phase # "none"
    PROVE  call.key \in Keys /\ call = [phase |-> call.phase, key |-> call.key]
  BY DEF Inv, TypeOK, CallsOK, NoCall

(* However a call ends, what it leaves half done it reports as a fault.    *)
LEMMA CallEndsInv ==
    ASSUME Inv, call # NoCall, call' = NoCall,
           \/ call.phase = "committed" /\ fault' = fault
           \/ fault' = fault \cup {call.key},
           task' = task \/ (task' = [task EXCEPT ![call.key] = Queued]),
           UNCHANGED <<tenancy, rows, posts, feed>>
    PROVE  Inv'
<1>1. call.key \in Keys
  BY DEF Inv, TypeOK, CallsOK, NoCall
<1>2. TypeOK'
  <2>1. TenancyOK' /\ FeedOK'
    BY DEF Inv, TypeOK, TenancyOK, FeedOK, tenancy, feed
  <2>2. RowsOK'
    BY DEF Inv, TypeOK, RowsOK, rows, LeadOf
  <2>3. CallsOK'
    BY <1>1 DEF Inv, TypeOK, CallsOK
  <2>4. TasksOK'
    BY <1>1 DEF Inv, TypeOK, TasksOK
  <2> QED
    BY <2>1, <2>2, <2>3, <2>4 DEF TypeOK
<1>3. StoredOnce'
  BY DEF Inv, StoredOnce, rows
<1>4. OneDetectionPerLead'
  BY DEF Inv, OneDetectionPerLead, feed, LeadOf
<1>5. WholeInv'
  <2> SUFFICES ASSUME NEW k \in Keys, stored[k] > 0, LeadOf(k) \notin convo, k \notin fault'
               PROVE  FALSE
    BY DEF WholeInv, rows, LeadOf
  <2>1. k \notin fault
    OBVIOUS
  <2>2. call.phase = "halfway" /\ call.key = k
    BY <2>1 DEF Inv, WholeInv
  <2> QED
    BY <2>2
<1>6. FeedInv'
  <2>1. \A j \in Keys : task'[j].phase = "finalizing" =>
            task[j].phase = "finalizing" /\ task'[j] = task[j]
    BY <1>1 DEF Inv, TypeOK, TasksOK, Queued
  <2> QED
    BY <2>1 DEF Inv, FeedInv, rows, feed, LeadOf
<1> QED
  BY <1>2, <1>3, <1>4, <1>5, <1>6 DEF Inv

LEMMA FinishConversationInv ==
    ASSUME Inv, FinishConversation
    PROVE  Inv'
<1>1. /\ call.phase = "halfway" /\ LeadOf(call.key) \in lead
      /\ convo' = convo \cup {LeadOf(call.key)}
      /\ call' = [call EXCEPT !.phase = "committed"]
      /\ UNCHANGED <<tenancy, lead, stored, posts, feed, task, fault>>
  BY DEF FinishConversation, EnsureConversation
<1>2. call.key \in Keys /\ call' = [phase |-> "committed", key |-> call.key]
  BY <1>1, CallType
<1>3. TypeOK'
  <2>1. TenancyOK' /\ FeedOK' /\ TasksOK'
    BY <1>1 DEF Inv, TypeOK, TenancyOK, FeedOK, TasksOK, tenancy, feed
  <2>2. RowsOK'
    BY <1>1 DEF Inv, TypeOK, RowsOK, LeadOf
  <2>3. CallsOK'
    BY <1>1, <1>2 DEF Inv, TypeOK, CallsOK
  <2> QED
    BY <2>1, <2>2, <2>3 DEF TypeOK
<1>4. StoredOnce'
  BY <1>1 DEF Inv, StoredOnce
<1>5. OneDetectionPerLead'
  BY <1>1 DEF Inv, OneDetectionPerLead, feed, LeadOf
<1>6. WholeInv'
  <2> SUFFICES ASSUME NEW k \in Keys, stored[k] > 0, LeadOf(k) \notin convo', k \notin fault
               PROVE  FALSE
    BY <1>1 DEF WholeInv, LeadOf
  <2>1. LeadOf(k) \notin convo
    BY <1>1
  <2>2. call.key = k
    BY <2>1 DEF Inv, WholeInv
  <2> QED
    BY <1>1, <2>2
<1>7. FeedInv'
  BY <1>1 DEF Inv, FeedInv, feed, LeadOf
<1> QED
  BY <1>3, <1>4, <1>5, <1>6, <1>7 DEF Inv

LEMMA CallInv ==
    ASSUME Inv, CallGoesOn \/ Crash
    PROVE  Inv'
<1>1. CASE FinishConversation
  BY <1>1, FinishConversationInv
<1>2. CASE ConversationFails
  BY <1>2, CallEndsInv DEF ConversationFails, NoCall
<1>3. CASE Schedule
  BY <1>3, CallEndsInv DEF Schedule, Queue, NoCall
<1>4. CASE ScheduleFails
  BY <1>4, CallEndsInv DEF ScheduleFails, NoCall
<1>5. CASE Crash
  BY <1>5, CallEndsInv DEF Crash
<1> QED
  BY <1>1, <1>2, <1>3, <1>4, <1>5 DEF CallGoesOn

-----------------------------------------------------------------------------
(* The listening feed.                                                     *)

LEMMA FinalizingRow ==
    ASSUME Inv, NEW j \in Keys, task[j].phase = "finalizing"
    PROVE  /\ task[j].row \in Keys
           /\ task[j].outcome \in {"sent", "blocked"}
           /\ listening[task[j].row] # "none"
<1>1. task[j] \in Finalizing
  BY DEF Inv, TypeOK, TasksOK, Queued, NoTask
<1> QED
  BY <1>1 DEF Finalizing, Inv, FeedInv

(* Every other transaction that has the row loaded will find it marked.    *)
LEMMA WriteKeeps ==
    ASSUME Inv, NEW k \in Keys, NEW who, NEW status \in FeedStatus \ {"none"},
           listening[k] # "none", Write(who, k, status)
    PROVE  /\ listening' \in [Keys -> FeedStatus] /\ overlapped' \in SUBSET Keys
           /\ \A i \in Keys : listening'[i] = "none" <=> listening[i] = "none"
           /\ \A j \in Keys :
                task[j].phase = "finalizing" /\ who # <<"task", j>> =>
                    \/ listening'[task[j].row] = "detected"
                    \/ task[j].row \in overlapped'
<1>1. /\ listening \in [Keys -> FeedStatus] /\ listening' \in [Keys -> FeedStatus]
      /\ listening' = [listening EXCEPT ![k] = status]
  BY DEF Inv, TypeOK, FeedOK, Write
<1>2. overlapped \subseteq overlapped' /\ overlapped' \in SUBSET Keys
  BY DEF Inv, TypeOK, FeedOK, Write
<1>3. ASSUME NEW j \in Keys, task[j].phase = "finalizing", who # <<"task", j>>
      PROVE  \/ listening'[task[j].row] = "detected"
             \/ task[j].row \in overlapped'
  <2>1. task[j].row \in Keys
    BY <1>3, FinalizingRow
  <2>2. CASE task[j].row = k
    <3>1. <<"task", j>> \in LoadedBy(k) \ {who}
      BY <1>3, <2>2 DEF LoadedBy
    <3> QED
      BY <2>2, <3>1 DEF Write
  <2>3. CASE task[j].row # k
    BY <1>1, <1>2, <1>3, <2>1, <2>3 DEF Inv, FeedInv
  <2> QED
    BY <2>2, <2>3
<1> QED
  BY <1>1, <1>2, <1>3

LEMMA FinalizeReplyInv ==
    ASSUME Inv, NEW j \in Keys, FinalizeReply(j)
    PROVE  Inv'
<1> DEFINE k == task[j].row
<1>1. /\ task[j].phase = "finalizing"
      /\ Write(<<"task", j>>, k, task[j].outcome)
      /\ task' = [task EXCEPT ![j] = Queued]
      /\ UNCHANGED <<tenancy, rows, requests, dismissing, fault>>
  BY DEF FinalizeReply
<1>2. k \in Keys /\ task[j].outcome \in FeedStatus \ {"none"} /\ listening[k] # "none"
  BY <1>1, FinalizingRow DEF FeedStatus
<1> HIDE DEF k
<1>3. /\ listening' \in [Keys -> FeedStatus] /\ overlapped' \in SUBSET Keys
      /\ \A i \in Keys : listening'[i] = "none" <=> listening[i] = "none"
      /\ \A i \in Keys :
           task[i].phase = "finalizing" /\ i # j =>
               listening'[task[i].row] = "detected" \/ task[i].row \in overlapped'
  BY <1>1, <1>2, WriteKeeps
<1>4. task' \in [Keys -> Finalizing \cup {Queued, NoTask}] /\ task'[j] = Queued
        /\ \A i \in Keys \ {j} : task'[i] = task[i]
  BY <1>1 DEF Inv, TypeOK, TasksOK
<1>5. TypeOK'
  <2>1. TenancyOK' /\ FeedOK'
    BY <1>1, <1>3 DEF Inv, TypeOK, TenancyOK, FeedOK, tenancy
  <2>2. RowsOK'
    BY <1>1 DEF Inv, TypeOK, RowsOK, rows, LeadOf
  <2>3. CallsOK'
    BY <1>1 DEF Inv, TypeOK, CallsOK, requests
  <2> QED
    BY <1>4, <2>1, <2>2, <2>3 DEF TypeOK, TasksOK
<1>6. StoredOnce' /\ WholeInv'
  BY <1>1 DEF Inv, StoredOnce, WholeInv, rows, requests, LeadOf
<1>7. OneDetectionPerLead'
  BY <1>3 DEF Inv, OneDetectionPerLead, LeadOf
<1>8. FeedInv'
  <2>1. \A i \in Keys : listening'[i] # "none" => stored'[i] > 0
    BY <1>1, <1>3 DEF Inv, FeedInv, rows
  <2>2. \A i \in dismissing' : listening'[i] # "none"
    BY <1>1, <1>3 DEF Inv, FeedInv, TypeOK, FeedOK
  <2>3. ASSUME NEW i \in Keys, task'[i].phase = "finalizing"
        PROVE  /\ LeadOf(task'[i].row) = LeadOf(i)
               /\ listening'[task'[i].row] # "none"
               /\ listening'[task'[i].row] = "detected" \/ task'[i].row \in overlapped'
    <3>1. i # j /\ task'[i] = task[i]
      BY <1>4, <2>3 DEF Queued
    <3>2. task[i].row \in Keys /\ listening[task[i].row] # "none"
      BY <2>3, <3>1, FinalizingRow
    <3>3. LeadOf(task[i].row) = LeadOf(i)
      BY <2>3, <3>1 DEF Inv, FeedInv
    <3> QED
      BY <1>3, <2>3, <3>1, <3>2, <3>3 DEF LeadOf
  <2> QED
    BY <2>1, <2>2, <2>3 DEF FeedInv, LeadOf
<1> QED
  BY <1>5, <1>6, <1>7, <1>8 DEF Inv

LEMMA DismissInv ==
    ASSUME Inv, NEW k \in Keys, Dismiss(k)
    PROVE  Inv'
<1>1. /\ k \in dismissing /\ dismissing' = dismissing \ {k}
      /\ Write(<<"dismissal", k>>, k, "dismissed")
      /\ UNCHANGED <<tenancy, rows, requests, task, fault>>
  BY DEF Dismiss
<1>2. listening[k] # "none" /\ "dismissed" \in FeedStatus \ {"none"}
  BY <1>1 DEF Inv, FeedInv, FeedStatus
<1>3. /\ listening' \in [Keys -> FeedStatus] /\ overlapped' \in SUBSET Keys
      /\ \A i \in Keys : listening'[i] = "none" <=> listening[i] = "none"
      /\ \A i \in Keys :
           task[i].phase = "finalizing" =>
               listening'[task[i].row] = "detected" \/ task[i].row \in overlapped'
  <2>1. \A i \in Keys : <<"dismissal", k>> # <<"task", i>>
    OBVIOUS
  <2> QED
    BY <1>1, <1>2, <2>1, WriteKeeps
<1>4. TypeOK'
  <2>1. TenancyOK' /\ FeedOK'
    BY <1>1, <1>3 DEF Inv, TypeOK, TenancyOK, FeedOK, tenancy
  <2>2. RowsOK'
    BY <1>1 DEF Inv, TypeOK, RowsOK, rows, LeadOf
  <2>3. CallsOK' /\ TasksOK'
    BY <1>1 DEF Inv, TypeOK, CallsOK, TasksOK, requests
  <2> QED
    BY <2>1, <2>2, <2>3 DEF TypeOK
<1>5. StoredOnce' /\ WholeInv'
  BY <1>1 DEF Inv, StoredOnce, WholeInv, rows, requests, LeadOf
<1>6. OneDetectionPerLead'
  BY <1>3 DEF Inv, OneDetectionPerLead, LeadOf
<1>7. FeedInv'
  <2>1. \A i \in Keys : listening'[i] # "none" => stored'[i] > 0
    BY <1>1, <1>3 DEF Inv, FeedInv, rows
  <2>2. \A i \in dismissing' : listening'[i] # "none"
    BY <1>1, <1>3 DEF Inv, FeedInv, TypeOK, FeedOK
  <2>3. ASSUME NEW j \in Keys, task[j].phase = "finalizing"
        PROVE  /\ LeadOf(task[j].row) = LeadOf(j)
               /\ listening'[task[j].row] # "none"
    BY <1>3, <2>3, FinalizingRow DEF Inv, FeedInv
  <2> QED
    BY <1>1, <1>3, <2>1, <2>2, <2>3 DEF FeedInv, LeadOf
<1> QED
  BY <1>4, <1>5, <1>6, <1>7 DEF Inv

(* A lead takes its messages, its conversation and its tasks along.        *)
LEMMA DeleteLeadInv ==
    ASSUME Inv, NEW l \in Tenants \X Contacts, DeleteLead(l)
    PROVE  Inv'
<1>1. /\ lead' = lead \ {l} /\ convo' = convo \ {l}
      /\ stored' = [k \in Keys |-> IF LeadOf(k) = l THEN 0 ELSE stored[k]]
      /\ listening' = [k \in Keys |-> IF LeadOf(k) = l THEN "none" ELSE listening[k]]
      /\ task' = [k \in Keys |-> IF LeadOf(k) = l THEN NoTask ELSE task[k]]
      /\ dismissing' = {k \in dismissing : LeadOf(k) # l}
      /\ overlapped' = {k \in overlapped : LeadOf(k) # l}
      /\ fault' = {k \in fault : LeadOf(k) # l}
      /\ UNCHANGED <<tenancy, requests>>
  BY DEF DeleteLead, WithoutConversation
<1>2. TypeOK'
  <2>1. TenancyOK'
    BY <1>1 DEF Inv, TypeOK, TenancyOK, tenancy
  <2>2. RowsOK'
    <3>1. lead' \in SUBSET (Tenants \X Contacts) /\ convo' \in SUBSET lead'
      BY <1>1 DEF Inv, TypeOK, RowsOK
    <3>2. stored' \in [Keys -> Nat]
      BY <1>1 DEF Inv, TypeOK, RowsOK
    <3>3. \A k \in Keys : stored'[k] > 0 => LeadOf(k) \in lead'
      BY <1>1 DEF Inv, TypeOK, RowsOK
    <3> QED
      BY <3>1, <3>2, <3>3 DEF RowsOK, LeadOf
  <2>3. FeedOK'
    BY <1>1 DEF Inv, TypeOK, FeedOK, FeedStatus
  <2>4. CallsOK'
    BY <1>1 DEF Inv, TypeOK, CallsOK, requests
  <2>5. TasksOK'
    BY <1>1 DEF Inv, TypeOK, TasksOK
  <2> QED
    BY <2>1, <2>2, <2>3, <2>4, <2>5 DEF TypeOK
<1>3. StoredOnce'
  BY <1>1 DEF Inv, StoredOnce
<1>4. WholeInv'
  BY <1>1 DEF Inv, WholeInv, requests, LeadOf
<1>5. OneDetectionPerLead'
  BY <1>1 DEF Inv, OneDetectionPerLead, LeadOf
<1>6. FeedInv'
  <2>1. \A k \in Keys : listening'[k] # "none" => stored'[k] > 0
    BY <1>1 DEF Inv, FeedInv
  <2>2. \A k \in dismissing' : listening'[k] # "none"
    BY <1>1 DEF Inv, FeedInv, TypeOK, FeedOK
  <2>3. ASSUME NEW j \in Keys, task'[j].phase = "finalizing"
        PROVE  /\ LeadOf(task'[j].row) = LeadOf(j)
               /\ listening'[task'[j].row] # "none"
               /\ listening'[task'[j].row] = "detected" \/ task'[j].row \in overlapped'
    <3>1. task'[j] = task[j] /\ LeadOf(j) # l
      BY <1>1, <2>3 DEF NoTask
    <3>2. task[j].row \in Keys
      BY <2>3, <3>1, FinalizingRow
    <3>3. LeadOf(task[j].row) = LeadOf(j)
      BY <2>3, <3>1 DEF Inv, FeedInv
    <3>4. listening'[task[j].row] = listening[task[j].row]
      BY <1>1, <3>1, <3>2, <3>3
    <3> QED
      BY <1>1, <2>3, <3>1, <3>3, <3>4 DEF Inv, FeedInv
  <2> QED
    BY <2>1, <2>2, <2>3 DEF FeedInv, LeadOf
<1> QED
  BY <1>2, <1>3, <1>4, <1>5, <1>6 DEF Inv

(* Loading a row changes no row.                                           *)
LEMMA LoadInv ==
    ASSUME Inv,
           UNCHANGED <<tenancy, rows, requests, listening, overlapped, fault>>,
           task' \in [Keys -> Finalizing \cup {Queued, NoTask}],
           dismissing' \in SUBSET Keys,
           \A k \in dismissing' \ dismissing : listening[k] # "none",
           \A j \in Keys :
               task'[j].phase = "finalizing" =>
                   \/ task'[j] = task[j]
                   \/ task'[j].row \in OpenRows(j)
    PROVE  Inv'
<1>1. TypeOK'
  <2>1. TenancyOK' /\ RowsOK'
    BY DEF Inv, TypeOK, TenancyOK, RowsOK, tenancy, rows, LeadOf
  <2>2. FeedOK' /\ CallsOK' /\ TasksOK'
    BY DEF Inv, TypeOK, FeedOK, CallsOK, TasksOK, requests
  <2> QED
    BY <2>1, <2>2 DEF TypeOK
<1>2. StoredOnce' /\ WholeInv'
  BY DEF Inv, StoredOnce, WholeInv, rows, requests, LeadOf
<1>3. OneDetectionPerLead'
  BY DEF Inv, OneDetectionPerLead, LeadOf
<1>4. FeedInv'
  <2>1. \A k \in dismissing' : listening[k] # "none"
    BY DEF Inv, FeedInv
  <2>2. ASSUME NEW j \in Keys, task'[j].phase = "finalizing"
        PROVE  /\ LeadOf(task'[j].row) = LeadOf(j)
               /\ listening[task'[j].row] # "none"
               /\ listening[task'[j].row] = "detected" \/ task'[j].row \in overlapped
    <3>1. CASE task'[j] = task[j]
      BY <2>2, <3>1 DEF Inv, FeedInv
    <3>2. CASE task'[j].row \in OpenRows(j)
      BY <3>2 DEF OpenRows
    <3> QED
      BY <2>2, <3>1, <3>2
  <2> QED
    BY <2>1, <2>2 DEF Inv, FeedInv, rows, LeadOf
<1> QED
  BY <1>1, <1>2, <1>3, <1>4 DEF Inv

LEMMA TasksInv ==
    ASSUME Inv, Tasks
    PROVE  Inv'
<1>1. task \in [Keys -> Finalizing \cup {Queued, NoTask}] /\ dismissing \in SUBSET Keys
  BY DEF Inv, TypeOK, TasksOK, FeedOK
<1>2. ASSUME NEW j \in Keys, NEW k \in Keys, NEW outcome \in {"sent", "blocked"},
             LoadOpenRow(j, k, outcome)
      PROVE  Inv'
  <2> DEFINE state == [phase |-> "finalizing", row |-> k, outcome |-> outcome]
  <2>1. state \in Finalizing /\ state.row = k
    BY DEF Finalizing
  <2>2. /\ task' = [task EXCEPT ![j] = state] /\ k \in OpenRows(j)
        /\ UNCHANGED <<tenancy, rows, requests, listening, dismissing, overlapped, fault>>
    BY <1>2 DEF LoadOpenRow, feed
  <2> HIDE DEF state
  <2> QED
    BY <1>1, <2>1, <2>2, LoadInv
<1>3. ASSUME NEW j \in Keys, FinalizeFails(j)
      PROVE  Inv'
  <2>1. /\ task' = [task EXCEPT ![j] = Queued]
        /\ UNCHANGED <<tenancy, rows, requests, listening, dismissing, overlapped, fault>>
    BY <1>3 DEF FinalizeFails, feed
  <2>2. Queued.phase # "finalizing"
    BY DEF Queued
  <2> QED
    BY <1>1, <2>1, <2>2, LoadInv
<1> QED
  BY <1>2, <1>3, FinalizeReplyInv DEF Tasks

LEMMA PeopleInv ==
    ASSUME Inv, People
    PROVE  Inv'
<1>1. ASSUME NEW t \in Tenants, ConnectNumber(t) \/ ToggleGroup(t)
      PROVE  Inv'
  <2>0. numbers' \in [Tenants -> 0..MaxNumbers]
    <3>1. CASE ConnectNumber(t)
      <4>1. numbers[t] + 1 \in 0..MaxNumbers
        BY <3>1, InboundAssumption DEF ConnectNumber, Inv, TypeOK, TenancyOK, InboundAssumption
      <4> QED
        BY <3>1, <4>1 DEF ConnectNumber, Inv, TypeOK, TenancyOK
    <3>2. CASE ToggleGroup(t)
      BY <3>2 DEF ToggleGroup, Inv, TypeOK, TenancyOK
    <3> QED
      BY <1>1, <3>1, <3>2
  <2>1. UNCHANGED <<rows, requests, feed, task, fault>> /\ TenancyOK'
    BY <1>1, <2>0 DEF ConnectNumber, ToggleGroup, Inv, TypeOK, TenancyOK
  <2>2. TypeOK'
    BY <2>1 DEF Inv, TypeOK, RowsOK, FeedOK, CallsOK, TasksOK, rows, requests, feed, LeadOf
  <2>3. StoredOnce' /\ WholeInv'
    BY <2>1 DEF Inv, StoredOnce, WholeInv, rows, requests, LeadOf
  <2>4. OneDetectionPerLead' /\ FeedInv'
    BY <2>1 DEF Inv, OneDetectionPerLead, FeedInv, rows, feed, LeadOf
  <2> QED
    BY <2>2, <2>3, <2>4 DEF Inv
<1>2. ASSUME NEW k \in Keys, LoadForDismissal(k)
      PROVE  Inv'
  <2>1. /\ listening[k] # "none" /\ dismissing' = dismissing \cup {k}
        /\ UNCHANGED <<tenancy, rows, requests, listening, overlapped, task, fault>>
    BY <1>2 DEF LoadForDismissal
  <2>2. task' \in [Keys -> Finalizing \cup {Queued, NoTask}] /\ dismissing' \in SUBSET Keys
    BY <2>1 DEF Inv, TypeOK, TasksOK, FeedOK
  <2> QED
    BY <2>1, <2>2, LoadInv
<1> QED
  BY <1>1, <1>2, DeleteLeadInv, DismissInv DEF People

-----------------------------------------------------------------------------

LEMMA NextInv ==
    ASSUME Inv, [Next]_vars
    PROVE  Inv'
<1>1. CASE UNCHANGED vars
  <2>1. TypeOK'
    BY <1>1 DEF Inv, TypeOK, TenancyOK, RowsOK, FeedOK, CallsOK, TasksOK, vars, tenancy, rows,
                requests, feed, LeadOf
  <2>2. StoredOnce' /\ WholeInv'
    BY <1>1 DEF Inv, StoredOnce, WholeInv, vars, rows, requests, LeadOf
  <2>3. OneDetectionPerLead' /\ FeedInv'
    BY <1>1 DEF Inv, OneDetectionPerLead, FeedInv, vars, rows, feed, LeadOf
  <2> QED
    BY <2>1, <2>2, <2>3 DEF Inv
<1> QED
  BY <1>1, WebhookInv, CallInv, TasksInv, PeopleInv DEF Next

LEMMA Invariance == Spec => []Inv
  BY InitInv, NextInv, PTL DEF Spec

-----------------------------------------------------------------------------
(* The theorems.                                                           *)

(* The rows keep their types and their foreign keys, deletions included.   *)
THEOREM TypeCorrect == Spec => []TypeOK
<1>1. Inv => TypeOK
  BY DEF Inv
<1> QED
  BY <1>1, Invariance, PTL

(* services/inbound_wacli.py: a message that carries an id and is posted   *)
(* again is not stored again, wherever its first call broke.               *)
THEOREM NoDuplicateMessage == Spec => []StoredOnce
<1>1. Inv => StoredOnce
  BY DEF Inv
<1> QED
  BY <1>1, Invariance, PTL

(* services/listening.py, record_detection: one detection per lead.        *)
THEOREM DetectedOnce == Spec => []OneDetectionPerLead
<1>1. Inv => OneDetectionPerLead
  BY DEF Inv
<1> QED
  BY <1>1, Invariance, PTL

(* The commit upload_asset makes between message and conversation shows    *)
(* only in the call that runs, or in one that broke.                       *)
THEOREM NothingHalfStored == Spec => []StoredIsWhole
<1>1. Inv => StoredIsWhole
  BY DEF Inv, WholeInv, StoredIsWhole, NoCall
<1> QED
  BY <1>1, Invariance, PTL

(* Only a webhook adds a message row.                                      *)
LEMMA OnlyWebhooksStore ==
    ASSUME Inv, [Next]_vars, NEW k \in Keys, stored'[k] > stored[k]
    PROVE  \/ \E need \in BOOLEAN, kept \in BOOLEAN : Store(k[1], k[2], need, kept)
           \/ k[1] = Owner[k[2]]
<1> USE DEF Inv, TypeOK, RowsOK
<1>1. stored[k] \in Nat /\ stored' # stored
  OBVIOUS
<1>2. PICK m \in Messages : Webhook(m)
  <2>1. \A l \in Tenants \X Contacts : ~DeleteLead(l)
    BY <1>1 DEF DeleteLead
  <2> QED
    BY <1>1, <2>1
       DEF Next, CallGoesOn, FinishConversation, ConversationFails, Schedule, ScheduleFails,
           Crash, Tasks, LoadOpenRow, FinalizeReply, FinalizeFails, People, ConnectNumber,
           ToggleGroup, LoadForDismissal, Dismiss, rows, vars
<1>3. ~Answer(m)
  BY <1>1 DEF Answer, rows
<1>4. ASSUME NEW t \in Tenants, NEW need \in BOOLEAN, NEW kept \in BOOLEAN,
             Store(t, m, need, kept)
      PROVE  Store(k[1], k[2], need, kept)
  <2>1. stored' = [stored EXCEPT ![<<t, m>>] = @ + 1]
    BY <1>4 DEF Store, StoreMessage
  <2>2. k = <<t, m>>
    BY <1>1, <2>1
  <2> QED
    BY <1>4, <2>2
<1>5. ASSUME NEW need \in BOOLEAN, StoreLegacy(m, need)
      PROVE  k[1] = Owner[k[2]]
  <2>1. stored' = [stored EXCEPT ![<<Owner[m], m>>] = @ + 1]
    BY <1>5 DEF StoreLegacy, StoreMessage
  <2>2. k = <<Owner[m], m>>
    BY <1>1, <2>1
  <2> QED
    BY <2>2
<1> QED
  BY <1>2, <1>3, <1>4, <1>5
     DEF Webhook, Unresolved, Duplicate, Ignore, RefuseLegacy, LooksLikeNeed

(* resolve_wacli_number: who names the tenant right is believed.           *)
LEMMA ResolveHome ==
    ASSUME NEW m \in Messages, NEW t \in Resolve(m)
    PROVE  \/ t = Owner[m]
           \/ /\ Hint[m] # "workspace"
              /\ Hint[m] = "none" \/ Owner[m] \notin registered \cap OwnAccount
<1>1. Hint[m] \in {"workspace", "account", "none"}
  BY InboundAssumption DEF InboundAssumption
<1>2. CASE Hint[m] = "workspace"
  BY <1>2 DEF Resolve
<1>3. CASE Hint[m] = "account" /\ Owner[m] \in registered \cap OwnAccount
  BY <1>3 DEF Resolve
<1> QED
  BY <1>1, <1>2, <1>3

(* services/inbound_wacli.py, resolve_wacli_number: a message goes astray  *)
(* only when nothing in its request tells its tenant.                      *)
THEOREM MessagesRoutedHome == Spec => RoutedHome
<1>1. Inv /\ [Next]_vars =>
        [\A k \in Keys :
           stored'[k] > stored[k] =>
              \/ k[1] = Owner[k[2]]
              \/ /\ Hint[k[2]] # "workspace"
                 /\ Hint[k[2]] = "none" \/ Owner[k[2]] \notin registered \cap OwnAccount]_vars
  <2> SUFFICES ASSUME Inv, [Next]_vars, NEW k \in Keys, stored'[k] > stored[k]
               PROVE  \/ k[1] = Owner[k[2]]
                      \/ /\ Hint[k[2]] # "workspace"
                         /\ \/ Hint[k[2]] = "none"
                            \/ Owner[k[2]] \notin registered \cap OwnAccount
    OBVIOUS
  <2>1. CASE k[1] = Owner[k[2]]
    BY <2>1
  <2>2. ASSUME NEW need \in BOOLEAN, NEW kept \in BOOLEAN, Store(k[1], k[2], need, kept)
        PROVE  k[2] \in Messages /\ k[1] \in Resolve(k[2])
    BY <2>2, KeyParts DEF Store
  <2> QED
    BY <2>1, <2>2, OnlyWebhooksStore, ResolveHome
<1> QED
  BY <1>1, Invariance, PTL DEF Spec, RoutedHome

(* What may change the outcome of a message in the feed.                   *)
LEMMA OutcomeStep ==
    ASSUME Inv, [Next]_vars, NEW k \in Keys,
           listening[k] \in {"sent", "blocked", "dismissed"},
           listening'[k] # listening[k]
    PROVE  \/ listening'[k] = "dismissed"
           \/ LeadOf(k) \notin lead'
           \/ k \in overlapped
<1>0. listening \in [Keys -> FeedStatus] /\ listening' # listening
  BY DEF Inv, TypeOK, FeedOK
<1>1. ASSUME NEW m \in Messages, Webhook(m)
      PROVE  FALSE
  <2>1. PICK t \in Tenants, need \in BOOLEAN, kept \in BOOLEAN : Store(t, m, need, kept)
    BY <1>0, <1>1
       DEF Webhook, Unresolved, Duplicate, Ignore, RefuseLegacy, Answer, StoreLegacy, feed,
           LooksLikeNeed
  <2>2. ~Ongoing(<<t, m>>) /\ listening' = [listening EXCEPT ![<<t, m>>] = "detected"]
    BY <1>0, <2>1 DEF Store, Detects
  <2>3. k = <<t, m>>
    BY <1>0, <2>2
  <2>4. stored[k] > 0
    BY DEF Inv, FeedInv
  <2> QED
    BY <2>2, <2>3, <2>4 DEF Ongoing
<1>2. ASSUME NEW j \in Keys, FinalizeReply(j)
      PROVE  k \in overlapped
  <2>1. task[j].phase = "finalizing"
        /\ listening' = [listening EXCEPT ![task[j].row] = task[j].outcome]
    BY <1>2 DEF FinalizeReply, Write
  <2>2. task[j].row = k
    BY <1>0, <2>1
  <2> QED
    BY <2>1, <2>2 DEF Inv, FeedInv
<1>3. ASSUME NEW i \in Keys, Dismiss(i)
      PROVE  listening'[k] = "dismissed"
  BY <1>0, <1>3 DEF Dismiss, Write
<1>4. ASSUME NEW l \in Tenants \X Contacts, DeleteLead(l)
      PROVE  LeadOf(k) \notin lead'
  <2>1. /\ lead' = lead \ {l}
        /\ listening' = [i \in Keys |-> IF LeadOf(i) = l THEN "none" ELSE listening[i]]
    BY <1>4 DEF DeleteLead
  <2> QED
    BY <2>1
<1> QED
  BY <1>0, <1>1, <1>2, <1>3, <1>4
     DEF Next, CallGoesOn, FinishConversation, ConversationFails, Schedule, ScheduleFails,
         Crash, Tasks, LoadOpenRow, FinalizeFails, People, ConnectNumber, ToggleGroup,
         LoadForDismissal, feed, vars

(* services/listening.py, finalize_reply: a late task does not undo what a *)
(* reply or a person had settled, unless both had the row at once.         *)
THEOREM SettledOutcomeStands == Spec => OutcomeStands
<1>1. Inv /\ [Next]_vars =>
        [\A k \in Keys :
           /\ listening[k] \in {"sent", "blocked", "dismissed"}
           /\ listening'[k] # listening[k]
           => \/ listening'[k] = "dismissed"
              \/ LeadOf(k) \notin lead'
              \/ k \in overlapped]_vars
  BY OutcomeStep
<1> QED
  BY <1>1, Invariance, PTL DEF Spec, OutcomeStands

-----------------------------------------------------------------------------
(* No message is forgotten: what StoredIsScheduled promises in the end,    *)
(* the rows show at every moment.                                          *)

(* A stored message has its reply task, or a call that is still running,   *)
(* or one that broke.                                                      *)
Accounted ==
    \A k \in Keys : stored[k] > 0 =>
        \/ task[k] # NoTask
        \/ k \in fault
        \/ call # NoCall /\ call.key = k

LEMMA AccountedWebhook ==
    ASSUME Inv, Accounted, NEW m \in Messages, Webhook(m)
    PROVE  Accounted'
<1>1. CASE UNCHANGED <<stored, task, fault, call>>
  BY <1>1 DEF Accounted
<1>2. ASSUME NEW k \in Keys, NEW phase \in {"halfway", "committed"}, call = NoCall,
             stored' = [stored EXCEPT ![k] = @ + 1], call' = [phase |-> phase, key |-> k],
             UNCHANGED <<task, fault>>
      PROVE  Accounted'
  <2>1. \A i \in Keys \ {k} : stored'[i] = stored[i]
    BY <1>2 DEF Inv, TypeOK, RowsOK
  <2>2. call' # NoCall /\ call'.key = k
    BY <1>2 DEF NoCall
  <2> QED
    BY <1>2, <2>1, <2>2 DEF Accounted
<1>3. ASSUME NEW t \in Tenants, NEW need \in BOOLEAN, NEW kept \in BOOLEAN, Store(t, m, need, kept)
      PROVE  Accounted'
  <2>1. <<t, m>> \in Keys
    BY DEF Keys
  <2> QED
    BY <1>2, <1>3, <2>1 DEF Store, StoreMessage, Serve
<1>4. ASSUME NEW need \in BOOLEAN, StoreLegacy(m, need) PROVE Accounted'
  <2>1. <<Owner[m], m>> \in Keys
    BY InboundAssumption DEF InboundAssumption, Keys
  <2> QED
    BY <1>2, <1>4, <2>1 DEF StoreLegacy, StoreMessage, Serve
<1> QED
  BY <1>1, <1>3, <1>4
     DEF Webhook, Unresolved, Duplicate, Ignore, RefuseLegacy, Answer, LooksLikeNeed, rows

LEMMA AccountedCall ==
    ASSUME Inv, Accounted, CallGoesOn \/ Crash
    PROVE  Accounted'
<1>1. CASE FinishConversation
  <2>1. call # NoCall /\ call.key \in Keys
    BY <1>1 DEF FinishConversation, Inv, TypeOK, CallsOK, NoCall
  <2>2. call'.key = call.key /\ call' # NoCall
    BY <1>1, <2>1 DEF FinishConversation, Inv, TypeOK, CallsOK, NoCall
  <2>3. UNCHANGED <<stored, task, fault>>
    BY <1>1 DEF FinishConversation
  <2> QED
    BY <2>1, <2>2, <2>3 DEF Accounted
<1>2. CASE fault' = fault \cup {call.key} /\ UNCHANGED <<stored, task>>
  BY <1>2 DEF Accounted
<1>3. CASE Schedule
  <2>1. call.key \in Keys /\ UNCHANGED <<stored, fault>> /\ task' = Queue(call.key)
    BY <1>3, CallType DEF Schedule, rows
  <2>2. stored[call.key] > 0 => task'[call.key] # NoTask
    BY <2>1 DEF Queue, Queued, NoTask, Inv, TypeOK, RowsOK, TasksOK
  <2>3. \A k \in Keys \ {call.key} : task'[k] = task[k]
    BY <2>1 DEF Queue, Inv, TypeOK, TasksOK
  <2> QED
    BY <2>1, <2>2, <2>3 DEF Accounted
<1> QED
  BY <1>1, <1>2, <1>3 DEF CallGoesOn, ConversationFails, ScheduleFails, Crash, rows

LEMMA AccountedRest ==
    ASSUME Inv, Accounted, Tasks \/ People
    PROVE  Accounted'
<1>1. CASE UNCHANGED <<stored, fault, call>> /\ \A k \in Keys : task[k] # NoTask => task'[k] # NoTask
  BY <1>1 DEF Accounted
<1>2. ASSUME NEW l \in Tenants \X Contacts, DeleteLead(l) PROVE Accounted'
  <2>1. /\ stored' = [k \in Keys |-> IF LeadOf(k) = l THEN 0 ELSE stored[k]]
        /\ task' = [k \in Keys |-> IF LeadOf(k) = l THEN NoTask ELSE task[k]]
        /\ fault' = {k \in fault : LeadOf(k) # l}
        /\ UNCHANGED call
    BY <1>2 DEF DeleteLead, requests
  <2> QED
    BY <2>1 DEF Accounted
<1>3. CASE Tasks
  <2>1. \A k \in Keys : task[k] # NoTask => task'[k] # NoTask
    BY <1>3 DEF Tasks, LoadOpenRow, FinalizeReply, FinalizeFails, NoTask, Queued, Inv, TypeOK, TasksOK
  <2>2. UNCHANGED <<stored, fault, call>>
    BY <1>3 DEF Tasks, LoadOpenRow, FinalizeReply, FinalizeFails, rows, requests
  <2> QED
    BY <1>1, <2>1, <2>2
<1> QED
  BY <1>1, <1>2, <1>3
     DEF People, ConnectNumber, ToggleGroup, LoadForDismissal, Dismiss, rows, requests

(* services/inbound_wacli.py: between the commit of a message and its      *)
(* reply task there is always the call, or the trace of its failure, at    *)
(* either of its two commits and under deletions and repeated posts.       *)
THEOREM NoMessageForgotten == Spec => []Accounted
<1>1. Init => Accounted
  BY DEF Init, Accounted
<1>2. Inv /\ Accounted /\ [Next]_vars => Accounted'
  <2>1. CASE UNCHANGED vars
    BY <2>1 DEF vars, rows, requests, Accounted
  <2> QED
    BY <2>1, AccountedWebhook, AccountedCall, AccountedRest DEF Next
<1> QED
  BY <1>1, <1>2, Invariance, PTL DEF Spec
=============================================================================
