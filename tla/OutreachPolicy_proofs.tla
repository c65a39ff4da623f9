----------------------- MODULE OutreachPolicy_proofs -----------------------
(***************************************************************************)
(* What the helpers of the daily counter return, for every limit, row and  *)
(* day.  ReplyAgent_proofs and DraftConsole_proofs rest on them.           *)
(***************************************************************************)
EXTENDS OutreachPolicy, TLAPS

(* The limit the CRM tests, which is never zero.                           *)
Limit == IF DailyLimit = 0 THEN DefaultLimit ELSE DailyLimit

LEMMA LimitType == Limit \in Nat /\ Limit > 0
  BY LimitsAssumption DEF LimitsAssumption, Limit

(* Rows stay rows.                                                         *)
LEMMA ResetType ==
    ASSUME NEW tenant \in WorkspaceRow, NEW day \in Nat
    PROVE  /\ ResetIfNewDay(tenant, day) \in WorkspaceRow
           /\ BumpSentCounter(tenant, day) \in WorkspaceRow
<1>1. ResetIfNewDay(tenant, day) \in WorkspaceRow
  BY DEF ResetIfNewDay, WorkspaceRow
<1>2. \A row \in WorkspaceRow : [row EXCEPT !.sent = @ + 1] \in WorkspaceRow
  BY DEF WorkspaceRow
<1> QED
  BY <1>1, <1>2 DEF BumpSentCounter

LEMMA FlushedType ==
    ASSUME NEW row \in WorkspaceRow, NEW loaded \in WorkspaceRow,
           NEW new \in WorkspaceRow
    PROVE  Flushed(row, loaded, new) \in WorkspaceRow
  BY DEF Flushed, WorkspaceRow

(* The counter of another day is worth nothing.                            *)
LEMMA ResetValue ==
    ASSUME NEW tenant \in WorkspaceRow, NEW day \in Nat
    PROVE  /\ ResetIfNewDay(tenant, day).reset_day = day
           /\ \/ tenant.reset_day = day /\ ResetIfNewDay(tenant, day).sent = tenant.sent
              \/ tenant.reset_day # day /\ ResetIfNewDay(tenant, day).sent = 0
  BY DEF ResetIfNewDay, WorkspaceRow

LEMMA BumpValue ==
    ASSUME NEW tenant \in WorkspaceRow, NEW day \in Nat
    PROVE  /\ BumpSentCounter(tenant, day).reset_day = day
           /\ \/ /\ tenant.reset_day = day
                 /\ BumpSentCounter(tenant, day).sent = tenant.sent + 1
              \/ /\ tenant.reset_day # day
                 /\ BumpSentCounter(tenant, day).sent = 1
<1>1. \A row \in WorkspaceRow :
        /\ [row EXCEPT !.sent = @ + 1].reset_day = row.reset_day
        /\ [row EXCEPT !.sent = @ + 1].sent = row.sent + 1
  BY DEF WorkspaceRow
<1>2. ResetIfNewDay(tenant, day) \in WorkspaceRow
  BY ResetType
<1> QED
  BY <1>1, <1>2, ResetValue DEF BumpSentCounter

(* daily_quota_available is a test of what is sent on that day.            *)
LEMMA QuotaValue ==
    ASSUME NEW tenant \in WorkspaceRow, NEW day \in Nat, DailyQuotaAvailable(tenant, day)
    PROVE  tenant.reset_day = day => tenant.sent < Limit
  BY ResetValue DEF DailyQuotaAvailable, Limit

(* A row that nobody else has written takes the new counter.               *)
LEMMA FlushedValue ==
    ASSUME NEW row \in WorkspaceRow, NEW loaded \in WorkspaceRow, NEW new \in WorkspaceRow,
           loaded.sent = row.sent, loaded.reset_day = row.reset_day
    PROVE  /\ Flushed(row, loaded, new).sent = new.sent
           /\ Flushed(row, loaded, new).reset_day = new.reset_day
  BY DEF Flushed, WorkspaceRow

=============================================================================
