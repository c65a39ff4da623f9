--------------------------- MODULE OutreachPolicy ---------------------------
(***************************************************************************)
(* The compliance gate (core/outreach_policy.py) and the daily message     *)
(* counter of a workspace (services/crm.py), as operators: neither keeps   *)
(* state of its own.  Both read the workspace row and the lead row they    *)
(* are handed, which may be older than the rows in the database.           *)
(*                                                                         *)
(* Abstractions.  Lead.last_inbound_at is one of three ages: never, within *)
(* the 24 h customer-service window ("recent"), or before it ("old").      *)
(* Dates are day numbers.  meeting_status keeps the two values the agent   *)
(* tests; every other string (NOT_REQUESTED, BOOKED, ...) is "OPEN".       *)
(***************************************************************************)
EXTENDS Naturals

CONSTANTS
    DailyLimit,     \* workspaces.daily_message_limit; 0 means no limit to the gate
    DefaultLimit    \* the limit the CRM assumes when the column is 0 (35)

ASSUME LimitsAssumption ==
    /\ DailyLimit \in Nat
    /\ DefaultLimit \in Nat \ {0}

OutreachKind == {"agent_reply", "human_approved", "template"}

InboundAge == {"never", "recent", "old"}

MeetingStatus == {"OPEN", "REQUESTED", "CONFIRMED"}

(* The columns of a lead that the gate and the agent read or write.        *)
LeadRow ==
    [do_not_contact : BOOLEAN,
     last_inbound   : InboundAge,
     meeting        : MeetingStatus,
     needs_response : BOOLEAN]

(* The columns of a workspace.  auto_send is the conjunction of the two    *)
(* agent_config switches the agent consults, auto_reply_enabled and        *)
(* auto_send_matched_leads; sent is messages_sent_today and reset_day the  *)
(* date of last_daily_reset_at.                                            *)
WorkspaceRow ==
    [agent_enabled : BOOLEAN,
     is_running    : BOOLEAN,
     auto_send     : BOOLEAN,
     sent          : Nat,
     reset_day     : Nat]

-----------------------------------------------------------------------------
(* The rules of gate(), in the order the code tries them.                  *)

NotOptedOut(contact) == ~contact.do_not_contact

AgentLive(tenant, kind) ==
    kind = "agent_reply" => tenant.agent_enabled /\ tenant.is_running

UnderLimit(tenant) == DailyLimit = 0 \/ tenant.sent < DailyLimit

WithinServiceWindow(contact) == contact.last_inbound = "recent"

(* Mutant: any inbound message, however old, is a basis.                   *)
HasBasisForever(contact, kind) == contact.last_inbound # "never"

HasBasis(contact, kind) ==
    IF kind = "template"
    THEN contact.last_inbound # "never"
    ELSE WithinServiceWindow(contact)

Gate(tenant, contact, kind) ==
    /\ NotOptedOut(contact)
    /\ AgentLive(tenant, kind)
    /\ UnderLimit(tenant)
    /\ HasBasis(contact, kind)

(* gate() returned "daily_quota_exceeded": the first rule that failed.     *)
DeniedByQuota(tenant, contact, kind) ==
    /\ NotOptedOut(contact)
    /\ AgentLive(tenant, kind)
    /\ ~UnderLimit(tenant)

-----------------------------------------------------------------------------
(* The daily counter.  daily_quota_available() is a test with a side       *)
(* effect: it zeroes the counter of an earlier day.                        *)

ResetIfNewDay(tenant, day) ==
    IF tenant.reset_day = day
    THEN tenant
    ELSE [tenant EXCEPT !.sent = 0, !.reset_day = day]

DailyQuotaAvailable(tenant, day) ==
    LET limit == IF DailyLimit = 0 THEN DefaultLimit ELSE DailyLimit
    IN  ResetIfNewDay(tenant, day).sent < limit

(* Mutant: the bump forgets that the day may be new.                       *)
BumpWithoutReset(tenant, day) == [tenant EXCEPT !.sent = @ + 1]

BumpSentCounter(tenant, day) ==
    [ResetIfNewDay(tenant, day) EXCEPT !.sent = @ + 1]

(* What a commit makes of a row: the UPDATE names only the columns whose   *)
(* value differs from the loaded one.                                      *)
Flushed(row, loaded, new) ==
    [row EXCEPT !.sent = IF new.sent = loaded.sent THEN @ ELSE new.sent,
                !.reset_day = IF new.reset_day = loaded.reset_day THEN @ ELSE new.reset_day]
=============================================================================
