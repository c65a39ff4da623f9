---------------------------- MODULE SendChannel ----------------------------
(***************************************************************************)
(* What the send queue promises to the code that fills it, whatever sits   *)
(* behind it: the tasks call .delay() and read no result.  A job accepted  *)
(* may reach the contact several times, but not without bound; it is       *)
(* reported as sent only after a copy left; once it is reported, or lost   *)
(* with its worker, no further copy leaves.  A failure report promises     *)
(* nothing: the contact may have the message.                              *)
(***************************************************************************)
EXTENDS Naturals

CONSTANTS
    Jobs,           \* send jobs
    MaxCopies       \* copies of one job that may reach the contact

VARIABLES
    status,         \* what the queue knows of each job
    copies          \* copies that left for the contact

channelVars == <<status, copies>>

ChannelTypeOK ==
    /\ status \in [Jobs -> {"new", "accepted", "sent", "failed", "lost"}]
    /\ copies \in [Jobs -> 0..MaxCopies]

Init ==
    /\ status = [j \in Jobs |-> "new"]
    /\ copies = [j \in Jobs |-> 0]

Accept(j) ==
    /\ status[j] = "new"
    /\ status' = [status EXCEPT ![j] = "accepted"]
    /\ UNCHANGED copies

Transmit(j) ==
    /\ status[j] = "accepted"
    /\ copies[j] < MaxCopies
    /\ copies' = [copies EXCEPT ![j] = @ + 1]
    /\ UNCHANGED status

ReportSent(j) ==
    /\ status[j] = "accepted"
    /\ copies[j] > 0
    /\ status' = [status EXCEPT ![j] = "sent"]
    /\ UNCHANGED copies

ReportFailed(j) ==
    /\ status[j] = "accepted"
    /\ status' = [status EXCEPT ![j] = "failed"]
    /\ UNCHANGED copies

Lose(j) ==
    /\ status[j] = "accepted"
    /\ status' = [status EXCEPT ![j] = "lost"]
    /\ UNCHANGED copies

Next ==
    \E j \in Jobs :
        Accept(j) \/ Transmit(j) \/ ReportSent(j) \/ ReportFailed(j) \/ Lose(j)

Spec == Init /\ [][Next]_channelVars
=============================================================================
