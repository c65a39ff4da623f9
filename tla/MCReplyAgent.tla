---------------------------- MODULE MCReplyAgent ----------------------------
(***************************************************************************)
(* Instances of ReplyAgent for TLC.                                        *)
(***************************************************************************)
EXTENDS ReplyAgent, TLC

CONSTANTS l1, l2

OneLead == {l1}
TwoLeads == {l1, l2}

(* Redis and the broker accept every write; everything else may fail.      *)
TaskFaults == {"exception", "worker_kill", "redis_get", "redis_expiry"}

(* The broker refuses a job, or the database fails.                        *)
BrokerFaults == {"exception", "broker"}

RedisSetFault == {"redis_set"}

NoFaults == {}

(* Sound for the runs without liveness: no definition tells leads apart.   *)
LeadSymmetry == Permutations({l1, l2})

(* What moves the counter: every request of the dashboard is spent on an   *)
(* inbox reply, open or booked.  Windows stay open, and meetings are not   *)
(* asked for (that one is confirmed, which silences the agent, stays).     *)
OnlyReplies ==
    /\ \A l \in Leads : lead[l].meeting # "REQUESTED" /\ lead[l].last_inbound # "old"
    /\ clicks = Cardinality({l \in Leads : inbox[l] # NoReply})
                + Cardinality({<<l, k>> \in Leads \X (1..(MaxInbound + MaxClicks + MaxRetries + 1)) :
                                  k \in Rows(l, "HUMAN")})
=============================================================================
