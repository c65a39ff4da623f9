------------------------------ MODULE MCInbound ------------------------------
(***************************************************************************)
(* Instances of Inbound for TLC.  One contact writes to two tenants: a     *)
(* photo in a group and a direct message to the first, a group message to  *)
(* the second, whose sync names an account.                                *)
(***************************************************************************)
EXTENDS Inbound

CONSTANTS t1, t2, c1, photo, need, chat

TwoTenants == {t1, t2}
OneContact == {c1}
ThreeMessages == {photo, need, chat}
MCOwner == [m \in ThreeMessages |-> IF m = need THEN t2 ELSE t1]
MCFrom == [m \in ThreeMessages |-> c1]
MCSource == [m \in ThreeMessages |-> IF m = chat THEN "gateway" ELSE "wacli"]
MCHint == [m \in ThreeMessages |-> IF m = need THEN "account" ELSE "workspace"]
GroupMessages == {photo, need}
Photos == {photo}
Identified == {photo}
Posted == [m \in ThreeMessages |-> IF m = chat THEN 1 ELSE 2]

(* Each tenant has one number at most and only the photo is posted twice,  *)
(* or, where a tenant gets a second number or the message without an id is *)
(* posted again, there are four posts and numbers in all.                  *)
FewRepeats ==
    \/ numbers[t1] <= 1 /\ numbers[t2] <= 1 /\ posts[need] <= 1
    \/ numbers[t1] + numbers[t2] + posts[photo] + posts[need] <= 4
=============================================================================
