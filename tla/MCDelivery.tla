----------------------------- MODULE MCDelivery -----------------------------
(***************************************************************************)
(* Instances of Delivery for TLC: a text and an asset to send.             *)
(***************************************************************************)
EXTENDS Delivery

CONSTANTS text, photo, a1

OneAsset == {a1}
TextAndPhoto == {text, photo}
OnePhoto == {photo}
PhotoIsA1 == [j \in {photo} |-> a1]
=============================================================================
