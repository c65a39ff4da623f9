--------------------------- MODULE MCDraftConsole ---------------------------
(***************************************************************************)
(* Instances of DraftConsole for TLC.                                      *)
(***************************************************************************)
EXTENDS DraftConsole

CONSTANTS c1, g1

OneContact == {c1}
OneGroup == {g1}
=============================================================================
