---------------------------- MODULE MediaLibrary ----------------------------
(***************************************************************************)
(* The media of a tenant (services/media.py): a row of media_assets per    *)
(* asset, and its binary in object storage or in a local directory.  The   *)
(* two are written one after the other, by requests and by the webhook, so *)
(* a crash or a request that runs in a thread may come between.            *)
(*                                                                         *)
(* Every upload has a fresh id: an asset is uploaded once.  Reads (list,   *)
(* get, the signed URL, the file of the development server) change nothing;*)
(* what they would find is Listed, Catalogue and Binary.                   *)
(***************************************************************************)
EXTENDS Naturals

CONSTANTS
    Assets,         \* ids of media assets
    MaxDeletes      \* bound: requests that delete one asset at a time

ASSUME MediaLibraryAssumption == MaxDeletes \in Nat

VARIABLES
    objectStorage,  \* deployment: S3 is configured; a local directory otherwise
    asset,          \* the media_assets row: its origin, or why there is none
    binary,         \* the object or file under the asset's storage_key exists
    deletes,        \* delete requests that removed the binary, not yet the row
    stray           \* history: a fault hit an upload or a delete of the asset

libraryVars == <<asset, binary, deletes, stray>>

Listed(a) == asset[a] \in {"brand", "inbound"}

(* catalogue_for_agent: what the LLM may propose.                          *)
Catalogue == {a \in Assets : asset[a] = "brand"}

LibraryTypeOK ==
    /\ objectStorage \in BOOLEAN
    /\ asset \in [Assets -> {"none", "put_brand", "put_inbound",
                             "brand", "inbound", "gone"}]
    /\ binary \in [Assets -> BOOLEAN]
    /\ deletes \in [Assets -> 0..MaxDeletes]
    /\ stray \in [Assets -> BOOLEAN]

LibraryInit ==
    /\ objectStorage \in BOOLEAN
    /\ asset = [a \in Assets |-> "none"]
    /\ binary = [a \in Assets |-> FALSE]
    /\ deletes = [a \in Assets |-> 0]
    /\ stray = [a \in Assets |-> FALSE]

-----------------------------------------------------------------------------
Put(a, origin) ==
    asset' = [asset EXCEPT ![a] = IF origin = "brand" THEN "put_brand" ELSE "put_inbound"]

(* upload_asset, first half.  Inbound media gets here after its download;  *)
(* a download that fails writes nothing.                                   *)
PutBinary(a, origin) ==
    /\ asset[a] = "none"
    /\ Put(a, origin)
    /\ binary' = [binary EXCEPT ![a] = TRUE]
    /\ UNCHANGED <<deletes, stray>>

InsertRow(a) ==
    /\ asset[a] \in {"put_brand", "put_inbound"}
    /\ asset' = [asset EXCEPT ![a] = IF @ = "put_brand" THEN "brand" ELSE "inbound"]
    /\ UNCHANGED <<binary, deletes, stray>>

(* The process died, or the insert failed: nothing removes the object.     *)
UploadBreaks(a) ==
    /\ asset[a] \in {"put_brand", "put_inbound"}
    /\ asset' = [asset EXCEPT ![a] = "gone"]
    /\ stray' = [stray EXCEPT ![a] = TRUE]
    /\ UNCHANGED <<binary, deletes>>

(* Mutant: only the row is deleted.                                        *)
KeepBinary(a) ==
    /\ Listed(a)
    /\ deletes[a] < MaxDeletes
    /\ deletes' = [deletes EXCEPT ![a] = @ + 1]
    /\ UNCHANGED <<asset, binary, stray>>

(* delete_asset, first half; an object store that refuses is only logged.  *)
RemoveBinary(a) ==
    /\ Listed(a)
    /\ deletes[a] < MaxDeletes
    /\ deletes' = [deletes EXCEPT ![a] = @ + 1]
    /\ \/ /\ binary' = [binary EXCEPT ![a] = FALSE]
          /\ UNCHANGED stray
       \/ /\ objectStorage
          /\ stray' = [stray EXCEPT ![a] = TRUE]
          /\ UNCHANGED binary
    /\ UNCHANGED asset

(* The second of two concurrent deletes finds no row, and is content.      *)
RemoveRow(a) ==
    /\ deletes[a] > 0
    /\ deletes' = [deletes EXCEPT ![a] = @ - 1]
    /\ asset' = [asset EXCEPT ![a] = "gone"]
    /\ UNCHANGED <<binary, stray>>

DeleteBreaks(a) ==
    /\ deletes[a] > 0
    /\ deletes' = [deletes EXCEPT ![a] = @ - 1]
    /\ stray' = [stray EXCEPT ![a] = TRUE]
    /\ UNCHANGED <<asset, binary>>

LibraryStep(a) ==
    \/ \E origin \in {"brand", "inbound"} : PutBinary(a, origin)
    \/ InsertRow(a)
    \/ UploadBreaks(a)
    \/ RemoveBinary(a)
    \/ RemoveRow(a)
    \/ DeleteBreaks(a)

-----------------------------------------------------------------------------
(* The order of the two writes (binary first on upload, binary first on    *)
(* delete): a row without its binary is being deleted, and a binary without*)
(* its row is being uploaded.  Only a crash, or an object store that       *)
(* refuses a delete, leaves either behind.                                 *)
LibraryConsistent ==
    \A a \in Assets :
        /\ Listed(a) /\ ~binary[a] => deletes[a] > 0 \/ stray[a]
        /\ binary[a] /\ ~Listed(a) =>
               asset[a] \in {"put_brand", "put_inbound"} \/ stray[a]
=============================================================================
