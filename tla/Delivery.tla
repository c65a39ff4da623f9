------------------------------ MODULE Delivery ------------------------------
(***************************************************************************)
(* The Celery tasks that send (tasks/whatsapp_tasks.py) through the        *)
(* provider of the tenant's number (messaging/), with the media library    *)
(* they read and the numbers that onboarding adds (endpoints/onboarding).  *)
(*                                                                         *)
(* An attempt has four moments: the task reads its asset and looks for a   *)
(* CONNECTED number (FindNumber, FindNone); if it found none it reads the  *)
(* tenant's default provider in a second query (FallBack); a copy may      *)
(* leave (Transmit); the provider answers, or its timeout does, and the    *)
(* task ends or is retried.  A task retries on RuntimeError only, and      *)
(* starts again from the top, provider included.                           *)
(*                                                                         *)
(* The provider is looked up in a session without a tenant setting: under  *)
(* the role wa_app row-level security hides the numbers from it, and not   *)
(* the workspace.  Temporary files are left out: they are removed after    *)
(* each answer and read by no other attempt.                               *)
(***************************************************************************)
EXTENDS MediaLibrary, FiniteSets, FiniteSetsExt

CONSTANTS
    Jobs,           \* send jobs: those of MediaJobs send an asset, the others a text
    MediaJobs,
    AssetOf,        \* the asset of each media job
    Numbers,        \* ids of wa_numbers rows, ordered
    MaxRetries,     \* max_retries of both tasks (3)
    Faults          \* of FaultKinds

FaultKinds == {"timeout", "refusal", "worker_kill", "bad_answer", "download_error"}

ASSUME DeliveryAssumption ==
    /\ MediaJobs \subseteq Jobs
    /\ AssetOf \in [MediaJobs -> Assets]
    /\ Numbers \subseteq Nat /\ IsFiniteSet(Numbers)
    /\ MaxRetries \in Nat
    /\ Faults \subseteq FaultKinds

VARIABLES
    role,           \* the database role of the deployment
    number,         \* wa_numbers: provider and status of each row
    defaultProvider, \* workspaces.default_provider
    job,            \* where each job is
    provider,       \* the provider the current attempt chose
    tries,          \* attempts begun
    out,            \* the current attempt's copy has left
    copies,         \* history: copies that left
    doubts,         \* history: attempts reported failed whose copy had left
    crossed         \* history: jobs between whose two queries a Cloud API
                    \* number was connected, in their last attempt

numberVars == <<role, number, defaultProvider>>
jobVars == <<job, provider, tries, out, copies, doubts, crossed>>
vars == <<objectStorage, libraryVars, numberVars, jobVars>>

Providers == {"wacli", "whatsmeow", "cloud_api"}

Finished == {"sent", "failed", "missing", "unarmed", "lost"}

TypeOK ==
    /\ LibraryTypeOK
    /\ role \in {"postgres", "wa_app"}
    /\ number \in [Numbers -> [provider : Providers,
                               status : {"NONE", "QR_PENDING", "CONNECTED"}]]
    /\ defaultProvider \in Providers
    /\ job \in [Jobs -> {"new", "queued", "fallback", "sending"} \cup Finished]
    /\ provider \in [Jobs -> Providers]
    /\ tries \in [Jobs -> 0..MaxRetries + 1]
    /\ out \in [Jobs -> BOOLEAN]
    /\ copies \in [Jobs -> 0..MaxRetries + 1]
    /\ doubts \in [Jobs -> 0..MaxRetries + 1]
    /\ crossed \subseteq Jobs

Init ==
    /\ LibraryInit
    /\ role \in {"postgres", "wa_app"}
    /\ number = [n \in Numbers |-> [provider |-> "wacli", status |-> "NONE"]]
    /\ defaultProvider = "wacli"
    /\ job = [j \in Jobs |-> "new"]
    /\ provider = [j \in Jobs |-> "wacli"]
    /\ tries = [j \in Jobs |-> 0]
    /\ out = [j \in Jobs |-> FALSE]
    /\ copies = [j \in Jobs |-> 0]
    /\ doubts = [j \in Jobs |-> 0]
    /\ crossed = {}

-----------------------------------------------------------------------------
(* Numbers.  No code removes one or takes CONNECTED back.                  *)

(* Mutant: every number has to be paired first.                            *)
AlwaysPending(p) == "QR_PENDING"

StatusOnConnect(p) == IF p = "cloud_api" THEN "CONNECTED" ELSE "QR_PENDING"

ConnectNumber(n, p) ==
    /\ number[n].status = "NONE"
    /\ number' = [number EXCEPT ![n] = [provider |-> p, status |-> StatusOnConnect(p)]]
    /\ defaultProvider' = p
    /\ crossed' = IF p = "cloud_api" THEN crossed \cup {j \in Jobs : job[j] = "fallback"}
                  ELSE crossed
    /\ UNCHANGED <<objectStorage, libraryVars, role, job, provider, tries, out, copies,
                   doubts>>

Paired(n) ==
    /\ number[n].status = "QR_PENDING"
    /\ number' = [number EXCEPT ![n].status = "CONNECTED"]
    /\ UNCHANGED <<objectStorage, libraryVars, role, defaultProvider, jobVars>>

Connected == {n \in Numbers : number[n].status = "CONNECTED"}

(* The first query of _provider_for_workspace, under row-level security.   *)
VisibleNumbers == IF role = "postgres" THEN Connected ELSE {}

-----------------------------------------------------------------------------
(* A job.                                                                  *)

(* The agent and the console queue an asset they have seen listed.         *)
Enqueue(j) ==
    /\ job[j] = "new"
    /\ j \in MediaJobs => Listed(AssetOf[j])
    /\ job' = [job EXCEPT ![j] = "queued"]
    /\ UNCHANGED <<objectStorage, libraryVars, numberVars, provider, tries, out,
                   copies, doubts, crossed>>

End(j, state) ==
    /\ job' = [job EXCEPT ![j] = state]
    /\ out' = [out EXCEPT ![j] = FALSE]
    /\ UNCHANGED <<objectStorage, libraryVars, numberVars, provider, copies, crossed>>

(* asset_not_found is a return, not an error: no retry.                    *)
AssetNotFound(j) ==
    /\ job[j] = "queued"
    /\ j \in MediaJobs
    /\ ~Listed(AssetOf[j])
    /\ End(j, "missing")
    /\ UNCHANGED <<tries, doubts>>

(* resolve_outgoing_media reads the local file: FileNotFoundError.         *)
FileNotFound(j) ==
    /\ job[j] = "queued"
    /\ j \in MediaJobs
    /\ Listed(AssetOf[j])
    /\ ~objectStorage
    /\ ~binary[AssetOf[j]]
    /\ End(j, "failed")
    /\ UNCHANGED <<tries, doubts>>

(* What both answers to the first query have in common.                    *)
BeginAttempt(j) ==
    /\ job[j] = "queued"
    /\ j \in MediaJobs => /\ Listed(AssetOf[j])
                          /\ objectStorage \/ binary[AssetOf[j]]
    /\ tries' = [tries EXCEPT ![j] = @ + 1]
    /\ crossed' = crossed \ {j}
    /\ UNCHANGED <<objectStorage, libraryVars, numberVars, out, copies, doubts>>

FindNumber(j) ==
    /\ BeginAttempt(j)
    /\ VisibleNumbers # {}
    /\ provider' = [provider EXCEPT ![j] = number[Min(VisibleNumbers)].provider]
    /\ job' = [job EXCEPT ![j] = "sending"]

FindNone(j) ==
    /\ BeginAttempt(j)
    /\ VisibleNumbers = {}
    /\ job' = [job EXCEPT ![j] = "fallback"]
    /\ UNCHANGED provider

(* The second query, and get_provider on what stands in for a number.  It  *)
(* has no phone_number_id, which the Cloud API provider is made with: the  *)
(* AttributeError is no RuntimeError, and the job ends without a retry.    *)
FallBack(j) ==
    /\ job[j] = "fallback"
    /\ \/ /\ defaultProvider # "cloud_api"
          /\ provider' = [provider EXCEPT ![j] = defaultProvider]
          /\ job' = [job EXCEPT ![j] = "sending"]
          /\ UNCHANGED <<objectStorage, libraryVars, numberVars, tries, out, copies,
                         doubts, crossed>>
       \/ /\ defaultProvider = "cloud_api"
          /\ End(j, "unarmed")
          /\ UNCHANGED <<tries, doubts>>

(* Whether the provider can transmit an asset at all.  The gateway has no  *)
(* /api/send-image; the Cloud API needs a link, which only object storage  *)
(* gives; the CLI sends the local file, or what it could download.         *)
GatewayCanSend(a) == FALSE

CloudApiCanSend(a) == objectStorage

CLICanSend(a) == objectStorage => binary[a]

CanTransmit(j) ==
    j \in MediaJobs =>
        CASE provider[j] = "whatsmeow" -> GatewayCanSend(AssetOf[j])
          [] provider[j] = "cloud_api" -> CloudApiCanSend(AssetOf[j])
          [] provider[j] = "wacli"     -> CLICanSend(AssetOf[j])

(* Mutant: an answer that never came is asked for again at once.           *)
TransmitAgain(j) ==
    /\ job[j] = "sending"
    /\ CanTransmit(j)
    /\ copies[j] <= MaxRetries
    /\ copies' = [copies EXCEPT ![j] = @ + 1]
    /\ out' = [out EXCEPT ![j] = TRUE]
    /\ UNCHANGED <<objectStorage, libraryVars, numberVars, job, provider, tries, doubts,
                   crossed>>

Transmit(j) ==
    /\ job[j] = "sending"
    /\ ~out[j]
    /\ CanTransmit(j)
    /\ copies' = [copies EXCEPT ![j] = @ + 1]
    /\ out' = [out EXCEPT ![j] = TRUE]
    /\ UNCHANGED <<objectStorage, libraryVars, numberVars, job, provider, tries, doubts,
                   crossed>>

(* Mutant: exit code 0 is success, whatever "sent" says in the output.     *)
BelieveExitCode(j) ==
    /\ job[j] = "sending"
    /\ End(j, "sent")
    /\ UNCHANGED <<tries, doubts>>

Succeed(j) ==
    /\ job[j] = "sending"
    /\ out[j]
    /\ provider[j] # "whatsmeow"
    /\ End(j, "sent")
    /\ UNCHANGED <<tries, doubts>>

(* The gateway answers "Message sent to ..." as plain text, and a proxy    *)
(* before the Cloud API may too: res.json() raises ValueError, which is    *)
(* neither caught nor retried.                                             *)
AnswerUnreadable(j) ==
    /\ job[j] = "sending"
    /\ out[j]
    /\ \/ provider[j] = "whatsmeow"
       \/ provider[j] = "cloud_api" /\ "bad_answer" \in Faults
    /\ End(j, "failed")
    /\ doubts' = [doubts EXCEPT ![j] = @ + 1]
    /\ UNCHANGED tries

(* _download_to_temp raises an httpx error, of a missing object always and *)
(* of a failing download of one that exists: no RuntimeError either.       *)
DownloadFails(j) ==
    /\ job[j] = "sending"
    /\ ~out[j]
    /\ j \in MediaJobs
    /\ provider[j] = "wacli"
    /\ objectStorage
    /\ ~binary[AssetOf[j]] \/ "download_error" \in Faults
    /\ End(j, "failed")
    /\ UNCHANGED <<tries, doubts>>

(* Mutant: max_retries compared one too late.                              *)
RetryOnceMore(j) ==
    /\ End(j, IF tries[j] <= MaxRetries + 1 THEN "queued" ELSE "failed")
    /\ UNCHANGED tries

(* Mutant: attempts are not counted.                                       *)
RetryForever(j) == End(j, "queued") /\ tries' = [tries EXCEPT ![j] = 0]

(* success=False becomes RuntimeError, which Celery retries.               *)
Retry(j) ==
    /\ End(j, IF tries[j] <= MaxRetries THEN "queued" ELSE "failed")
    /\ UNCHANGED tries

(* The provider refused, or cannot send this at all; nothing left.         *)
Refused(j) ==
    /\ job[j] = "sending"
    /\ ~out[j]
    /\ "refusal" \in Faults \/ ~CanTransmit(j)
    /\ Retry(j)
    /\ UNCHANGED doubts

(* The subprocess or HTTP timeout expired after a copy had left.           *)
TimesOut(j) ==
    /\ "timeout" \in Faults
    /\ job[j] = "sending"
    /\ out[j]
    /\ Retry(j)
    /\ doubts' = [doubts EXCEPT ![j] = @ + 1]

(* Acknowledged at its start: the job of a killed worker is gone.          *)
WorkerKilled(j) ==
    /\ "worker_kill" \in Faults
    /\ job[j] \in {"fallback", "sending"}
    /\ End(j, "lost")
    /\ UNCHANGED <<tries, doubts>>

JobStep(j) ==
    \/ AssetNotFound(j)
    \/ FileNotFound(j)
    \/ FindNumber(j)
    \/ FindNone(j)
    \/ FallBack(j)
    \/ Transmit(j)
    \/ Succeed(j)
    \/ AnswerUnreadable(j)
    \/ DownloadFails(j)
    \/ Refused(j)
    \/ TimesOut(j)

Library(a) ==
    LibraryStep(a) /\ UNCHANGED <<objectStorage, numberVars, jobVars>>

Next ==
    \/ \E j \in Jobs : Enqueue(j) \/ JobStep(j) \/ WorkerKilled(j)
    \/ \E a \in Assets : Library(a)
    \/ \E n \in Numbers : Paired(n) \/ \E p \in Providers : ConnectNumber(n, p)

Spec == Init /\ [][Next]_vars

(* Workers run what is queued, and every provider call has a timeout.      *)
FairSpec == Spec /\ \A j \in Jobs : WF_vars(JobStep(j))

-----------------------------------------------------------------------------
(* Properties.                                                             *)

(* The tasks implement the channel their callers rely on: retries, changes *)
(* of provider, missing assets and killed workers included, there are at   *)
(* most MaxRetries + 1 copies, "sent" is said only of a message that left, *)
(* and nothing leaves after the report.                                    *)
ChannelStatus(j) ==
    CASE job[j] = "new"                  -> "new"
      [] job[j] \in {"queued", "fallback", "sending"} -> "accepted"
      [] job[j] \in {"failed", "missing", "unarmed"}  -> "failed"
      [] OTHER                           -> job[j]

SC == INSTANCE SendChannel WITH
        MaxCopies <- MaxRetries + 1,
        status <- [j \in Jobs |-> ChannelStatus(j)]

ImplementsSendChannel == SC!Spec

(* A contact gets a second copy only of a message some attempt had to give *)
(* up in doubt: an attempt that knew its outcome is never repeated.        *)
DuplicatesNeedDoubt ==
    \A j \in Jobs : copies[j] <= doubts[j] + 1

(* The fallback of _provider_for_workspace has no credentials for the      *)
(* Cloud API.  A message is lost to that only if the role hides the        *)
(* numbers, or a Cloud API number was connected between the two queries of *)
(* the very attempt that failed: at any other time the default names that  *)
(* provider only while a number of it, or another, is CONNECTED.           *)
UnarmedNeedsCrossing ==
    \A j \in Jobs : job[j] = "unarmed" => role = "wa_app" \/ j \in crossed

(* Every queued job ends, with a report or with its worker.                *)
EveryJobEnds ==
    \A j \in Jobs : job[j] = "queued" ~> job[j] \in Finished
=============================================================================
