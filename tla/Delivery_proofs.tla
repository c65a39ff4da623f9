--------------------------- MODULE Delivery_proofs ---------------------------
(***************************************************************************)
(* Theorems about Delivery, for every number of jobs, assets, numbers and  *)
(* retries.  LibraryInv says what a crash may leave of an asset, JobInv    *)
(* relates the copies of a job to its attempts and to its doubts; with the *)
(* types they are inductive, and each step they allow is a step of         *)
(* SendChannel or leaves it alone.                                         *)
(***************************************************************************)
EXTENDS Delivery, SetLemmas

-----------------------------------------------------------------------------
(* The inductive invariants.                                               *)

(* An asset is written binary first and removed binary first.              *)
LibraryInv ==
    \A a \in Assets :
        /\ asset[a] = "none" => ~binary[a] /\ deletes[a] = 0
        /\ asset[a] \in {"put_brand", "put_inbound"} => binary[a] /\ deletes[a] = 0
        /\ Listed(a) /\ ~binary[a] => deletes[a] > 0 \/ stray[a]
        /\ deletes[a] > 0 /\ binary[a] => stray[a]
        /\ asset[a] = "gone" /\ binary[a] => stray[a]

(* Each attempt makes at most one copy, and reports its outcome or leaves  *)
(* a doubt.                                                                *)
JobInv ==
    \A j \in Jobs :
        /\ job[j] = "new" => tries[j] = 0
        /\ job[j] = "queued" => tries[j] <= MaxRetries
        /\ out[j] => job[j] = "sending" /\ copies[j] > 0
        /\ copies[j] <= tries[j] /\ doubts[j] <= tries[j]
        /\ job[j] \in {"fallback", "sending"} => doubts[j] < tries[j]
        /\ job[j] \in {"fallback", "sending"} /\ ~out[j] => copies[j] < tries[j]
        /\ copies[j] <= doubts[j] + 1
        /\ job[j] \in {"new", "queued", "fallback", "sending"} /\ ~out[j]
             => copies[j] <= doubts[j]

(* A default of the Cloud API has a CONNECTED number beside it, so a job   *)
(* that saw none and then this default was crossed by the connection, or   *)
(* its role hides the numbers.                                             *)
NumberInv ==
    /\ Connected = {} => defaultProvider # "cloud_api"
    /\ \A j \in Jobs :
         \/ role = "wa_app" \/ j \in crossed
         \/ /\ job[j] # "unarmed"
            /\ job[j] = "fallback" => defaultProvider # "cloud_api"

-----------------------------------------------------------------------------
(* The number a task picks.                                                *)

(* The least id _provider_for_workspace orders by exists.                  *)
LEMMA MinIsMember ==
    ASSUME NEW S \in SUBSET Nat, S # {}
    PROVE  Min(S) \in S
<1>1. \E x \in S : \A y \in S : x <= y
  BY LeastExists
<1> QED
  BY <1>1, Zenon DEF Min

(* Whatever the numbers' states, a task that sees one gets its provider.   *)
LEMMA ProviderType ==
    ASSUME TypeOK, VisibleNumbers # {}
    PROVE  number[Min(VisibleNumbers)].provider \in Providers
<1>1. VisibleNumbers \subseteq Numbers /\ VisibleNumbers \in SUBSET Nat
  BY DeliveryAssumption DEF DeliveryAssumption, Connected, VisibleNumbers
<1>2. Min(VisibleNumbers) \in Numbers
  BY <1>1, MinIsMember, Zenon
<1>3. \A n \in Numbers : number[n].provider \in Providers
  BY DEF TypeOK
<1> QED
  BY <1>2, <1>3, Zenon

-----------------------------------------------------------------------------
(* The media library.                                                      *)

(* Every half of an upload or a delete, and every fault, keeps the shape.  *)
LEMMA LibraryStepInv ==
    ASSUME LibraryTypeOK, LibraryInv, NEW a \in Assets, LibraryStep(a),
           UNCHANGED objectStorage
    PROVE  LibraryTypeOK' /\ LibraryInv'
<1> USE MediaLibraryAssumption DEF LibraryTypeOK, LibraryInv, Listed
<1>1. ASSUME NEW origin \in {"brand", "inbound"}, PutBinary(a, origin)
      PROVE  LibraryTypeOK' /\ LibraryInv'
  BY <1>1 DEF PutBinary, Put
<1>2. CASE InsertRow(a)
  BY <1>2 DEF InsertRow
<1>3. CASE UploadBreaks(a)
  BY <1>3 DEF UploadBreaks
<1>4. CASE RemoveBinary(a)
  <2>1. asset' = asset /\ deletes' = [deletes EXCEPT ![a] = @ + 1]
    BY <1>4 DEF RemoveBinary
  <2>2. Listed(a) /\ deletes[a] < MaxDeletes
    BY <1>4 DEF RemoveBinary
  <2>3. CASE binary' = [binary EXCEPT ![a] = FALSE] /\ stray' = stray
    BY <2>1, <2>2, <2>3
  <2>4. CASE stray' = [stray EXCEPT ![a] = TRUE] /\ binary' = binary
    BY <2>1, <2>2, <2>4
  <2> QED
    BY <1>4, <2>3, <2>4, Zenon DEF RemoveBinary
<1>5. CASE RemoveRow(a)
  BY <1>5 DEF RemoveRow
<1>6. CASE DeleteBreaks(a)
  BY <1>6 DEF DeleteBreaks
<1> QED
  BY <1>1, <1>2, <1>3, <1>4, <1>5, <1>6 DEF LibraryStep

(* The invariant says at least what the library promises.                  *)
LEMMA LibraryInvImpliesConsistent ==
    ASSUME LibraryTypeOK, LibraryInv
    PROVE  LibraryConsistent
  BY DEF LibraryTypeOK, LibraryInv, LibraryConsistent, Listed

-----------------------------------------------------------------------------
(* The jobs.                                                               *)

JobTypeOK ==
    /\ job \in [Jobs -> {"new", "queued", "fallback", "sending"} \cup Finished]
    /\ provider \in [Jobs -> Providers]
    /\ tries \in [Jobs -> 0..MaxRetries + 1]
    /\ out \in [Jobs -> BOOLEAN]
    /\ copies \in [Jobs -> 0..MaxRetries + 1]
    /\ doubts \in [Jobs -> 0..MaxRetries + 1]
    /\ crossed \subseteq Jobs

LEMMA EndInv ==
    ASSUME JobTypeOK, JobInv, NEW j \in Jobs,
           NEW state \in Finished, End(j, state),
           job[j] \in {"queued", "fallback", "sending"},
           state = "sent" \/ state = "lost" \/ ~out[j],
           UNCHANGED <<tries, doubts>>
    PROVE  JobTypeOK' /\ JobInv'
  BY DeliveryAssumption DEF DeliveryAssumption, JobTypeOK, JobInv, End, Finished

LEMMA RetryInv ==
    ASSUME JobTypeOK, JobInv, NEW j \in Jobs, Retry(j), job[j] = "sending",
           \/ ~out[j] /\ UNCHANGED doubts
           \/ out[j] /\ doubts' = [doubts EXCEPT ![j] = @ + 1]
    PROVE  JobTypeOK' /\ JobInv'
  BY DeliveryAssumption DEF DeliveryAssumption, JobTypeOK, JobInv, Retry, End, Finished

LEMMA JobStepInv ==
    ASSUME TypeOK, JobTypeOK, JobInv, NEW j \in Jobs,
           Enqueue(j) \/ JobStep(j) \/ WorkerKilled(j)
    PROVE  JobTypeOK' /\ JobInv'
<1> USE DeliveryAssumption DEF DeliveryAssumption
<1>1. CASE Enqueue(j)
  BY <1>1 DEF Enqueue, JobTypeOK, JobInv, Finished
<1>2. CASE AssetNotFound(j)
  BY <1>2, EndInv DEF AssetNotFound, JobInv, Finished
<1>3. CASE FileNotFound(j)
  BY <1>3, EndInv DEF FileNotFound, JobInv, Finished
<1>4. CASE FindNumber(j)
  <2> DEFINE p == number[Min(VisibleNumbers)].provider
  <2>1. p \in Providers
    BY <1>4, ProviderType DEF FindNumber
  <2>2. provider' = [provider EXCEPT ![j] = p]
    BY <1>4 DEF FindNumber
  <2> HIDE DEF p
  <2> QED
    BY <1>4, <2>1, <2>2 DEF FindNumber, BeginAttempt, JobTypeOK, JobInv, Finished
<1>12. CASE FindNone(j)
  BY <1>12 DEF FindNone, BeginAttempt, JobTypeOK, JobInv, Finished
<1>13. CASE FallBack(j)
  <2>1. CASE defaultProvider # "cloud_api"
    BY <1>13, <2>1 DEF FallBack, JobTypeOK, JobInv, Finished, TypeOK
  <2>2. CASE defaultProvider = "cloud_api"
    <3>1. End(j, "unarmed") /\ UNCHANGED <<tries, doubts>> /\ job[j] = "fallback"
      BY <1>13, <2>2 DEF FallBack
    <3>2. ~out[j]
      BY <3>1 DEF JobInv
    <3> QED
      BY <3>1, <3>2, EndInv DEF Finished
  <2> QED
    BY <2>1, <2>2
<1>5. CASE Transmit(j)
  BY <1>5 DEF Transmit, JobTypeOK, JobInv, Finished
<1>6. CASE Succeed(j)
  BY <1>6, EndInv DEF Succeed, Finished
<1>7. CASE AnswerUnreadable(j)
  BY <1>7 DEF AnswerUnreadable, End, JobTypeOK, JobInv, Finished
<1>8. CASE DownloadFails(j)
  BY <1>8, EndInv DEF DownloadFails, Finished
<1>9. CASE Refused(j)
  BY <1>9, RetryInv DEF Refused
<1>10. CASE TimesOut(j)
  BY <1>10, RetryInv DEF TimesOut
<1>11. CASE WorkerKilled(j)
  BY <1>11, EndInv DEF WorkerKilled, Finished
<1> QED
  BY <1>1, <1>2, <1>3, <1>4, <1>5, <1>6, <1>7, <1>8, <1>9, <1>10, <1>11, <1>12, <1>13
     DEF JobStep

-----------------------------------------------------------------------------
(* The numbers.                                                            *)

NumberTypeOK ==
    /\ role \in {"postgres", "wa_app"}
    /\ number \in [Numbers -> [provider : Providers,
                               status : {"NONE", "QR_PENDING", "CONNECTED"}]]
    /\ defaultProvider \in Providers

LEMMA ConnectNumberInv ==
    ASSUME NumberTypeOK, JobTypeOK, NumberInv,
           NEW n \in Numbers, NEW p \in Providers, ConnectNumber(n, p)
    PROVE  NumberTypeOK' /\ NumberInv' /\ crossed' \subseteq Jobs
<1> DEFINE row == [provider |-> p, status |-> StatusOnConnect(p)]
<1>1. row \in [provider : Providers, status : {"NONE", "QR_PENDING", "CONNECTED"}]
  BY DEF StatusOnConnect
<1>2. /\ number' = [number EXCEPT ![n] = row] /\ defaultProvider' = p
      /\ UNCHANGED <<role, job>>
  BY DEF ConnectNumber
<1>3. NumberTypeOK'
  BY <1>1, <1>2 DEF NumberTypeOK
<1>4. CASE p = "cloud_api"
  <2>1. number'[n].status = "CONNECTED"
    BY <1>2, <1>4 DEF NumberTypeOK, StatusOnConnect
  <2>2. crossed' = crossed \cup {j \in Jobs : job[j] = "fallback"}
    BY <1>4 DEF ConnectNumber
  <2>3. Connected' # {}
    BY <2>1 DEF Connected
  <2> QED
    BY <1>2, <1>3, <2>2, <2>3 DEF NumberInv, JobTypeOK
<1>5. CASE p # "cloud_api"
  <2>1. crossed' = crossed
    BY <1>5 DEF ConnectNumber
  <2> QED
    BY <1>2, <1>3, <1>5, <2>1 DEF NumberInv, JobTypeOK
<1> QED
  BY <1>4, <1>5

LEMMA PairedInv ==
    ASSUME NumberTypeOK, NumberInv, NEW n \in Numbers, Paired(n)
    PROVE  NumberTypeOK' /\ NumberInv'
<1>1. number'[n].status = "CONNECTED"
  BY DEF Paired, NumberTypeOK
<1>2. NumberTypeOK'
  BY DEF Paired, NumberTypeOK
<1>3. Connected' # {}
  BY <1>1 DEF Connected
<1>4. UNCHANGED <<role, defaultProvider, job, crossed>>
  BY DEF Paired, jobVars
<1> QED
  BY <1>2, <1>3, <1>4 DEF NumberInv

(* The reads of a job: none of them is stale unless it was crossed.        *)
LEMMA JobStepNumberInv ==
    ASSUME NumberTypeOK, JobTypeOK, NumberInv, NEW j \in Jobs,
           Enqueue(j) \/ JobStep(j) \/ WorkerKilled(j)
    PROVE  NumberInv'
<1>1. UNCHANGED numberVars
  BY DEF Enqueue, JobStep, WorkerKilled, AssetNotFound, FileNotFound, FindNumber, FindNone,
         BeginAttempt, FallBack, Transmit, Succeed, AnswerUnreadable, DownloadFails,
         Refused, TimesOut, Retry, End
<1>2. Connected' = Connected /\ role' = role /\ defaultProvider' = defaultProvider
  BY <1>1 DEF numberVars, Connected
<1>3. CASE FindNumber(j)
  BY <1>2, <1>3 DEF FindNumber, BeginAttempt, NumberInv, JobTypeOK
<1>4. CASE FindNone(j)
  <2>1. role = "wa_app" \/ Connected = {}
    BY <1>4 DEF FindNone, VisibleNumbers, NumberTypeOK
  <2>2. job' = [job EXCEPT ![j] = "fallback"] /\ crossed' = crossed \ {j}
    BY <1>4 DEF FindNone, BeginAttempt
  <2> QED
    BY <1>2, <2>1, <2>2 DEF NumberInv, JobTypeOK
<1>5. CASE FallBack(j)
  <2>1. CASE defaultProvider # "cloud_api"
    BY <1>2, <1>5, <2>1 DEF FallBack, NumberInv, JobTypeOK
  <2>2. CASE defaultProvider = "cloud_api"
    BY <1>2, <1>5, <2>2 DEF FallBack, End, NumberInv, JobTypeOK
  <2> QED
    BY <2>1, <2>2
<1>6. ASSUME NEW s \in {"queued", "sending", "sent", "failed", "missing", "lost"},
             job' = [job EXCEPT ![j] = s], crossed' = crossed
      PROVE  NumberInv'
  BY <1>2, <1>6 DEF NumberInv, JobTypeOK
<1>7. CASE Transmit(j)
  BY <1>2, <1>7 DEF Transmit, NumberInv
<1>8. CASE Enqueue(j)
  BY <1>6, <1>8 DEF Enqueue
<1>9. CASE Refused(j) \/ TimesOut(j)
  <2>1. Retry(j)
    BY <1>9 DEF Refused, TimesOut
  <2>2. CASE tries[j] <= MaxRetries
    BY <1>6, <2>1, <2>2 DEF Retry, End
  <2>3. CASE ~(tries[j] <= MaxRetries)
    BY <1>6, <2>1, <2>3 DEF Retry, End
  <2> QED
    BY <2>2, <2>3
<1>10. CASE AssetNotFound(j) \/ FileNotFound(j) \/ Succeed(j) \/ AnswerUnreadable(j)
              \/ DownloadFails(j) \/ WorkerKilled(j)
  BY <1>6, <1>10 DEF AssetNotFound, FileNotFound, Succeed, AnswerUnreadable,
                     DownloadFails, WorkerKilled, End
<1> QED
  BY <1>3, <1>4, <1>5, <1>7, <1>8, <1>9, <1>10 DEF JobStep

-----------------------------------------------------------------------------
(* The inductive invariant of the system.                                  *)

Inv == TypeOK /\ LibraryInv /\ JobInv /\ NumberInv

LEMMA TypeParts == TypeOK <=> LibraryTypeOK /\ NumberTypeOK /\ JobTypeOK
  BY DEF TypeOK, NumberTypeOK, JobTypeOK

LEMMA InitInv == Init => Inv
<1> SUFFICES ASSUME Init PROVE Inv
  OBVIOUS
<1> USE DeliveryAssumption, MediaLibraryAssumption
    DEF DeliveryAssumption, MediaLibraryAssumption
<1>1. LibraryTypeOK /\ LibraryInv
  BY DEF Init, LibraryInit, LibraryTypeOK, LibraryInv, Listed
<1>2. JobTypeOK /\ JobInv
  BY DEF Init, JobTypeOK, JobInv, Providers
<1>3. NumberTypeOK /\ NumberInv
  BY DEF Init, NumberTypeOK, NumberInv, Providers
<1> QED
  BY <1>1, <1>2, <1>3, TypeParts DEF Inv

LEMMA NextInv ==
    ASSUME Inv, [Next]_vars
    PROVE  Inv'
<1>1. LibraryTypeOK /\ LibraryInv /\ NumberTypeOK /\ NumberInv
        /\ TypeOK /\ JobTypeOK /\ JobInv
  BY TypeParts DEF Inv
<1>0. LibraryTypeOK' /\ NumberTypeOK' /\ JobTypeOK' => TypeOK'
  BY DEF TypeOK, NumberTypeOK, JobTypeOK
<1>2. UNCHANGED <<objectStorage, libraryVars>> => LibraryTypeOK' /\ LibraryInv'
  BY <1>1 DEF libraryVars, LibraryTypeOK, LibraryInv, Listed
<1>3. UNCHANGED numberVars => NumberTypeOK'
  BY <1>1 DEF numberVars, NumberTypeOK
<1>10. UNCHANGED <<numberVars, jobVars>> => NumberInv'
  BY <1>1 DEF numberVars, jobVars, NumberInv, Connected
<1>4. UNCHANGED jobVars => JobTypeOK' /\ JobInv'
  BY <1>1 DEF jobVars, JobTypeOK, JobInv
<1>5. ASSUME NEW j \in Jobs, Enqueue(j) \/ JobStep(j) \/ WorkerKilled(j)
      PROVE  Inv'
  <2>1. JobTypeOK' /\ JobInv'
    BY <1>1, <1>5, JobStepInv
  <2>2. UNCHANGED <<objectStorage, libraryVars, numberVars>>
    BY <1>5 DEF Enqueue, JobStep, WorkerKilled, AssetNotFound, FileNotFound, FindNumber,
                FindNone, BeginAttempt, FallBack, Transmit, Succeed, AnswerUnreadable,
                DownloadFails, Refused, TimesOut, Retry, End
  <2>3. NumberInv'
    BY <1>1, <1>5, JobStepNumberInv
  <2> QED
    BY <1>2, <1>3, <2>1, <2>2, <2>3, <1>0 DEF Inv
<1>6. ASSUME NEW a \in Assets, Library(a)
      PROVE  Inv'
  BY <1>1, <1>3, <1>4, <1>6, <1>10, LibraryStepInv, <1>0 DEF Inv, Library
<1>7. ASSUME NEW n \in Numbers, NEW p \in Providers, ConnectNumber(n, p)
      PROVE  Inv'
  <2>1. NumberTypeOK' /\ NumberInv' /\ crossed' \subseteq Jobs
    BY <1>1, <1>7, ConnectNumberInv
  <2>2. UNCHANGED <<job, provider, tries, out, copies, doubts>>
    BY <1>7 DEF ConnectNumber
  <2>3. JobTypeOK' /\ JobInv'
    BY <1>1, <2>1, <2>2 DEF JobTypeOK, JobInv
  <2> QED
    BY <1>2, <1>7, <2>1, <2>3, <1>0 DEF Inv, ConnectNumber
<1>8. ASSUME NEW n \in Numbers, Paired(n)
      PROVE  Inv'
  BY <1>1, <1>2, <1>4, <1>8, PairedInv, <1>0 DEF Inv, Paired
<1>9. CASE UNCHANGED vars
  BY <1>2, <1>3, <1>4, <1>9, <1>10, <1>0 DEF Inv, vars
<1> QED
  BY <1>5, <1>6, <1>7, <1>8, <1>9 DEF Next

LEMMA Invariance == Spec => []Inv
  BY InitInv, NextInv, PTL DEF Spec

-----------------------------------------------------------------------------
(* The theorems.                                                           *)

(* The state of the tasks, the library and the numbers keeps its type:     *)
(* attempts, copies and doubts stay within MaxRetries + 1.                 *)
THEOREM TypeCorrect == Spec => []TypeOK
<1>1. Inv => TypeOK
  BY DEF Inv
<1> QED
  BY <1>1, Invariance, PTL

(* services/media.py: a row without its binary, or a binary without its    *)
(* row, is in the hands of a request or was left by a fault.               *)
THEOREM LibraryIsConsistent == Spec => []LibraryConsistent
<1>1. Inv => LibraryConsistent
  BY LibraryInvImpliesConsistent, TypeParts DEF Inv
<1> QED
  BY <1>1, Invariance, PTL

(* tasks/whatsapp_tasks.py: a second copy of a message leaves only when an *)
(* earlier attempt had to give up without knowing its outcome.             *)
THEOREM DuplicatesComeFromDoubt == Spec => []DuplicatesNeedDoubt
<1>1. Inv => DuplicatesNeedDoubt
  BY DEF Inv, JobInv, DuplicatesNeedDoubt
<1> QED
  BY <1>1, Invariance, PTL

(* _provider_for_workspace: a message is lost for want of credentials only *)
(* where row-level security hides the numbers, or when a Cloud API number  *)
(* was connected between the two queries of its last attempt.              *)
THEOREM UnarmedIsCrossed == Spec => []UnarmedNeedsCrossing
<1>1. Inv => UnarmedNeedsCrossing
  BY DEF Inv, NumberInv, UnarmedNeedsCrossing
<1> QED
  BY <1>1, Invariance, PTL

-----------------------------------------------------------------------------
(* The refinement of SendChannel.                                          *)

Status == [j \in Jobs |-> ChannelStatus(j)]

(* One job changes its state, and so may its status.                       *)
LEMMA StatusStep ==
    ASSUME JobTypeOK, NEW j \in Jobs, NEW state, job' = [job EXCEPT ![j] = state]
    PROVE  /\ Status' = [Status EXCEPT ![j] = ChannelStatus(j)']
           /\ ChannelStatus(j) = ChannelStatus(j)' => Status' = Status
<1>1. \A i \in Jobs \ {j} : job'[i] = job[i]
  BY DEF JobTypeOK
<1>2. \A i \in Jobs \ {j} : ChannelStatus(i)' = ChannelStatus(i)
  BY <1>1 DEF ChannelStatus
<1>3. Status' = [Status EXCEPT ![j] = ChannelStatus(j)']
  BY <1>2 DEF Status
<1> QED
  BY <1>3 DEF Status

LEMMA SameStatus ==
    ASSUME UNCHANGED job
    PROVE  Status' = Status
  BY DEF Status, ChannelStatus

(* Every way a job can end is a report the channel may make.               *)
LEMMA EndIsReport ==
    ASSUME JobTypeOK, JobInv, NEW j \in Jobs, NEW state \in Finished,
           End(j, state), job[j] \in {"queued", "fallback", "sending"},
           state = "sent" => out[j]
    PROVE  SC!Next
<1>1. job' = [job EXCEPT ![j] = state] /\ copies' = copies
  BY DEF End
<1>2. Status[j] = "accepted"
  BY DEF Status, ChannelStatus
<1>3. job'[j] = state
  BY <1>1 DEF JobTypeOK
<1>4. Status' = [Status EXCEPT ![j] = ChannelStatus(j)']
  BY <1>1, StatusStep
<1>5. CASE state = "sent"
  <2>1. copies[j] > 0
    BY <1>5 DEF JobInv
  <2>2. ChannelStatus(j)' = "sent"
    BY <1>3, <1>5 DEF ChannelStatus
  <2> QED
    BY <1>1, <1>2, <1>4, <2>1, <2>2 DEF SC!Next, SC!ReportSent, Status
<1>6. CASE state = "lost"
  <2>1. ChannelStatus(j)' = "lost"
    BY <1>3, <1>6 DEF ChannelStatus
  <2> QED
    BY <1>1, <1>2, <1>4, <2>1 DEF SC!Next, SC!Lose, Status
<1>7. CASE state \in {"failed", "missing", "unarmed"}
  <2>1. ChannelStatus(j)' = "failed"
    BY <1>3, <1>7 DEF ChannelStatus
  <2> QED
    BY <1>1, <1>2, <1>4, <2>1 DEF SC!Next, SC!ReportFailed, Status
<1> QED
  BY <1>5, <1>6, <1>7 DEF Finished

(* A retry within the budget shows nothing; the last one is a failure.     *)
LEMMA RetryIsReportOrStutter ==
    ASSUME JobTypeOK, JobInv, NEW j \in Jobs, Retry(j), job[j] = "sending"
    PROVE  SC!Next \/ (Status' = Status /\ copies' = copies)
<1>1. CASE tries[j] <= MaxRetries
  <2>1. job' = [job EXCEPT ![j] = "queued"] /\ copies' = copies
    BY <1>1 DEF Retry, End
  <2>2. ChannelStatus(j) = "accepted" /\ ChannelStatus(j)' = "accepted"
    BY <2>1 DEF ChannelStatus, JobTypeOK
  <2> QED
    BY <2>1, <2>2, StatusStep
<1>2. CASE ~(tries[j] <= MaxRetries)
  <2>1. End(j, "failed")
    BY <1>2 DEF Retry, End
  <2> QED
    BY <2>1, EndIsReport DEF Finished
<1> QED
  BY <1>1, <1>2

(* Every step of a job is a step of the channel, or shows nothing.         *)
LEMMA JobStepIsChannelStep ==
    ASSUME JobTypeOK, JobInv, NEW j \in Jobs,
           Enqueue(j) \/ JobStep(j) \/ WorkerKilled(j)
    PROVE  SC!Next \/ (Status' = Status /\ copies' = copies)
<1> USE DEF Finished
<1>1. CASE Enqueue(j)
  <2>1. job' = [job EXCEPT ![j] = "queued"] /\ copies' = copies /\ job[j] = "new"
    BY <1>1 DEF Enqueue
  <2>2. ChannelStatus(j) = "new" /\ ChannelStatus(j)' = "accepted"
    BY <2>1 DEF ChannelStatus, JobTypeOK
  <2>3. Status' = [Status EXCEPT ![j] = "accepted"]
    BY <2>1, <2>2, StatusStep
  <2> QED
    BY <2>1, <2>2, <2>3 DEF SC!Next, SC!Accept, Status
<1>2. CASE AssetNotFound(j)
  BY <1>2, EndIsReport DEF AssetNotFound
<1>3. CASE FileNotFound(j)
  BY <1>3, EndIsReport DEF FileNotFound
<1>4. ASSUME NEW s \in {"fallback", "sending"}, job' = [job EXCEPT ![j] = s],
             copies' = copies, job[j] \in {"queued", "fallback"}
      PROVE  Status' = Status /\ copies' = copies
  <2>1. ChannelStatus(j) = "accepted" /\ ChannelStatus(j)' = "accepted"
    BY <1>4 DEF ChannelStatus, JobTypeOK
  <2> QED
    BY <1>4, <2>1, StatusStep
<1>12. CASE FindNumber(j)
  BY <1>4, <1>12 DEF FindNumber, BeginAttempt
<1>13. CASE FindNone(j)
  BY <1>4, <1>13 DEF FindNone, BeginAttempt
<1>14. CASE FallBack(j)
  <2>1. CASE defaultProvider # "cloud_api"
    BY <1>4, <1>14, <2>1 DEF FallBack
  <2>2. CASE defaultProvider = "cloud_api"
    BY <1>14, <2>2, EndIsReport DEF FallBack
  <2> QED
    BY <2>1, <2>2
<1>5. CASE Transmit(j)
  <2>1. job' = job /\ copies' = [copies EXCEPT ![j] = @ + 1]
    BY <1>5 DEF Transmit
  <2>2. Status[j] = "accepted"
    BY <1>5 DEF Transmit, Status, ChannelStatus
  <2>3. copies[j] < MaxRetries + 1
    BY <1>5, DeliveryAssumption DEF DeliveryAssumption, Transmit, JobInv, JobTypeOK
  <2> QED
    BY <2>1, <2>2, <2>3, SameStatus DEF SC!Next, SC!Transmit, Status
<1>6. CASE Succeed(j)
  BY <1>6, EndIsReport DEF Succeed
<1>7. CASE AnswerUnreadable(j)
  BY <1>7, EndIsReport DEF AnswerUnreadable
<1>8. CASE DownloadFails(j)
  BY <1>8, EndIsReport DEF DownloadFails
<1>9. CASE Refused(j)
  BY <1>9, RetryIsReportOrStutter DEF Refused
<1>10. CASE TimesOut(j)
  BY <1>10, RetryIsReportOrStutter DEF TimesOut
<1>11. CASE WorkerKilled(j)
  BY <1>11, EndIsReport DEF WorkerKilled
<1> QED
  BY <1>1, <1>2, <1>3, <1>5, <1>6, <1>7, <1>8, <1>9, <1>10, <1>11, <1>12, <1>13, <1>14
     DEF JobStep

LEMMA InitIsChannelInit == Init => SC!Init
  BY DEF Init, SC!Init, ChannelStatus

LEMMA NextIsChannelNext ==
    ASSUME Inv, [Next]_vars
    PROVE  [SC!Next]_(SC!channelVars)
<1>1. JobTypeOK /\ JobInv
  BY TypeParts DEF Inv
<1>3. CASE \E j \in Jobs : Enqueue(j) \/ JobStep(j) \/ WorkerKilled(j)
  BY <1>1, <1>3, JobStepIsChannelStep DEF SC!channelVars, Status
<1>4. CASE UNCHANGED <<job, copies>>
  BY <1>4, SameStatus DEF SC!channelVars, Status
<1> QED
  BY <1>3, <1>4 DEF Next, vars, jobVars, Library, Paired, ConnectNumber

(* The tasks implement the channel their callers rely on.                  *)
THEOREM TasksImplementChannel == Spec => ImplementsSendChannel
  BY InitInv, NextInv, InitIsChannelInit, NextIsChannelNext, PTL
     DEF Spec, ImplementsSendChannel, SC!Spec
=============================================================================
