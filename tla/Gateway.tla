------------------------------- MODULE Gateway -------------------------------
(***************************************************************************)
(* Linking a tenant's WhatsApp number: the Go gateway (go-gateway/main.go) *)
(* keeps one whatsmeow client per workspace and tells the backend about it *)
(* through the whatsapp_sessions row; the onboarding page polls get_qr     *)
(* (api/endpoints/onboarding.py), the console has connect and logout       *)
(* (api/endpoints/mvp.py).                                                 *)
(*                                                                         *)
(* The gateway's events and writes run in goroutines, each an UPDATE of    *)
(* its own, in any order; startSession runs under the manager's lock, over *)
(* the connection it makes, but reconnects a client that has an identity   *)
(* in a goroutine that runs when the lock is free again.  get_qr is a      *)
(* coroutine that calls the gateway synchronously, at most 5 s: a poll is  *)
(* cut after that call.                                                    *)
(*                                                                         *)
(* A bound: of the clients that were replaced while their reconnection was *)
(* pending, one at a time is followed (former).                            *)
(***************************************************************************)
EXTENDS Naturals, FiniteSets

CONSTANTS
    MaxStarts,      \* bound: start requests waiting at the gateway
    MaxDevices      \* bound: devices linked for the workspace

ASSUME GatewayAssumption ==
    /\ MaxStarts \in Nat
    /\ MaxDevices \in Nat

VARIABLES
    session,        \* the whatsapp_sessions row
    number,         \* the status of the first wa_numbers row; "CLOUD" is the
                    \* CONNECTED of a Cloud API number
    poll,           \* the poll that is waiting for the gateway
    shown,          \* the status the onboarding page shows
    starts,         \* start requests waiting for the lock
    starting,       \* what the startSession that has the lock is connecting
    client,         \* the client in the manager's map
    dialing,        \* a goroutine of startSession has yet to reconnect it
    former,         \* the replaced client whose reconnection was pending
    sockets,        \* its and other clients' open websockets
    writes,         \* updates the gateway's goroutines have yet to make
    send,           \* a request to send a text: none, waiting for the lock, or sent
    devices,        \* devices linked for this workspace, in whatsmeow's store
    saved,          \* whatsapp_jid names the one the client uses
    vouched,        \* history: somebody scanned a code, or a start found an
                    \* unpaired client connected
    estranged       \* history: the gateway stopped before it saved a device's
                    \* JID, or a start could not read one that was saved

backend == <<session, number, poll, shown>>
clients == <<client, dialing, former, sockets>>
gateway == <<starts, starting, clients, writes, send, devices, saved>>
history == <<vouched, estranged>>
vars == <<backend, gateway, history>>

NoRow == [status |-> "none", qr |-> FALSE]

(* A code stands in the row only while it waits for the scan.              *)
SessionRow ==
    {NoRow}
      \cup [status : {"UNCONFIGURED", "CONNECTED", "DISCONNECTED"}, qr : {FALSE}]
      \cup [status : {"QR_PENDING"}, qr : BOOLEAN]

(* Without an identity: showing codes, down, up without a QR channel.      *)
(* With one: up and down.                                                  *)
ClientState == {"none", "open", "closed", "mute", "online", "offline"}

(* client.IsConnected()                                                    *)
IsConnected == client \in {"open", "mute", "online"}

(* The updates a goroutine may have to make.                               *)
Updates == {"code", "connected", "unconfigured", "jid"}

BackendOK ==
    /\ session \in SessionRow
    /\ number \in {"none", "QR_PENDING", "CONNECTED", "CLOUD"}
    /\ poll \in {"idle", "kicked"}
    /\ shown \in {"nothing", "QR_PENDING", "CONNECTED"}

GatewayOK ==
    /\ starts \in 0..MaxStarts
    /\ starting \in {"nothing", "new", "saved"}
    /\ client \in ClientState
    /\ dialing \in BOOLEAN
    /\ former \in {"none", "dialing", "up"}
    /\ sockets \in Nat
    /\ writes \subseteq Updates
    /\ send \in {"none", "waiting", "sending"}
    /\ devices \in 0..MaxDevices
    /\ saved \in BOOLEAN

HistoryOK ==
    /\ vouched \in BOOLEAN
    /\ estranged \in BOOLEAN

TypeOK == BackendOK /\ GatewayOK /\ HistoryOK

Init ==
    /\ session = NoRow
    /\ number = "none"
    /\ poll = "idle"
    /\ shown = "nothing"
    /\ starts = 0
    /\ starting = "nothing"
    /\ client = "none"
    /\ dialing = FALSE
    /\ former = "none"
    /\ sockets = 0
    /\ writes = {}
    /\ send = "none"
    /\ devices = 0
    /\ saved = FALSE
    /\ vouched = FALSE
    /\ estranged = FALSE

-----------------------------------------------------------------------------
(* The backend.                                                            *)

(* The gateway may not be there to take the request.                       *)
Kick == starts' \in {starts, starts + 1} /\ starts' <= MaxStarts

(* _ensure_workspace: every endpoint of the console makes the row.         *)
EnsureSession ==
    /\ session = NoRow
    /\ session' = [status |-> "UNCONFIGURED", qr |-> FALSE]
    /\ UNCHANGED <<number, poll, shown, gateway, history>>

(* auth_connect, and the fetch of the groups without the first two lines.  *)
AuthConnect ==
    /\ session # NoRow
    /\ session' = [session EXCEPT !.status = "QR_PENDING"]
    /\ Kick
    /\ UNCHANGED <<number, poll, shown, starting, clients, writes, send, devices,
                   saved, history>>

(* The gateway is not told.                                                *)
AuthLogout ==
    /\ session # NoRow
    /\ session' = [status |-> "DISCONNECTED", qr |-> FALSE]
    /\ UNCHANGED <<number, poll, shown, gateway, history>>

(* list_groups at the gateway starts the session when it is not connected. *)
DiscoverGroups ==
    /\ session # NoRow
    /\ ~IsConnected
    /\ Kick
    /\ UNCHANGED <<backend, starting, clients, writes, send, devices, saved, history>>

(* A wacli or whatsmeow number; a Cloud API number has nothing to link.    *)
ConnectNumber ==
    /\ number = "none"
    /\ number' \in {"QR_PENDING", "CLOUD"}
    /\ UNCHANGED <<session, poll, shown, gateway, history>>

(* get_qr_status for a tenant without a number: make one, kick.            *)
Provision ==
    /\ poll = "idle"
    /\ number = "none"
    /\ number' = "QR_PENDING"
    /\ poll' = "kicked"
    /\ Kick
    /\ UNCHANGED <<session, shown, starting, clients, writes, send, devices, saved,
                   history>>

(* The rest of it: merge the two statuses, kick when there is no code.     *)
Merged ==
    IF session.status = "CONNECTED" THEN "CONNECTED"
    ELSE IF session.status # "QR_PENDING" /\ number \in {"CONNECTED", "CLOUD"} THEN "CONNECTED"
    ELSE "QR_PENDING"

PollQR ==
    /\ poll = "kicked" \/ number # "none"
    /\ shown' = Merged
    /\ number' = IF session.status = "CONNECTED" /\ number # "CLOUD" THEN "CONNECTED"
                 ELSE number
    /\ IF Merged = "QR_PENDING" /\ ~session.qr THEN Kick ELSE UNCHANGED starts
    /\ poll' = "idle"
    /\ UNCHANGED <<session, starting, clients, writes, send, devices, saved, history>>

-----------------------------------------------------------------------------
(* startSession.                                                           *)

TakeStart ==
    /\ starts > 0
    /\ starting = "nothing"
    /\ starts' = starts - 1

(* It is up already, with an identity or without one.                      *)
AlreadyConnected ==
    /\ TakeStart
    /\ IsConnected
    /\ writes' = writes \cup {"connected"}
    /\ vouched' = (vouched \/ client \in {"open", "mute"})
    /\ UNCHANGED <<backend, starting, clients, send, devices, saved, estranged>>

(* Saved identity, not connected: a goroutine shall connect, without lock. *)
Reconnect ==
    /\ TakeStart
    /\ client = "offline"
    /\ dialing' = TRUE
    /\ UNCHANGED <<backend, starting, client, former, sockets, writes, send, devices, saved,
                   history>>

(* The goroutine.  Meanwhile whatsmeow may have reconnected by itself, or  *)
(* the device may have been unlinked: the client then connects without an  *)
(* identity and without a QR channel.                                      *)
Dial ==
    /\ dialing
    /\ dialing' = FALSE
    /\ \/ /\ client = "offline"
          /\ client' = "online"
          /\ sockets' = sockets + 1
          /\ writes' = writes \cup {"connected", "jid"}
       \/ /\ client = "closed"
          /\ client' = "mute"
          /\ sockets' = sockets + 1
          /\ UNCHANGED writes
       \/ UNCHANGED <<client, sockets, writes>>
    /\ UNCHANGED <<backend, starts, starting, former, send, devices, saved, history>>

(* The same goroutine, of a client that is in the map no more.             *)
DialFormer ==
    /\ former = "dialing"
    /\ \/ former' = "up" /\ sockets' = sockets + 1
       \/ former' = "none" /\ UNCHANGED sockets
    /\ UNCHANGED <<backend, starts, starting, client, dialing, writes, send, devices, saved,
                   history>>

(* Mutant: by its push name alone.                                         *)
DeviceFoundByName(known) == {found \in BOOLEAN : found => devices > 0}

(* By the saved JID; a device whose JID is not known may still carry the   *)
(* workspace's id as its push name, until WhatsApp overwrites that.        *)
DeviceFound(known) == IF known THEN {TRUE} ELSE {found \in BOOLEAN : found => devices > 0}

(* Mutant: a client that is not paired is replaced, connected or not.      *)
ReplaceableUnpaired == client \in {"none", "open", "closed", "mute"}

Replaceable == client \in {"none", "closed"}

(* The client that is there, if any, is disconnected and forgotten.  A     *)
(* query for the JID that fails is logged, and the start goes on without.  *)
NewClient(found, readable) ==
    /\ TakeStart
    /\ Replaceable
    /\ dialing => former = "none"
    /\ found \in DeviceFound(saved /\ readable)
    /\ client' = "none"
    /\ dialing' = FALSE
    /\ former' = IF dialing THEN "dialing" ELSE former
    /\ starting' = IF found THEN "saved" ELSE "new"
    /\ estranged' = (estranged \/ (saved /\ ~readable))
    /\ UNCHANGED <<backend, sockets, writes, send, devices, saved, vouched>>

(* Mutant: a connection is taken for a login.                              *)
EventsOnConnect(kind) == {"connected", "jid"}

EventsOf(kind) == IF kind = "new" THEN {} ELSE {"connected", "jid"}

Connect ==
    /\ starting # "nothing"
    /\ sockets' = sockets + 1
    /\ client' = IF starting = "new" THEN "open" ELSE "online"
    /\ writes' = writes \cup EventsOf(starting)
    /\ starting' = "nothing"
    /\ UNCHANGED <<backend, starts, dialing, former, send, devices, saved, history>>

ConnectFails ==
    /\ starting # "nothing"
    /\ starting' = "nothing"
    /\ UNCHANGED <<backend, starts, clients, writes, send, devices, saved, history>>

-----------------------------------------------------------------------------
(* WhatsApp.                                                               *)

QRCode ==
    /\ client = "open"
    /\ writes' = writes \cup {"code"}
    /\ UNCHANGED <<backend, starts, starting, clients, send, devices, saved, history>>

(* Somebody scans a code; the client reconnects with its identity.         *)
Pair ==
    /\ client = "open"
    /\ devices < MaxDevices
    /\ client' = "online"
    /\ devices' = devices + 1
    /\ saved' = FALSE
    /\ writes' = writes \cup {"connected", "jid"}
    /\ vouched' = TRUE
    /\ UNCHANGED <<backend, starts, starting, dialing, former, sockets, send, estranged>>

(* The codes ran out, or the network broke.                                *)
Drop ==
    /\ IsConnected
    /\ client' = IF client = "online" THEN "offline" ELSE "closed"
    /\ sockets' = sockets - 1
    /\ UNCHANGED <<backend, starts, starting, dialing, former, writes, send, devices, saved,
                   history>>

DropFormer ==
    /\ former = "up"
    /\ former' = "none"
    /\ sockets' = sockets - 1
    /\ UNCHANGED <<backend, starts, starting, client, dialing, writes, send, devices, saved,
                   history>>

(* whatsmeow reconnects by itself.                                         *)
ComeBack ==
    /\ client = "offline"
    /\ client' = "online"
    /\ sockets' = sockets + 1
    /\ writes' = writes \cup {"connected", "jid"}
    /\ UNCHANGED <<backend, starts, starting, dialing, former, send, devices, saved, history>>

(* The tenant unlinks the device on the phone.                             *)
LoggedOut ==
    /\ client = "online"
    /\ client' = "closed"
    /\ sockets' = sockets - 1
    /\ devices' = devices - 1
    /\ saved' = FALSE
    /\ writes' = writes \cup {"unconfigured"}
    /\ UNCHANGED <<backend, starts, starting, dialing, former, send, history>>

-----------------------------------------------------------------------------
(* The goroutines' updates; without a row they change nothing.             *)

(* Mutant: the status alone.                                               *)
SetStatusOnly(status) ==
    session' = IF session = NoRow THEN session ELSE [session EXCEPT !.status = status]

UpdateStatusInDB(status) ==
    session' = IF session = NoRow THEN session ELSE [status |-> status, qr |-> FALSE]

(* Mutant: only a row that waits for a code gets one.                      *)
UpdateQRIfPending ==
    session' = IF session.status = "QR_PENDING" THEN [session EXCEPT !.qr = TRUE] ELSE session

UpdateQRInDB ==
    session' = IF session = NoRow THEN session ELSE [status |-> "QR_PENDING", qr |-> TRUE]

Write(update) ==
    /\ update \in writes
    /\ writes' = writes \ {update}
    /\ UNCHANGED <<number, poll, shown, starts, starting, clients, send, devices, history>>

WriteCode == Write("code") /\ UpdateQRInDB /\ UNCHANGED saved

WriteConnected == Write("connected") /\ UpdateStatusInDB("CONNECTED") /\ UNCHANGED saved

WriteLoggedOut == Write("unconfigured") /\ UpdateStatusInDB("UNCONFIGURED") /\ UNCHANGED saved

(* The Connected event: the lock, then the JID of the client in the map.   *)
(* An UPDATE that fails is logged.                                         *)
WriteJID ==
    /\ starting = "nothing"
    /\ Write("jid")
    /\ saved' \in {saved, saved \/ client \in {"online", "offline"}}
    /\ UNCHANGED session

-----------------------------------------------------------------------------
(* sendHandler, for one request at a time.  It waits for the lock, looks   *)
(* the client up, and asks it to send outside the lock: by then it may     *)
(* have gone, which is an error, as is a client that is not paired.        *)

SendRequest ==
    /\ send = "none"
    /\ send' = "waiting"
    /\ UNCHANGED <<backend, starts, starting, clients, writes, devices, saved, history>>

(* Mutant: starts the session and looks again, as listGroupsHandler does.  *)
FindClientOrStart ==
    /\ send = "waiting"
    /\ starting = "nothing"
    /\ IF IsConnected
       THEN send' = "sending" /\ UNCHANGED starts
       ELSE Kick /\ UNCHANGED send
    /\ UNCHANGED <<backend, starting, clients, writes, devices, saved, history>>

(* No client, or not connected: 503.                                       *)
FindClient ==
    /\ send = "waiting"
    /\ starting = "nothing"
    /\ send' = IF IsConnected THEN "sending" ELSE "none"
    /\ UNCHANGED <<backend, starts, starting, clients, writes, devices, saved, history>>

SendMessage ==
    /\ send = "sending"
    /\ send' = "none"
    /\ UNCHANGED <<backend, starts, starting, clients, writes, devices, saved, history>>

-----------------------------------------------------------------------------
(* The gateway stops and starts again, with an empty map.                  *)
Restart ==
    /\ estranged' = (estranged \/ (devices > 0 /\ ~saved))
    /\ starts' = 0
    /\ starting' = "nothing"
    /\ client' = "none"
    /\ dialing' = FALSE
    /\ former' = "none"
    /\ sockets' = 0
    /\ writes' = {}
    /\ send' = "none"
    /\ UNCHANGED <<backend, devices, saved, vouched>>

-----------------------------------------------------------------------------

Backend ==
    \/ EnsureSession
    \/ AuthConnect
    \/ AuthLogout
    \/ DiscoverGroups
    \/ ConnectNumber
    \/ Provision
    \/ PollQR

StartSession ==
    \/ AlreadyConnected
    \/ Reconnect
    \/ Dial
    \/ DialFormer
    \/ \E found, readable \in BOOLEAN : NewClient(found, readable)
    \/ Connect
    \/ ConnectFails

WhatsApp == QRCode \/ Pair \/ Drop \/ DropFormer \/ ComeBack \/ LoggedOut

Send == SendRequest \/ FindClient \/ SendMessage

Writes == WriteCode \/ WriteConnected \/ WriteLoggedOut \/ WriteJID

Next == Backend \/ StartSession \/ WhatsApp \/ Writes \/ Send \/ Restart

Spec == Init /\ [][Next]_vars

(* WhatsApp sends codes while a client is open, and goroutines run; an     *)
(* attempt to connect ends, and so does SendMessage.  Strong fairness is   *)
(* sync.RWMutex's: readers that wait go before the next writer.            *)
FairSpec ==
    /\ Spec
    /\ WF_vars(QRCode) /\ WF_vars(WriteCode)
    /\ WF_vars(Connect \/ ConnectFails)
    /\ SF_vars(FindClient)
    /\ WF_vars(SendMessage)

-----------------------------------------------------------------------------
(* Properties.                                                             *)

(* The page and the rows say CONNECTED of a linked number only for         *)
(* somebody who scanned a code, with one exception: a start request that   *)
(* finds an unpaired client connected, which get_qr itself may send.  The  *)
(* page may say it of a Cloud API number, which nobody scans for; no       *)
(* CONNECTED of the gateway is made of that.                               *)
ConnectedNeedsPairing ==
    \/ vouched
    \/ /\ "CONNECTED" \notin {session.status, number}
       /\ shown = "CONNECTED" => number = "CLOUD"

(* Starts, reconnections and losses in any order leave the workspace at    *)
(* most one websocket, and one whenever its client takes itself for        *)
(* connected.  The exception is a goroutine that reconnects a client which *)
(* was unlinked and replaced before the goroutine ran.                     *)
OneSocket ==
    sockets = (IF IsConnected THEN 1 ELSE 0) + (IF former = "up" THEN 1 ELSE 0)

(* A tenant links one device.  To be asked for a second it takes a stop of *)
(* the gateway between the scan and the save of the JID, or a start whose  *)
(* query for the saved JID failed.                                         *)
NoSecondDevice ==
    devices > 1 => estranged

(* While a client waits for its scan, a code gets to the page's row,       *)
(* whatever the starts and the late updates wrote there.                   *)
CodeReachesRow ==
    (client = "open" /\ session # NoRow) ~> (session.qr \/ client # "open")

(* startSession connects to WhatsApp under the lock that every send needs: *)
(* however many starts fail one after the other, a send gets its answer.   *)
SendIsAnswered ==
    send # "none" ~> send = "none"
=============================================================================
