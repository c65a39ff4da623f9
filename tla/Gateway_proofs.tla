---------------------------- MODULE Gateway_proofs ----------------------------
(***************************************************************************)
(* Theorems about Gateway, for every number of devices and of waiting      *)
(* starts.  ClientInv ties the manager's client to its websocket and to    *)
(* the device store, PairingInv says that nothing of a connected number    *)
(* exists before a scan, DeviceInv where an identity can be that the       *)
(* gateway has not saved.                                                  *)
(***************************************************************************)
EXTENDS Gateway, TLAPS

-----------------------------------------------------------------------------
(* The inductive invariants.                                               *)

(* The lock: while a start connects, the map holds no client.  A client    *)
(* that a goroutine shall reconnect had an identity when that began.       *)
ClientInv ==
    /\ OneSocket
    /\ starting # "nothing" => client = "none"
    /\ dialing => client \in {"online", "offline", "closed", "mute"}
    /\ client \in {"online", "offline"} \/ starting = "saved" \/ saved => devices > 0

(* Before the first scan there is no identity, nor news of one.            *)
PairingInv ==
    \/ vouched
    \/ /\ "CONNECTED" \notin {session.status, number}
       /\ shown = "CONNECTED" => number = "CLOUD"
       /\ writes \subseteq {"code"}
       /\ client \in {"none", "open", "closed"}
       /\ starting # "saved"
       /\ ~dialing
       /\ devices = 0

(* A code is shown only to a workspace without a saved identity, or whose  *)
(* saved identity could not be read; and an identity that is neither saved *)
(* nor in use was lost by a stop of the gateway.                           *)
DeviceInv ==
    \/ estranged
    \/ /\ devices <= 1
       /\ starting = "new" \/ client = "open" => ~saved
       /\ devices > 0 /\ ~saved => client \in {"online", "offline"}

Inv == TypeOK /\ ClientInv /\ PairingInv /\ DeviceInv

-----------------------------------------------------------------------------
(* The whatsapp_sessions row.                                              *)

(* Asking for a code keeps the one that is there.                          *)
LEMMA PendingSession ==
    ASSUME NEW row \in SessionRow, row # NoRow
    PROVE  [row EXCEPT !.status = "QR_PENDING"] \in SessionRow
<1>1. row.qr \in BOOLEAN /\ row = [status |-> row.status, qr |-> row.qr]
  BY DEF SessionRow, NoRow
<1>2. [row EXCEPT !.status = "QR_PENDING"] = [status |-> "QR_PENDING", qr |-> row.qr]
  BY <1>1
<1> QED
  BY <1>1, <1>2 DEF SessionRow

LEMMA SessionOfStatus ==
    ASSUME NEW status \in {"UNCONFIGURED", "CONNECTED", "DISCONNECTED"}
    PROVE  [status |-> status, qr |-> FALSE] \in SessionRow
  BY DEF SessionRow

LEMMA SessionOfCode == [status |-> "QR_PENDING", qr |-> TRUE] \in SessionRow
  BY DEF SessionRow

-----------------------------------------------------------------------------
(* The steps.                                                              *)

LEMMA InitInv == Init => Inv
<1> SUFFICES ASSUME Init PROVE Inv
  OBVIOUS
<1>1. TypeOK
  <2>1. BackendOK
    <3>1. NoRow \in SessionRow
      BY Zenon DEF SessionRow
    <3> QED
      BY <3>1 DEF Init, BackendOK
  <2>2. GatewayOK
    <3>1. starts \in 0..MaxStarts /\ devices \in 0..MaxDevices /\ sockets \in Nat
      BY GatewayAssumption DEF GatewayAssumption, Init
    <3>2. client \in ClientState /\ writes \subseteq Updates /\ dialing \in BOOLEAN
            /\ former \in {"none", "dialing", "up"}
      BY DEF Init, ClientState
    <3> QED
      BY <3>1, <3>2 DEF Init, GatewayOK
  <2>3. HistoryOK
    BY DEF Init, HistoryOK
  <2> QED
    BY <2>1, <2>2, <2>3 DEF TypeOK
<1>2. ClientInv /\ DeviceInv
  BY DEF Init, ClientInv, DeviceInv, OneSocket, IsConnected
<1>3. PairingInv
  BY DEF Init, PairingInv, NoRow
<1> QED
  BY <1>1, <1>2, <1>3 DEF Inv

LEMMA KickType ==
    ASSUME TypeOK, Kick
    PROVE  starts' \in 0..MaxStarts
  BY GatewayAssumption DEF GatewayAssumption, TypeOK, GatewayOK, Kick

(* The backend changes its own rows, and asks for starts.                  *)
LEMMA BackendInv ==
    ASSUME Inv, Backend
    PROVE  Inv'
<1>1. /\ UNCHANGED <<starting, client, dialing, former, sockets, writes, send, devices, saved,
                     vouched, estranged>>
      /\ starts' \in 0..MaxStarts
  <2>1. UNCHANGED starts => starts' \in 0..MaxStarts
    BY DEF Inv, TypeOK, GatewayOK
  <2>2. TypeOK
    BY DEF Inv
  <2> QED
    BY <2>1, <2>2, KickType
       DEF Backend, EnsureSession, AuthConnect, AuthLogout, DiscoverGroups, ConnectNumber,
           Provision, PollQR, gateway, clients, history, backend
<1>2. ClientInv' /\ DeviceInv'
  BY <1>1 DEF Inv, ClientInv, DeviceInv, OneSocket, IsConnected
<1>3. session' \in SessionRow /\ (session'.status = "CONNECTED" => session.status = "CONNECTED")
  <2>1. session \in SessionRow
    BY DEF Inv, TypeOK, BackendOK
  <2>2. CASE EnsureSession
    BY <2>2, SessionOfStatus DEF EnsureSession
  <2>3. CASE AuthConnect
    <3>1. session' = [session EXCEPT !.status = "QR_PENDING"] /\ session # NoRow
      BY <2>3 DEF AuthConnect
    <3> QED
      BY <2>1, <3>1, PendingSession DEF SessionRow, NoRow
  <2>4. CASE AuthLogout
    BY <2>4, SessionOfStatus DEF AuthLogout
  <2>5. CASE UNCHANGED session
    BY <2>1, <2>5
  <2> QED
    BY <2>2, <2>3, <2>4, <2>5
       DEF Backend, DiscoverGroups, ConnectNumber, Provision, PollQR, backend
<1>4. /\ number' \in {"none", "QR_PENDING", "CONNECTED", "CLOUD"}
      /\ poll' \in {"idle", "kicked"}
      /\ shown' \in {"nothing", "QR_PENDING", "CONNECTED"}
      /\ /\ "CONNECTED" \notin {session.status, number}
         /\ shown = "CONNECTED" => number = "CLOUD"
         => /\ number' # "CONNECTED"
            /\ shown' = "CONNECTED" => number' = "CLOUD"
  BY DEF Inv, TypeOK, BackendOK, Backend, EnsureSession, AuthConnect, AuthLogout,
         DiscoverGroups, ConnectNumber, Provision, PollQR, Merged, backend
<1>5. TypeOK'
  BY <1>1, <1>3, <1>4 DEF Inv, TypeOK, BackendOK, GatewayOK, HistoryOK
<1>6. PairingInv'
  BY <1>1, <1>3, <1>4 DEF Inv, PairingInv
<1> QED
  BY <1>2, <1>5, <1>6 DEF Inv

(* startSession leaves the rows alone.                                     *)
LEMMA StartSessionInv ==
    ASSUME Inv, StartSession
    PROVE  Inv'
<1> USE GatewayAssumption DEF GatewayAssumption
<1>0. BackendOK' /\ HistoryOK'
  <2>1. UNCHANGED backend
    BY DEF StartSession, AlreadyConnected, Reconnect, Dial, DialFormer, NewClient, Connect,
           ConnectFails
  <2>2. vouched' \in BOOLEAN /\ estranged' \in BOOLEAN
    BY DEF Inv, TypeOK, HistoryOK, StartSession, AlreadyConnected, Reconnect, Dial,
           DialFormer, NewClient, Connect, ConnectFails, history
  <2> QED
    BY <2>1, <2>2 DEF Inv, TypeOK, BackendOK, HistoryOK, backend
<1>1. CASE AlreadyConnected
  <2>1. /\ starts' = starts - 1 /\ starts > 0 /\ writes' = writes \cup {"connected"}
        /\ vouched' = (vouched \/ client \in {"open", "mute"}) /\ IsConnected
        /\ UNCHANGED <<session, number, shown, starting, client, dialing, former, sockets,
                       send, devices, saved, estranged>>
    BY <1>1 DEF AlreadyConnected, TakeStart, backend, clients
  <2>2. GatewayOK'
    BY <2>1 DEF Inv, TypeOK, GatewayOK, Updates
  <2>3. ClientInv'
    BY <2>1 DEF Inv, ClientInv, OneSocket, IsConnected
  <2>4. PairingInv'
    BY <2>1 DEF Inv, PairingInv, IsConnected
  <2>5. DeviceInv'
    BY <2>1 DEF Inv, DeviceInv
  <2> QED
    BY <1>0, <2>2, <2>3, <2>4, <2>5 DEF Inv, TypeOK
<1>2. CASE Reconnect
  <2>1. /\ starts' = starts - 1 /\ starts > 0 /\ client = "offline" /\ dialing' = TRUE
        /\ UNCHANGED <<session, number, shown, starting, client, former, sockets, writes,
                       send, devices, saved, vouched, estranged>>
    BY <1>2 DEF Reconnect, TakeStart, backend, history
  <2>2. GatewayOK'
    BY <2>1 DEF Inv, TypeOK, GatewayOK
  <2>3. ClientInv'
    BY <2>1 DEF Inv, ClientInv, OneSocket, IsConnected
  <2>4. PairingInv'
    BY <2>1 DEF Inv, PairingInv
  <2>5. DeviceInv'
    BY <2>1 DEF Inv, DeviceInv
  <2> QED
    BY <1>0, <2>2, <2>3, <2>4, <2>5 DEF Inv, TypeOK
<1>6. CASE Dial
  <2>1. /\ dialing /\ dialing' = FALSE
        /\ UNCHANGED <<session, number, shown, starts, starting, former, send, devices, saved,
                       vouched, estranged>>
        /\ \/ /\ client = "offline" /\ client' = "online" /\ sockets' = sockets + 1
              /\ writes' = writes \cup {"connected", "jid"}
           \/ /\ client = "closed" /\ client' = "mute" /\ sockets' = sockets + 1
              /\ writes' = writes
           \/ client' = client /\ sockets' = sockets /\ writes' = writes
    BY <1>6 DEF Dial, backend, history
  <2>2. GatewayOK'
    <3>1. dialing' \in BOOLEAN
      BY <2>1
    <3>2. client' \in ClientState
      BY <2>1 DEF Inv, TypeOK, GatewayOK, ClientState
    <3>3. writes' \subseteq Updates
      BY <2>1 DEF Inv, TypeOK, GatewayOK, Updates
    <3>4. sockets' \in Nat
      BY <2>1 DEF Inv, TypeOK, GatewayOK
    <3> QED
      BY <2>1, <3>1, <3>2, <3>3, <3>4 DEF Inv, TypeOK, GatewayOK
  <2>3. ClientInv'
    <3>1. sockets \in Nat /\ client \in ClientState
      BY DEF Inv, TypeOK, GatewayOK
    <3>2. OneSocket'
      BY <2>1, <3>1 DEF Inv, ClientInv, OneSocket, IsConnected
    <3> QED
      BY <2>1, <3>2 DEF Inv, ClientInv
  <2>4. PairingInv'
    BY <2>1 DEF Inv, PairingInv
  <2>5. DeviceInv'
    BY <2>1 DEF Inv, DeviceInv
  <2> QED
    BY <1>0, <2>2, <2>3, <2>4, <2>5 DEF Inv, TypeOK
<1>7. CASE DialFormer
  <2>1. /\ former = "dialing"
        /\ UNCHANGED <<session, number, shown, starts, starting, client, dialing, writes,
                       send, devices, saved, vouched, estranged>>
        /\ \/ former' = "up" /\ sockets' = sockets + 1
           \/ former' = "none" /\ sockets' = sockets
    BY <1>7 DEF DialFormer, backend, history
  <2>2. GatewayOK'
    BY <2>1 DEF Inv, TypeOK, GatewayOK
  <2>3. ClientInv'
    BY <2>1 DEF Inv, TypeOK, GatewayOK, ClientInv, OneSocket, IsConnected
  <2>4. PairingInv'
    BY <2>1 DEF Inv, PairingInv
  <2>5. DeviceInv'
    BY <2>1 DEF Inv, DeviceInv
  <2> QED
    BY <1>0, <2>2, <2>3, <2>4, <2>5 DEF Inv, TypeOK
<1>3. ASSUME NEW found \in BOOLEAN, NEW readable \in BOOLEAN, NewClient(found, readable)
      PROVE  Inv'
  <2>1. (found => devices > 0) /\ (~found => ~saved \/ ~readable)
    <3>1. saved /\ readable => found
      BY <1>3 DEF NewClient, DeviceFound
    <3>2. ~(saved /\ readable) => (found => devices > 0)
      BY <1>3 DEF NewClient, DeviceFound
    <3>3. saved => devices > 0
      BY DEF Inv, ClientInv
    <3> QED
      BY <3>1, <3>2, <3>3
  <2>2. starting' = IF found THEN "saved" ELSE "new"
    BY <1>3 DEF NewClient
  <2>3. /\ starts' = starts - 1 /\ starts > 0 /\ client' = "none"
        /\ client \in {"none", "closed"} /\ dialing' = FALSE
        /\ estranged' = (estranged \/ (saved /\ ~readable))
        /\ UNCHANGED <<session, number, shown, sockets, writes, send, devices, saved, vouched>>
    BY <1>3 DEF NewClient, TakeStart, Replaceable, backend
  <2>8. /\ former' \in {"none", "dialing", "up"}
        /\ former' = "up" <=> former = "up"
    <3>1. CASE dialing
      BY <1>3, <3>1 DEF NewClient
    <3>2. CASE ~dialing
      BY <1>3, <3>2 DEF NewClient, Inv, TypeOK, GatewayOK
    <3> QED
      BY <3>1, <3>2
  <2>4. GatewayOK'
    <3>1. dialing' \in BOOLEAN
      BY <2>3
    <3>2. starting' \in {"nothing", "new", "saved"} /\ client' \in ClientState
      BY <2>2, <2>3 DEF ClientState
    <3> QED
      BY <2>3, <2>8, <3>1, <3>2 DEF Inv, TypeOK, GatewayOK
  <2>5. ClientInv'
    <3>1. OneSocket'
      BY <2>3, <2>8 DEF Inv, ClientInv, OneSocket, IsConnected
    <3> QED
      BY <2>1, <2>2, <2>3, <3>1 DEF Inv, ClientInv
  <2>6. PairingInv'
    BY <2>1, <2>2, <2>3 DEF Inv, PairingInv
  <2>7. DeviceInv'
    BY <2>1, <2>2, <2>3 DEF Inv, DeviceInv
  <2> QED
    BY <1>0, <2>4, <2>5, <2>6, <2>7 DEF Inv, TypeOK
<1>4. CASE Connect
  <2>1. /\ client' = IF starting = "new" THEN "open" ELSE "online"
        /\ starting' = "nothing" /\ starting # "nothing" /\ sockets' = sockets + 1
        /\ UNCHANGED <<session, number, shown, starts, dialing, former, send, devices, saved,
                       vouched, estranged>>
    BY <1>4 DEF Connect, backend, history
  <2>2. /\ starting = "new" => writes' = writes
        /\ writes' \subseteq Updates
    BY <1>4 DEF Inv, TypeOK, GatewayOK, Updates, Connect, EventsOf
  <2>3. /\ starting \in {"new", "saved"} /\ client = "none" /\ ~dialing
        /\ sockets = IF former = "up" THEN 1 ELSE 0
    BY <2>1 DEF Inv, TypeOK, GatewayOK, ClientInv, OneSocket, IsConnected
  <2>4. GatewayOK'
    BY <2>1, <2>2, <2>3 DEF Inv, TypeOK, GatewayOK, ClientState
  <2>5. ClientInv'
    <3>1. OneSocket'
      BY <2>1, <2>3 DEF OneSocket, IsConnected
    <3> QED
      BY <2>1, <2>3, <3>1 DEF Inv, ClientInv
  <2>6. PairingInv'
    BY <2>1, <2>2, <2>3 DEF Inv, PairingInv
  <2>7. DeviceInv'
    BY <2>1, <2>3 DEF Inv, DeviceInv
  <2> QED
    BY <1>0, <2>4, <2>5, <2>6, <2>7 DEF Inv, TypeOK
<1>5. CASE ConnectFails
  <2>1. /\ starting' = "nothing"
        /\ UNCHANGED <<session, number, shown, starts, client, dialing, former, sockets,
                       writes, send, devices, saved, vouched, estranged>>
    BY <1>5 DEF ConnectFails, backend, history, clients
  <2>2. GatewayOK'
    BY <2>1 DEF Inv, TypeOK, GatewayOK
  <2>3. ClientInv'
    BY <2>1 DEF Inv, ClientInv, OneSocket, IsConnected
  <2>4. PairingInv'
    BY <2>1 DEF Inv, PairingInv
  <2>5. DeviceInv'
    BY <2>1 DEF Inv, DeviceInv
  <2> QED
    BY <1>0, <2>2, <2>3, <2>4, <2>5 DEF Inv, TypeOK
<1> QED
  BY <1>1, <1>2, <1>3, <1>4, <1>5, <1>6, <1>7 DEF StartSession

(* Nor does WhatsApp touch them.                                           *)
LEMMA WhatsAppInv ==
    ASSUME Inv, WhatsApp
    PROVE  Inv'
<1> USE GatewayAssumption DEF GatewayAssumption
<1>0. BackendOK' /\ HistoryOK'
  <2>1. UNCHANGED backend
    BY DEF WhatsApp, QRCode, Pair, Drop, DropFormer, ComeBack, LoggedOut
  <2>2. UNCHANGED estranged /\ vouched' \in BOOLEAN
    BY DEF Inv, TypeOK, HistoryOK, WhatsApp, QRCode, Pair, Drop, DropFormer, ComeBack,
           LoggedOut, history
  <2> QED
    BY <2>1, <2>2 DEF Inv, TypeOK, BackendOK, HistoryOK, backend
<1>1. CASE QRCode
  <2>1. /\ writes' = writes \cup {"code"}
        /\ UNCHANGED <<session, number, shown, starts, starting, client, dialing, former,
                       sockets, send, devices, saved, vouched, estranged>>
    BY <1>1 DEF QRCode, backend, history, clients
  <2>2. GatewayOK'
    BY <2>1 DEF Inv, TypeOK, GatewayOK, Updates
  <2>3. ClientInv'
    BY <2>1 DEF Inv, ClientInv, OneSocket, IsConnected
  <2>4. PairingInv'
    BY <2>1 DEF Inv, PairingInv
  <2>5. DeviceInv'
    BY <2>1 DEF Inv, DeviceInv
  <2> QED
    BY <1>0, <2>2, <2>3, <2>4, <2>5 DEF Inv, TypeOK
<1>2. CASE Pair
  <2>1. /\ client = "open" /\ client' = "online" /\ devices < MaxDevices
        /\ devices' = devices + 1 /\ saved' = FALSE /\ vouched' = TRUE
        /\ writes' = writes \cup {"connected", "jid"}
        /\ UNCHANGED <<starts, starting, dialing, former, sockets, send, estranged>>
    BY <1>2 DEF Pair
  <2>2. GatewayOK'
    <3>1. saved' \in BOOLEAN
      BY <2>1
    <3>2. client' \in ClientState /\ writes' \subseteq Updates /\ devices' \in 0..MaxDevices
      BY <2>1 DEF Inv, TypeOK, GatewayOK, ClientState, Updates
    <3> QED
      BY <2>1, <3>1, <3>2 DEF Inv, TypeOK, GatewayOK
  <2>3. ClientInv'
    BY <2>1 DEF Inv, TypeOK, GatewayOK, ClientInv, OneSocket, IsConnected
  <2>4. PairingInv'
    BY <2>1 DEF PairingInv
  <2>5. DeviceInv'
    BY <2>1 DEF Inv, TypeOK, GatewayOK, ClientInv, DeviceInv
  <2> QED
    BY <1>0, <2>2, <2>3, <2>4, <2>5 DEF Inv, TypeOK
<1>3. CASE Drop
  <2>1. /\ IsConnected /\ client' = IF client = "online" THEN "offline" ELSE "closed"
        /\ sockets' = sockets - 1
        /\ UNCHANGED <<session, number, shown, starts, starting, dialing, former, writes,
                       send, devices, saved, vouched, estranged>>
    BY <1>3 DEF Drop, backend, history
  <2>2. sockets \in Nat /\ sockets > 0 /\ starting = "nothing"
    BY <2>1 DEF Inv, TypeOK, GatewayOK, ClientInv, OneSocket, IsConnected
  <2>3. GatewayOK'
    BY <2>1, <2>2 DEF Inv, TypeOK, GatewayOK, ClientState
  <2>4. ClientInv'
    BY <2>1, <2>2 DEF Inv, ClientInv, OneSocket, IsConnected
  <2>5. PairingInv'
    BY <2>1 DEF Inv, PairingInv, IsConnected
  <2>6. DeviceInv'
    <3>1. CASE client = "online"
      BY <2>1, <3>1 DEF Inv, DeviceInv
    <3>2. CASE client # "online"
      <4>1. client' = "closed" /\ client \in {"open", "mute"}
        BY <2>1, <3>2 DEF IsConnected
      <4> QED
        BY <2>1, <4>1 DEF Inv, DeviceInv
    <3> QED
      BY <3>1, <3>2
  <2> QED
    BY <1>0, <2>3, <2>4, <2>5, <2>6 DEF Inv, TypeOK
<1>6. CASE DropFormer
  <2>1. /\ former = "up" /\ former' = "none" /\ sockets' = sockets - 1
        /\ UNCHANGED <<session, number, shown, starts, starting, client, dialing, writes,
                       send, devices, saved, vouched, estranged>>
    BY <1>6 DEF DropFormer, backend, history
  <2>2. sockets \in Nat /\ sockets > 0
    BY <2>1 DEF Inv, TypeOK, GatewayOK, ClientInv, OneSocket
  <2>3. GatewayOK'
    BY <2>1, <2>2 DEF Inv, TypeOK, GatewayOK
  <2>4. ClientInv'
    BY <2>1, <2>2 DEF Inv, ClientInv, OneSocket, IsConnected
  <2>5. PairingInv'
    BY <2>1 DEF Inv, PairingInv
  <2>6. DeviceInv'
    BY <2>1 DEF Inv, DeviceInv
  <2> QED
    BY <1>0, <2>3, <2>4, <2>5, <2>6 DEF Inv, TypeOK
<1>4. CASE ComeBack
  <2>1. /\ client = "offline" /\ client' = "online" /\ sockets' = sockets + 1
        /\ writes' = writes \cup {"connected", "jid"}
        /\ UNCHANGED <<session, number, shown, starts, starting, dialing, former, send,
                       devices, saved, vouched, estranged>>
    BY <1>4 DEF ComeBack, backend, history
  <2>2. GatewayOK'
    BY <2>1 DEF Inv, TypeOK, GatewayOK, ClientState, Updates
  <2>3. ClientInv'
    BY <2>1 DEF Inv, TypeOK, GatewayOK, ClientInv, OneSocket, IsConnected
  <2>4. PairingInv'
    BY <2>1 DEF Inv, PairingInv
  <2>5. DeviceInv'
    BY <2>1 DEF Inv, DeviceInv
  <2> QED
    BY <1>0, <2>2, <2>3, <2>4, <2>5 DEF Inv, TypeOK
<1>5. CASE LoggedOut
  <2>1. /\ client = "online" /\ client' = "closed" /\ sockets' = sockets - 1
        /\ devices' = devices - 1 /\ saved' = FALSE /\ writes' = writes \cup {"unconfigured"}
        /\ UNCHANGED <<session, number, shown, starts, starting, dialing, former, send,
                       vouched, estranged>>
    BY <1>5 DEF LoggedOut, backend, history
  <2>2. devices \in 1..MaxDevices /\ starting = "nothing" /\ sockets \in Nat /\ sockets > 0
    BY <2>1 DEF Inv, TypeOK, GatewayOK, ClientInv, OneSocket, IsConnected
  <2>3. GatewayOK'
    <3>1. writes' \subseteq Updates
      BY <2>1 DEF Inv, TypeOK, GatewayOK, Updates
    <3>2. sockets' \in Nat /\ devices' \in 0..MaxDevices /\ client' \in ClientState
      BY <2>1, <2>2 DEF ClientState
    <3> QED
      BY <2>1, <3>1, <3>2 DEF Inv, TypeOK, GatewayOK
  <2>4. ClientInv'
    BY <2>1, <2>2 DEF Inv, ClientInv, OneSocket, IsConnected
  <2>5. PairingInv'
    BY <2>1 DEF Inv, PairingInv
  <2>6. DeviceInv'
    BY <2>1, <2>2 DEF Inv, DeviceInv
  <2> QED
    BY <1>0, <2>3, <2>4, <2>5, <2>6 DEF Inv, TypeOK
<1> QED
  BY <1>1, <1>2, <1>3, <1>4, <1>5, <1>6 DEF WhatsApp

(* An update that a goroutine has yet to make is made.                     *)
LEMMA WritesInv ==
    ASSUME Inv, Writes
    PROVE  Inv'
<1>1. PICK update \in writes : Write(update)
  BY DEF Writes, WriteCode, WriteConnected, WriteLoggedOut, WriteJID, Write
<1>2. /\ writes' = writes \ {update}
      /\ UNCHANGED <<number, poll, shown, starts, starting, client, dialing, former, sockets, send, devices,
                     vouched, estranged>>
  BY <1>1 DEF Write, history, clients
<1>3. session' \in SessionRow
  <2>1. session \in SessionRow
    BY DEF Inv, TypeOK, BackendOK
  <2> QED
    BY <2>1, SessionOfStatus, SessionOfCode
       DEF Writes, WriteCode, WriteConnected, WriteLoggedOut, WriteJID, UpdateQRInDB,
           UpdateStatusInDB
<1>4. session'.status = "CONNECTED" => session.status = "CONNECTED" \/ "connected" \in writes
  <2>1. CASE WriteCode
    BY <2>1 DEF WriteCode, UpdateQRInDB
  <2>2. CASE WriteConnected
    BY <2>2 DEF WriteConnected, Write
  <2>3. CASE WriteLoggedOut
    BY <2>3 DEF WriteLoggedOut, UpdateStatusInDB
  <2>4. CASE WriteJID
    BY <2>4 DEF WriteJID
  <2> QED
    BY <2>1, <2>2, <2>3, <2>4 DEF Writes
<1>5. /\ saved' \in BOOLEAN
      /\ saved => saved'
      /\ saved' => saved \/ (starting = "nothing" /\ client \in {"online", "offline"})
  <2>1. saved \in BOOLEAN
    BY DEF Inv, TypeOK, GatewayOK
  <2>2. CASE WriteJID
    BY <2>1, <2>2 DEF WriteJID
  <2>3. CASE UNCHANGED saved
    BY <2>1, <2>3
  <2> QED
    BY <2>2, <2>3 DEF Writes, WriteCode, WriteConnected, WriteLoggedOut
<1>6. TypeOK'
  <2>1. writes' \subseteq Updates
    BY <1>2 DEF Inv, TypeOK, GatewayOK
  <2> QED
    BY <1>2, <1>3, <1>5, <2>1 DEF Inv, TypeOK, BackendOK, GatewayOK, HistoryOK
<1>7. ClientInv'
  BY <1>2, <1>5 DEF Inv, ClientInv, OneSocket, IsConnected
<1>8. PairingInv'
  BY <1>2, <1>4 DEF Inv, PairingInv
<1>9. DeviceInv'
  BY <1>2, <1>5 DEF Inv, DeviceInv
<1> QED
  BY <1>6, <1>7, <1>8, <1>9 DEF Inv

LEMMA SendInv ==
    ASSUME Inv, Send
    PROVE  Inv'
<1>1. /\ send' \in {"none", "waiting", "sending"}
      /\ UNCHANGED <<session, number, poll, shown, starts, starting, client, dialing, former, sockets, writes,
                     devices, saved, vouched, estranged>>
  BY DEF Send, SendRequest, FindClient, SendMessage, backend, history, clients
<1>2. TypeOK'
  BY <1>1 DEF Inv, TypeOK, BackendOK, GatewayOK, HistoryOK
<1>3. ClientInv' /\ DeviceInv'
  BY <1>1 DEF Inv, ClientInv, DeviceInv, OneSocket, IsConnected
<1>4. PairingInv'
  BY <1>1 DEF Inv, PairingInv
<1> QED
  BY <1>2, <1>3, <1>4 DEF Inv

(* A stop of the gateway: what is not in the device store is forgotten.    *)
LEMMA RestartInv ==
    ASSUME Inv, Restart
    PROVE  Inv'
<1>1. /\ starts' = 0 /\ starting' = "nothing" /\ client' = "none" /\ sockets' = 0
      /\ writes' = {} /\ send' = "none"
      /\ dialing' = FALSE /\ former' = "none"
      /\ UNCHANGED <<session, number, poll, shown, devices, saved, vouched>>
  BY DEF Restart, backend
<1>2. estranged' \in BOOLEAN /\ (estranged' <=> estranged \/ (devices > 0 /\ ~saved))
  BY DEF Restart, Inv, TypeOK, HistoryOK
<1>3. TypeOK'
  <2>1. BackendOK' /\ HistoryOK'
    BY <1>1, <1>2 DEF Inv, TypeOK, BackendOK, HistoryOK
  <2>2. GatewayOK'
    <3>1. dialing' \in BOOLEAN
      BY <1>1
    <3>2. starts' \in 0..MaxStarts /\ sockets' \in Nat /\ client' \in ClientState
      BY <1>1, GatewayAssumption DEF GatewayAssumption, ClientState
    <3> QED
      BY <1>1, <3>1, <3>2 DEF Inv, TypeOK, GatewayOK
  <2> QED
    BY <2>1, <2>2 DEF TypeOK
<1>4. ClientInv'
  BY <1>1 DEF Inv, ClientInv, OneSocket, IsConnected
<1>5. PairingInv'
  BY <1>1 DEF Inv, PairingInv
<1>6. DeviceInv'
  BY <1>1, <1>2 DEF Inv, DeviceInv
<1> QED
  BY <1>3, <1>4, <1>5, <1>6 DEF Inv

LEMMA NextInv ==
    ASSUME Inv, [Next]_vars
    PROVE  Inv'
<1>1. CASE UNCHANGED vars
  <2>1. TypeOK'
    BY <1>1 DEF Inv, TypeOK, BackendOK, GatewayOK, HistoryOK, vars, backend, gateway, clients, history
  <2>2. ClientInv' /\ DeviceInv'
    BY <1>1 DEF Inv, ClientInv, DeviceInv, OneSocket, IsConnected, vars, gateway, clients, history
  <2>3. PairingInv'
    BY <1>1 DEF Inv, PairingInv, vars, backend, gateway, clients, history
  <2> QED
    BY <2>1, <2>2, <2>3 DEF Inv
<1> QED
  BY <1>1, BackendInv, StartSessionInv, WhatsAppInv, WritesInv, SendInv, RestartInv DEF Next

LEMMA Invariance == Spec => []Inv
  BY InitInv, NextInv, PTL DEF Spec

-----------------------------------------------------------------------------
(* The theorems.                                                           *)

(* The rows, the client and the device store keep their types: a code      *)
(* stands in the whatsapp_sessions row only while it is QR_PENDING.        *)
THEOREM TypeCorrect == Spec => []TypeOK
<1>1. Inv => TypeOK
  BY DEF Inv
<1> QED
  BY <1>1, Invariance, PTL

(* go-gateway/main.go and get_qr: a number is reported as connected only   *)
(* after a scan, or after a start that found an unpaired client connected. *)
THEOREM ConnectedAfterPairing == Spec => []ConnectedNeedsPairing
<1>1. Inv => ConnectedNeedsPairing
  BY DEF Inv, PairingInv, ConnectedNeedsPairing
<1> QED
  BY <1>1, Invariance, PTL

(* startSession: a workspace has one websocket while its client takes      *)
(* itself for connected, beside that of a client which was replaced while  *)
(* its reconnection was pending.                                           *)
THEOREM SingleSocket == Spec => []OneSocket
<1>1. Inv => OneSocket
  BY DEF Inv, ClientInv
<1> QED
  BY <1>1, Invariance, PTL

(* startSession: a second device is linked only after a stop of the        *)
(* gateway lost the identity of the first, or after a start that could not *)
(* read it.                                                                *)
THEOREM SecondDeviceNeedsLoss == Spec => []NoSecondDevice
<1>1. Inv => NoSecondDevice
  BY DEF Inv, TypeOK, GatewayOK, DeviceInv, NoSecondDevice
<1> QED
  BY <1>1, Invariance, PTL
=============================================================================
