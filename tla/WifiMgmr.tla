------------------------------- MODULE WifiMgmr -------------------------------
(***************************************************************************)
(* The connection manager of the station (wifi_mgmr.c): a task that feeds  *)
(* the messages of one queue to a state machine.  The messages come from   *)
(* the application, from the driver's bottom half, from two timers and     *)
(* from lwIP, whose status callback runs in the TCP/IP thread.             *)
(*                                                                         *)
(* The timer task (priority 31) and the TCP/IP thread (30) run above the   *)
(* manager (28): a timer callback and a status callback are one step each. *)
(* A netifapi call of the manager is a step of its own, since the TCP/IP   *)
(* thread serves the other tasks between two of them.  The timers run for  *)
(* seconds: they do not expire while another task is inside a handler.     *)
(***************************************************************************)
EXTENDS Naturals, Sequences, SequencesExt

CONSTANTS
  Profiles,    \* networks the application connects to
  StaticIps,   \* addresses the application may configure
  Leases,      \* addresses the DHCP server may hand out
  LeaseEnds,   \* whether a lease may end: refused, expired or in conflict
  None,        \* no profile, no address
  MaxCalls,    \* bound of the model: calls of the application
  MaxQueued    \* bound of the model: neither application nor DHCP server
               \* adds a message while this many are queued

ASSUME NoneAssumption == None \notin Profiles \cup StaticIps \cup Leases
ASSUME LeaseEndsAssumption == LeaseEnds \in BOOLEAN
\* An address is told from the names of the netifapi calls.
ASSUME CallsAssumption == StaticIps \cap {"stop", "clear", "setup"} = {}
ASSUME BoundsAssumption == MaxCalls \in Nat /\ MaxQueued \in Nat \ {0}

States == {"IfaceDown", "Idle", "Connecting", "ConnectedIPNo", "ConnectedIPYes",
           "Disconnect", "Sniffer"}
\* The station's interface exists in the firmware.
StaStates == {"Connecting", "ConnectedIPNo", "ConnectedIPYes", "Disconnect"}

\* Messages without data; WIFI_MGMR_EVENT_ of the code is left out.
AppRequests == {"DISCONNECT", "IDLE", "SNIFFER", "FW_SCAN",
                "ENABLE_AUTORECONNECT", "DISABLE_AUTORECONNECT"}
Events == AppRequests \cup {"PHY_UP", "CONNECT", "RECONNECT", "IP_UPDATE", "IP_GOT",
                            "FW_DISCONNECT", "IND_CONNECTED", "IND_DISCONNECT"}

Msg(ev) == [ev |-> ev, profile |-> None]

VARIABLES
  cur,            \* wifiMgmr.m.currentState
  mq,             \* wifiMgmr.mq
  netifapi,       \* what the handler has still to ask of the TCP/IP thread
  profile,        \* wifiMgmr.profiles[0]
  autoreconnect,  \* ! wifiMgmr.disable_autoreconnect
  pending_scan,   \* WIFI_MGMR_PENDING_TASK_SCAN_BIT
  static,         \* wifiMgmr.wlan_sta.ipv4.ip
  ip_timer,       \* the timer of stateConnectedIPNo runs
  retry_timer,    \* the timer of stateDisconnect runs
  timer_started,  \* stateDisconnect_data.timer_started
  retry_profile,  \* stateDisconnect_data.profile_msg
  addr, dhcp, netlink,         \* lwIP: address, DHCP client, link flag
  sta_if, link, target, dreq, scanning,  \* firmware
  bh,             \* what the bottom half has still to do for its message
  calls           \* calls the application has made

mgrVars   == <<cur, netifapi, profile, autoreconnect, pending_scan>>
timerVars == <<ip_timer, retry_timer, timer_started, retry_profile>>
lwipVars  == <<addr, dhcp, netlink>>
fwVars    == <<sta_if, link, target, dreq, scanning>>
vars == <<mgrVars, mq, static, timerVars, lwipVars, fwVars, bh, calls>>

Init ==
  /\ cur = "IfaceDown" /\ mq = <<>> /\ netifapi = <<>>
  /\ profile = None /\ autoreconnect = TRUE /\ pending_scan = FALSE
  /\ static = None
  /\ ip_timer = FALSE /\ retry_timer = FALSE /\ timer_started = FALSE
  /\ retry_profile = None
  /\ addr = None /\ dhcp = "off" /\ netlink = TRUE
  /\ sta_if = 0 /\ link = "down" /\ target = None /\ dreq = FALSE /\ scanning = FALSE
  /\ bh = "idle" /\ calls = 0

Send(m) == mq' = Append(mq, m)

-------------------------------------------------------------------------------
(***************************************************************************)
(* Callers: the wifi_mgmr_api_ functions                                   *)
(***************************************************************************)
Call ==
  /\ calls < MaxCalls /\ Len(mq) < MaxQueued
  /\ calls' = calls + 1
  /\ UNCHANGED <<mgrVars, timerVars, lwipVars, fwVars, bh>>

Request(ev) == Call /\ Send(Msg(ev)) /\ UNCHANGED static

Connect(p) ==
  Call /\ Send([ev |-> "CONNECT", profile |-> p]) /\ UNCHANGED static

\* wifi_mgmr_sta_ip_set, wifi_mgmr_sta_ip_unset (None)
IpSet(ip) == Call /\ static' = ip /\ Send(Msg("IP_UPDATE"))

\* wifi_mgmr_api_ifaceup, once, by the start-up code.
IfaceUp ==
  /\ cur = "IfaceDown" /\ mq = <<>>
  /\ Send(Msg("PHY_UP"))
  /\ UNCHANGED <<mgrVars, static, timerVars, lwipVars, fwVars, bh, calls>>

-------------------------------------------------------------------------------
(***************************************************************************)
(* The state machine: one action per transition of the tables              *)
(***************************************************************************)

\* The manager takes the next message when the handler of the last is over.
Take(ev) ==
  /\ netifapi = <<>>
  /\ mq # <<>> /\ Head(mq).ev = ev
  /\ mq' = Tail(mq)
  /\ UNCHANGED <<static, lwipVars, bh, calls>>

\* Mutant: an address is asked for on joining only.
NetifCallsOnce(next) ==
  (IF cur = "ConnectedIPYes" THEN <<"stop", "clear">> ELSE <<>>)
  \o (IF next = "ConnectedIPNo" /\ cur = "Connecting" THEN <<"setup">> ELSE <<>>)

\* stateConnectedIPYes_exit, then stateConnectedIPNoEnter.
NetifCalls(next) ==
  (IF cur = "ConnectedIPYes" THEN <<"stop", "clear">> ELSE <<>>)
  \o (IF next = "ConnectedIPNo" THEN <<"setup">> ELSE <<>>)

\* A command of a handler returns when the bottom half, done with what came
\* before, has seen its confirmation.
Command == bh = "idle"

\* Mutants: the exit of ConnectedIPNo leaves its timer running; the timer is
\* started on joining only.
IpTimerKept(next) == ip_timer \/ next = "ConnectedIPNo"
IpTimerOnce(next) == next = "ConnectedIPNo" /\ cur = "Connecting"

IpTimerAfter(next) == next = "ConnectedIPNo"

\* Mutant: no retry is started when a deferred scan is sent instead.
RetryUnlessScan(next) == next = "Disconnect" /\ autoreconnect /\ ~pending_scan

RetryAfter(next) == next = "Disconnect" /\ autoreconnect

\* The entry actions of ConnectedIPYes and Disconnect send a deferred scan.
SendsPending(next) == next \in {"ConnectedIPYes", "Disconnect"} /\ pending_scan

(***************************************************************************)
(* stateM_handleEvent on a transition to another state: exit action, entry *)
(* action, current state.                                                  *)
(***************************************************************************)
GoTo(next) ==
  /\ cur' = next
  /\ netifapi' = NetifCalls(next)
  /\ ip_timer' = IpTimerAfter(next)
  /\ retry_timer' = RetryAfter(next)
  /\ timer_started' = (next = "Disconnect" /\ autoreconnect)
  /\ SendsPending(next) => Command
  /\ pending_scan' = (pending_scan /\ ~SendsPending(next))
  /\ scanning' = (scanning \/ SendsPending(next))
  /\ UNCHANGED retry_profile

\* A guard that returns false: the state stays.
Stay == UNCHANGED <<cur, netifapi, timerVars>>

\* bl_main_connect; its result is not looked at, so a refused request goes
\* unnoticed.
FwConnect(p) ==
  /\ Command
  /\ \/ link' = "joining" /\ target' = p /\ dreq' = FALSE
     \/ UNCHANGED <<link, target, dreq>>

\* bl_main_disconnect
FwDisconnect == Command /\ dreq' = (dreq \/ link = "up")

\* stateIfaceDownGuard_phyup
PhyUp ==
  /\ Take("PHY_UP")
  /\ cur = "IfaceDown" /\ Command
  /\ GoTo("Idle") \/ (Stay /\ UNCHANGED <<pending_scan, scanning>>)
  /\ UNCHANGED <<profile, autoreconnect, sta_if, link, target, dreq>>

\* stateIdleGuard_connect, stateIdleAction_connect
IdleConnect ==
  /\ Take("CONNECT")
  /\ cur = "Idle" /\ Command
  /\ \/ /\ sta_if' = sta_if + 1
        /\ profile' = Head(mq).profile
        /\ FwConnect(Head(mq).profile)
        /\ GoTo("Connecting")
     \/ \* bl_main_if_add fails
        /\ Stay
        /\ UNCHANGED <<sta_if, profile, link, target, dreq, pending_scan, scanning>>
  /\ UNCHANGED autoreconnect

\* stateIdleGuard_sniffer
IdleSniffer ==
  /\ Take("SNIFFER")
  /\ cur = "Idle" /\ Command
  /\ GoTo("Sniffer")
  /\ UNCHANGED <<profile, autoreconnect, sta_if, link, target, dreq>>

SnifferIdle ==
  /\ Take("IDLE")
  /\ cur = "Sniffer"
  /\ GoTo("Idle")
  /\ UNCHANGED <<profile, autoreconnect, sta_if, link, target, dreq>>

Connected ==
  /\ Take("IND_CONNECTED")
  /\ cur = "Connecting"
  /\ GoTo("ConnectedIPNo")
  /\ UNCHANGED <<profile, autoreconnect, sta_if, link, target, dreq>>

Disconnected ==
  /\ Take("IND_DISCONNECT")
  /\ cur \in {"Connecting", "ConnectedIPNo", "ConnectedIPYes"}
  /\ GoTo("Disconnect")
  /\ UNCHANGED <<profile, autoreconnect, sta_if, link, target, dreq>>

IpGot ==
  /\ Take("IP_GOT")
  /\ cur = "ConnectedIPNo"
  /\ GoTo("ConnectedIPYes")
  /\ UNCHANGED <<profile, autoreconnect, sta_if, link, target, dreq>>

\* stateConnectedIPYesGuard_ip_update
IpUpdate ==
  /\ Take("IP_UPDATE")
  /\ cur = "ConnectedIPYes"
  /\ GoTo("ConnectedIPNo")
  /\ UNCHANGED <<profile, autoreconnect, sta_if, link, target, dreq>>

\* Mutant: the guard that asks for a disconnection also changes the state.
AppDisconnectAtOnce ==
  /\ Take("DISCONNECT")
  /\ cur \in {"ConnectedIPNo", "ConnectedIPYes"}
  /\ FwDisconnect
  /\ GoTo("Disconnect")
  /\ UNCHANGED <<profile, autoreconnect, sta_if, link, target>>

\* stateConnectedIPNoGuard_disconnect, stateConnectedIPYesGuard_disconnect
AppDisconnect ==
  /\ Take("DISCONNECT")
  /\ cur \in {"ConnectedIPNo", "ConnectedIPYes"}
  /\ FwDisconnect
  /\ Stay
  /\ UNCHANGED <<profile, autoreconnect, pending_scan, sta_if, link, target, scanning>>

\* stateDisconnect_action_reconnect
Reconnect ==
  /\ Take("RECONNECT")
  /\ cur = "Disconnect"
  /\ FwConnect(retry_profile)
  /\ GoTo("Connecting")
  /\ UNCHANGED <<profile, autoreconnect, sta_if>>

\* stateDisconnect_action_idle
DisconnectIdle ==
  /\ Take("IDLE")
  /\ cur = "Disconnect" /\ Command
  /\ sta_if' = sta_if - 1
  /\ GoTo("Idle")
  /\ UNCHANGED <<profile, autoreconnect, link, target, dreq>>

\* stateGlobalGuard_disable_autoreconnect: in Disconnect the station goes
\* idle and the setting is left as it was.
DisableAutoreconnect ==
  /\ Take("DISABLE_AUTORECONNECT")
  /\ \/ /\ cur = "Disconnect" /\ Command
        /\ sta_if' = sta_if - 1
        /\ GoTo("Idle")
        /\ UNCHANGED autoreconnect
     \/ /\ cur # "Disconnect"
        /\ autoreconnect' = FALSE
        /\ Stay
        /\ UNCHANGED <<sta_if, pending_scan, scanning>>
  /\ UNCHANGED <<profile, link, target, dreq>>

EnableAutoreconnect ==
  /\ Take("ENABLE_AUTORECONNECT")
  /\ autoreconnect' = TRUE
  /\ Stay
  /\ UNCHANGED <<profile, pending_scan, fwVars>>

\* stateGlobalGuard_fw_disconnect, in every state.
FwDisconnectCmd ==
  /\ Take("FW_DISCONNECT")
  /\ FwDisconnect
  /\ Stay
  /\ UNCHANGED <<profile, autoreconnect, pending_scan, sta_if, link, target, scanning>>

DefersScan == {"Connecting", "ConnectedIPNo", "Disconnect"}

\* stateGlobalGuard_fw_scan: defer, refuse (before the first PHY_UP), or scan.
FwScan ==
  /\ Take("FW_SCAN")
  /\ cur \notin DefersScan \cup {"IfaceDown"} => Command
  /\ pending_scan' = (pending_scan \/ cur \in DefersScan)
  /\ scanning' = (scanning \/ cur \notin DefersScan \cup {"IfaceDown"})
  /\ Stay
  /\ UNCHANGED <<profile, autoreconnect, sta_if, link, target, dreq>>

Handles(ev) ==
  CASE ev = "PHY_UP" -> {"IfaceDown"}
    [] ev \in {"CONNECT", "SNIFFER"} -> {"Idle"}
    [] ev = "IDLE" -> {"Sniffer", "Disconnect"}
    [] ev = "IND_CONNECTED" -> {"Connecting"}
    [] ev = "IND_DISCONNECT" -> {"Connecting", "ConnectedIPNo", "ConnectedIPYes"}
    [] ev = "IP_GOT" -> {"ConnectedIPNo"}
    [] ev = "IP_UPDATE" -> {"ConnectedIPYes"}
    [] ev = "DISCONNECT" -> {"ConnectedIPNo", "ConnectedIPYes"}
    [] ev = "RECONNECT" -> {"Disconnect"}
    [] OTHER -> States

\* No transition matches: the message is lost.
Ignore ==
  /\ mq # <<>> /\ Take(Head(mq).ev)
  /\ cur \notin Handles(Head(mq).ev)
  /\ Stay
  /\ UNCHANGED <<profile, autoreconnect, pending_scan, fwVars>>

Handle ==
  \/ PhyUp \/ IdleConnect \/ IdleSniffer \/ SnifferIdle
  \/ Connected \/ Disconnected \/ IpGot \/ IpUpdate \/ AppDisconnect
  \/ Reconnect \/ DisconnectIdle
  \/ DisableAutoreconnect \/ EnableAutoreconnect \/ FwDisconnectCmd \/ FwScan
  \/ Ignore

-------------------------------------------------------------------------------
(***************************************************************************)
(* The TCP/IP thread                                                       *)
(***************************************************************************)

\* netif_set_addr and netif_status_callback: lwIP reports a change only, and
\* the callback passes on every address but the empty one.
SetAddr(a) ==
  /\ addr' = a
  /\ mq' = IF a \notin {addr, None}
             THEN mq \o <<Msg("IP_UPDATE"), Msg("IP_GOT")>>
             ELSE mq

\* dhcp_stop gives a leased address back.
DhcpStop ==
  /\ dhcp' = "off"
  /\ SetAddr(IF dhcp = "bound" THEN None ELSE addr)

\* The next netifapi call of the manager's handler.
NetifCall ==
  /\ netifapi # <<>>
  /\ LET op == Head(netifapi) IN
     \/ /\ op = "stop" /\ DhcpStop
        /\ netifapi' = Tail(netifapi)
     \/ /\ op = "clear" /\ SetAddr(None)
        /\ netifapi' = Tail(netifapi)
        /\ UNCHANGED dhcp
     \/ \* __sta_setup_ip with an address configured
        /\ op = "setup" /\ static # None
        /\ DhcpStop
        /\ netifapi' = <<static>>
     \/ \* __sta_setup_ip without: dhcp_start keeps what address there is
        /\ op = "setup" /\ static = None
        /\ dhcp' = "seeking"
        /\ netifapi' = <<>>
        /\ UNCHANGED <<addr, mq>>
     \/ /\ op \in StaticIps /\ SetAddr(op)
        /\ netifapi' = <<>>
        /\ UNCHANGED dhcp
  /\ UNCHANGED <<cur, profile, autoreconnect, pending_scan, static, timerVars, netlink,
                 fwVars, bh, calls>>

\* dhcp_bind: the answer to a discovery, or a renewal with another address.
DhcpBind(lease) ==
  /\ netlink /\ Len(mq) < MaxQueued
  /\ dhcp = "seeking" \/ (dhcp = "bound" /\ lease # addr)
  /\ dhcp' = "bound"
  /\ SetAddr(lease)
  /\ UNCHANGED <<mgrVars, static, timerVars, netlink, fwVars, bh, calls>>

\* dhcp_handle_nak: the server refuses the address the client has or asks for
\* (a conflict that lwIP finds, dhcp_conflict_callback, takes it away as well).
DhcpNak ==
  /\ LeaseEnds
  /\ netlink /\ dhcp \in {"seeking", "bound"}
  /\ dhcp' = "seeking"
  /\ SetAddr(None)
  /\ UNCHANGED <<mgrVars, static, timerVars, netlink, fwVars, bh, calls>>

\* dhcp_coarse_tmr: the lease has not been renewed in time.
DhcpExpire ==
  /\ LeaseEnds
  /\ dhcp = "bound"
  /\ dhcp' = "seeking"
  /\ SetAddr(None)
  /\ UNCHANGED <<mgrVars, static, timerVars, netlink, fwVars, bh, calls>>

DhcpClient == (\E lease \in Leases : DhcpBind(lease)) \/ DhcpNak \/ DhcpExpire

-------------------------------------------------------------------------------
(***************************************************************************)
(* The timers                                                              *)
(***************************************************************************)
Timely == bh = "idle" /\ netifapi = <<>>

\* ip_obtaining_timeout
IpObtainingTimeout ==
  /\ ip_timer /\ Timely
  /\ ip_timer' = FALSE
  /\ Send(Msg("FW_DISCONNECT"))
  /\ UNCHANGED <<mgrVars, static, retry_timer, timer_started, retry_profile, lwipVars,
                 fwVars, bh, calls>>

\* Mutant: the profile is copied by the first retry only.
CopiedOnce == IF retry_profile = None THEN profile ELSE retry_profile

Copied == profile

\* disconnect_retry
DisconnectRetry ==
  /\ retry_timer /\ Timely
  /\ retry_timer' = FALSE
  /\ retry_profile' = Copied
  /\ Send(Msg("RECONNECT"))
  /\ UNCHANGED <<mgrVars, static, ip_timer, timer_started, lwipVars, fwVars, bh, calls>>

-------------------------------------------------------------------------------
(***************************************************************************)
(* The firmware and the driver's bottom half, which queues the indication  *)
(* first and tells lwIP afterwards                                         *)
(***************************************************************************)
FwJoined ==
  /\ bh = "idle" /\ link = "joining"
  /\ link' = "up"
  /\ Send(Msg("IND_CONNECTED"))
  /\ bh' = "linkup"
  /\ UNCHANGED <<mgrVars, static, timerVars, lwipVars, sta_if, target, dreq, scanning, calls>>

\* bl_rx_sm_connect_ind with an error: lwIP is not told.
FwJoinFailed ==
  /\ bh = "idle" /\ link = "joining"
  /\ link' = "down" /\ target' = None
  /\ Send(Msg("IND_DISCONNECT"))
  /\ UNCHANGED <<mgrVars, static, timerVars, lwipVars, sta_if, dreq, scanning, bh, calls>>

\* The connection ends, because dreq asked for it or by itself.
FwDropped ==
  /\ bh = "idle" /\ link = "up"
  /\ link' = "down" /\ target' = None /\ dreq' = FALSE
  /\ Send(Msg("IND_DISCONNECT"))
  /\ bh' = "linkdown"
  /\ UNCHANGED <<mgrVars, static, timerVars, lwipVars, sta_if, scanning, calls>>

FwScanDone ==
  /\ bh = "idle" /\ scanning
  /\ scanning' = FALSE
  /\ UNCHANGED <<mgrVars, mq, static, timerVars, lwipVars, sta_if, link, target, dreq,
                 bh, calls>>

\* netif_set_link_up, if the link was down for lwIP, makes a bound DHCP client ask
\* for its address again.
BhLinkUp ==
  /\ bh = "linkup"
  /\ netlink' = TRUE
  /\ dhcp' = IF ~netlink /\ dhcp = "bound" THEN "seeking" ELSE dhcp
  /\ bh' = "idle"
  /\ UNCHANGED <<mgrVars, mq, static, timerVars, addr, fwVars, calls>>

BhLinkDown ==
  /\ bh = "linkdown"
  /\ netlink' = FALSE
  /\ bh' = "clear"
  /\ UNCHANGED <<mgrVars, mq, static, timerVars, addr, dhcp, fwVars, calls>>

\* Mutant: the bottom half waits for the handler's calls to be over.
BhClearWaits ==
  /\ bh = "clear" /\ netifapi = <<>>
  /\ SetAddr(None)
  /\ bh' = "idle"
  /\ UNCHANGED <<mgrVars, static, timerVars, dhcp, netlink, fwVars, calls>>

BhClear ==
  /\ bh = "clear"
  /\ SetAddr(None)
  /\ bh' = "idle"
  /\ UNCHANGED <<mgrVars, static, timerVars, dhcp, netlink, fwVars, calls>>

BottomHalf == BhLinkUp \/ BhLinkDown \/ BhClear

Next ==
  \/ \E ev \in AppRequests : Request(ev)
  \/ \E p \in Profiles : Connect(p)
  \/ \E ip \in StaticIps \cup {None} : IpSet(ip)
  \/ IfaceUp
  \/ Handle \/ NetifCall
  \/ DhcpClient
  \/ IpObtainingTimeout \/ DisconnectRetry
  \/ FwJoined \/ FwJoinFailed \/ FwDropped \/ FwScanDone \/ BottomHalf

Spec == Init /\ [][Next]_vars

\* The tasks run, the timers expire, and the firmware ends what it began.
Fairness ==
  /\ WF_vars(Handle) /\ WF_vars(NetifCall) /\ WF_vars(BottomHalf)
  /\ WF_vars(IpObtainingTimeout) /\ WF_vars(DisconnectRetry)
  /\ WF_vars(FwJoined \/ FwJoinFailed)
  /\ WF_vars(dreq /\ FwDropped)

FairSpec == Spec /\ Fairness

-------------------------------------------------------------------------------
(***************************************************************************)
(* Properties                                                              *)
(***************************************************************************)
Queued(ev) == \E i \in 1 .. Len(mq) : mq[i].ev = ev

\* Every message of one kind is ahead of every message of another.
Ahead(ev1, ev2) ==
  \A i, j \in 1 .. Len(mq) : mq[i].ev = ev1 /\ mq[j].ev = ev2 => i < j

\* A connect request names the network, no other message does.
Messages ==
  {m \in [ev : Events, profile : Profiles \cup {None}] :
     m.ev = "CONNECT" <=> m.profile \in Profiles}

TypeOK ==
  /\ cur \in States
  /\ mq \in Seq(Messages)
  /\ netifapi \in Seq({"stop", "clear", "setup"} \cup StaticIps)
  /\ profile \in Profiles \cup {None} /\ retry_profile \in Profiles \cup {None}
  /\ autoreconnect \in BOOLEAN /\ pending_scan \in BOOLEAN
  /\ ip_timer \in BOOLEAN /\ retry_timer \in BOOLEAN /\ timer_started \in BOOLEAN
  /\ netlink \in BOOLEAN /\ dreq \in BOOLEAN /\ scanning \in BOOLEAN
  /\ static \in StaticIps \cup {None}
  /\ addr \in StaticIps \cup Leases \cup {None}
  /\ dhcp \in {"off", "seeking", "bound"}
  /\ sta_if \in Nat /\ link \in {"down", "joining", "up"} /\ target \in Profiles \cup {None}
  /\ bh \in {"idle", "linkup", "linkdown", "clear"}
  /\ calls \in 0 .. MaxCalls

\* The firmware has the station's interface, once, in exactly the states that
\* use it: none is leaked or removed twice, whatever ended the connection.
StaInterface == sta_if = IF cur \in StaStates THEN 1 ELSE 0

\* The manager's state follows the firmware's link up to the indications that
\* are still queued: a station believed connected has lost its link only if it
\* is about to hear of it, and one believed disconnected has no link.
StateFollowsLink ==
  /\ cur \in {"ConnectedIPNo", "ConnectedIPYes"} => link = "up" \/ Queued("IND_DISCONNECT")
  /\ cur \notin {"Connecting", "ConnectedIPNo", "ConnectedIPYes"} => link = "down"
  /\ cur = "Connecting" /\ link = "up" => Queued("IND_CONNECTED")

\* Once a station with automatic reconnection has lost its network, another
\* attempt is always on its way until the state is left.
RetryOnItsWay ==
  cur = "Disconnect" /\ timer_started => retry_timer \/ Queued("RECONNECT")

\* The firmware joins the network of the last connect request that was
\* accepted, also when a timer repeats it.
JoinsLatest == link # "down" => target = profile

\* What the application is told of the link.
View ==
  CASE cur = "Connecting" -> "trying"
    [] cur \in {"ConnectedIPNo", "ConnectedIPYes"} -> "on"
    [] cur = "Disconnect" -> "lost"
    [] OTHER -> "off"

\* The manager follows the firmware (StationLink): no indication is lost to a
\* state that ignores it, heard twice or out of turn, and the next attempt, by
\* the application or by the retry timer, begins when nothing of the last is
\* left, for the network asked for last (wifi_mgmr.c:674-740, 1195-1260).
Station == INSTANCE StationLink
  WITH ifaces <- sta_if, want <- profile, on <- target, view <- View,
       ups <- Queued("IND_CONNECTED"), downs <- Queued("IND_DISCONNECT")

ImplementsStationLink == Station!Spec

\* An address timeout has been handled when the station tries again by itself:
\* it ends the connection it timed, never the attempt that replaces it.
TimeoutOfOwnConnection == Ahead("FW_DISCONNECT", "RECONNECT")

\* The firmware is never asked to scan while it joins a network.
NoScanWhileJoining == [][~scanning /\ scanning' => link # "joining"]_vars

\* The manager leaves Connecting if the firmware took its request, and
\* ConnectedIPNo even if no DHCP server answers: no attempt hangs.
AttemptEnds ==
  /\ (cur = "Connecting" /\ link = "joining") ~> cur # "Connecting"
  /\ cur = "ConnectedIPNo" ~> cur # "ConnectedIPNo"

\* Whatever is due can be done: no message at the head of the queue, no call of a
\* handler, no timer and no report of the firmware waits for something that
\* never comes.
ManagerCanStep ==
  /\ netifapi # <<>> => ENABLED <<NetifCall>>_vars
  /\ bh # "idle" => ENABLED <<BottomHalf>>_vars
  /\ mq # <<>> /\ Timely => ENABLED <<Handle>>_vars
  /\ ip_timer /\ Timely => ENABLED <<IpObtainingTimeout>>_vars
  /\ link = "joining" => ENABLED <<FwJoined \/ FwJoinFailed>>_vars
  /\ dreq /\ link = "up" /\ bh = "idle" => ENABLED <<dreq /\ FwDropped>>_vars

\* A station at rest in ConnectedIPYes that has no address, because its lease
\* ended or a stale IP_GOT was believed (wifi.c:141, 144), is asking for one: the
\* manager never rests in the belief of an address that nobody is seeking.
SeeksAddress ==
  cur = "ConnectedIPYes" /\ mq = <<>> /\ netifapi = <<>> /\ bh = "idle" /\ addr = None
    => dhcp = "seeking"

\* "section for connected with IP address" (wifi_mgmr.c:1066): when nothing is
\* under way in ConnectedIPYes, the station has an address.
IPYesHasAddress ==
  cur = "ConnectedIPYes" /\ mq = <<>> /\ netifapi = <<>> /\ bh = "idle" => addr # None

(***************************************************************************)
(* The inductive invariant (WifiMgmrProofs)                                *)
(***************************************************************************)

Once(ev) == \A i, j \in 1 .. Len(mq) : mq[i].ev = ev /\ mq[j].ev = ev => i = j

\* Which indications are queued, for the manager's state and the link.
LinkInv ==
  /\ Once("IND_CONNECTED") /\ Once("IND_DISCONNECT") /\ Ahead("IND_CONNECTED", "IND_DISCONNECT")
  /\ Queued("IND_CONNECTED") =>
       cur = "Connecting" /\ (link = "up" \/ (link = "down" /\ Queued("IND_DISCONNECT")))
  /\ Queued("IND_DISCONNECT") =>
       cur \in {"Connecting", "ConnectedIPNo", "ConnectedIPYes"} /\ link = "down"
  /\ link = "joining" => cur = "Connecting"
  /\ StateFollowsLink

\* Reconnection is asked for in Disconnect, with the profile of the last
\* request, and is handled or lost before the firmware's next indication.
RetryInv ==
  /\ retry_timer => cur = "Disconnect"
  /\ RetryOnItsWay
  /\ Ahead("RECONNECT", "IND_CONNECTED") /\ Ahead("RECONNECT", "IND_DISCONNECT")
  /\ cur \in {"ConnectedIPNo", "ConnectedIPYes"} => ~Queued("RECONNECT")
  /\ cur = "Disconnect" /\ Queued("RECONNECT") => retry_profile = profile

TimerInv ==
  /\ ip_timer => cur = "ConnectedIPNo"
  /\ TimeoutOfOwnConnection

IInv == TypeOK /\ StaInterface /\ LinkInv /\ RetryInv /\ JoinsLatest /\ TimerInv
===============================================================================
