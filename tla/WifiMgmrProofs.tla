----------------------------- MODULE WifiMgmrProofs -----------------------------
(***************************************************************************)
(* Theorems about WifiMgmr, for any networks and addresses, any number of  *)
(* calls and messages: the inductive invariant and what follows from it.   *)
(***************************************************************************)
EXTENDS WifiMgmr, SequenceTheorems, TLAPS

USE NoneAssumption, BoundsAssumption

-------------------------------------------------------------------------------
(***************************************************************************)
(* The queue                                                               *)
(***************************************************************************)
Followed == {"IND_CONNECTED", "IND_DISCONNECT", "RECONNECT", "FW_DISCONNECT"}

\* The messages the invariant follows are where they were.
QueueSame ==
  /\ \A ev \in Followed : Queued(ev)' <=> Queued(ev)
  /\ \A ev \in Followed : Once(ev) => Once(ev)'
  /\ \A e, f \in Followed : Ahead(e, f) => Ahead(e, f)'

\* The first message is taken.
LEMMA Taken ==
  ASSUME mq \in Seq(Messages), mq # <<>>, mq' = Tail(mq)
  PROVE  /\ Head(mq) \in Messages /\ mq' \in Seq(Messages)
         /\ \A ev \in Followed : Queued(ev)' => Queued(ev)
         /\ \A ev \in Followed : Queued(ev) /\ Head(mq).ev # ev => Queued(ev)'
         /\ Queued(Head(mq).ev)
         /\ \A ev \in Followed : Once(ev) => Once(ev)'
         /\ \A ev \in Followed : Once(ev) /\ Head(mq).ev = ev => ~Queued(ev)'
         /\ \A e, f \in Followed : Ahead(e, f) => Ahead(e, f)'
         /\ \A e, f \in Followed : Ahead(e, f) /\ Head(mq).ev = f => ~Queued(e)
<1>1. /\ Len(mq) \in Nat /\ Len(mq) >= 1 /\ Head(mq) = mq[1] /\ mq' \in Seq(Messages)
      /\ Len(mq') = Len(mq) - 1 /\ Head(mq) \in Messages
      /\ \A i \in 1 .. Len(mq) - 1 : mq'[i] = mq[i + 1]
  BY HeadTailProperties, LenProperties, EmptySeq
<1>2. \A i \in 1 .. Len(mq') : i + 1 \in 1 .. Len(mq) /\ mq'[i] = mq[i + 1]
  BY <1>1
<1>3. /\ 1 \in 1 .. Len(mq)
      /\ \A i \in 1 .. Len(mq) : i # 1 => i - 1 \in 1 .. Len(mq') /\ mq'[i - 1] = mq[i]
  BY <1>1
<1>4. ASSUME NEW ev
      PROVE  /\ Queued(ev)' => Queued(ev)
             /\ Queued(ev) /\ Head(mq).ev # ev => Queued(ev)'
  <2>1. ASSUME NEW i \in 1 .. Len(mq'), mq'[i].ev = ev
        PROVE  Queued(ev)
    BY <1>2, <2>1 DEF Queued
  <2>2. ASSUME NEW i \in 1 .. Len(mq), mq[i].ev = ev, Head(mq).ev # ev
        PROVE  Queued(ev)'
    <3>1. i # 1
      BY <1>1, <2>2
    <3>2. i - 1 \in 1 .. Len(mq') /\ mq'[i - 1].ev = ev
      BY <1>3, <2>2, <3>1
    <3> QED BY <3>2 DEF Queued
  <2> QED BY <2>1, <2>2 DEF Queued
<1>5. Queued(Head(mq).ev)
  BY <1>1, <1>3 DEF Queued
<1>6. ASSUME NEW ev, Once(ev)
      PROVE  Once(ev)' /\ (Head(mq).ev = ev => ~Queued(ev)')
  <2>1. ASSUME NEW i \in 1 .. Len(mq'), NEW j \in 1 .. Len(mq'), mq'[i].ev = ev, mq'[j].ev = ev
        PROVE  i = j
    <3>1. i + 1 = j + 1
      BY <1>2, <1>6, <2>1 DEF Once
    <3> QED BY <1>1, <3>1
  <2>2. ASSUME Head(mq).ev = ev, NEW i \in 1 .. Len(mq'), mq'[i].ev = ev
        PROVE  FALSE
    <3>1. i + 1 = 1
      BY <1>1, <1>2, <1>3, <1>6, <2>2 DEF Once
    <3> QED BY <1>1, <3>1
  <2> QED BY <2>1, <2>2 DEF Once, Queued
<1>7. ASSUME NEW e, NEW f, Ahead(e, f)
      PROVE  Ahead(e, f)' /\ (Head(mq).ev = f => ~Queued(e))
  <2>1. ASSUME NEW i \in 1 .. Len(mq'), NEW j \in 1 .. Len(mq'), mq'[i].ev = e, mq'[j].ev = f
        PROVE  i < j
    <3>1. i + 1 < j + 1
      BY <1>2, <1>7, <2>1 DEF Ahead
    <3> QED BY <1>1, <3>1
  <2>2. ASSUME Head(mq).ev = f, NEW i \in 1 .. Len(mq), mq[i].ev = e
        PROVE  FALSE
    <3>1. i < 1
      BY <1>1, <1>3, <1>7, <2>2 DEF Ahead
    <3> QED BY <3>1
  <2> QED BY <2>1, <2>2 DEF Ahead, Queued
<1> QED BY <1>1, <1>4, <1>5, <1>6, <1>7

\* A message is added.
LEMMA Sent ==
  ASSUME mq \in Seq(Messages), NEW m \in Messages, Send(m)
  PROVE  /\ mq' \in Seq(Messages)
         /\ \A ev \in Followed : Queued(ev)' <=> Queued(ev) \/ m.ev = ev
         /\ \A ev \in Followed : Once(ev) /\ (m.ev = ev => ~Queued(ev)) => Once(ev)'
         /\ \A e, f \in Followed :
              e # f /\ Ahead(e, f) /\ (m.ev = e => ~Queued(f)) => Ahead(e, f)'
<1>1. /\ Len(mq) \in Nat /\ mq' \in Seq(Messages) /\ Len(mq') = Len(mq) + 1
      /\ \A i \in 1 .. Len(mq) : mq'[i] = mq[i]
      /\ mq'[Len(mq) + 1] = m
  BY LenProperties, AppendProperties DEF Send
<1>2. 1 .. Len(mq') = (1 .. Len(mq)) \cup {Len(mq) + 1}
  BY <1>1
<1>3. \A ev \in Followed : Queued(ev)' <=> Queued(ev) \/ m.ev = ev
  BY <1>1, <1>2 DEF Queued
<1>4. ASSUME NEW ev \in Followed, Once(ev), m.ev = ev => ~Queued(ev)
      PROVE  Once(ev)'
  BY <1>1, <1>2, <1>4 DEF Once, Queued
<1>5. ASSUME NEW e \in Followed, NEW f \in Followed, e # f, Ahead(e, f), m.ev = e => ~Queued(f)
      PROVE  Ahead(e, f)'
  BY <1>1, <1>2, <1>5 DEF Ahead, Queued
<1> QED BY <1>1, <1>3, <1>4, <1>5

\* A message is added that the invariant does not follow, or a change of
\* address is passed on.
LEMMA SentOther ==
  ASSUME mq \in Seq(Messages), NEW m \in Messages, m.ev \notin Followed, Send(m)
  PROVE  QueueSame /\ mq' \in Seq(Messages)
<1>1. \A e \in Followed : Ahead(e, e) => Ahead(e, e)'
  <2>1. /\ Len(mq) \in Nat /\ Len(mq') = Len(mq) + 1
        /\ \A i \in 1 .. Len(mq) : mq'[i] = mq[i]
        /\ mq'[Len(mq) + 1] = m
    BY LenProperties, AppendProperties DEF Send
  <2>2. 1 .. Len(mq') = (1 .. Len(mq)) \cup {Len(mq) + 1}
    BY <2>1
  <2> QED BY <2>1, <2>2 DEF Ahead
<1> QED BY <1>1, Sent DEF QueueSame

\* A change of the address sends both messages about it or none.
LEMMA AddressPassedOn ==
  ASSUME mq \in Seq(Messages), NEW a, SetAddr(a)
  PROVE  QueueSame /\ mq' \in Seq(Messages) /\ addr' = a
<1> DEFINE two == <<Msg("IP_UPDATE"), Msg("IP_GOT")>>
<1>1. CASE mq' = mq
  BY <1>1 DEF QueueSame, Queued, Once, Ahead, SetAddr
<1>2. CASE mq' = mq \o two
  <2>1. Msg("IP_UPDATE") \in Messages /\ Msg("IP_GOT") \in Messages
    BY DEF Msg, Messages, Events
  <2>2. two \in Seq(Messages) /\ Len(two) = 2 /\ two[1] = Msg("IP_UPDATE") /\ two[2] = Msg("IP_GOT")
    BY <2>1
  <2> HIDE DEF two
  <2>3. /\ mq \o two \in Seq(Messages) /\ Len(mq \o two) = Len(mq) + Len(two)
        /\ \A i \in 1 .. Len(mq) + Len(two) :
             (mq \o two)[i] = IF i <= Len(mq) THEN mq[i] ELSE two[i - Len(mq)]
    <3>1. mq \in Seq(Messages) /\ two \in Seq(Messages)
      BY <2>2
    <3> QED BY ONLY <3>1, ConcatProperties, Zenon
  <2>4. Len(mq) \in Nat
    BY LenProperties
  <2>5. /\ mq' \in Seq(Messages) /\ Len(mq') = Len(mq) + 2
        /\ \A i \in 1 .. Len(mq) : mq'[i] = mq[i]
        /\ mq'[Len(mq) + 1] = two[1] /\ mq'[Len(mq) + 2] = two[2]
    BY <1>2, <2>2, <2>3, <2>4
  <2>6. 1 .. Len(mq') = (1 .. Len(mq)) \cup {Len(mq) + 1, Len(mq) + 2}
    BY <2>4, <2>5
  <2>7. mq'[Len(mq) + 1].ev \notin Followed /\ mq'[Len(mq) + 2].ev \notin Followed
    BY <2>2, <2>5 DEF Msg, Followed
  <2>8. \A ev \in Followed : Queued(ev)' <=> Queued(ev)
    BY <2>5, <2>6, <2>7 DEF Queued
  <2>9. \A ev \in Followed : Once(ev) => Once(ev)'
    BY <2>4, <2>5, <2>6, <2>7 DEF Once
  <2>10. \A e, f \in Followed : Ahead(e, f) => Ahead(e, f)'
    BY <2>4, <2>5, <2>6, <2>7 DEF Ahead
  <2> QED BY <2>5, <2>8, <2>9, <2>10 DEF QueueSame, SetAddr
<1> QED BY <1>1, <1>2 DEF SetAddr

-------------------------------------------------------------------------------
(***************************************************************************)
(* Types                                                                   *)
(***************************************************************************)

\* What a transition leaves of the types.
LEMMA GoToTypes ==
  ASSUME TypeOK, NEW next \in States, GoTo(next)
  PROVE  /\ cur' \in States /\ netifapi' \in Seq({"stop", "clear", "setup"} \cup StaticIps)
         /\ pending_scan' \in BOOLEAN /\ ip_timer' \in BOOLEAN /\ retry_timer' \in BOOLEAN
         /\ timer_started' \in BOOLEAN /\ scanning' \in BOOLEAN
         /\ retry_profile' \in Profiles \cup {None}
<1> DEFINE S == {"stop", "clear", "setup"} \cup StaticIps
           a == IF cur = "ConnectedIPYes" THEN <<"stop", "clear">> ELSE <<>>
           b == IF next = "ConnectedIPNo" THEN <<"setup">> ELSE <<>>
<1>1. a \in Seq(S) /\ b \in Seq(S)
  <2>1. <<"stop", "clear">> \in Seq(S) /\ <<"setup">> \in Seq(S) /\ <<>> \in Seq(S)
    OBVIOUS
  <2> QED BY <2>1
<1>2. netifapi' = a \o b
  BY DEF GoTo, NetifCalls
<1>3. netifapi' \in Seq(S)
  <2> HIDE DEF a, b, S
  <2> QED BY <1>1, <1>2, ConcatProperties
<1>4. cur' \in States
  BY DEF GoTo
<1>5. /\ pending_scan' \in BOOLEAN /\ ip_timer' \in BOOLEAN /\ retry_timer' \in BOOLEAN
      /\ timer_started' \in BOOLEAN /\ scanning' \in BOOLEAN
  BY DEF GoTo, IpTimerAfter, RetryAfter, SendsPending, TypeOK
<1>6. retry_profile' \in Profiles \cup {None}
  BY DEF GoTo, TypeOK
<1> QED BY <1>3, <1>4, <1>5, <1>6

\* Every step keeps the types.
LEMMA TypeStep ==
  ASSUME TypeOK, StaInterface, [Next]_vars
  PROVE  TypeOK'
<1>1. mq \in Seq(Messages)
  BY DEF TypeOK, Messages
<1>2. \A ev \in Events : ev # "CONNECT" => Msg(ev) \in Messages
  BY DEF Msg, Messages
<1>3. ASSUME NEW m \in Messages, Call, Send(m), static' \in StaticIps \cup {None}
      PROVE  TypeOK'
  <2>1. mq' \in Seq(Messages)
    BY <1>1, <1>3, Sent
  <2>2. calls' \in 0 .. MaxCalls
    BY <1>3 DEF Call, TypeOK
  <2> QED BY <1>3, <2>1, <2>2 DEF TypeOK, Call, mgrVars, timerVars, lwipVars, fwVars, Messages
<1>4. ASSUME NEW ev \in AppRequests, Request(ev)
      PROVE  TypeOK'
  BY <1>2, <1>3, <1>4 DEF Request, Events, AppRequests, TypeOK
<1>5. ASSUME NEW p \in Profiles, Connect(p)
      PROVE  TypeOK'
  <2>1. [ev |-> "CONNECT", profile |-> p] \in Messages
    BY DEF Messages, Events
  <2> QED BY <1>3, <1>5, <2>1 DEF Connect, TypeOK
<1>6. ASSUME NEW ip \in StaticIps \cup {None}, IpSet(ip)
      PROVE  TypeOK'
  BY <1>2, <1>3, <1>6 DEF IpSet, Events
<1>7. CASE IfaceUp
  <2>1. mq' \in Seq(Messages)
    BY <1>1, <1>2, <1>7, Sent DEF IfaceUp, Events
  <2> QED BY <1>7, <2>1 DEF TypeOK, IfaceUp, mgrVars, timerVars, lwipVars, fwVars, Messages
<1>8. CASE Handle
  <2>1. /\ mq # <<>> /\ mq' = Tail(mq) /\ UNCHANGED <<static, addr, dhcp, netlink, bh, calls>>
    BY <1>8 DEF Handle, Take, PhyUp, IdleConnect, IdleSniffer, SnifferIdle, Connected, Disconnected,
       IpGot, IpUpdate, AppDisconnect, Reconnect, DisconnectIdle, DisableAutoreconnect,
       EnableAutoreconnect, FwDisconnectCmd, FwScan, Ignore, lwipVars
  <2>2. mq' \in Seq(Messages) /\ Head(mq) \in Messages
    BY <1>1, <2>1, Taken
  <2>3. \A next \in States : GoTo(next) =>
          /\ cur' \in States /\ netifapi' \in Seq({"stop", "clear", "setup"} \cup StaticIps)
          /\ pending_scan' \in BOOLEAN /\ ip_timer' \in BOOLEAN /\ retry_timer' \in BOOLEAN
          /\ timer_started' \in BOOLEAN /\ scanning' \in BOOLEAN
          /\ retry_profile' \in Profiles \cup {None}
    BY GoToTypes
  <2>4. Stay =>
          /\ cur' \in States /\ netifapi' \in Seq({"stop", "clear", "setup"} \cup StaticIps)
          /\ ip_timer' \in BOOLEAN /\ retry_timer' \in BOOLEAN
          /\ timer_started' \in BOOLEAN /\ retry_profile' \in Profiles \cup {None}
    BY DEF Stay, TypeOK, timerVars
  <2>5. {"Idle", "Connecting", "Sniffer", "ConnectedIPNo", "ConnectedIPYes", "Disconnect"} \subseteq States
    BY DEF States
  <2>6. ASSUME NEW p \in Profiles \cup {None}, FwConnect(p)
        PROVE  link' \in {"down", "joining", "up"} /\ target' \in Profiles \cup {None}
               /\ dreq' \in BOOLEAN
    BY <2>6 DEF FwConnect, TypeOK
  <2>7. FwDisconnect => dreq' \in BOOLEAN
    BY DEF FwDisconnect, TypeOK
  <2>8. (cur = "Disconnect" => sta_if - 1 \in Nat) /\ sta_if + 1 \in Nat
    BY DEF StaInterface, StaStates, TypeOK
  <2>9. CASE PhyUp \/ IdleSniffer \/ SnifferIdle \/ Connected \/ Disconnected \/ IpGot \/ IpUpdate
    BY <2>1, <2>2, <2>3, <2>4, <2>5, <2>9 DEF TypeOK, PhyUp, IdleSniffer, SnifferIdle, Connected,
       Disconnected, IpGot, IpUpdate, Messages
  <2>10. CASE IdleConnect
    <3>1. Head(mq).profile \in Profiles \cup {None}
      BY <2>2 DEF Messages
    <3>2. CASE GoTo("Connecting")
      BY <2>1, <2>2, <2>3, <2>5, <2>6, <2>8, <2>10, <3>1, <3>2 DEF TypeOK, IdleConnect, Messages
    <3>3. ASSUME Stay,
                 UNCHANGED <<sta_if, profile, link, target, dreq, pending_scan, scanning, autoreconnect>>
          PROVE  TypeOK'
      BY <2>1, <2>2, <2>4, <3>3 DEF TypeOK, Messages
    <3> QED BY <2>10, <3>2, <3>3 DEF IdleConnect
  <2>11. CASE AppDisconnect \/ FwDisconnectCmd
    BY <2>1, <2>2, <2>4, <2>7, <2>11 DEF TypeOK, AppDisconnect, FwDisconnectCmd, Messages
  <2>12. CASE Reconnect
    <3>1. retry_profile \in Profiles \cup {None}
      BY DEF TypeOK
    <3> QED BY <2>1, <2>2, <2>3, <2>5, <2>6, <2>12, <3>1 DEF TypeOK, Reconnect, Messages
  <2>13. CASE DisconnectIdle
    BY <2>1, <2>2, <2>3, <2>5, <2>8, <2>13 DEF TypeOK, DisconnectIdle, Messages
  <2>14. CASE DisableAutoreconnect
    <3>1. CASE cur = "Disconnect"
      BY <2>1, <2>2, <2>3, <2>5, <2>8, <2>14, <3>1 DEF TypeOK, DisableAutoreconnect, Messages
    <3>2. CASE cur # "Disconnect"
      <4>1. /\ Stay /\ autoreconnect' = FALSE
            /\ UNCHANGED <<sta_if, pending_scan, scanning, profile, link, target, dreq>>
        BY <2>14, <3>2 DEF DisableAutoreconnect
      <4>2. autoreconnect' \in BOOLEAN
        BY <4>1
      <4> QED BY <2>1, <2>2, <2>4, <4>1, <4>2 DEF TypeOK, Messages
    <3> QED BY <3>1, <3>2
  <2>15. CASE EnableAutoreconnect \/ Ignore
    <3>1. /\ Stay /\ autoreconnect' \in BOOLEAN
          /\ UNCHANGED <<profile, pending_scan, sta_if, link, target, dreq, scanning>>
      BY <2>15 DEF EnableAutoreconnect, Ignore, fwVars, TypeOK
    <3> QED BY <2>1, <2>2, <2>4, <3>1 DEF TypeOK, Messages
  <2>16. CASE FwScan
    BY <2>1, <2>2, <2>4, <2>16 DEF TypeOK, FwScan, Messages
  <2> QED BY <1>8, <2>9, <2>10, <2>11, <2>12, <2>13, <2>14, <2>15, <2>16 DEF Handle
<1>9. CASE NetifCall
  <2> DEFINE S == {"stop", "clear", "setup"} \cup StaticIps
  <2>1. netifapi \in Seq(S) /\ netifapi # <<>> /\ Tail(netifapi) \in Seq(S) /\ <<>> \in Seq(S)
    BY <1>9, HeadTailProperties, EmptySeq DEF NetifCall, TypeOK
  <2>2. static \in StaticIps => <<static>> \in Seq(S)
    OBVIOUS
  <2>3. netifapi' \in Seq(S)
    BY <1>9, <2>1, <2>2 DEF NetifCall, TypeOK
  <2>4. ASSUME NEW a \in StaticIps \cup Leases \cup {None}, SetAddr(a)
        PROVE  mq' \in Seq(Messages) /\ addr' \in StaticIps \cup Leases \cup {None}
    BY <1>1, <2>4, AddressPassedOn
  <2>5. DhcpStop => /\ mq' \in Seq(Messages) /\ addr' \in StaticIps \cup Leases \cup {None}
                    /\ dhcp' = "off"
    BY <2>4 DEF DhcpStop, TypeOK
  <2>6. /\ mq' \in Seq(Messages) /\ addr' \in StaticIps \cup Leases \cup {None}
        /\ dhcp' \in {"off", "seeking", "bound"}
    BY <1>1, <1>9, <2>4, <2>5 DEF NetifCall, TypeOK
  <2> QED BY <1>9, <2>3, <2>6 DEF NetifCall, TypeOK, timerVars, fwVars, Messages
<1>10. ASSUME NEW lease \in Leases, DhcpBind(lease)
       PROVE  TypeOK'
  <2>1. mq' \in Seq(Messages) /\ addr' = lease
    BY <1>1, <1>10, AddressPassedOn DEF DhcpBind
  <2> QED BY <1>10, <2>1 DEF DhcpBind, TypeOK, mgrVars, timerVars, fwVars, Messages
<1>11. CASE IpObtainingTimeout \/ DisconnectRetry \/ FwJoined \/ FwJoinFailed \/ FwDropped
  <2>1. mq' \in Seq(Messages)
    BY <1>1, <1>2, <1>11, Sent DEF IpObtainingTimeout, DisconnectRetry, FwJoined, FwJoinFailed,
       FwDropped, Events
  <2>2. CASE IpObtainingTimeout
    <3>1. ip_timer' \in BOOLEAN
      BY <2>2 DEF IpObtainingTimeout
    <3> QED BY <2>1, <2>2, <3>1 DEF TypeOK, IpObtainingTimeout, mgrVars, lwipVars, fwVars, Messages
  <2>3. CASE DisconnectRetry
    <3>1. retry_timer' \in BOOLEAN
      BY <2>3 DEF DisconnectRetry
    <3> QED BY <2>1, <2>3, <3>1 DEF TypeOK, DisconnectRetry, Copied, mgrVars, lwipVars, fwVars, Messages
  <2>4. CASE FwJoined
    BY <2>1, <2>4 DEF TypeOK, FwJoined, mgrVars, timerVars, lwipVars, Messages
  <2>5. CASE FwJoinFailed
    BY <2>1, <2>5 DEF TypeOK, FwJoinFailed, mgrVars, timerVars, lwipVars, Messages
  <2>6. CASE FwDropped
    <3>1. dreq' \in BOOLEAN
      BY <2>6 DEF FwDropped
    <3> QED BY <2>1, <2>6, <3>1 DEF TypeOK, FwDropped, mgrVars, timerVars, lwipVars, Messages
  <2> QED BY <1>11, <2>2, <2>3, <2>4, <2>5, <2>6
<1>12. CASE FwScanDone \/ BhLinkUp \/ BhLinkDown
  <2>1. CASE FwScanDone
    <3>1. scanning' \in BOOLEAN
      BY <2>1 DEF FwScanDone
    <3> QED BY <2>1, <3>1 DEF TypeOK, FwScanDone, mgrVars, timerVars, lwipVars
  <2>2. CASE BhLinkUp
    BY <2>2 DEF TypeOK, BhLinkUp, mgrVars, timerVars, fwVars
  <2>3. CASE BhLinkDown
    <3>1. netlink' \in BOOLEAN
      BY <2>3 DEF BhLinkDown
    <3> QED BY <2>3, <3>1 DEF TypeOK, BhLinkDown, mgrVars, timerVars, fwVars
  <2> QED BY <1>12, <2>1, <2>2, <2>3
<1>13. CASE BhClear
  <2>1. mq' \in Seq(Messages) /\ addr' = None
    BY <1>1, <1>13, AddressPassedOn DEF BhClear
  <2> QED BY <1>13, <2>1 DEF BhClear, TypeOK, mgrVars, timerVars, fwVars, Messages
<1>14. CASE UNCHANGED vars
  BY <1>14 DEF TypeOK, vars, mgrVars, timerVars, lwipVars, fwVars
<1>15. CASE DhcpNak \/ DhcpExpire
  <2>1. /\ SetAddr(None) /\ dhcp' = "seeking"
        /\ UNCHANGED <<mgrVars, static, timerVars, netlink, fwVars, bh, calls>>
    BY <1>15 DEF DhcpNak, DhcpExpire
  <2>2. mq' \in Seq(Messages) /\ addr' = None
    BY <1>1, <2>1, AddressPassedOn
  <2> QED BY <2>1, <2>2 DEF TypeOK, mgrVars, timerVars, fwVars, Messages
<1> QED BY <1>4, <1>5, <1>6, <1>7, <1>8, <1>9, <1>10, <1>11, <1>12, <1>13, <1>14, <1>15
    DEF Next, BottomHalf, DhcpClient

-------------------------------------------------------------------------------
(***************************************************************************)
(* The invariant: the steps that leave what it speaks of                   *)
(***************************************************************************)
Parts == StaInterface /\ LinkInv /\ RetryInv /\ JoinsLatest /\ TimerInv

USE DEF Parts, StaInterface, StaStates, LinkInv, StateFollowsLink, RetryInv, RetryOnItsWay,
        JoinsLatest, TimerInv, TimeoutOfOwnConnection

core == <<cur, profile, retry_timer, timer_started, retry_profile, ip_timer, sta_if, link, target>>

\* Nothing the invariant speaks of changes.
LEMMA Unseen ==
  ASSUME Parts, UNCHANGED core, QueueSame
  PROVE  Parts'
BY DEF core, QueueSame, Followed

\* What taking the first message leaves queued.
LEMMA HeadTaken ==
  ASSUME TypeOK, Parts, mq # <<>>, mq' = Tail(mq)
  PROVE  /\ Once("IND_CONNECTED")' /\ Once("IND_DISCONNECT")'
         /\ Ahead("IND_CONNECTED", "IND_DISCONNECT")' /\ Ahead("FW_DISCONNECT", "RECONNECT")'
         /\ Ahead("RECONNECT", "IND_CONNECTED")' /\ Ahead("RECONNECT", "IND_DISCONNECT")'
         /\ Queued("IND_CONNECTED")' => Queued("IND_CONNECTED")
         /\ Queued("IND_DISCONNECT")' => Queued("IND_DISCONNECT")
         /\ Queued("RECONNECT")' => Queued("RECONNECT")
         /\ Head(mq).ev # "IND_CONNECTED" /\ Queued("IND_CONNECTED") => Queued("IND_CONNECTED")'
         /\ Head(mq).ev # "IND_DISCONNECT" /\ Queued("IND_DISCONNECT") => Queued("IND_DISCONNECT")'
         /\ Head(mq).ev # "RECONNECT" /\ Queued("RECONNECT") => Queued("RECONNECT")'
         /\ Queued(Head(mq).ev)
         /\ Head(mq).ev = "IND_CONNECTED" => ~Queued("IND_CONNECTED")' /\ ~Queued("RECONNECT")
         /\ Head(mq).ev = "IND_DISCONNECT" =>
              ~Queued("IND_DISCONNECT")' /\ ~Queued("RECONNECT") /\ ~Queued("IND_CONNECTED")
<1>1. mq \in Seq(Messages)
  BY DEF TypeOK, Messages
<1> QED BY <1>1, Taken DEF Followed

\* The handler of a message leaves the state.
LEMMA TakenStay ==
  ASSUME TypeOK, Parts, mq # <<>>, mq' = Tail(mq), UNCHANGED core,
         Head(mq).ev \notin {"IND_CONNECTED", "IND_DISCONNECT"},
         Head(mq).ev = "RECONNECT" => cur # "Disconnect"
  PROVE  Parts'
BY HeadTaken DEF core

-------------------------------------------------------------------------------
(***************************************************************************)
(* The invariant: the transitions                                          *)
(***************************************************************************)
LEMMA ToOffline ==
  ASSUME TypeOK, Parts, mq # <<>>, mq' = Tail(mq),
         cur \in {"IfaceDown", "Idle", "Sniffer", "Disconnect"},
         NEW next \in {"Idle", "Sniffer"}, GoTo(next),
         sta_if' = 0, UNCHANGED <<profile, link, target>>
  PROVE  Parts'
BY HeadTaken DEF GoTo, IpTimerAfter, RetryAfter

\* A connection is tried from the two states that allow it.
LEMMA ToConnecting ==
  ASSUME TypeOK, Parts, mq # <<>>, mq' = Tail(mq), cur \in {"Idle", "Disconnect"},
         GoTo("Connecting"), sta_if' = 1, FwConnect(profile')
  PROVE  Parts'
BY HeadTaken DEF GoTo, IpTimerAfter, RetryAfter, FwConnect

\* The manager hears that it is connected.
LEMMA ConnectedStep ==
  ASSUME TypeOK, Parts, Connected
  PROVE  Parts'
BY HeadTaken DEF Connected, Take, GoTo, IpTimerAfter, RetryAfter

\* The manager hears that it is not connected any more.
LEMMA DisconnectedStep ==
  ASSUME TypeOK, Parts, Disconnected
  PROVE  Parts'
BY HeadTaken DEF Disconnected, Take, GoTo, IpTimerAfter, RetryAfter

\* The manager hears of an address.
LEMMA IpStep ==
  ASSUME TypeOK, Parts, IpGot \/ IpUpdate
  PROVE  Parts'
BY HeadTaken DEF IpGot, IpUpdate, Take, GoTo, IpTimerAfter, RetryAfter

\* The manager takes a message.
LEMMA HandleStep ==
  ASSUME TypeOK, Parts, Handle
  PROVE  Parts'
<1>1. mq # <<>> /\ mq' = Tail(mq)
  BY DEF Handle, Take, PhyUp, IdleConnect, IdleSniffer, SnifferIdle, Connected, Disconnected,
     IpGot, IpUpdate, AppDisconnect, Reconnect, DisconnectIdle, DisableAutoreconnect,
     EnableAutoreconnect, FwDisconnectCmd, FwScan, Ignore
<1>2. CASE PhyUp \/ IdleSniffer \/ SnifferIdle
  <2>1. CASE GoTo("Idle") \/ GoTo("Sniffer")
    BY <1>1, <1>2, <2>1, ToOffline DEF PhyUp, IdleSniffer, SnifferIdle
  <2>2. CASE PhyUp /\ Stay
    BY <1>1, <2>2, TakenStay DEF PhyUp, Take, Stay, timerVars, core
  <2> QED BY <1>2, <2>1, <2>2 DEF PhyUp, IdleSniffer, SnifferIdle
<1>3. CASE IdleConnect
  <2>1. CASE GoTo("Connecting") /\ sta_if' = sta_if + 1 /\ FwConnect(profile')
    BY <1>1, <1>3, <2>1, ToConnecting DEF IdleConnect
  <2>2. CASE Stay /\ UNCHANGED <<sta_if, profile, link, target>>
    BY <1>1, <1>3, <2>2, TakenStay DEF IdleConnect, Take, Stay, timerVars, core
  <2> QED BY <1>3, <2>1, <2>2 DEF IdleConnect
<1>4. CASE Reconnect
  <2>1. retry_profile = profile
    BY <1>1, <1>4, HeadTaken DEF Reconnect, Take
  <2> QED BY <1>1, <1>4, <2>1, ToConnecting DEF Reconnect
<1>5. CASE DisconnectIdle
  <2>1. sta_if' = 0
    BY <1>5 DEF DisconnectIdle
  <2> QED BY <1>1, <1>5, <2>1, ToOffline DEF DisconnectIdle
<1>6. CASE DisableAutoreconnect
  <2>1. CASE cur = "Disconnect"
    <3>1. sta_if' = 0
      BY <1>6, <2>1 DEF DisableAutoreconnect
    <3> QED BY <1>1, <1>6, <2>1, <3>1, ToOffline DEF DisableAutoreconnect
  <2>2. CASE cur # "Disconnect"
    BY <1>1, <1>6, <2>2, TakenStay DEF DisableAutoreconnect, Take, Stay, timerVars, core
  <2> QED BY <2>1, <2>2
<1>7. CASE AppDisconnect \/ EnableAutoreconnect \/ FwDisconnectCmd \/ FwScan
  BY <1>1, <1>7, TakenStay DEF AppDisconnect, EnableAutoreconnect, FwDisconnectCmd, FwScan, Take,
     Stay, timerVars, fwVars, core
<1>8. CASE Ignore
  <2>1. /\ Head(mq).ev = "RECONNECT" => cur # "Disconnect"
        /\ Head(mq).ev = "IND_CONNECTED" => cur # "Connecting"
        /\ Head(mq).ev = "IND_DISCONNECT" =>
             cur \notin {"Connecting", "ConnectedIPNo", "ConnectedIPYes"}
    BY <1>8 DEF Ignore, Handles
  <2>2. Head(mq).ev \notin {"IND_CONNECTED", "IND_DISCONNECT"}
    BY <1>1, <2>1, HeadTaken
  <2> QED BY <1>1, <1>8, <2>1, <2>2, TakenStay DEF Ignore, Stay, timerVars, fwVars, core
<1> QED BY <1>2, <1>3, <1>4, <1>5, <1>6, <1>7, <1>8, ConnectedStep, DisconnectedStep, IpStep DEF Handle

-------------------------------------------------------------------------------
(***************************************************************************)
(* The invariant: timers and firmware                                      *)
(***************************************************************************)

\* What adding a message of one of the kinds leaves queued.
LEMMA OneSent ==
  ASSUME TypeOK, NEW ev \in Followed, Send(Msg(ev))
  PROVE  /\ \A e \in Followed : Queued(e)' <=> Queued(e) \/ ev = e
         /\ \A e \in Followed : Once(e) /\ (ev = e => ~Queued(e)) => Once(e)'
         /\ \A e, f \in Followed :
              e # f /\ Ahead(e, f) /\ (ev = e => ~Queued(f)) => Ahead(e, f)'
<1>1. mq \in Seq(Messages) /\ Msg(ev) \in Messages /\ Msg(ev).ev = ev
  BY DEF TypeOK, Messages, Msg, Followed, Events
<1> QED BY <1>1, Sent

\* A timer of the manager expires.
LEMMA TimerStep ==
  ASSUME TypeOK, Parts, IpObtainingTimeout \/ DisconnectRetry
  PROVE  Parts'
<1>1. CASE IpObtainingTimeout
  BY <1>1, OneSent DEF IpObtainingTimeout, mgrVars, fwVars, Followed
<1>2. CASE DisconnectRetry
  BY <1>2, OneSent DEF DisconnectRetry, Copied, mgrVars, fwVars, Followed
<1> QED BY <1>1, <1>2

\* The firmware reports on the link.
LEMMA FirmwareStep ==
  ASSUME TypeOK, Parts, FwJoined \/ FwJoinFailed \/ FwDropped
  PROVE  Parts'
<1>1. CASE FwJoined
  BY <1>1, OneSent DEF FwJoined, mgrVars, timerVars, Followed
<1>2. CASE FwJoinFailed
  BY <1>2, OneSent DEF FwJoinFailed, mgrVars, timerVars, Followed
<1>3. CASE FwDropped
  BY <1>3, OneSent DEF FwDropped, mgrVars, timerVars, Followed
<1> QED BY <1>1, <1>2, <1>3

\* The application, lwIP and the bottom half: nothing the invariant follows.
LEMMA OthersUnseen ==
  ASSUME TypeOK,
         \/ \E ev \in AppRequests : Request(ev)
         \/ \E p \in Profiles : Connect(p)
         \/ \E ip \in StaticIps \cup {None} : IpSet(ip)
         \/ IfaceUp \/ NetifCall
         \/ DhcpClient
         \/ FwScanDone \/ BottomHalf \/ UNCHANGED vars
  PROVE  QueueSame /\ UNCHANGED core
<1>1. mq \in Seq(Messages)
  BY DEF TypeOK, Messages
<1>2. mq' = mq => QueueSame
  BY DEF QueueSame, Queued, Once, Ahead
<1>3. ASSUME NEW ev \in AppRequests \cup {"PHY_UP", "IP_UPDATE"}, Send(Msg(ev))
      PROVE  QueueSame
  <2>1. Msg(ev) \in Messages /\ Msg(ev).ev \notin Followed
    BY DEF Msg, Messages, Events, AppRequests, Followed
  <2> QED BY <1>1, <1>3, <2>1, SentOther
<1>4. ASSUME NEW p \in Profiles, Send([ev |-> "CONNECT", profile |-> p])
      PROVE  QueueSame
  <2>1. /\ [ev |-> "CONNECT", profile |-> p] \in Messages
        /\ [ev |-> "CONNECT", profile |-> p].ev \notin Followed
    BY DEF Messages, Events, Followed
  <2> QED BY <1>1, <1>4, <2>1, SentOther
<1>5. ASSUME NEW a, SetAddr(a)
      PROVE  QueueSame
  BY <1>1, <1>5, AddressPassedOn
<1>6. NetifCall => QueueSame
  BY <1>2, <1>5 DEF NetifCall, DhcpStop
<1>7. /\ \A ev \in AppRequests : Request(ev) => QueueSame
      /\ \A p \in Profiles : Connect(p) => QueueSame
      /\ \A ip \in StaticIps \cup {None} : IpSet(ip) => QueueSame
      /\ IfaceUp => QueueSame
  BY <1>3, <1>4 DEF Request, Connect, IpSet, IfaceUp
<1>8. /\ DhcpClient => QueueSame
      /\ FwScanDone \/ BottomHalf \/ UNCHANGED vars => QueueSame
  BY <1>2, <1>5 DEF DhcpClient, DhcpBind, DhcpNak, DhcpExpire, FwScanDone, BottomHalf,
     BhLinkUp, BhLinkDown, BhClear, vars
<1>9. UNCHANGED core
  <2>1. /\ \A ev \in AppRequests : Request(ev) => UNCHANGED core
        /\ \A p \in Profiles : Connect(p) => UNCHANGED core
        /\ \A ip \in StaticIps \cup {None} : IpSet(ip) => UNCHANGED core
        /\ IfaceUp \/ NetifCall => UNCHANGED core
    BY DEF Request, Connect, IpSet, Call, IfaceUp, NetifCall, mgrVars, timerVars, fwVars, core
  <2>2. /\ DhcpClient => UNCHANGED core
        /\ FwScanDone \/ BottomHalf \/ UNCHANGED vars => UNCHANGED core
    BY DEF DhcpClient, DhcpBind, DhcpNak, DhcpExpire, FwScanDone, BottomHalf, BhLinkUp,
       BhLinkDown, BhClear, vars, mgrVars,
       timerVars, fwVars, core
  <2> QED BY <2>1, <2>2
<1> QED BY <1>6, <1>7, <1>8, <1>9

\* The application, the TCP/IP thread and the bottom half.
LEMMA OthersStep ==
  ASSUME TypeOK, Parts,
         \/ \E ev \in AppRequests : Request(ev)
         \/ \E p \in Profiles : Connect(p)
         \/ \E ip \in StaticIps \cup {None} : IpSet(ip)
         \/ IfaceUp \/ NetifCall
         \/ DhcpClient
         \/ FwScanDone \/ BottomHalf \/ UNCHANGED vars
  PROVE  Parts'
BY OthersUnseen, Unseen

-------------------------------------------------------------------------------
(***************************************************************************)
(* Theorems                                                                *)
(***************************************************************************)
LEMMA Initial == Init => IInv
<1>1. SUFFICES ASSUME Init PROVE IInv
  OBVIOUS
<1>2. TypeOK
  <2>1. mq \in Seq(Messages) /\ netifapi \in Seq({"stop", "clear", "setup"} \cup StaticIps)
    BY <1>1, EmptySeq DEF Init
  <2>2. /\ autoreconnect \in BOOLEAN /\ pending_scan \in BOOLEAN /\ ip_timer \in BOOLEAN
        /\ retry_timer \in BOOLEAN /\ timer_started \in BOOLEAN /\ netlink \in BOOLEAN
        /\ dreq \in BOOLEAN /\ scanning \in BOOLEAN
    BY <1>1 DEF Init
  <2> QED BY <1>1, <2>1, <2>2 DEF Init, TypeOK, States, Messages
<1>3. Len(mq) = 0
  BY <1>1, EmptySeq DEF Init
<1>4. \A ev, e \in Followed : ~Queued(ev) /\ Once(ev) /\ Ahead(ev, e)
  BY <1>3 DEF Queued, Once, Ahead
<1>5. Parts
  BY <1>1, <1>4 DEF Init, Followed
<1> QED BY <1>2, <1>5 DEF IInv

\* IInv holds of every reachable state: which indications, retries and timeouts
\* are queued in which state of the manager.
THEOREM Invariance == Spec => []IInv
<1>1. IInv /\ [Next]_vars => IInv'
  <2>1. SUFFICES ASSUME TypeOK, Parts, [Next]_vars
                 PROVE  TypeOK' /\ Parts'
    BY DEF IInv
  <2>2. TypeOK'
    BY <2>1, TypeStep
  <2>3. Parts'
    BY <2>1, HandleStep, TimerStep, FirmwareStep, OthersStep DEF Next
  <2> QED BY <2>2, <2>3
<1> QED BY Initial, <1>1, PTL DEF Spec

\* The station's interface is in the firmware, once, in the states that use it.
THEOREM InterfaceNeverLeaked == Spec => []StaInterface
<1>1. IInv => StaInterface
  BY DEF IInv
<1> QED BY <1>1, Invariance, PTL

\* The manager's state follows the link up to the indications still queued.
THEOREM StateKnowsLink == Spec => []StateFollowsLink
<1>1. IInv => StateFollowsLink
  BY DEF IInv
<1> QED BY <1>1, Invariance, PTL

\* A station that reconnects always has the next attempt on its way.
THEOREM RetryNeverLost == Spec => []RetryOnItsWay
<1>1. IInv => RetryOnItsWay
  BY DEF IInv
<1> QED BY <1>1, Invariance, PTL

\* Every attempt is for the network of the last accepted request.
THEOREM LatestNetwork == Spec => []JoinsLatest
<1>1. IInv => JoinsLatest
  BY DEF IInv
<1> QED BY <1>1, Invariance, PTL

\* An address timeout never ends the attempt of a retry.
THEOREM TimeoutBeforeRetry == Spec => []TimeoutOfOwnConnection
<1>1. IInv => TimeoutOfOwnConnection
  BY DEF IInv
<1> QED BY <1>1, Invariance, PTL

\* No step starts a scan while the firmware joins: not the handler of a scan
\* request, nor an entry action that sends a deferred one.
THEOREM ScanKeepsOff == Spec => NoScanWhileJoining
<1>1. IInv /\ [Next]_vars => [~scanning /\ scanning' => link # "joining"]_vars
  <2>1. SUFFICES ASSUME IInv, Next, ~scanning, scanning'
                 PROVE  link # "joining"
    OBVIOUS
  <2>2. SUFFICES ASSUME cur = "Connecting"
                 PROVE  link # "joining"
    BY <2>1 DEF IInv
  <2>3. Handle
    BY <2>1 DEF Next, Request, Connect, IpSet, Call, IfaceUp, NetifCall,
       DhcpClient, DhcpBind, DhcpNak, DhcpExpire,
       IpObtainingTimeout, DisconnectRetry, FwJoined, FwJoinFailed, FwDropped, FwScanDone,
       BottomHalf, BhLinkUp, BhLinkDown, BhClear, fwVars
  <2>4. Connected \/ Disconnected
    BY <2>1, <2>2, <2>3 DEF Handle, PhyUp, IdleConnect, IdleSniffer, SnifferIdle, IpGot, IpUpdate,
       AppDisconnect, Reconnect, DisconnectIdle, DisableAutoreconnect, EnableAutoreconnect,
       FwDisconnectCmd, FwScan, DefersScan, Ignore, Stay, fwVars
  <2>5. Queued("IND_CONNECTED") \/ Queued("IND_DISCONNECT")
    BY <2>1, <2>4, HeadTaken DEF Connected, Disconnected, Take, IInv
  <2> QED BY <2>1, <2>5 DEF IInv
<1> QED BY <1>1, Invariance, PTL DEF Spec, NoScanWhileJoining

-------------------------------------------------------------------------------
(***************************************************************************)
(* The refinement of StationLink                                           *)
(***************************************************************************)
seen == <<cur, profile, sta_if, link, target>>

\* Whether a message is queued is true or false.
LEMMA QueuedTruth == \A ev : Queued(ev) \in BOOLEAN /\ Queued(ev)' \in BOOLEAN
BY DEF Queued

\* A step that leaves the state, the firmware and the indications is not seen.
LEMMA StationUnseen ==
  ASSUME UNCHANGED seen,
         Queued("IND_CONNECTED")' <=> Queued("IND_CONNECTED"),
         Queued("IND_DISCONNECT")' <=> Queued("IND_DISCONNECT")
  PROVE  UNCHANGED Station!vars
<1>1. View' = View
  BY DEF seen, View
<1> QED BY <1>1, QueuedTruth DEF seen, Station!vars

\* Taking a message that is no indication leaves both.
LEMMA OtherTaken ==
  ASSUME TypeOK, Parts, mq # <<>>, mq' = Tail(mq),
         Head(mq).ev \notin {"IND_CONNECTED", "IND_DISCONNECT"}
  PROVE  /\ Queued("IND_CONNECTED")' <=> Queued("IND_CONNECTED")
         /\ Queued("IND_DISCONNECT")' <=> Queued("IND_DISCONNECT")
BY HeadTaken

\* The first attempt, and the next one.
LEMMA AskStep ==
  ASSUME TypeOK, Parts, IdleConnect \/ Reconnect
  PROVE  [Station!Next]_(Station!vars)
<1>1. mq # <<>> /\ mq' = Tail(mq)
  BY DEF IdleConnect, Reconnect, Take
<1>2. Head(mq) \in Messages
  BY <1>1, Taken DEF TypeOK
<1>3. Head(mq).ev \in {"CONNECT", "RECONNECT"}
  BY DEF IdleConnect, Reconnect, Take
<1>4. /\ Queued("IND_CONNECTED")' <=> Queued("IND_CONNECTED")
      /\ Queued("IND_DISCONNECT")' <=> Queued("IND_DISCONNECT")
  BY <1>1, <1>3, OtherTaken
<1>5. CASE IdleConnect
  <2>1. CASE Stay /\ UNCHANGED <<sta_if, profile, link, target>>
    BY <1>4, <2>1, StationUnseen DEF Stay, seen
  <2>2. CASE /\ GoTo("Connecting") /\ sta_if' = sta_if + 1
             /\ profile' = Head(mq).profile /\ FwConnect(Head(mq).profile)
    <3> DEFINE p == Head(mq).profile
    <3>1. p \in Profiles
      BY <1>2, <1>5 DEF Messages, IdleConnect, Take
    <3>2. View = "off" /\ View' = "trying" /\ sta_if = 0 /\ sta_if' = 1 /\ link = "down"
      BY <1>5, <2>2 DEF IdleConnect, GoTo, View
    <3>3. ~Queued("IND_CONNECTED") /\ ~Queued("IND_DISCONNECT")
      BY <1>5 DEF IdleConnect
    <3>4. Station!Begin(p)
      BY <1>4, <2>2, <3>2, <3>3, QueuedTruth DEF Station!Begin, Station!Ask, FwConnect
    <3> QED BY <3>1, <3>4 DEF Station!Next
  <2> QED BY <1>5, <2>1, <2>2 DEF IdleConnect
<1>6. CASE Reconnect
  <2>1. retry_profile = profile
    BY <1>1, <1>6, HeadTaken DEF Reconnect, Take
  <2>2. View = "lost" /\ View' = "trying" /\ link = "down"
    BY <1>6 DEF Reconnect, GoTo, View
  <2>3. ~Queued("IND_CONNECTED") /\ ~Queued("IND_DISCONNECT")
    BY <1>6 DEF Reconnect
  <2>4. Station!Again
    BY <1>4, <1>6, <2>1, <2>2, <2>3, QueuedTruth DEF Station!Again, Station!Ask, Reconnect, FwConnect
  <2> QED BY <2>4 DEF Station!Next
<1> QED BY <1>5, <1>6

\* The station goes idle.
LEMMA EndStep ==
  ASSUME TypeOK, Parts, DisconnectIdle \/ (DisableAutoreconnect /\ cur = "Disconnect")
  PROVE  Station!End
<1>1. mq # <<>> /\ mq' = Tail(mq) /\ Head(mq).ev \in {"IDLE", "DISABLE_AUTORECONNECT"}
  BY DEF DisconnectIdle, DisableAutoreconnect, Take
<1>2. /\ Queued("IND_CONNECTED")' <=> Queued("IND_CONNECTED")
      /\ Queued("IND_DISCONNECT")' <=> Queued("IND_DISCONNECT")
  BY <1>1, OtherTaken
<1>3. /\ cur = "Disconnect" /\ GoTo("Idle") /\ sta_if = 1 /\ sta_if' = 0
      /\ link = "down" /\ UNCHANGED <<profile, link, target>>
  BY DEF DisconnectIdle, DisableAutoreconnect
<1>4. View = "lost" /\ View' = "off"
  BY <1>3 DEF GoTo, View
<1> QED BY <1>2, <1>3, <1>4, QueuedTruth DEF Station!End

\* The indications are heard.
LEMMA HearStep ==
  ASSUME TypeOK, Parts, Connected \/ Disconnected
  PROVE  Station!Next
<1>1. mq # <<>> /\ mq' = Tail(mq) /\ UNCHANGED <<profile, sta_if, link, target>>
  BY DEF Connected, Disconnected, Take
<1>2. CASE Connected
  <2>1. Head(mq).ev = "IND_CONNECTED" /\ View = "trying" /\ View' = "on"
    BY <1>2 DEF Connected, Take, GoTo, View
  <2>2. /\ Queued("IND_CONNECTED") /\ ~Queued("IND_CONNECTED")'
        /\ Queued("IND_DISCONNECT")' <=> Queued("IND_DISCONNECT")
    BY <1>1, <2>1, HeadTaken
  <2> QED BY <1>1, <2>1, <2>2, QueuedTruth DEF Station!Next, Station!HearUp
<1>3. CASE Disconnected
  <2>1. Head(mq).ev = "IND_DISCONNECT" /\ View \in {"trying", "on"} /\ View' = "lost"
    BY <1>3 DEF Disconnected, Take, GoTo, View
  <2>2. /\ Queued("IND_DISCONNECT") /\ ~Queued("IND_DISCONNECT")'
        /\ ~Queued("IND_CONNECTED") /\ ~Queued("IND_CONNECTED")'
    BY <1>1, <2>1, HeadTaken
  <2> QED BY <1>1, <2>1, <2>2, QueuedTruth DEF Station!Next, Station!HearDown
<1> QED BY <1>2, <1>3

\* The other messages change nothing the application is told of the link.
LEMMA QuietHandle ==
  ASSUME TypeOK, Parts,
         \/ PhyUp \/ IdleSniffer \/ SnifferIdle \/ IpGot \/ IpUpdate \/ AppDisconnect
         \/ (DisableAutoreconnect /\ cur # "Disconnect") \/ EnableAutoreconnect
         \/ FwDisconnectCmd \/ FwScan \/ Ignore
  PROVE  UNCHANGED Station!vars
<1>1. mq # <<>> /\ mq' = Tail(mq)
  BY DEF Take, PhyUp, IdleSniffer, SnifferIdle, IpGot, IpUpdate, AppDisconnect,
     DisableAutoreconnect, EnableAutoreconnect, FwDisconnectCmd, FwScan, Ignore
<1>2. Head(mq).ev \notin {"IND_CONNECTED", "IND_DISCONNECT"}
  <2>1. CASE Ignore
    <3>1. /\ Head(mq).ev = "IND_CONNECTED" => cur # "Connecting"
          /\ Head(mq).ev = "IND_DISCONNECT" =>
               cur \notin {"Connecting", "ConnectedIPNo", "ConnectedIPYes"}
      BY <2>1 DEF Ignore, Handles
    <3> QED BY <1>1, <3>1, HeadTaken
  <2>2. CASE ~Ignore
    BY <2>2 DEF Take, PhyUp, IdleSniffer, SnifferIdle, IpGot, IpUpdate, AppDisconnect,
       DisableAutoreconnect, EnableAutoreconnect, FwDisconnectCmd, FwScan
  <2> QED BY <2>1, <2>2
<1>3. /\ Queued("IND_CONNECTED")' <=> Queued("IND_CONNECTED")
      /\ Queued("IND_DISCONNECT")' <=> Queued("IND_DISCONNECT")
  BY <1>1, <1>2, OtherTaken
<1>4. UNCHANGED <<profile, sta_if, link, target>>
  BY DEF PhyUp, IdleSniffer, SnifferIdle, IpGot, IpUpdate, AppDisconnect,
     DisableAutoreconnect, EnableAutoreconnect, FwDisconnectCmd, FwScan, Ignore, fwVars
<1>5. View' = View
  <2>1. CASE cur' = cur
    BY <2>1 DEF View
  <2>2. CASE cur' # cur
    <3>1. \/ cur = "IfaceDown" /\ cur' = "Idle"
          \/ cur = "Idle" /\ cur' = "Sniffer"
          \/ cur = "Sniffer" /\ cur' = "Idle"
          \/ cur = "ConnectedIPNo" /\ cur' = "ConnectedIPYes"
          \/ cur = "ConnectedIPYes" /\ cur' = "ConnectedIPNo"
      BY <2>2 DEF PhyUp, IdleSniffer, SnifferIdle, IpGot, IpUpdate, AppDisconnect,
         DisableAutoreconnect, EnableAutoreconnect, FwDisconnectCmd, FwScan, Ignore, GoTo, Stay
    <3> QED BY <3>1 DEF View
  <2> QED BY <2>1, <2>2
<1> QED BY <1>3, <1>4, <1>5, QueuedTruth DEF Station!vars

\* The firmware joins, fails or loses a network.
LEMMA FirmwareSeen ==
  ASSUME TypeOK, Parts, FwJoined \/ FwJoinFailed \/ FwDropped
  PROVE  Station!Next
<1>1. View' = View /\ UNCHANGED <<profile, sta_if>>
  BY DEF FwJoined, FwJoinFailed, FwDropped, mgrVars, View
<1>2. CASE FwJoined
  <2>1. /\ Queued("IND_CONNECTED")'
        /\ Queued("IND_DISCONNECT")' <=> Queued("IND_DISCONNECT")
    BY <1>2, OneSent DEF FwJoined, Followed
  <2> QED BY <1>1, <1>2, <2>1, QueuedTruth DEF FwJoined, Station!Next, Station!Join
<1>3. CASE FwJoinFailed \/ FwDropped
  <2>1. /\ Queued("IND_DISCONNECT")'
        /\ Queued("IND_CONNECTED")' <=> Queued("IND_CONNECTED")
    BY <1>3, OneSent DEF FwJoinFailed, FwDropped, Followed
  <2> QED BY <1>1, <1>3, <2>1, QueuedTruth DEF FwJoinFailed, FwDropped, Station!Next, Station!Lose
<1> QED BY <1>2, <1>3

\* The timers add a message of another kind.
LEMMA TimerUnseen ==
  ASSUME TypeOK, Parts, IpObtainingTimeout \/ DisconnectRetry
  PROVE  UNCHANGED Station!vars
<1>1. /\ Queued("IND_CONNECTED")' <=> Queued("IND_CONNECTED")
      /\ Queued("IND_DISCONNECT")' <=> Queued("IND_DISCONNECT")
  BY OneSent DEF IpObtainingTimeout, DisconnectRetry, Followed
<1>2. UNCHANGED seen
  BY DEF IpObtainingTimeout, DisconnectRetry, mgrVars, fwVars, seen
<1> QED BY <1>1, <1>2, StationUnseen

\* The manager implements the station link: every indication is heard, once and
\* in order, in a state that handles it, and an attempt begins only when nothing
\* of the last is left, for the network asked for last (wifi_mgmr.c:674-740,
\* 1195-1260).
THEOREM Refinement == Spec => ImplementsStationLink
<1>1. Init => Station!Init
  <2> SUFFICES ASSUME Init PROVE Station!Init
    OBVIOUS
  <2>1. \A ev : ~Queued(ev)
    BY EmptySeq DEF Init, Queued
  <2> QED BY <2>1 DEF Init, Station!Init, View
<1>2. IInv /\ [Next]_vars => [Station!Next]_(Station!vars)
  <2> SUFFICES ASSUME TypeOK, Parts, [Next]_vars
               PROVE  [Station!Next]_(Station!vars)
    BY DEF IInv
  <2>1. CASE Handle
    BY <2>1, AskStep, EndStep, HearStep, QuietHandle DEF Handle, Station!Next
  <2>2. CASE \/ \E ev \in AppRequests : Request(ev)
             \/ \E p \in Profiles : Connect(p)
             \/ \E ip \in StaticIps \cup {None} : IpSet(ip)
             \/ IfaceUp \/ NetifCall
             \/ DhcpClient
             \/ FwScanDone \/ BottomHalf \/ UNCHANGED vars
    <3>1. QueueSame /\ UNCHANGED core
      BY <2>2, OthersUnseen
    <3> QED BY <3>1, StationUnseen DEF QueueSame, Followed, core, seen
  <2> QED BY <2>1, <2>2, TimerUnseen, FirmwareSeen DEF Next
<1> QED BY <1>1, <1>2, Invariance, PTL DEF Spec, Station!Spec, ImplementsStationLink

-------------------------------------------------------------------------------
(***************************************************************************)
(* The address: IPYesHasAddress fails when a lease ends or is replaced, or *)
(* a static address is configured (README).  It holds if none of these     *)
(* ever happens.                                                           *)
(***************************************************************************)

\* What the address of a station depends on stays as it is.
Kept ==
  /\ static' = None
  /\ addr # None => addr' \in {addr, None} /\ ~DhcpNak /\ ~DhcpExpire

\* An IP_GOT that the manager takes in the connection it is about.
Live(i) ==
  /\ i \in 1 .. Len(mq) /\ mq[i].ev = "IP_GOT"
  /\ \A j \in 1 .. Len(mq) : mq[j].ev = "IND_CONNECTED" => j < i
NoneLive == \A i \in 1 .. Len(mq) : ~Live(i)
LiveOnce == \A i, j \in 1 .. Len(mq) : Live(i) /\ Live(j) => i = j

\* What the bottom half has still to do is about the link that there is.
NetworkInv ==
  /\ bh = "linkup" => link = "up"
  /\ bh \in {"linkdown", "clear"} => link = "down"
  /\ static = None

\* What a handler may have left to ask of the TCP/IP thread.
CallsInv ==
  /\ cur \notin {"ConnectedIPNo", "Disconnect"} => netifapi = <<>>
  /\ cur = "Disconnect" => netifapi \in {<<>>, <<"clear">>, <<"stop", "clear">>}
  /\ cur = "ConnectedIPNo" =>
       netifapi \in {<<>>, <<"setup">>, <<"clear", "setup">>, <<"stop", "clear", "setup">>}
  /\ cur = "ConnectedIPNo" /\ netifapi = <<"clear", "setup">> => dhcp = "off"

\* An address is announced once and is there when the manager hears of it.
AddressInv ==
  link = "up" =>
    /\ LiveOnce
    /\ NoneLive \/ addr # None
    /\ cur = "ConnectedIPYes" \/ netifapi = <<"stop", "clear", "setup">> =>
         NoneLive /\ addr # None
    /\ netifapi = <<"clear", "setup">> => NoneLive

NetInv == NetworkInv /\ CallsInv /\ AddressInv

\* No further announcement is in the queue than before.
LiveSame == (NoneLive => NoneLive') /\ (LiveOnce => LiveOnce')

\* The first message is taken; it may be the announcement itself.
LEMMA LiveTaken ==
  ASSUME mq \in Seq(Messages), mq # <<>>, mq' = Tail(mq)
  PROVE  /\ LiveSame
         /\ Head(mq).ev = "IP_GOT" /\ ~Queued("IND_CONNECTED") => ~NoneLive
         /\ Head(mq).ev = "IP_GOT" /\ ~Queued("IND_CONNECTED") /\ LiveOnce => NoneLive'
<1>1. /\ Len(mq) \in Nat /\ Len(mq) >= 1 /\ Head(mq) = mq[1]
      /\ Len(mq') = Len(mq) - 1
      /\ \A i \in 1 .. Len(mq) - 1 : mq'[i] = mq[i + 1]
  BY HeadTailProperties, LenProperties, EmptySeq
<1>2. ASSUME NEW i \in 1 .. Len(mq'), Live(i)'
      PROVE  i + 1 \in 1 .. Len(mq) /\ Live(i + 1)
  <2>1. i \in 1 .. Len(mq) - 1 /\ i + 1 \in 1 .. Len(mq) /\ mq[i + 1].ev = "IP_GOT"
    BY <1>1, <1>2 DEF Live
  <2>2. ASSUME NEW j \in 1 .. Len(mq), mq[j].ev = "IND_CONNECTED"
        PROVE  j < i + 1
    <3>1. CASE j = 1
      BY <1>1, <2>1, <3>1
    <3>2. CASE j # 1
      <4>1. j - 1 \in 1 .. Len(mq') /\ mq'[j - 1] = mq[j]
        BY <1>1, <3>2
      <4>2. j - 1 < i
        BY <1>2, <2>2, <4>1 DEF Live
      <4> QED BY <2>1, <4>2
    <3> QED BY <3>1, <3>2
  <2> QED BY <2>1, <2>2 DEF Live
<1>3. LiveSame
  <2>1. NoneLive => NoneLive'
    BY <1>2 DEF NoneLive
  <2>2. ASSUME LiveOnce, NEW i \in 1 .. Len(mq'), NEW j \in 1 .. Len(mq'), Live(i)', Live(j)'
        PROVE  i = j
    <3>1. i + 1 = j + 1
      BY <1>2, <2>2 DEF LiveOnce
    <3> QED BY <1>1, <3>1
  <2> QED BY <2>1, <2>2 DEF LiveSame, LiveOnce
<1>4. ASSUME Head(mq).ev = "IP_GOT", ~Queued("IND_CONNECTED")
      PROVE  1 \in 1 .. Len(mq) /\ Live(1)
  BY <1>1, <1>4 DEF Live, Queued
<1>5. ASSUME Head(mq).ev = "IP_GOT", ~Queued("IND_CONNECTED"), LiveOnce
      PROVE  NoneLive'
  <2>1. SUFFICES ASSUME NEW i \in 1 .. Len(mq'), Live(i)' PROVE FALSE
    BY DEF NoneLive
  <2>2. i + 1 = 1
    BY <1>2, <1>4, <1>5, <2>1 DEF LiveOnce
  <2> QED BY <1>1, <2>2
<1> QED BY <1>3, <1>4, <1>5 DEF NoneLive

\* Another message is added; a new connection outdates what is queued.
LEMMA LiveSent ==
  ASSUME mq \in Seq(Messages), NEW m \in Messages, Send(m), m.ev # "IP_GOT"
  PROVE  LiveSame /\ (m.ev = "IND_CONNECTED" => NoneLive')
<1>1. /\ Len(mq) \in Nat /\ Len(mq') = Len(mq) + 1
      /\ \A i \in 1 .. Len(mq) : mq'[i] = mq[i]
      /\ mq'[Len(mq) + 1] = m
  BY LenProperties, AppendProperties DEF Send
<1>2. 1 .. Len(mq') = (1 .. Len(mq)) \cup {Len(mq) + 1}
  BY <1>1
<1>3. ASSUME NEW i \in 1 .. Len(mq'), Live(i)'
      PROVE  i \in 1 .. Len(mq) /\ Live(i) /\ m.ev # "IND_CONNECTED"
  <2>1. i \in 1 .. Len(mq)
    BY <1>1, <1>2, <1>3 DEF Live
  <2>2. Live(i)
    BY <1>1, <1>2, <1>3, <2>1 DEF Live
  <2>3. m.ev # "IND_CONNECTED"
    BY <1>1, <1>2, <1>3, <2>1 DEF Live
  <2> QED BY <2>1, <2>2, <2>3
<1> QED BY <1>3 DEF LiveSame, LiveOnce, NoneLive

\* lwIP announces an address that it did not have.
LEMMA LiveAddress ==
  ASSUME mq \in Seq(Messages), NEW a, SetAddr(a)
  PROVE  /\ a \in {addr, None} => LiveSame
         /\ NoneLive => LiveOnce'
<1> DEFINE two == <<Msg("IP_UPDATE"), Msg("IP_GOT")>>
<1>1. CASE mq' = mq
  BY <1>1 DEF LiveSame, LiveOnce, NoneLive, Live
<1>2. CASE a \notin {addr, None} /\ mq' = mq \o two
  <2>1. Msg("IP_UPDATE") \in Messages /\ Msg("IP_GOT") \in Messages
    BY DEF Msg, Messages, Events
  <2>2. two \in Seq(Messages) /\ Len(two) = 2 /\ two[1] = Msg("IP_UPDATE") /\ two[2] = Msg("IP_GOT")
    BY <2>1
  <2> HIDE DEF two
  <2>3. /\ Len(mq \o two) = Len(mq) + Len(two)
        /\ \A i \in 1 .. Len(mq) + Len(two) :
             (mq \o two)[i] = IF i <= Len(mq) THEN mq[i] ELSE two[i - Len(mq)]
    <3>1. mq \in Seq(Messages) /\ two \in Seq(Messages)
      BY <2>2
    <3> QED BY ONLY <3>1, ConcatProperties, Zenon
  <2>4. Len(mq) \in Nat
    BY LenProperties
  <2>5. /\ Len(mq') = Len(mq) + 2
        /\ \A i \in 1 .. Len(mq) : mq'[i] = mq[i]
        /\ mq'[Len(mq) + 1].ev = "IP_UPDATE"
    BY <1>2, <2>2, <2>3, <2>4 DEF Msg
  <2>6. 1 .. Len(mq') = (1 .. Len(mq)) \cup {Len(mq) + 1, Len(mq) + 2}
    BY <2>4, <2>5
  <2>7. ASSUME NoneLive, NEW i \in 1 .. Len(mq'), Live(i)'
        PROVE  i = Len(mq) + 2
    <3>1. i \in 1 .. Len(mq) => Live(i)
      BY <2>5, <2>6, <2>7 DEF Live
    <3> QED BY <2>5, <2>6, <2>7, <3>1 DEF NoneLive, Live
  <2> QED BY <1>2, <2>7 DEF LiveOnce
<1> QED BY <1>1, <1>2 DEF SetAddr

\* The calls of a handler, joined and taken one by one.
LEMMA CallSequences ==
  /\ <<"stop", "clear">> \o <<"setup">> = <<"stop", "clear", "setup">>
  /\ <<"stop", "clear">> \o <<>> = <<"stop", "clear">>
  /\ <<>> \o <<"setup">> = <<"setup">> /\ <<>> \o <<>> = <<>>
  /\ Tail(<<"stop", "clear", "setup">>) = <<"clear", "setup">>
  /\ Tail(<<"stop", "clear">>) = <<"clear">>
  /\ Tail(<<"clear", "setup">>) = <<"setup">> /\ Tail(<<"clear">>) = <<>>
<1> DEFINE a == <<"stop", "clear">>
           b == <<"setup">>
           c == <<"stop", "clear", "setup">>
<1>1. /\ a \in Seq({"stop", "clear", "setup"}) /\ b \in Seq({"stop", "clear", "setup"})
      /\ c \in Seq({"stop", "clear", "setup"})
  OBVIOUS
<1>2. Len(a) = 2 /\ a[1] = "stop" /\ a[2] = "clear"
  OBVIOUS
<1>3. Len(b) = 1 /\ b[1] = "setup" /\ Len(c) = 3 /\ c[1] = "stop" /\ c[2] = "clear" /\ c[3] = "setup"
  OBVIOUS
<1> HIDE DEF a, b, c
<1>4. /\ a \o b \in Seq({"stop", "clear", "setup"}) /\ Len(a \o b) = Len(a) + Len(b)
      /\ \A i \in 1 .. Len(a) + Len(b) :
           (a \o b)[i] = IF i <= Len(a) THEN a[i] ELSE b[i - Len(a)]
  BY ONLY <1>1, ConcatProperties, Zenon
<1>5. Len(a \o b) = Len(c) /\ \A i \in 1 .. 3 : (a \o b)[i] = c[i]
  BY <1>1, <1>2, <1>3, <1>4
<1>6. a \o b = c
  BY <1>1, <1>3, <1>4, <1>5, SeqEqual
<1>7. <<"stop", "clear">> \o <<"setup">> = <<"stop", "clear", "setup">>
  BY <1>6 DEF a, b, c
<1>8. <<"stop", "clear">> \o <<>> = <<"stop", "clear">>
  BY ConcatEmptySeq
<1>9. <<>> \o <<"setup">> = <<"setup">>
  BY ConcatEmptySeq
<1>10. <<>> \o <<>> = <<>>
  BY ConcatEmptySeq, EmptySeq
<1>11. Tail(<<"stop", "clear", "setup">>) = <<"clear", "setup">>
  OBVIOUS
<1>12. Tail(<<"stop", "clear">>) = <<"clear">>
  OBVIOUS
<1>13. Tail(<<"clear", "setup">>) = <<"setup">> /\ Tail(<<"clear">>) = <<>>
  OBVIOUS
<1> QED BY <1>7, <1>8, <1>9, <1>10, <1>11, <1>12, <1>13

LEMMA NetInit == Init => NetInv
<1>1. SUFFICES ASSUME Init PROVE NetInv
  OBVIOUS
<1> QED BY <1>1 DEF Init, NetInv, NetworkInv, CallsInv, AddressInv

\* The manager takes a message: it begins its calls in the connection that it leaves.
LEMMA NetHandle ==
  ASSUME IInv, NetInv, Handle, Kept
  PROVE  NetInv'
<1> USE DEF NetInv, NetworkInv, CallsInv, AddressInv
<1>1. /\ mq # <<>> /\ mq' = Tail(mq) /\ netifapi = <<>>
      /\ UNCHANGED <<static, addr, dhcp, netlink, bh>>
  BY DEF Handle, Take, PhyUp, IdleConnect, IdleSniffer, SnifferIdle, Connected, Disconnected,
     IpGot, IpUpdate, AppDisconnect, Reconnect, DisconnectIdle, DisableAutoreconnect,
     EnableAutoreconnect, FwDisconnectCmd, FwScan, Ignore, lwipVars
<1>2. /\ LiveSame
      /\ Head(mq).ev = "IP_GOT" /\ ~Queued("IND_CONNECTED") => ~NoneLive
      /\ Head(mq).ev = "IP_GOT" /\ ~Queued("IND_CONNECTED") /\ LiveOnce => NoneLive'
  <2>1. mq \in Seq(Messages)
    BY DEF IInv, TypeOK, Messages
  <2> QED BY <1>1, <2>1, LiveTaken
<1>3. link = "up" => cur \in {"Connecting", "ConnectedIPNo", "ConnectedIPYes"}
  BY DEF IInv
<1>4. CASE cur' = cur /\ netifapi' = <<>> /\ UNCHANGED link
  BY <1>1, <1>2, <1>4 DEF LiveSame
<1>5. CASE link # "up" /\ cur' \in {"Idle", "Sniffer", "Connecting", "Disconnect"}
           /\ netifapi' \in {<<>>, <<"stop", "clear">>} /\ (cur' # "Disconnect" => netifapi' = <<>>)
           /\ (UNCHANGED link \/ (bh = "idle" /\ link' = "joining"))
  BY <1>1, <1>5
<1>6. CASE Connected
  <2>1. cur' = "ConnectedIPNo" /\ netifapi' = <<"setup">> /\ link' = link
    BY <1>6 DEF Connected, GoTo, NetifCalls
  <2> QED BY <1>1, <1>2, <2>1 DEF LiveSame
<1>7. CASE IpGot
  <2>1. cur = "ConnectedIPNo" /\ cur' = "ConnectedIPYes" /\ netifapi' = <<>> /\ link' = link
        /\ Head(mq).ev = "IP_GOT"
    BY <1>7 DEF IpGot, Take, GoTo, NetifCalls
  <2>2. ~Queued("IND_CONNECTED")
    BY <2>1 DEF IInv
  <2> QED BY <1>1, <1>2, <2>1, <2>2 DEF LiveSame
<1>8. CASE IpUpdate
  <2>1. cur = "ConnectedIPYes" /\ cur' = "ConnectedIPNo" /\ link' = link
        /\ netifapi' = <<"stop", "clear", "setup">>
    BY <1>8, CallSequences DEF IpUpdate, GoTo, NetifCalls
  <2> QED BY <1>1, <1>2, <2>1 DEF LiveSame
<1>9. ASSUME NEW next \in {"Idle", "Sniffer", "Connecting", "Disconnect"}, GoTo(next),
             cur # "ConnectedIPYes" \/ next = "Disconnect"
      PROVE  /\ cur' = next /\ netifapi' \in {<<>>, <<"stop", "clear">>}
             /\ next # "Disconnect" => netifapi' = <<>>
  BY <1>9, CallSequences DEF GoTo, NetifCalls
<1>10. CASE Disconnected
  <2>1. link # "up" /\ link' = link /\ GoTo("Disconnect")
    <3>1. Queued("IND_DISCONNECT")
      BY <1>1, <1>10, HeadTaken DEF Disconnected, Take, IInv
    <3> QED BY <1>10, <3>1 DEF Disconnected, IInv
  <2> QED BY <1>5, <1>9, <2>1
<1>11. CASE IdleSniffer \/ SnifferIdle \/ DisconnectIdle \/ Reconnect
  <2>1. cur \in {"Idle", "Sniffer", "Disconnect"}
        /\ \E next \in {"Idle", "Sniffer", "Connecting"} : GoTo(next)
        /\ (UNCHANGED link \/ (bh = "idle" /\ link' = "joining"))
    BY <1>11 DEF IdleSniffer, SnifferIdle, DisconnectIdle, Reconnect, FwConnect, Command
  <2> QED BY <1>3, <1>5, <1>9, <2>1
<1>12. CASE PhyUp \/ IdleConnect \/ DisableAutoreconnect
  <2>1. CASE Stay /\ UNCHANGED link
    BY <1>1, <1>4, <2>1 DEF Stay
  <2>2. CASE cur \in {"IfaceDown", "Idle", "Disconnect"}
             /\ (\E next \in {"Idle", "Connecting"} : GoTo(next))
             /\ (UNCHANGED link \/ (bh = "idle" /\ link' = "joining"))
    BY <1>3, <1>5, <1>9, <2>2
  <2> QED BY <1>12, <2>1, <2>2 DEF PhyUp, IdleConnect, DisableAutoreconnect, FwConnect, Command
<1>13. CASE AppDisconnect \/ EnableAutoreconnect \/ FwDisconnectCmd \/ FwScan \/ Ignore
  <2>1. Stay /\ UNCHANGED link
    BY <1>13 DEF AppDisconnect, EnableAutoreconnect, FwDisconnectCmd, FwScan, Ignore, fwVars
  <2> QED BY <1>1, <1>4, <2>1 DEF Stay
<1> QED BY <1>6, <1>7, <1>8, <1>10, <1>11, <1>12, <1>13 DEF Handle

\* The TCP/IP thread answers a call, or the DHCP client gets an address.
LEMMA NetLwip ==
  ASSUME IInv, NetInv, Kept, NetifCall \/ DhcpClient
  PROVE  NetInv'
<1> USE DEF NetInv, NetworkInv, CallsInv, AddressInv
<1>1. mq \in Seq(Messages)
  BY DEF IInv, TypeOK, Messages
<1>2. cur' = cur /\ link' = link /\ bh' = bh /\ netlink' = netlink
  BY DEF NetifCall, DhcpClient, DhcpBind, DhcpNak, DhcpExpire, mgrVars, fwVars
<1>3. link = "up" => cur \in {"Connecting", "ConnectedIPNo", "ConnectedIPYes"}
  BY DEF IInv
<1>4. ASSUME NEW lease \in Leases, DhcpBind(lease)
      PROVE  NetInv'
  <2>1. /\ SetAddr(lease) /\ netlink /\ addr' = lease /\ lease # None
        /\ dhcp \in {"seeking", "bound"} /\ UNCHANGED <<netifapi, static>>
    BY <1>4 DEF DhcpBind, SetAddr, mgrVars
  <2>2. /\ lease \in {addr, None} => LiveSame
        /\ NoneLive => LiveOnce'
    BY <1>1, <2>1, LiveAddress
  <2>3. addr # None => lease = addr
    BY <2>1 DEF Kept
  <2>4. CASE addr # None
    BY <1>2, <2>1, <2>2, <2>3, <2>4 DEF LiveSame
  <2>5. CASE addr = None
    BY <1>2, <1>3, <2>1, <2>2, <2>5 DEF LiveSame
  <2> QED BY <2>4, <2>5
<1>5. CASE NetifCall
  <2>1. /\ static' = None /\ cur \in {"ConnectedIPNo", "Disconnect"}
    BY <1>5 DEF NetifCall
  <2>2. CASE Head(netifapi) = "stop"
    <3>1. dhcp' = "off" /\ netifapi' = Tail(netifapi) /\ addr' \in {addr, None} /\ SetAddr(addr')
      BY <1>5, <2>2, CallsAssumption DEF NetifCall, DhcpStop, SetAddr
    <3>2. LiveSame
      BY <1>1, <3>1, LiveAddress
    <3>3. netifapi = <<"stop", "clear">> \/ netifapi = <<"stop", "clear", "setup">>
      BY <1>5, <2>1, <2>2 DEF NetifCall
    <3>4. \/ netifapi = <<"stop", "clear">> /\ netifapi' = <<"clear">>
          \/ netifapi = <<"stop", "clear", "setup">> /\ netifapi' = <<"clear", "setup">>
      BY <3>1, <3>3, CallSequences
    <3>5. CASE cur = "Disconnect"
      BY <1>2, <1>3, <2>1, <3>1, <3>4, <3>5
    <3>6. CASE cur = "ConnectedIPNo"
      <4>1. netifapi = <<"stop", "clear", "setup">> /\ netifapi' = <<"clear", "setup">>
        BY <3>4, <3>6
      <4>2. link = "up" => NoneLive' /\ LiveOnce'
        BY <3>2, <4>1 DEF LiveSame
      <4>3. CallsInv'
        BY <1>2, <3>1, <3>6, <4>1
      <4>4. AddressInv'
        BY <1>2, <3>6, <4>1, <4>2
      <4> QED BY <1>2, <2>1, <4>3, <4>4
    <3> QED BY <2>1, <3>5, <3>6
  <2>3. CASE Head(netifapi) = "clear"
    <3>1. dhcp' = dhcp /\ netifapi' = Tail(netifapi) /\ addr' = None /\ SetAddr(None)
      BY <1>5, <2>3, CallsAssumption DEF NetifCall, SetAddr
    <3>2. LiveSame
      BY <1>1, <3>1, LiveAddress
    <3>3. netifapi = <<"clear">> \/ netifapi = <<"clear", "setup">>
      BY <1>5, <2>1, <2>3 DEF NetifCall
    <3>4. \/ netifapi = <<"clear">> /\ netifapi' = <<>>
          \/ netifapi = <<"clear", "setup">> /\ netifapi' = <<"setup">>
      BY <3>1, <3>3, CallSequences
    <3>5. CASE cur = "Disconnect"
      BY <1>2, <1>3, <2>1, <3>1, <3>4, <3>5
    <3>6. CASE cur = "ConnectedIPNo"
      BY <1>2, <2>1, <3>1, <3>2, <3>4, <3>6 DEF LiveSame
    <3> QED BY <2>1, <3>5, <3>6
  <2>4. CASE Head(netifapi) = "setup"
    <3>1. netifapi' = <<>> /\ UNCHANGED <<addr, mq>>
      BY <1>5, <2>4, CallsAssumption DEF NetifCall
    <3>2. LiveSame
      BY <3>1 DEF LiveSame, LiveOnce, NoneLive, Live
    <3>3. netifapi = <<"setup">>
      BY <1>5, <2>1, <2>4 DEF NetifCall
    <3> QED BY <1>2, <1>3, <2>1, <3>1, <3>2, <3>3 DEF LiveSame
  <2> QED BY <1>5, <2>1, <2>2, <2>3, <2>4 DEF NetifCall
<1>6. CASE DhcpNak \/ DhcpExpire
  <2>1. /\ addr = None /\ SetAddr(None) /\ addr' = None /\ dhcp # "off"
        /\ UNCHANGED <<netifapi, static>>
    BY <1>6 DEF DhcpNak, DhcpExpire, SetAddr, Kept, mgrVars
  <2>2. LiveSame
    BY <1>1, <2>1, LiveAddress
  <2> QED BY <1>2, <2>1, <2>2 DEF LiveSame
<1> QED BY <1>4, <1>5, <1>6 DEF DhcpClient

\* The callers, the timers, the firmware and the bottom half.
LEMMA NetOthers ==
  ASSUME IInv, NetInv, Kept,
         \/ \E ev \in AppRequests : Request(ev)
         \/ \E p \in Profiles : Connect(p)
         \/ \E ip \in StaticIps \cup {None} : IpSet(ip)
         \/ IfaceUp \/ IpObtainingTimeout \/ DisconnectRetry
         \/ FwJoined \/ FwJoinFailed \/ FwDropped \/ FwScanDone \/ BottomHalf \/ UNCHANGED vars
  PROVE  NetInv'
<1> USE DEF NetInv, NetworkInv, CallsInv, AddressInv
<1>1. mq \in Seq(Messages)
  BY DEF IInv, TypeOK, Messages
<1>2. ASSUME NEW ev \in Events \ {"CONNECT", "IP_GOT"}, Send(Msg(ev))
      PROVE  LiveSame /\ (ev = "IND_CONNECTED" => NoneLive')
  <2>1. Msg(ev) \in Messages /\ Msg(ev).ev = ev
    BY DEF Msg, Messages
  <2> QED BY <1>1, <1>2, <2>1, LiveSent
<1>3. ASSUME NEW p \in Profiles, Send([ev |-> "CONNECT", profile |-> p])
      PROVE  LiveSame
  <2>1. [ev |-> "CONNECT", profile |-> p] \in Messages
    BY DEF Messages, Events
  <2> QED BY <1>1, <1>3, <2>1, LiveSent
<1>4. UNCHANGED mq => LiveSame
  BY DEF LiveSame, LiveOnce, NoneLive, Live
<1>5. CASE /\ LiveSame /\ static' = None
           /\ UNCHANGED <<cur, netifapi, addr, dhcp, netlink, link, bh>>
  BY <1>5 DEF LiveSame
<1>6. ASSUME NEW ev \in AppRequests, Request(ev)
      PROVE  NetInv'
  BY <1>2, <1>5, <1>6 DEF Request, Call, AppRequests, Events, mgrVars, lwipVars, fwVars
<1>7. ASSUME NEW p \in Profiles, Connect(p)
      PROVE  NetInv'
  BY <1>3, <1>5, <1>7 DEF Connect, Call, mgrVars, lwipVars, fwVars
<1>8. ASSUME NEW ip \in StaticIps \cup {None}, IpSet(ip)
      PROVE  NetInv'
  BY <1>2, <1>5, <1>8 DEF IpSet, Call, Events, mgrVars, lwipVars, fwVars, Kept
<1>9. CASE IfaceUp \/ IpObtainingTimeout \/ DisconnectRetry \/ FwScanDone \/ UNCHANGED vars
  BY <1>2, <1>4, <1>5, <1>9 DEF IfaceUp, IpObtainingTimeout, DisconnectRetry, FwScanDone, vars,
     Events, mgrVars, lwipVars, fwVars
<1>10. CASE FwJoined
  <2>1. Send(Msg("IND_CONNECTED")) /\ "IND_CONNECTED" \in Events \ {"CONNECT", "IP_GOT"}
    BY <1>10 DEF FwJoined, Events
  <2>2. NoneLive' /\ LiveOnce'
    BY <1>2, <2>1 DEF NoneLive, LiveOnce
  <2>3. cur = "Connecting" /\ netifapi = <<>> /\ bh = "idle" /\ link = "joining"
    BY <1>10 DEF FwJoined, IInv
  <2> QED BY <1>10, <2>2, <2>3 DEF FwJoined, mgrVars, lwipVars
<1>11. CASE FwJoinFailed \/ FwDropped
  BY <1>11 DEF FwJoinFailed, FwDropped, mgrVars, lwipVars
<1>12. CASE BottomHalf
  <2>1. LiveSame
    <3>1. SetAddr(None) => LiveSame
      BY <1>1, LiveAddress
    <3> QED BY <1>4, <1>12, <3>1 DEF BottomHalf, BhLinkUp, BhLinkDown, BhClear
  <2> QED BY <1>12, <2>1 DEF BottomHalf, BhLinkUp, BhLinkDown, BhClear, SetAddr, LiveSame, mgrVars,
             fwVars, IInv
<1> QED BY <1>6, <1>7, <1>8, <1>9, <1>10, <1>11, <1>12

\* With DHCP alone, while no lease ends in NAK, expiry or conflict and none replaces another
\* (Kept), the station has an address whenever nothing is under way in ConnectedIPYes
\* (wifi_mgmr.c:1066): no order of messages, link changes and calls breaks it by itself.
THEOREM AddressUnlessLost ==
  Spec /\ [][Kept]_vars => []IPYesHasAddress
<1>1. IInv /\ NetInv /\ [Next]_vars /\ [Kept]_vars => NetInv'
  <2>1. SUFFICES ASSUME IInv, NetInv, [Next]_vars, [Kept]_vars PROVE NetInv'
    OBVIOUS
  <2>2. Kept
    BY <2>1 DEF vars, lwipVars, Kept, DhcpNak, DhcpExpire, SetAddr, NetInv, NetworkInv
  <2> QED BY <2>1, <2>2, NetHandle, NetLwip, NetOthers DEF Next
<1>2. IInv /\ NetInv => IPYesHasAddress
  <2>1. SUFFICES ASSUME IInv, NetInv, cur = "ConnectedIPYes", mq = <<>> PROVE addr # None
    BY DEF IPYesHasAddress
  <2>2. ~Queued("IND_DISCONNECT")
    BY <2>1, EmptySeq DEF Queued
  <2> QED BY <2>1, <2>2 DEF IInv, NetInv, AddressInv
<1> QED BY Invariance, NetInit, <1>1, <1>2, PTL DEF Spec

-------------------------------------------------------------------------------
(***************************************************************************)
(* What is under way: calls of a handler, work of the bottom half, timeout *)
(***************************************************************************)

\* The calls that the handler that enters ConnectedIPNo may have left.
Setups ==
  {<<>>, <<"setup">>, <<"clear", "setup">>, <<"stop", "clear", "setup">>}
    \cup {<<ip>> : ip \in StaticIps}

\* The bottom half's work belongs to the link it reports on; the address timeout of
\* ConnectedIPNo runs, is queued, or has been asked of the firmware.
UnderwayInv ==
  /\ bh = "linkup" => link = "up"
  /\ bh \in {"linkdown", "clear"} => link = "down"
  /\ cur \notin {"ConnectedIPNo", "Disconnect"} => netifapi = <<>>
  /\ cur = "ConnectedIPNo" => netifapi \in Setups
  /\ cur = "ConnectedIPNo" =>
       ip_timer \/ Queued("FW_DISCONNECT") \/ dreq \/ Queued("IND_DISCONNECT")

\* What a handler does to that.
LEMMA UnderwayHandle ==
  ASSUME IInv, UnderwayInv, Handle
  PROVE  UnderwayInv'
<1> USE DEF UnderwayInv
<1>1. mq # <<>> /\ mq' = Tail(mq) /\ netifapi = <<>> /\ bh' = bh
  BY DEF Handle, Take, PhyUp, IdleConnect, IdleSniffer, SnifferIdle, Connected, Disconnected,
     IpGot, IpUpdate, AppDisconnect, Reconnect, DisconnectIdle, DisableAutoreconnect,
     EnableAutoreconnect, FwDisconnectCmd, FwScan, Ignore
<1>2. \A ev \in Followed : Queued(ev) /\ Head(mq).ev # ev => Queued(ev)'
  <2>1. mq \in Seq(Messages)
    BY DEF IInv, TypeOK, Messages
  <2> QED BY <1>1, <2>1, Taken
<1>3. CASE /\ cur' = cur /\ netifapi' = <<>> /\ UNCHANGED <<link, ip_timer>> /\ (dreq => dreq')
           /\ Head(mq).ev \notin {"FW_DISCONNECT", "IND_DISCONNECT"}
  BY <1>1, <1>2, <1>3 DEF Followed, Setups
<1>4. ASSUME NEW next, GoTo(next), next = "ConnectedIPNo" => cur \in {"Connecting", "ConnectedIPYes"}
      PROVE  /\ cur' = next
             /\ next \notin {"ConnectedIPNo", "Disconnect"} /\ cur # "ConnectedIPYes" => netifapi' = <<>>
             /\ next = "ConnectedIPNo" => netifapi' \in Setups /\ ip_timer'
  BY <1>4, CallSequences DEF GoTo, NetifCalls, Setups, IpTimerAfter
<1>5. ASSUME UNCHANGED link \/ (bh = "idle" /\ link' = "joining"),
             NEW next, GoTo(next), next = "ConnectedIPNo" => cur \in {"Connecting", "ConnectedIPYes"},
             cur # "ConnectedIPYes" \/ next \in {"ConnectedIPNo", "Disconnect"}
      PROVE  UnderwayInv'
  BY <1>1, <1>4, <1>5
<1>6. CASE Connected \/ Disconnected \/ IpGot \/ IpUpdate \/ IdleSniffer \/ SnifferIdle
  BY <1>5, <1>6 DEF Connected, Disconnected, IpGot, IpUpdate, IdleSniffer, SnifferIdle
<1>7. CASE Reconnect \/ DisconnectIdle
  BY <1>5, <1>7 DEF Reconnect, DisconnectIdle, FwConnect, Command
<1>8. CASE PhyUp \/ IdleConnect \/ DisableAutoreconnect
  <2>1. CASE Stay /\ UNCHANGED <<link, dreq>>
    <3>1. Head(mq).ev \notin {"FW_DISCONNECT", "IND_DISCONNECT"}
      BY <1>8 DEF PhyUp, IdleConnect, DisableAutoreconnect, Take
    <3> QED BY <1>1, <1>3, <2>1, <3>1 DEF Stay, timerVars
  <2>2. CASE cur \in {"IfaceDown", "Idle", "Disconnect"}
             /\ (\E next \in {"Idle", "Connecting"} : GoTo(next))
             /\ (UNCHANGED link \/ (bh = "idle" /\ link' = "joining"))
    BY <1>5, <2>2
  <2> QED BY <1>8, <2>1, <2>2 DEF PhyUp, IdleConnect, DisableAutoreconnect, FwConnect, Command
<1>9. CASE AppDisconnect \/ EnableAutoreconnect \/ FwScan
  BY <1>1, <1>3, <1>9 DEF AppDisconnect, EnableAutoreconnect, FwScan, Take, Stay, FwDisconnect,
     timerVars, fwVars
<1>10. CASE FwDisconnectCmd
  <2>1. /\ cur' = cur /\ netifapi' = <<>> /\ UNCHANGED <<link, ip_timer>>
        /\ dreq' = (dreq \/ link = "up") /\ Head(mq).ev = "FW_DISCONNECT"
    BY <1>1, <1>10 DEF FwDisconnectCmd, Take, Stay, FwDisconnect, timerVars
  <2>2. cur = "ConnectedIPNo" => dreq' \/ Queued("IND_DISCONNECT")'
    BY <1>2, <2>1 DEF IInv, Followed
  <2> QED BY <1>1, <2>1, <2>2 DEF Setups
<1>11. CASE Ignore
  <2>1. Head(mq).ev \notin {"FW_DISCONNECT", "IND_DISCONNECT"} \/ cur # "ConnectedIPNo"
    BY <1>11 DEF Ignore, Handles, States, IInv, TypeOK
  <2> QED BY <1>1, <1>2, <1>11, <2>1 DEF Ignore, Stay, timerVars, fwVars, Followed
<1> QED BY <1>6, <1>7, <1>8, <1>9, <1>10, <1>11 DEF Handle

\* What everything else does to that.
LEMMA UnderwayOthers ==
  ASSUME IInv, UnderwayInv,
         \/ \E ev \in AppRequests : Request(ev)
         \/ \E p \in Profiles : Connect(p)
         \/ \E ip \in StaticIps \cup {None} : IpSet(ip)
         \/ IfaceUp \/ NetifCall
         \/ DhcpClient
         \/ FwScanDone \/ BottomHalf \/ UNCHANGED vars
  PROVE  UnderwayInv'
<1> USE DEF UnderwayInv
<1>1. /\ \A ev \in Followed : Queued(ev)' <=> Queued(ev)
      /\ UNCHANGED <<cur, ip_timer, link>>
  BY OthersUnseen DEF IInv, QueueSame, core
<1>2. UNCHANGED dreq
  <2>1. /\ \A ev \in AppRequests : Request(ev) => UNCHANGED dreq
        /\ \A p \in Profiles : Connect(p) => UNCHANGED dreq
        /\ \A ip \in StaticIps \cup {None} : IpSet(ip) => UNCHANGED dreq
        /\ IfaceUp \/ NetifCall => UNCHANGED dreq
    BY DEF Request, Connect, IpSet, Call, IfaceUp, NetifCall, fwVars
  <2>2. /\ DhcpClient => UNCHANGED dreq
        /\ FwScanDone \/ BottomHalf \/ UNCHANGED vars => UNCHANGED dreq
    BY DEF DhcpClient, DhcpBind, DhcpNak, DhcpExpire, FwScanDone, BottomHalf, BhLinkUp,
       BhLinkDown, BhClear, vars, fwVars
  <2> QED BY <2>1, <2>2
<1>3. CASE UNCHANGED <<netifapi, bh>>
  BY <1>1, <1>2, <1>3 DEF Followed, Setups
<1>4. CASE BottomHalf
  <2>1. netifapi' = netifapi /\ bh' \in {"idle", "clear"} /\ (bh' = "clear" => bh = "linkdown")
    BY <1>4 DEF BottomHalf, BhLinkUp, BhLinkDown, BhClear, mgrVars
  <2> QED BY <1>1, <1>2, <2>1 DEF Followed, Setups
<1>5. CASE NetifCall
  <2>1. bh' = bh /\ netifapi # <<>>
    BY <1>5 DEF NetifCall
  <2>2. cur = "ConnectedIPNo" => netifapi' \in Setups
    <3>1. SUFFICES ASSUME cur = "ConnectedIPNo" PROVE netifapi' \in Setups
      OBVIOUS
    <3>2. \/ netifapi \in {<<"setup">>, <<"clear", "setup">>, <<"stop", "clear", "setup">>}
          \/ \E ip \in StaticIps : netifapi = <<ip>>
      BY <2>1, <3>1 DEF Setups
    <3>3. \/ netifapi' = <<>>
          \/ netifapi' = <<static>> /\ static # None
          \/ netifapi' = Tail(netifapi) /\ Head(netifapi) \in {"stop", "clear"}
      BY <1>5 DEF NetifCall
    <3>4. ASSUME Head(netifapi) \in {"stop", "clear"}
          PROVE  Tail(netifapi) \in Setups
      <4>1. \A ip \in StaticIps : Head(<<ip>>) \notin {"stop", "clear"}
        BY CallsAssumption
      <4>2. Head(<<"setup">>) = "setup"
        OBVIOUS
      <4>3. netifapi \in {<<"clear", "setup">>, <<"stop", "clear", "setup">>}
        BY <3>2, <3>4, <4>1, <4>2
      <4>4. Tail(netifapi) \in {<<"setup">>, <<"clear", "setup">>}
        BY <4>3, CallSequences
      <4> QED BY <4>4 DEF Setups
    <3>5. static # None => <<static>> \in Setups
      BY DEF Setups, IInv, TypeOK
    <3> QED BY <3>3, <3>4, <3>5 DEF Setups
  <2> QED BY <1>1, <1>2, <2>1, <2>2 DEF Followed
<1>6. BottomHalf \/ NetifCall \/ UNCHANGED <<netifapi, bh>>
  BY DEF Request, Connect, IpSet, Call, IfaceUp, DhcpClient, DhcpBind, DhcpNak, DhcpExpire,
     FwScanDone, vars, mgrVars
<1> QED BY <1>3, <1>4, <1>5, <1>6

\* And the timers and the firmware.
LEMMA UnderwayFirmware ==
  ASSUME IInv, UnderwayInv,
         IpObtainingTimeout \/ DisconnectRetry \/ FwJoined \/ FwJoinFailed \/ FwDropped
  PROVE  UnderwayInv'
<1> USE DEF UnderwayInv
<1>1. cur' = cur /\ netifapi' = netifapi
  BY DEF IpObtainingTimeout, DisconnectRetry, FwJoined, FwJoinFailed, FwDropped, mgrVars
<1>2. CASE IpObtainingTimeout
  <2>1. Queued("FW_DISCONNECT")'
    BY <1>2, OneSent DEF IInv, IpObtainingTimeout, Followed
  <2> QED BY <1>1, <1>2, <2>1 DEF IpObtainingTimeout, fwVars, Setups
<1>3. CASE DisconnectRetry
  BY <1>1, <1>3 DEF DisconnectRetry, fwVars, IInv, Setups
<1>4. CASE FwJoined \/ FwJoinFailed
  BY <1>1, <1>4 DEF FwJoined, FwJoinFailed, IInv, Setups
<1>5. CASE FwDropped
  <2>1. Queued("IND_DISCONNECT")'
    BY <1>5, OneSent DEF IInv, FwDropped, Followed
  <2> QED BY <1>1, <1>5, <2>1 DEF FwDropped, Setups
<1> QED BY <1>2, <1>3, <1>4, <1>5

LEMMA UnderwayInvariance == Spec => []UnderwayInv
<1>1. Init => UnderwayInv
  BY DEF Init, UnderwayInv
<1>2. IInv /\ UnderwayInv /\ [Next]_vars => UnderwayInv'
  BY UnderwayHandle, UnderwayOthers, UnderwayFirmware DEF Next
<1> QED BY Invariance, <1>1, <1>2, PTL DEF Spec

-------------------------------------------------------------------------------
(***************************************************************************)
(* A station believed connected is not left without anybody who seeks an   *)
(* address for it (SeeksAddress)                                           *)
(***************************************************************************)

\* Once the calls of the handler are done, in a connection.
SeekingInv ==
  cur \in {"ConnectedIPNo", "ConnectedIPYes"} /\ netifapi = <<>> /\ link = "up" =>
    addr # None \/ dhcp = "seeking"

\* A handler that leaves no calls stays in the connection's states, or enters the second.
LEMMA SeekingHandle ==
  ASSUME IInv, SeekingInv, Handle
  PROVE  SeekingInv'
<1>1. netifapi = <<>> /\ UNCHANGED <<addr, dhcp>>
  BY DEF Handle, Take, PhyUp, IdleConnect, IdleSniffer, SnifferIdle, Connected, Disconnected,
     IpGot, IpUpdate, AppDisconnect, Reconnect, DisconnectIdle, DisableAutoreconnect,
     EnableAutoreconnect, FwDisconnectCmd, FwScan, Ignore, lwipVars
<1>2. ASSUME NEW next, GoTo(next), next \notin {"ConnectedIPNo", "ConnectedIPYes"}
      PROVE  SeekingInv'
  BY <1>2 DEF GoTo, SeekingInv
<1>3. CASE UNCHANGED <<cur, link>>
  BY <1>1, <1>3 DEF SeekingInv
<1>4. CASE Connected \/ IpUpdate
  <2>1. netifapi' # <<>>
    BY <1>4, CallSequences DEF Connected, IpUpdate, GoTo, NetifCalls
  <2> QED BY <2>1 DEF SeekingInv
<1>5. CASE IpGot
  BY <1>1, <1>5 DEF IpGot, GoTo, SeekingInv
<1>6. CASE Disconnected \/ IdleSniffer \/ SnifferIdle \/ Reconnect \/ DisconnectIdle
  BY <1>2, <1>6 DEF Disconnected, IdleSniffer, SnifferIdle, Reconnect, DisconnectIdle
<1>7. CASE PhyUp \/ IdleConnect \/ DisableAutoreconnect
  BY <1>2, <1>3, <1>7 DEF PhyUp, IdleConnect, DisableAutoreconnect, Stay
<1>8. CASE AppDisconnect \/ EnableAutoreconnect \/ FwDisconnectCmd \/ FwScan \/ Ignore
  BY <1>3, <1>8 DEF AppDisconnect, EnableAutoreconnect, FwDisconnectCmd, FwScan, Ignore, Stay,
     fwVars
<1> QED BY <1>4, <1>5, <1>6, <1>7, <1>8 DEF Handle

\* The last call of a handler in a connection sets an address or begins to seek one.
LEMMA SeekingCall ==
  ASSUME IInv, UnderwayInv, SeekingInv, NetifCall
  PROVE  SeekingInv'
<1>1. netifapi # <<>> /\ UNCHANGED <<cur, link>>
  BY DEF NetifCall, fwVars
<1>2. SUFFICES ASSUME cur = "ConnectedIPNo", netifapi' = <<>>
               PROVE  addr' # None \/ dhcp' = "seeking"
  BY <1>1 DEF SeekingInv, UnderwayInv
<1>3. \/ netifapi \in {<<"setup">>, <<"clear", "setup">>, <<"stop", "clear", "setup">>}
      \/ \E ip \in StaticIps : netifapi = <<ip>>
  BY <1>1, <1>2 DEF UnderwayInv, Setups
<1>4. ASSUME Head(netifapi) \in {"stop", "clear"}
      PROVE  Tail(netifapi) # <<>>
  <2>1. \A ip \in StaticIps : Head(<<ip>>) \notin {"stop", "clear"}
    BY CallsAssumption
  <2>2. Head(<<"setup">>) = "setup"
    OBVIOUS
  <2>3. netifapi \in {<<"clear", "setup">>, <<"stop", "clear", "setup">>}
    BY <1>3, <1>4, <2>1, <2>2
  <2>4. Tail(netifapi) \in {<<"setup">>, <<"clear", "setup">>}
    BY <2>3, CallSequences
  <2>5. <<"setup">> # <<>> /\ <<"clear", "setup">> # <<>>
    OBVIOUS
  <2> QED BY <2>4, <2>5
<1>5. \/ Head(netifapi) = "setup" /\ dhcp' = "seeking"
      \/ Head(netifapi) \in StaticIps /\ addr' = Head(netifapi)
  BY <1>2, <1>4 DEF NetifCall, SetAddr
<1> QED BY <1>5, NoneAssumption

\* Nobody else takes an address away without beginning to seek another.
LEMMA SeekingOthers ==
  ASSUME IInv, UnderwayInv, SeekingInv,
         \/ \E ev \in AppRequests : Request(ev)
         \/ \E p \in Profiles : Connect(p)
         \/ \E ip \in StaticIps \cup {None} : IpSet(ip)
         \/ IfaceUp \/ DhcpClient \/ IpObtainingTimeout \/ DisconnectRetry
         \/ FwJoined \/ FwJoinFailed \/ FwDropped \/ FwScanDone \/ BottomHalf \/ UNCHANGED vars
  PROVE  SeekingInv'
<1>1. CASE UNCHANGED <<cur, netifapi, link, addr, dhcp>>
  BY <1>1 DEF SeekingInv
<1>2. CASE DhcpClient
  <2>1. addr' # None \/ dhcp' = "seeking"
    BY <1>2, NoneAssumption DEF DhcpClient, DhcpBind, DhcpNak, DhcpExpire, SetAddr
  <2> QED BY <2>1 DEF SeekingInv
<1>3. CASE FwJoined \/ FwJoinFailed \/ FwDropped
  <2>1. cur' = cur /\ (link' = "up" => cur = "Connecting")
    BY <1>3 DEF FwJoined, FwJoinFailed, FwDropped, mgrVars, IInv
  <2> QED BY <2>1 DEF SeekingInv
<1>4. CASE BottomHalf
  <2>1. UNCHANGED <<cur, netifapi, link>>
    BY <1>4 DEF BottomHalf, BhLinkUp, BhLinkDown, BhClear, mgrVars, fwVars
  <2>2. link = "down" \/ (addr' = addr /\ dhcp' \in {dhcp, "seeking"})
    BY <1>4 DEF BottomHalf, BhLinkUp, BhLinkDown, BhClear, UnderwayInv
  <2> QED BY <2>1, <2>2 DEF SeekingInv
<1>5. CASE \/ \E ev \in AppRequests : Request(ev)
           \/ \E p \in Profiles : Connect(p)
           \/ \E ip \in StaticIps \cup {None} : IpSet(ip)
  BY <1>1, <1>5 DEF Request, Connect, IpSet, Call, mgrVars, lwipVars, fwVars
<1>6. CASE IfaceUp \/ IpObtainingTimeout \/ DisconnectRetry \/ FwScanDone \/ UNCHANGED vars
  BY <1>1, <1>6 DEF IfaceUp, IpObtainingTimeout, DisconnectRetry, FwScanDone, vars, mgrVars,
     lwipVars, fwVars
<1> QED BY <1>2, <1>3, <1>4, <1>5, <1>6

\* Whatever takes an address away (a lease that is refused, expires, is in conflict or
\* changes, an address configured, an announcement that is believed too late; wifi.c:141
\* tells the manager of no empty address): at rest in ConnectedIPYes the station has an
\* address, or its DHCP client seeks one.  Nothing is assumed.
THEOREM NeverStranded == Spec => []SeeksAddress
<1>1. Init => SeekingInv
  BY DEF Init, SeekingInv
<1>2. IInv /\ UnderwayInv /\ SeekingInv /\ [Next]_vars => SeekingInv'
  BY SeekingHandle, SeekingCall, SeekingOthers DEF Next
<1>3. IInv /\ SeekingInv => SeeksAddress
  <2>1. SUFFICES ASSUME IInv, SeekingInv, cur = "ConnectedIPYes", mq = <<>>, netifapi = <<>>,
                        addr = None
                 PROVE  dhcp = "seeking"
    BY DEF SeeksAddress
  <2>2. ~Queued("IND_DISCONNECT")
    BY <2>1, EmptySeq DEF Queued
  <2> QED BY <2>1, <2>2 DEF IInv, SeekingInv
<1> QED BY Invariance, UnderwayInvariance, <1>1, <1>2, <1>3, PTL DEF Spec

-------------------------------------------------------------------------------
(***************************************************************************)
(* Liveness: no attempt hangs (AttemptEnds)                                *)
(***************************************************************************)

\* The queue of the manager holds 2240 bytes (wifi_mgmr.h:264), a message takes 20 of
\* them at least (wifi_mgmr.h:111, and the length that the message buffer adds).
QueueFits == Len(mq) <= 112

LiveInv == IInv /\ UnderwayInv /\ QueueFits

\* What is left of the calls of the handler, and of the bottom half's work for this link.
CallWork ==
  IF netifapi = <<>> THEN 0
  ELSE IF netifapi = <<"stop", "clear", "setup">> THEN 4
  ELSE IF netifapi = <<"clear", "setup">> THEN 3
  ELSE IF netifapi = <<"setup">> THEN 2 ELSE 1
LinkWork ==
  IF bh = "linkup" THEN 4
  ELSE IF link = "up" THEN 3
  ELSE IF bh = "linkdown" THEN 2
  ELSE IF bh = "clear" THEN 1 ELSE 0
Rest == CallWork + LinkWork

\* What ends an attempt: an indication, at its place in the queue; before it, a report the
\* firmware owes; before that, in ConnectedIPNo, FW_DISCONNECT and the timer that queues it.
Attempts == {"Connecting", "ConnectedIPNo"}
Ending ==
  IF cur = "Connecting" THEN {"IND_CONNECTED", "IND_DISCONNECT"} ELSE {"IND_DISCONNECT"}
Owed == IF cur = "Connecting" THEN link = "joining" ELSE dreq /\ link = "up"
Timed == cur = "ConnectedIPNo" /\ ip_timer
Near(evs, r, n) == \E p \in 1 .. Len(mq) : mq[p].ev \in evs /\ 10 * p + r < n
CloserBy(r, n) ==
  \/ Near(Ending, r, n)
  \/ Owed /\ 1200 + r < n
  \/ cur = "ConnectedIPNo" /\ Near({"FW_DISCONNECT"}, r + 1300, n)
  \/ Timed /\ 2600 + r < n
Closer(n) == \E r \in 0 .. 8 : r = Rest /\ CloserBy(r, n)

\* A handler that stays in the state of the attempt.
LEMMA HandleStays ==
  ASSUME LiveInv, Handle, cur \in Attempts, cur' = cur
  PROVE  /\ mq # <<>> /\ mq' = Tail(mq) /\ netifapi = <<>> /\ netifapi' = <<>>
         /\ UNCHANGED <<link, bh, ip_timer>> /\ (dreq => dreq')
         /\ Head(mq).ev \notin Ending
         /\ Head(mq).ev = "FW_DISCONNECT" => dreq' \/ link # "up"
<1>1. mq # <<>> /\ mq' = Tail(mq) /\ netifapi = <<>> /\ bh' = bh
  BY DEF Handle, Take, PhyUp, IdleConnect, IdleSniffer, SnifferIdle, Connected, Disconnected,
     IpGot, IpUpdate, AppDisconnect, Reconnect, DisconnectIdle, DisableAutoreconnect,
     EnableAutoreconnect, FwDisconnectCmd, FwScan, Ignore
<1>2. ~PhyUp /\ ~IdleConnect /\ ~IdleSniffer /\ ~SnifferIdle /\ ~Reconnect /\ ~DisconnectIdle
  BY DEF PhyUp, IdleConnect, IdleSniffer, SnifferIdle, Reconnect, DisconnectIdle, Attempts
<1>3. ~Connected /\ ~Disconnected /\ ~IpGot /\ ~IpUpdate
  BY DEF Connected, Disconnected, IpGot, IpUpdate, GoTo, Attempts
<1>4. CASE AppDisconnect \/ EnableAutoreconnect \/ FwScan \/ DisableAutoreconnect
  <2>1. Head(mq).ev \notin {"IND_CONNECTED", "IND_DISCONNECT", "FW_DISCONNECT"}
    BY <1>4 DEF AppDisconnect, EnableAutoreconnect, FwScan, DisableAutoreconnect, Take
  <2>2. Stay /\ UNCHANGED link
    BY <1>4 DEF AppDisconnect, EnableAutoreconnect, FwScan, DisableAutoreconnect, fwVars, Attempts
  <2>3. dreq => dreq'
    BY <1>4 DEF AppDisconnect, EnableAutoreconnect, FwScan, DisableAutoreconnect, FwDisconnect,
       fwVars, Attempts
  <2> QED BY <1>1, <2>1, <2>2, <2>3 DEF Stay, timerVars, Ending
<1>5. CASE FwDisconnectCmd
  BY <1>1, <1>5 DEF FwDisconnectCmd, Take, Stay, FwDisconnect, timerVars, Ending
<1>6. CASE Ignore
  <2>1. Head(mq).ev # "FW_DISCONNECT" /\ Head(mq).ev \notin Ending
    BY <1>6 DEF Ignore, Handles, Attempts, States, Ending
  <2> QED BY <1>1, <1>6, <2>1 DEF Ignore, Stay, timerVars, fwVars
<1> QED BY <1>2, <1>3, <1>4, <1>5, <1>6 DEF Handle

\* Everybody else adds to the queue at its end.
LEMMA OnlyAppended ==
  ASSUME IInv, [Next]_vars, ~Handle
  PROVE  /\ Len(mq) \in Nat /\ Len(mq') \in Nat /\ Len(mq) <= Len(mq') /\ cur' = cur
         /\ \A i \in 1 .. Len(mq) : mq'[i] = mq[i]
<1>1. mq \in Seq(Messages) /\ Len(mq) \in Nat
  BY LenProperties DEF IInv, TypeOK, Messages
<1>2. cur' = cur
  BY DEF Next, Request, Connect, IpSet, Call, IfaceUp, NetifCall,
     DhcpClient, DhcpBind, DhcpNak, DhcpExpire, IpObtainingTimeout,
     DisconnectRetry, FwJoined, FwJoinFailed, FwDropped, FwScanDone, BottomHalf, BhLinkUp,
     BhLinkDown, BhClear, vars, mgrVars
<1>3. CASE mq' = mq
  BY <1>1, <1>2, <1>3
<1>4. ASSUME NEW m, Send(m)
      PROVE  Len(mq') = Len(mq) + 1 /\ \A i \in 1 .. Len(mq) : mq'[i] = mq[i]
  <2>1. mq' = Append(mq, m)
    BY <1>4 DEF Send
  <2> QED BY <1>1, <2>1
<1>5. ASSUME NEW a, SetAddr(a)
      PROVE  Len(mq') \in Nat /\ Len(mq) <= Len(mq') /\ \A i \in 1 .. Len(mq) : mq'[i] = mq[i]
  <2> DEFINE two == <<Msg("IP_UPDATE"), Msg("IP_GOT")>>
  <2>1. CASE mq' = mq \o two
    <3>1. Msg("IP_UPDATE") \in Messages /\ Msg("IP_GOT") \in Messages
      BY DEF Msg, Messages, Events
    <3>2. two \in Seq(Messages) /\ Len(two) = 2
      BY <3>1
    <3> HIDE DEF two
    <3>3. /\ Len(mq \o two) = Len(mq) + Len(two)
          /\ \A i \in 1 .. Len(mq) + Len(two) :
               (mq \o two)[i] = IF i <= Len(mq) THEN mq[i] ELSE two[i - Len(mq)]
      BY ONLY <1>1, <3>2, ConcatProperties, Zenon
    <3> QED BY <1>1, <2>1, <3>2, <3>3
  <2>2. CASE mq' = mq
    BY <1>1, <2>2
  <2> QED BY <1>5, <2>1, <2>2 DEF SetAddr
<1>6. \/ UNCHANGED mq \/ (\E m : Send(m)) \/ (\E a : SetAddr(a))
  <2>1. /\ \A ev \in AppRequests : Request(ev) => \E m : Send(m)
        /\ \A p \in Profiles : Connect(p) => \E m : Send(m)
        /\ \A ip \in StaticIps \cup {None} : IpSet(ip) => \E m : Send(m)
    BY DEF Request, Connect, IpSet
  <2>2. IfaceUp \/ IpObtainingTimeout \/ DisconnectRetry \/ FwJoined \/ FwJoinFailed \/ FwDropped
          => \E m : Send(m)
    BY DEF IfaceUp, IpObtainingTimeout, DisconnectRetry, FwJoined, FwJoinFailed, FwDropped
  <2>3. NetifCall \/ BottomHalf \/ DhcpClient
          => UNCHANGED mq \/ (\E a : SetAddr(a))
    BY DEF NetifCall, DhcpStop,
       DhcpClient, DhcpBind, DhcpNak, DhcpExpire, BottomHalf, BhLinkUp, BhLinkDown, BhClear
  <2>4. FwScanDone \/ UNCHANGED vars => UNCHANGED mq
    BY DEF FwScanDone, vars
  <2> QED BY <2>1, <2>2, <2>3, <2>4 DEF Next
<1> QED BY <1>1, <1>2, <1>3, <1>4, <1>5, <1>6

LEMMA RestTypes ==
  /\ CallWork \in 0 .. 4 /\ LinkWork \in 0 .. 4 /\ Rest \in 0 .. 8
  /\ CallWork = 0 <=> netifapi = <<>>
  /\ UnderwayInv /\ TypeOK => (LinkWork \in {0, 3} <=> bh = "idle")
  /\ CallWork' \in 0 .. 4 /\ LinkWork' \in 0 .. 4 /\ Rest' \in 0 .. 8
<1>1. CallWork \in 0 .. 4 /\ LinkWork \in 0 .. 4
  BY DEF CallWork, LinkWork
<1>2. CallWork' \in 0 .. 4 /\ LinkWork' \in 0 .. 4
  BY DEF CallWork, LinkWork
<1>3. CallWork = 0 <=> netifapi = <<>>
  BY DEF CallWork
<1>4. UnderwayInv /\ TypeOK => (LinkWork \in {0, 3} <=> bh = "idle")
  BY DEF LinkWork, UnderwayInv, TypeOK
<1>5. Rest \in 0 .. 8
  BY <1>1 DEF Rest
<1>6. Rest' \in 0 .. 8
  BY DEF Rest, CallWork, LinkWork
<1> QED BY <1>1, <1>2, <1>3, <1>4, <1>5, <1>6

\* While the attempt lasts, calls and work only get less.
LEMMA RestLess ==
  ASSUME LiveInv, LiveInv', [Next]_vars, cur \in Attempts, cur' = cur, link # "joining"
  PROVE  /\ CallWork' <= CallWork /\ LinkWork' <= LinkWork /\ link' # "joining"
         /\ NetifCall => CallWork' < CallWork
         /\ BottomHalf => LinkWork' < LinkWork
<1>1. CASE Handle
  <2>1. netifapi = <<>> /\ netifapi' = <<>> /\ UNCHANGED <<link, bh>>
    BY <1>1, HandleStays
  <2>2. ~NetifCall
    BY <2>1 DEF NetifCall
  <2>3. ~BottomHalf
    BY <1>1, HandleStays, <2>1 DEF BottomHalf, BhLinkUp, BhLinkDown, BhClear
  <2> QED BY <2>1, <2>2, <2>3, RestTypes DEF CallWork, LinkWork
<1>2. CASE NetifCall
  <2>1. UNCHANGED <<link, bh>> /\ netifapi # <<>>
    BY <1>2 DEF NetifCall, fwVars
  <2>2. ~BottomHalf
    BY <2>1 DEF BottomHalf, BhLinkUp, BhLinkDown, BhClear
  <2>3. cur = "ConnectedIPNo" /\ netifapi \in Setups
    BY <2>1 DEF LiveInv, UnderwayInv, Attempts
  <2>4. CASE Head(netifapi) \in {"stop", "clear"}
    <3>1. netifapi' = Tail(netifapi)
      BY <1>2, <2>4, CallsAssumption DEF NetifCall
    <3>2. \A ip \in StaticIps : Head(<<ip>>) \notin {"stop", "clear"}
      BY CallsAssumption
    <3>3. Head(<<"setup">>) = "setup"
      OBVIOUS
    <3>4. netifapi \in {<<"clear", "setup">>, <<"stop", "clear", "setup">>}
      BY <2>1, <2>3, <2>4, <3>2, <3>3 DEF Setups
    <3>5. \/ netifapi = <<"clear", "setup">> /\ netifapi' = <<"setup">>
          \/ netifapi = <<"stop", "clear", "setup">> /\ netifapi' = <<"clear", "setup">>
      BY <3>1, <3>4, CallSequences
    <3> QED BY <2>1, <2>2, <3>5 DEF CallWork, LinkWork
  <2>5. CASE Head(netifapi) = "setup"
    <3>1. netifapi' = <<>> \/ (netifapi' = <<static>> /\ static \in StaticIps)
      BY <1>2, <2>5, CallsAssumption DEF NetifCall, LiveInv, IInv, TypeOK
    <3>2. \A ip \in StaticIps : ip # "setup"
      BY CallsAssumption
    <3>3. netifapi = <<"setup">>
      <4>1. \A ip \in StaticIps : Head(<<ip>>) # "setup"
        BY <3>2
      <4>2. Head(<<"clear", "setup">>) = "clear" /\ Head(<<"stop", "clear", "setup">>) = "stop"
        OBVIOUS
      <4> QED BY <2>1, <2>3, <2>5, <4>1, <4>2 DEF Setups
    <3>4. CallWork = 2
      BY <3>3 DEF CallWork
    <3>5. CallWork' <= 1
      BY <3>1, <3>2 DEF CallWork
    <3>6. LinkWork' = LinkWork
      BY <2>1 DEF LinkWork
    <3> QED BY <2>1, <2>2, <3>4, <3>5, <3>6, RestTypes
  <2>6. CASE Head(netifapi) \in StaticIps
    <3>1. netifapi' = <<>>
      BY <1>2, <2>6, CallsAssumption DEF NetifCall
    <3> QED BY <2>1, <2>2, <3>1 DEF CallWork, LinkWork
  <2> QED BY <1>2, <2>4, <2>5, <2>6 DEF NetifCall
<1>3. CASE BottomHalf
  <2>1. UNCHANGED <<netifapi, link>>
    BY <1>3 DEF BottomHalf, BhLinkUp, BhLinkDown, BhClear, mgrVars, fwVars
  <2>2. ~NetifCall
    BY <1>3 DEF NetifCall, BottomHalf, BhLinkUp, BhLinkDown, BhClear
  <2>3. \/ bh = "linkup" /\ bh' = "idle" /\ link = "up"
        \/ bh = "linkdown" /\ bh' = "clear" /\ link = "down"
        \/ bh = "clear" /\ bh' = "idle" /\ link = "down"
    BY <1>3 DEF BottomHalf, BhLinkUp, BhLinkDown, BhClear, LiveInv, UnderwayInv
  <2> QED BY <2>1, <2>2, <2>3 DEF CallWork, LinkWork
<1>4. CASE FwDropped
  <2>1. /\ UNCHANGED netifapi /\ link = "up" /\ link' = "down" /\ bh = "idle" /\ bh' = "linkdown"
    BY <1>4 DEF FwDropped, mgrVars
  <2>2. ~NetifCall /\ ~BottomHalf
    BY <2>1 DEF NetifCall, BottomHalf, BhLinkUp, BhLinkDown, BhClear
  <2> QED BY <2>1, <2>2 DEF CallWork, LinkWork
<1>5. CASE UNCHANGED <<netifapi, link, bh>>
  <2>1. ~BottomHalf
    BY <1>5 DEF BottomHalf, BhLinkUp, BhLinkDown, BhClear
  <2> QED BY <1>2, <1>5, <2>1, RestTypes DEF CallWork, LinkWork
<1>6. Handle \/ NetifCall \/ BottomHalf \/ FwDropped \/ UNCHANGED <<netifapi, link, bh>>
  BY DEF Next, Request, Connect, IpSet, Call, IfaceUp,
     DhcpClient, DhcpBind, DhcpNak, DhcpExpire, IpObtainingTimeout,
     DisconnectRetry, FwJoined, FwJoinFailed, FwScanDone, vars, mgrVars, fwVars
<1> QED BY <1>1, <1>2, <1>3, <1>4, <1>5, <1>6

\* A place in the queue stays, or is taken in a step that handles its message.
LEMMA NearKept ==
  ASSUME IInv, [Next]_vars, NEW evs, NEW n \in Int, NEW m \in Int, NEW r \in Nat, NEW q \in Nat,
         q - m <= r - n,
         Handle => mq # <<>> /\ mq' = Tail(mq) /\ Head(mq).ev \notin evs,
         Near(evs, r, n)
  PROVE  Near(evs, q, m)'
<1>1. PICK p \in 1 .. Len(mq) : mq[p].ev \in evs /\ 10 * p + r < n
  BY DEF Near
<1>2. CASE ~Handle
  <2>1. p \in 1 .. Len(mq') /\ mq'[p] = mq[p]
    BY <1>1, <1>2, OnlyAppended
  <2>2. 10 * p + q < m
    BY <1>1
  <2> QED BY <1>1, <2>1, <2>2 DEF Near
<1>3. CASE Handle
  <2>1. mq \in Seq(Messages) /\ mq # <<>> /\ mq' = Tail(mq) /\ Head(mq).ev \notin evs
    BY <1>3 DEF IInv, TypeOK, Messages
  <2>2. /\ Len(mq) \in Nat /\ Head(mq) = mq[1] /\ Len(mq') = Len(mq) - 1
        /\ \A i \in 1 .. Len(mq) - 1 : mq'[i] = mq[i + 1]
    BY <2>1, HeadTailProperties, LenProperties, EmptySeq
  <2>3. p # 1
    BY <1>1, <2>1, <2>2
  <2>4. p - 1 \in 1 .. Len(mq') /\ mq'[p - 1] = mq[p]
    BY <1>1, <2>2, <2>3
  <2>5. 10 * (p - 1) + q < m
    BY <1>1
  <2> QED BY <1>1, <2>4, <2>5 DEF Near
<1> QED BY <1>2, <1>3

\* It comes nearer by the place that the handled message leaves.
LEMMA NearHandled ==
  ASSUME IInv, Handle, NEW evs, NEW n \in Int, NEW r \in Nat,
         mq # <<>>, mq' = Tail(mq), Head(mq).ev \notin evs, Near(evs, r, n + 1)
  PROVE  Near(evs, r, n)'
<1>1. PICK p \in 1 .. Len(mq) : mq[p].ev \in evs /\ 10 * p + r < n + 1
  BY DEF Near
<1>2. mq \in Seq(Messages)
  BY DEF IInv, TypeOK, Messages
<1>3. /\ Len(mq) \in Nat /\ Head(mq) = mq[1] /\ Len(mq') = Len(mq) - 1
      /\ \A i \in 1 .. Len(mq) - 1 : mq'[i] = mq[i + 1]
  BY <1>2, HeadTailProperties, LenProperties, EmptySeq
<1>4. p # 1
  BY <1>1, <1>3
<1>5. p - 1 \in 1 .. Len(mq') /\ mq'[p - 1] = mq[p]
  BY <1>1, <1>3, <1>4
<1>6. 10 * (p - 1) + r < n
  BY <1>1
<1> QED BY <1>1, <1>5, <1>6 DEF Near

\* A message that is in the queue has a place there.
LEMMA NearIfQueued ==
  ASSUME TypeOK', QueueFits', NEW ev, Queued(ev)', NEW evs, ev \in evs,
         NEW q \in Nat, NEW m \in Int, q + 1120 < m
  PROVE  Near(evs, q, m)'
<1>1. PICK p \in 1 .. Len(mq') : mq'[p].ev = ev
  BY DEF Queued
<1>2. Len(mq') \in Nat
  BY LenProperties DEF TypeOK
<1>3. p \in 1 .. 112
  BY <1>2 DEF QueueFits
<1>4. 10 * p + q < m
  BY <1>3
<1> QED BY <1>1, <1>4 DEF Near

\* What is queued is handled sooner than what the firmware owes, and so on.
LEMMA CloserParts ==
  ASSUME LiveInv, cur \in Attempts, NEW n \in Nat, NEW r \in 0 .. 8,
         CloserBy(r, n + 1), ~CloserBy(r, n)
  PROVE  \/ Near(Ending, r, n + 1) /\ n < 1200
         \/ Owed /\ n >= 1200 /\ n < 1300
         \/ cur = "ConnectedIPNo" /\ Near({"FW_DISCONNECT"}, r + 1300, n + 1) /\ n >= 1300 /\ n < 2600
         \/ Timed /\ n >= 2600
<1>1. Len(mq) \in Nat /\ Len(mq) <= 112
  BY LenProperties DEF LiveInv, IInv, TypeOK, QueueFits
<1>2. ASSUME Near(Ending, r, n + 1)
      PROVE  n < 1200
  <2>1. PICK p \in 1 .. Len(mq) : mq[p].ev \in Ending /\ 10 * p + r < n + 1
    BY <1>2 DEF Near
  <2>2. ~(10 * p + r < n)
    BY <2>1 DEF CloserBy, Near
  <2> QED BY <1>1, <2>1, <2>2
<1>3. ASSUME cur = "ConnectedIPNo", Near({"FW_DISCONNECT"}, r + 1300, n + 1)
      PROVE  n >= 1300 /\ n < 2600
  <2>1. PICK p \in 1 .. Len(mq) : mq[p].ev \in {"FW_DISCONNECT"} /\ 10 * p + (r + 1300) < n + 1
    BY <1>3 DEF Near
  <2>2. ~(10 * p + (r + 1300) < n)
    BY <1>3, <2>1 DEF CloserBy, Near
  <2> QED BY <1>1, <2>1, <2>2
<1>4. Owed /\ 1200 + r < n + 1 => n >= 1200 /\ n < 1300
  BY DEF CloserBy
<1>5. Timed /\ 2600 + r < n + 1 => n >= 2600
  OBVIOUS
<1> QED BY <1>2, <1>3, <1>4, <1>5 DEF CloserBy

\* A step leaves every way out of the attempt as near as it was; one that lessens the rest
\* brings it nearer.
LEMMA CloserKept ==
  ASSUME LiveInv, LiveInv', [Next]_vars, cur \in Attempts, cur' = cur, link # "joining",
         NEW n \in Nat, NEW m \in Int, NEW r \in 0 .. 8, NEW q \in 0 .. 8, q - m <= r - n,
         CloserBy(r, n)
  PROVE  CloserBy(q, m)'
<1>1. TypeOK' /\ QueueFits'
  BY DEF LiveInv, IInv
<1>2. PICK E : E = Ending /\ E = Ending'
  BY DEF Ending
<1>3. Near(E, q, m)' => CloserBy(q, m)'
  BY <1>2 DEF Near, CloserBy
<1>4. Handle => /\ mq # <<>> /\ mq' = Tail(mq) /\ Head(mq).ev \notin Ending
                /\ (dreq => dreq') /\ (Head(mq).ev = "FW_DISCONNECT" => dreq' \/ link # "up")
                /\ UNCHANGED <<link, ip_timer>>
  BY HandleStays
<1>5. CASE Near(Ending, r, n)
  <2>1. IInv /\ Near(E, r, n) /\ (Handle => mq # <<>> /\ mq' = Tail(mq) /\ Head(mq).ev \notin E)
    BY <1>2, <1>4, <1>5 DEF LiveInv
  <2>2. q \in Nat /\ r \in Nat /\ n \in Int
    OBVIOUS
  <2>3. Near(E, q, m)'
    BY <2>1, <2>2, NearKept
  <2> QED BY <1>3, <2>3
<1>6. CASE Owed /\ 1200 + r < n
  <2>1. cur = "ConnectedIPNo" /\ dreq /\ link = "up"
    BY <1>6 DEF Owed, Attempts
  <2>2. 1200 + q < m
    BY <1>6
  <2>3. CASE FwDropped
    <3>1. Queued("IND_DISCONNECT")'
      BY <2>3, OneSent DEF LiveInv, IInv, FwDropped, Followed
    <3>2. "IND_DISCONNECT" \in E
      BY <1>2, <2>1 DEF Ending
    <3>3. q + 1120 < m
      BY <2>2
    <3> QED BY <1>1, <1>3, <3>1, <3>2, <3>3, NearIfQueued
  <2>4. CASE ~FwDropped
    <3>1. dreq' /\ link' = "up"
      BY <1>4, <2>1, <2>4 DEF Next, Request, Connect, IpSet, Call, IfaceUp, NetifCall,
         DhcpClient, DhcpBind, DhcpNak, DhcpExpire,
         IpObtainingTimeout, DisconnectRetry, FwJoined, FwJoinFailed, FwScanDone, BottomHalf,
         BhLinkUp, BhLinkDown, BhClear, vars, fwVars
    <3>2. Owed'
      BY <2>1, <3>1 DEF Owed
    <3> QED BY <2>2, <3>2 DEF CloserBy
  <2> QED BY <2>3, <2>4
<1>7. CASE cur = "ConnectedIPNo" /\ Near({"FW_DISCONNECT"}, r + 1300, n)
  <2>1. CASE Handle /\ Head(mq).ev = "FW_DISCONNECT"
    <3>1. n > r + 1300
      <4>1. PICK p \in 1 .. Len(mq) : 10 * p + (r + 1300) < n
        BY <1>7 DEF Near
      <4>2. Len(mq) \in Nat
        BY LenProperties DEF LiveInv, IInv, TypeOK
      <4> QED BY <4>1, <4>2
    <3>2. 1200 + q < m /\ q + 1120 < m
      BY <3>1
    <3>3. CASE dreq' /\ link' = "up"
      <4>1. Owed'
        BY <1>7, <3>3 DEF Owed
      <4> QED BY <3>2, <4>1 DEF CloserBy
    <3>4. CASE link # "up"
      <4>1. Queued("IND_DISCONNECT")'
        BY <1>4, <1>7, <2>1, <3>4 DEF LiveInv, IInv
      <4>2. "IND_DISCONNECT" \in E
        BY <1>2, <1>7 DEF Ending
      <4> QED BY <1>1, <1>3, <3>2, <4>1, <4>2, NearIfQueued
    <3> QED BY <1>4, <2>1, <3>3, <3>4
  <2>2. CASE ~(Handle /\ Head(mq).ev = "FW_DISCONNECT")
    <3>1. (q + 1300) - m <= (r + 1300) - n /\ q + 1300 \in Nat /\ r + 1300 \in Nat
      OBVIOUS
    <3>2. Near({"FW_DISCONNECT"}, q + 1300, m)'
      BY <1>4, <1>7, <2>2, <3>1, NearKept DEF LiveInv
    <3> QED BY <1>7, <3>2 DEF CloserBy
  <2> QED BY <2>1, <2>2
<1>8. CASE Timed /\ 2600 + r < n
  <2>1. cur' = "ConnectedIPNo"
    BY <1>8 DEF Timed
  <2>2. 2600 + q < m
    BY <1>8
  <2>3. CASE IpObtainingTimeout
    <3>1. Queued("FW_DISCONNECT")'
      BY <2>3, OneSent DEF LiveInv, IInv, IpObtainingTimeout, Followed
    <3>2. (q + 1300) + 1120 < m /\ q + 1300 \in Nat
      BY <2>2
    <3>3. Near({"FW_DISCONNECT"}, q + 1300, m)'
      BY <1>1, <3>1, <3>2, NearIfQueued
    <3> QED BY <2>1, <3>3 DEF CloserBy
  <2>4. CASE ~IpObtainingTimeout
    <3>1. ip_timer
      BY <1>8 DEF Timed
    <3>2. ip_timer'
      BY <1>4, <2>4, <3>1 DEF Next, Request, Connect, IpSet, Call, IfaceUp, NetifCall,
         DhcpClient, DhcpBind, DhcpNak, DhcpExpire,
         DisconnectRetry, FwJoined, FwJoinFailed, FwDropped, FwScanDone, BottomHalf,
         BhLinkUp, BhLinkDown, BhClear, vars, timerVars
    <3>3. Timed'
      BY <2>1, <3>2 DEF Timed
    <3> QED BY <2>2, <3>3 DEF CloserBy
  <2> QED BY <2>3, <2>4
<1> QED BY <1>5, <1>6, <1>7, <1>8 DEF CloserBy

\* Who has to take the next step: the TCP/IP thread, the bottom half, the firmware that joins,
\* or, when nothing is left of those, the manager, the timer or the firmware that is to drop.
Due ==
  IF link = "joining" THEN "join"
  ELSE IF netifapi # <<>> THEN "call"
  ELSE IF bh # "idle" THEN "report" ELSE "quiet"

LEMMA RestStep ==
  ASSUME LiveInv, LiveInv', [Next]_vars, cur \in Attempts, cur' = cur, link # "joining"
  PROVE  \E r, q \in 0 .. 8 :
           /\ r = Rest /\ q = Rest' /\ q <= r
           /\ NetifCall \/ BottomHalf => q < r
           /\ q = r => Due' = Due
<1>1. PICK c \in 0 .. 4, d \in 0 .. 4 : c = CallWork /\ d = LinkWork
  BY RestTypes
<1>2. PICK e \in 0 .. 4, f \in 0 .. 4 : e = CallWork' /\ f = LinkWork'
  BY RestTypes
<1>3. /\ e <= c /\ f <= d /\ link' # "joining"
      /\ NetifCall => e < c
      /\ BottomHalf => f < d
  BY <1>1, <1>2, RestLess
<1>4. PICK r, q \in 0 .. 8 : r = c + d /\ q = e + f
  OBVIOUS
<1>5. r = Rest
  BY <1>1, <1>4 DEF Rest
<1>6. q = Rest'
  BY <1>2, <1>4 DEF Rest
<1>7. q <= r /\ (NetifCall \/ BottomHalf => q < r) /\ (q = r => e = c /\ f = d)
  BY <1>3, <1>4
<1>8. ASSUME e = c, f = d
      PROVE  Due' = Due
  <2>1. netifapi = <<>> <=> netifapi' = <<>>
    <3>1. netifapi = <<>> <=> c = 0
      BY <1>1 DEF CallWork
    <3>2. netifapi' = <<>> <=> e = 0
      BY <1>2 DEF CallWork
    <3> QED BY <1>8, <3>1, <3>2
  <2>2. bh = "idle" <=> bh' = "idle"
    <3>1. bh = "idle" <=> d \in {0, 3}
      BY <1>1 DEF LinkWork, LiveInv, IInv, TypeOK, UnderwayInv
    <3>2. bh' = "idle" <=> f \in {0, 3}
      BY <1>2 DEF LinkWork, LiveInv, IInv, TypeOK, UnderwayInv
    <3> QED BY <1>8, <3>1, <3>2
  <2> QED BY <1>3, <2>1, <2>2 DEF Due
<1> QED BY <1>5, <1>6, <1>7, <1>8

\* No step takes the attempt further from its end.
LEMMA AttemptMoves ==
  ASSUME LiveInv, LiveInv', [Next]_vars, cur \in Attempts, cur' = cur, link # "joining",
         NEW n \in Nat, Closer(n + 1)
  PROVE  /\ Closer(n)' \/ (Closer(n + 1)' /\ Due' = Due)
         /\ NetifCall \/ BottomHalf => Closer(n)'
<1>1. PICK r, q \in 0 .. 8 :
        /\ r = Rest /\ q = Rest' /\ q <= r
        /\ NetifCall \/ BottomHalf => q < r
        /\ q = r => Due' = Due
  BY RestStep
<1>2. CloserBy(r, n + 1)
  BY <1>1 DEF Closer
<1>3. ASSUME NEW m \in Int, CloserBy(q, m)' PROVE Closer(m)'
  BY <1>1, <1>3 DEF Closer
<1>4. q <= r
  BY <1>1
<1>5. CloserBy(q, n + 1)'
  BY <1>2, <1>4, CloserKept
<1>6. q < r => CloserBy(q, n)'
  BY <1>2, CloserKept
<1> QED BY <1>1, <1>3, <1>4, <1>5, <1>6

\* A network is being joined: the firmware will say how that went.
LEMMA JoinMoves ==
  ASSUME LiveInv, LiveInv', [Next]_vars, cur \in Attempts, cur' = cur, link = "joining",
         NEW n \in Nat, Closer(n + 1), ~Closer(n)
  PROVE  /\ Closer(n)' \/ (Closer(n + 1)' /\ Due' = Due)
         /\ FwJoined \/ FwJoinFailed => Closer(n)'
<1>1. cur = "Connecting" /\ ~Queued("IND_CONNECTED") /\ ~Queued("IND_DISCONNECT")
  BY DEF LiveInv, IInv
<1>2. PICK r \in 0 .. 8 : r = Rest /\ CloserBy(r, n + 1)
  BY DEF Closer
<1>3. ~CloserBy(r, n)
  BY <1>2 DEF Closer
<1>4. ~Near(Ending, r, n + 1)
  BY <1>1 DEF Near, Ending, Queued
<1>5. n >= 1200 /\ 1200 + r < n + 1
  BY <1>1, <1>2, <1>3, <1>4, CloserParts DEF Timed, CloserBy
<1>6. PICK q \in 0 .. 8 : q = Rest'
  BY RestTypes
<1>7. ASSUME NEW m \in Nat, CloserBy(q, m)' PROVE Closer(m)'
  BY <1>6, <1>7 DEF Closer
<1>8. CASE FwJoined \/ FwJoinFailed
  <2>1. Queued("IND_CONNECTED")' \/ Queued("IND_DISCONNECT")'
    BY <1>8, OneSent DEF LiveInv, IInv, FwJoined, FwJoinFailed, Followed
  <2>2. TypeOK' /\ QueueFits' /\ q + 1120 < n
    BY <1>5 DEF LiveInv, IInv
  <2>3. Near({"IND_CONNECTED", "IND_DISCONNECT"}, q, n)'
    BY <2>1, <2>2, NearIfQueued
  <2>4. CloserBy(q, n)'
    BY <1>1, <2>3 DEF CloserBy, Near, Ending
  <2> QED BY <1>7, <2>4
<1>9. CASE ~FwJoined /\ ~FwJoinFailed
  <2>1. link' = "joining"
    <3>1. Handle => link' = link
      BY HandleStays
    <3> QED BY <1>9, <3>1 DEF Next, Request, Connect, IpSet, Call, IfaceUp, NetifCall,
       DhcpClient, DhcpBind, DhcpNak, DhcpExpire,
               IpObtainingTimeout, DisconnectRetry, FwDropped, FwScanDone, BottomHalf, BhLinkUp,
               BhLinkDown, BhClear, vars, fwVars
  <2>2. netifapi' = <<>> /\ bh' = "idle"
    BY <1>1, <2>1 DEF LiveInv, UnderwayInv, IInv, TypeOK
  <2>3. CallWork' = 0 /\ LinkWork' = 0
    BY <2>1, <2>2 DEF CallWork, LinkWork
  <2>4. q = 0
    BY <1>6, <2>3 DEF Rest
  <2>5. Owed' /\ 1200 + q < n + 1
    BY <1>1, <1>5, <2>1, <2>4 DEF Owed
  <2>6. CloserBy(q, n + 1)'
    BY <2>5 DEF CloserBy
  <2> QED BY <1>7, <1>9, <2>1, <2>6 DEF Due
<1> QED BY <1>8, <1>9

\* Nothing is left to wait for but what ends the attempt, or brings that about.
LEMMA QuietHelps ==
  ASSUME LiveInv, LiveInv', [Next]_vars, cur \in Attempts, cur' = cur, Due = "quiet",
         NEW n \in Nat, Closer(n + 1), ~Closer(n)
  PROVE  /\ n < 1200 \/ (n >= 1300 /\ n < 2600) => (Handle => Closer(n)')
         /\ n >= 1200 /\ n < 1300 => (FwDropped => Closer(n)')
         /\ n >= 2600 => (IpObtainingTimeout => Closer(n)')
<1>1. link # "joining"
  BY DEF Due
<1>2. PICK r, q \in 0 .. 8 : r = Rest /\ q = Rest' /\ q <= r
  BY <1>1, RestStep
<1>3. q <= r
  BY <1>2
<1>4. CloserBy(r, n + 1) /\ ~CloserBy(r, n)
  BY <1>2 DEF Closer
<1>5. CloserBy(q, n)' => Closer(n)'
  BY <1>2 DEF Closer
<1>6. TypeOK' /\ QueueFits'
  BY DEF LiveInv, IInv
<1>7. PICK E : E = Ending /\ E = Ending'
  BY DEF Ending
<1>8. Near(E, q, n)' => Closer(n)'
  BY <1>5, <1>7 DEF Near, CloserBy
<1>9. cur = "ConnectedIPNo" /\ Queued("IND_DISCONNECT")' /\ n >= 1200 => Closer(n)'
  <2>1. cur = "ConnectedIPNo" => "IND_DISCONNECT" \in E
    BY <1>7 DEF Ending
  <2> QED BY <1>6, <1>8, <2>1, NearIfQueued
<1>10. ASSUME n < 1200, Handle
       PROVE  Closer(n)'
  <2>1. Near(E, r, n + 1)
    <3>1. Near(Ending, r, n + 1)
      BY <1>4, <1>10, CloserParts
    <3> QED BY <1>7, <3>1
  <2>2. mq # <<>> /\ mq' = Tail(mq) /\ Head(mq).ev \notin E /\ IInv
    BY <1>7, <1>10, HandleStays DEF LiveInv
  <2>3. Near(E, r, n)'
    BY <1>10, <2>1, <2>2, NearHandled
  <2>4. Near(E, q, n)'
    BY <1>3, <2>2, <2>3, LenProperties DEF Near, IInv, TypeOK
  <2> QED BY <1>8, <2>4
<1>11. ASSUME n >= 1300, n < 2600, Handle
       PROVE  Closer(n)'
  <2>1. cur = "ConnectedIPNo" /\ Near({"FW_DISCONNECT"}, r + 1300, n + 1)
    BY <1>4, <1>11, CloserParts
  <2>2. /\ mq # <<>> /\ mq' = Tail(mq) /\ IInv /\ UNCHANGED link /\ Head(mq).ev \notin Ending
        /\ Head(mq).ev = "FW_DISCONNECT" => dreq' \/ link # "up"
    BY <1>11, HandleStays DEF LiveInv
  <2>3. CASE Head(mq).ev # "FW_DISCONNECT"
    <3>1. Near({"FW_DISCONNECT"}, r + 1300, n)'
      BY <1>11, <2>1, <2>2, <2>3, NearHandled
    <3>2. Near({"FW_DISCONNECT"}, q + 1300, n)'
      BY <1>3, <3>1 DEF Near
    <3> QED BY <1>5, <2>1, <3>2 DEF CloserBy
  <2>4. CASE Head(mq).ev = "FW_DISCONNECT" /\ dreq' /\ link' = "up"
    <3>1. Owed' /\ 1200 + q < n
      BY <1>11, <2>1, <2>4 DEF Owed
    <3> QED BY <1>5, <3>1 DEF CloserBy
  <2>5. CASE Head(mq).ev = "FW_DISCONNECT" /\ link # "up"
    <3>1. cur' = "ConnectedIPNo" /\ link' # "up"
      BY <2>1, <2>2, <2>5
    <3>2. Queued("IND_DISCONNECT")'
      BY <3>1 DEF LiveInv, IInv
    <3> QED BY <1>9, <1>11, <2>1, <3>2
  <2> QED BY <2>2, <2>3, <2>4, <2>5
<1>12. ASSUME n >= 1200, n < 1300, FwDropped
       PROVE  Closer(n)'
  <2>1. cur = "ConnectedIPNo"
    <3>1. Owed
      BY <1>4, <1>12, CloserParts
    <3> QED BY <1>1, <3>1 DEF Owed, Attempts
  <2>2. Queued("IND_DISCONNECT")'
    BY <1>12, OneSent DEF LiveInv, IInv, FwDropped, Followed
  <2> QED BY <1>9, <1>12, <2>1, <2>2
<1>13. ASSUME n >= 2600, IpObtainingTimeout
       PROVE  Closer(n)'
  <2>1. Timed
    BY <1>4, <1>13, CloserParts
  <2>2. Queued("FW_DISCONNECT")'
    BY <1>13, OneSent DEF LiveInv, IInv, IpObtainingTimeout, Followed
  <2>3. Near({"FW_DISCONNECT"}, q + 1300, n)'
    <3>1. (q + 1300) + 1120 < n /\ q + 1300 \in Nat
      BY <1>13
    <3> QED BY <1>6, <2>2, <3>1, NearIfQueued
  <2> QED BY <1>5, <2>1, <2>3 DEF CloserBy, Timed
<1> QED BY <1>10, <1>11, <1>12, <1>13

\* And that is always possible.
LEMMA QuietReady ==
  ASSUME LiveInv, cur \in Attempts, Due = "quiet", NEW n \in Nat, Closer(n + 1), ~Closer(n)
  PROVE  /\ Timely
         /\ n < 1200 \/ (n >= 1300 /\ n < 2600) => mq # <<>>
         /\ n >= 1200 /\ n < 1300 => dreq /\ link = "up"
         /\ n >= 2600 => ip_timer
<1>1. PICK r \in 0 .. 8 : CloserBy(r, n + 1) /\ ~CloserBy(r, n)
  BY DEF Closer
<1>2. \A evs, p, m : Near(evs, p, m) => mq # <<>>
  <2>1. mq \in Seq(Messages)
    BY DEF LiveInv, IInv, TypeOK, Messages
  <2> QED BY <2>1, EmptySeq DEF Near
<1>3. Timely /\ link # "joining"
  BY DEF Due, Timely
<1>4. Owed => dreq /\ link = "up"
  BY <1>3 DEF Owed, Attempts
<1>5. \/ mq # <<>> /\ (n < 1200 \/ (n >= 1300 /\ n < 2600))
      \/ Owed /\ n >= 1200 /\ n < 1300
      \/ Timed /\ n >= 2600
  BY <1>1, <1>2, CloserParts
<1>6. (n < 1200 \/ (n >= 1300 /\ n < 2600)) => mq # <<>>
  BY <1>5
<1>7. n >= 1200 /\ n < 1300 => Owed
  BY <1>5
<1>8. n >= 2600 => Timed
  BY <1>5
<1> QED BY <1>3, <1>4, <1>6, <1>7, <1>8 DEF Timed

\* Somebody's turn, n from the end of the attempt.
Turn(st, n, d) == cur = st /\ Closer(n + 1) /\ ~Closer(n) /\ Due = d
Below(st, n) == cur # st \/ Closer(n)

\* The turn does not pass before the attempt has come nearer to its end.
LEMMA TurnStays ==
  ASSUME LiveInv, LiveInv', [Next]_vars, NEW st \in Attempts, NEW n \in Nat, NEW d, Turn(st, n, d)
  PROVE  Turn(st, n, d)' \/ Below(st, n)'
<1>1. cur = st /\ Closer(n + 1) /\ ~Closer(n) /\ Due = d
  BY DEF Turn
<1>2. CASE cur' # st
  BY <1>2 DEF Below
<1>3. CASE cur' = st
  <2>1. cur \in Attempts /\ cur' = cur
    BY <1>1, <1>3
  <2>2. Closer(n)' \/ (Closer(n + 1)' /\ Due' = Due)
    BY <1>1, <2>1, AttemptMoves, JoinMoves
  <2> QED BY <1>1, <1>3, <2>2 DEF Turn, Below
<1> QED BY <1>2, <1>3

\* Who helps when it is whose turn.
LEMMA TurnTaken ==
  ASSUME LiveInv, LiveInv', [Next]_vars, NEW st \in Attempts, NEW n \in Nat
  PROVE  /\ Turn(st, n, "join") /\ (FwJoined \/ FwJoinFailed) => Below(st, n)'
         /\ Turn(st, n, "call") /\ NetifCall => Below(st, n)'
         /\ Turn(st, n, "report") /\ BottomHalf => Below(st, n)'
         /\ Turn(st, n, "quiet") =>
              /\ n < 1200 \/ (n >= 1300 /\ n < 2600) => (Handle => Below(st, n)')
              /\ n >= 1200 /\ n < 1300 => (FwDropped => Below(st, n)')
              /\ n >= 2600 => (IpObtainingTimeout => Below(st, n)')
<1> SUFFICES ASSUME cur' = st, cur = st, Closer(n + 1), ~Closer(n)
             PROVE  /\ Due = "join" /\ (FwJoined \/ FwJoinFailed) => Closer(n)'
                    /\ Due = "call" /\ NetifCall => Closer(n)'
                    /\ Due = "report" /\ BottomHalf => Closer(n)'
                    /\ Due = "quiet" =>
                         /\ n < 1200 \/ (n >= 1300 /\ n < 2600) => (Handle => Closer(n)')
                         /\ n >= 1200 /\ n < 1300 => (FwDropped => Closer(n)')
                         /\ n >= 2600 => (IpObtainingTimeout => Closer(n)')
  BY DEF Turn, Below
<1>1. cur \in Attempts /\ cur' = cur
  OBVIOUS
<1>2. Due = "join" /\ (FwJoined \/ FwJoinFailed) => Closer(n)'
  <2>1. Due = "join" => link = "joining"
    BY DEF Due
  <2> QED BY <1>1, <2>1, JoinMoves
<1>3. Due \in {"call", "report"} => link # "joining"
  BY DEF Due
<1>4. Due \in {"call", "report"} => (NetifCall \/ BottomHalf => Closer(n)')
  BY <1>1, <1>3, AttemptMoves
<1>5. Due = "quiet" =>
        /\ n < 1200 \/ (n >= 1300 /\ n < 2600) => (Handle => Closer(n)')
        /\ n >= 1200 /\ n < 1300 => (FwDropped => Closer(n)')
        /\ n >= 2600 => (IpObtainingTimeout => Closer(n)')
  <2> SUFFICES ASSUME Due = "quiet"
               PROVE  /\ n < 1200 \/ (n >= 1300 /\ n < 2600) => (Handle => Closer(n)')
                      /\ n >= 1200 /\ n < 1300 => (FwDropped => Closer(n)')
                      /\ n >= 2600 => (IpObtainingTimeout => Closer(n)')
    OBVIOUS
  <2> QED BY <1>1, QuietHelps
<1> QED BY <1>2, <1>4, <1>5

HandleFair == WF_vars(Handle)
CallFair == WF_vars(NetifCall)
ReportFair == WF_vars(BottomHalf)
TimerFair == WF_vars(IpObtainingTimeout)
JoinFair == WF_vars(FwJoined \/ FwJoinFailed)
DropFair == WF_vars(dreq /\ FwDropped)

Awake ==
  /\ [][Next]_vars /\ []LiveInv /\ []ManagerCanStep
  /\ []HandleFair /\ []CallFair /\ []ReportFair /\ []TimerFair /\ []JoinFair /\ []DropFair

\* The firmware says whether it has joined.
LEMMA JoinsInTheEnd ==
  ASSUME NEW st \in Attempts, NEW n \in Nat
  PROVE  Awake => (Turn(st, n, "join") => <>Below(st, n))
<1>1. LiveInv /\ LiveInv' /\ Turn(st, n, "join") /\ [Next]_vars
        => Turn(st, n, "join")' \/ Below(st, n)'
  BY TurnStays
<1>2. LiveInv /\ LiveInv' /\ Turn(st, n, "join") /\ [Next]_vars
        /\ <<FwJoined \/ FwJoinFailed>>_vars => Below(st, n)'
  BY TurnTaken
<1>3. ManagerCanStep /\ Turn(st, n, "join") => ENABLED <<FwJoined \/ FwJoinFailed>>_vars
  <2>1. Turn(st, n, "join") => link = "joining"
    BY DEF Turn, Due
  <2> QED BY <2>1 DEF ManagerCanStep
<1> QED BY <1>1, <1>2, <1>3, PTL DEF Awake, JoinFair

\* The TCP/IP thread serves the handler's next call.
LEMMA CallsInTheEnd ==
  ASSUME NEW st \in Attempts, NEW n \in Nat
  PROVE  Awake => (Turn(st, n, "call") => <>Below(st, n))
<1>1. LiveInv /\ LiveInv' /\ Turn(st, n, "call") /\ [Next]_vars
        => Turn(st, n, "call")' \/ Below(st, n)'
  BY TurnStays
<1>2. LiveInv /\ LiveInv' /\ Turn(st, n, "call") /\ [Next]_vars /\ <<NetifCall>>_vars
        => Below(st, n)'
  BY TurnTaken
<1>3. ManagerCanStep /\ Turn(st, n, "call") => ENABLED <<NetifCall>>_vars
  <2>1. Turn(st, n, "call") => netifapi # <<>>
    BY DEF Turn, Due
  <2> QED BY <2>1 DEF ManagerCanStep
<1> QED BY <1>1, <1>2, <1>3, PTL DEF Awake, CallFair

\* The bottom half finishes its report.
LEMMA ReportsInTheEnd ==
  ASSUME NEW st \in Attempts, NEW n \in Nat
  PROVE  Awake => (Turn(st, n, "report") => <>Below(st, n))
<1>1. LiveInv /\ LiveInv' /\ Turn(st, n, "report") /\ [Next]_vars
        => Turn(st, n, "report")' \/ Below(st, n)'
  BY TurnStays
<1>2. LiveInv /\ LiveInv' /\ Turn(st, n, "report") /\ [Next]_vars /\ <<BottomHalf>>_vars
        => Below(st, n)'
  BY TurnTaken
<1>3. ManagerCanStep /\ Turn(st, n, "report") => ENABLED <<BottomHalf>>_vars
  <2>1. Turn(st, n, "report") => bh # "idle"
    BY DEF Turn, Due
  <2> QED BY <2>1 DEF ManagerCanStep
<1> QED BY <1>1, <1>2, <1>3, PTL DEF Awake, ReportFair

\* The manager takes its next message.
LEMMA HandlesInTheEnd ==
  ASSUME NEW st \in Attempts, NEW n \in Nat, n < 1200 \/ (n >= 1300 /\ n < 2600)
  PROVE  Awake => (Turn(st, n, "quiet") => <>Below(st, n))
<1>1. LiveInv /\ LiveInv' /\ Turn(st, n, "quiet") /\ [Next]_vars
        => Turn(st, n, "quiet")' \/ Below(st, n)'
  BY TurnStays
<1>2. LiveInv /\ LiveInv' /\ Turn(st, n, "quiet") /\ [Next]_vars /\ <<Handle>>_vars
        => Below(st, n)'
  BY TurnTaken
<1>3. LiveInv /\ ManagerCanStep /\ Turn(st, n, "quiet") => ENABLED <<Handle>>_vars
  <2>1. LiveInv /\ Turn(st, n, "quiet") => mq # <<>> /\ Timely
    BY QuietReady DEF Turn
  <2> QED BY <2>1 DEF ManagerCanStep
<1> QED BY <1>1, <1>2, <1>3, PTL DEF Awake, HandleFair

\* The firmware ends the connection as it was asked to.
LEMMA DropsInTheEnd ==
  ASSUME NEW st \in Attempts, NEW n \in Nat, n >= 1200, n < 1300
  PROVE  Awake => (Turn(st, n, "quiet") => <>Below(st, n))
<1>1. LiveInv /\ LiveInv' /\ Turn(st, n, "quiet") /\ [Next]_vars
        => Turn(st, n, "quiet")' \/ Below(st, n)'
  BY TurnStays
<1>2. LiveInv /\ LiveInv' /\ Turn(st, n, "quiet") /\ [Next]_vars /\ <<dreq /\ FwDropped>>_vars
        => Below(st, n)'
  BY TurnTaken
<1>3. LiveInv /\ ManagerCanStep /\ Turn(st, n, "quiet") => ENABLED <<dreq /\ FwDropped>>_vars
  <2>1. LiveInv /\ Turn(st, n, "quiet") => dreq /\ link = "up" /\ bh = "idle"
    <3> SUFFICES ASSUME LiveInv, Turn(st, n, "quiet")
                 PROVE  dreq /\ link = "up" /\ Timely
      BY DEF Timely
    <3>1. cur \in Attempts /\ Due = "quiet" /\ Closer(n + 1) /\ ~Closer(n)
      BY DEF Turn
    <3> QED BY <3>1, QuietReady
  <2> QED BY <2>1 DEF ManagerCanStep
<1> QED BY <1>1, <1>2, <1>3, PTL DEF Awake, DropFair

\* The address timeout expires.
LEMMA ExpiresInTheEnd ==
  ASSUME NEW st \in Attempts, NEW n \in Nat, n >= 2600
  PROVE  Awake => (Turn(st, n, "quiet") => <>Below(st, n))
<1>1. LiveInv /\ LiveInv' /\ Turn(st, n, "quiet") /\ [Next]_vars
        => Turn(st, n, "quiet")' \/ Below(st, n)'
  BY TurnStays
<1>2. LiveInv /\ LiveInv' /\ Turn(st, n, "quiet") /\ [Next]_vars /\ <<IpObtainingTimeout>>_vars
        => Below(st, n)'
  BY TurnTaken
<1>3. LiveInv /\ ManagerCanStep /\ Turn(st, n, "quiet") => ENABLED <<IpObtainingTimeout>>_vars
  <2>1. LiveInv /\ Turn(st, n, "quiet") => ip_timer /\ Timely
    BY QuietReady DEF Turn
  <2> QED BY <2>1 DEF ManagerCanStep
<1> QED BY <1>1, <1>2, <1>3, PTL DEF Awake, TimerFair

\* Whoever's turn it is, the attempt comes nearer to its end.
LEMMA EndComesNearer ==
  ASSUME NEW st \in Attempts, NEW n \in Nat
  PROVE  Awake => (Below(st, n + 1) => <>Below(st, n))
<1>1. Below(st, n + 1) =>
        \/ Below(st, n)
        \/ Turn(st, n, "join") \/ Turn(st, n, "call") \/ Turn(st, n, "report")
        \/ Turn(st, n, "quiet")
  BY DEF Below, Turn, Due
<1>2. Awake => (Turn(st, n, "quiet") => <>Below(st, n))
  <2>1. CASE n < 1200 \/ (n >= 1300 /\ n < 2600)
    BY <2>1, HandlesInTheEnd
  <2>2. CASE n >= 1200 /\ n < 1300
    BY <2>2, DropsInTheEnd
  <2>3. CASE n >= 2600
    BY <2>3, ExpiresInTheEnd
  <2>4. \/ n < 1200 \/ (n >= 1300 /\ n < 2600) \/ (n >= 1200 /\ n < 1300) \/ n >= 2600
    OBVIOUS
  <2> QED BY <2>1, <2>2, <2>3, <2>4
<1> QED BY <1>1, <1>2, JoinsInTheEnd, CallsInTheEnd, ReportsInTheEnd, PTL

Drops(st, m, n) == Below(st, m) ~> Below(st, n)

LEMMA OneDrop ==
  ASSUME NEW st \in Attempts, NEW m \in Nat, NEW n \in Nat, m = n + 1
  PROVE  Awake => Drops(st, m, n)
<1>1. Awake => (Below(st, m) => <>Below(st, n))
  BY EndComesNearer
<1> QED BY <1>1, PTL DEF Awake, Drops

\* Two falls, one after the other: the number of steps doubles each time.
DropsBy(st, m) == \A n \in Nat : Awake => Drops(st, n + m, n)

LEMMA DropsDouble ==
  ASSUME NEW st, NEW m \in Nat, DropsBy(st, m)
  PROVE  DropsBy(st, m + m)
<1> SUFFICES ASSUME NEW n \in Nat PROVE Awake => Drops(st, n + (m + m), n)
  BY DEF DropsBy
<1>1. n + m \in Nat /\ (n + m) + m = n + (m + m)
  OBVIOUS
<1>2. Awake => Drops(st, n + m, n)
  BY DEF DropsBy
<1>3. Awake => Drops(st, (n + m) + m, n + m)
  BY <1>1 DEF DropsBy
<1>4. Awake => Drops(st, (n + m) + m, n)
  BY <1>2, <1>3, PTL DEF Drops
<1> QED BY <1>1, <1>4

\* From as far as an attempt can be from its end.
LEMMA AttemptDrops ==
  ASSUME NEW st \in Attempts
  PROVE  Awake => Drops(st, 1 + 4096, 1)
<1>0. DropsBy(st, 1)
  BY OneDrop DEF DropsBy
<1>1. DropsBy(st, 2)
  BY <1>0, 1 + 1 = 2, DropsDouble
<1>2. DropsBy(st, 4)
  BY <1>1, 2 + 2 = 4, DropsDouble
<1>3. DropsBy(st, 8)
  BY <1>2, 4 + 4 = 8, DropsDouble
<1>4. DropsBy(st, 16)
  BY <1>3, 8 + 8 = 16, DropsDouble
<1>5. DropsBy(st, 32)
  BY <1>4, 16 + 16 = 32, DropsDouble
<1>6. DropsBy(st, 64)
  BY <1>5, 32 + 32 = 64, DropsDouble
<1>7. DropsBy(st, 128)
  BY <1>6, 64 + 64 = 128, DropsDouble
<1>8. DropsBy(st, 256)
  BY <1>7, 128 + 128 = 256, DropsDouble
<1>9. DropsBy(st, 512)
  BY <1>8, 256 + 256 = 512, DropsDouble
<1>10. DropsBy(st, 1024)
  BY <1>9, 512 + 512 = 1024, DropsDouble
<1>11. DropsBy(st, 2048)
  BY <1>10, 1024 + 1024 = 2048, DropsDouble
<1>12. DropsBy(st, 4096)
  BY <1>11, 2048 + 2048 = 4096, DropsDouble
<1> QED BY <1>12 DEF DropsBy

\* A message that is queued is near enough.
LEMMA QueuedIsNear ==
  ASSUME LiveInv, NEW ev, Queued(ev), NEW evs, ev \in evs, NEW r \in Nat, NEW m \in Int,
         r + 1120 < m
  PROVE  Near(evs, r, m)
<1>1. PICK p \in 1 .. Len(mq) : mq[p].ev = ev
  BY DEF Queued
<1>2. Len(mq) \in Nat
  BY LenProperties DEF LiveInv, IInv, TypeOK
<1>3. p \in 1 .. 112
  BY <1>2 DEF LiveInv, QueueFits
<1>4. 10 * p + r < m
  BY <1>3
<1> QED BY <1>1, <1>4 DEF Near

\* Where an attempt begins.
LEMMA AttemptBegins ==
  ASSUME LiveInv
  PROVE  /\ cur = "Connecting" /\ link = "joining" => Below("Connecting", 1 + 4096)
         /\ Below("ConnectedIPNo", 1 + 4096)
<1>1. PICK r \in 0 .. 8 : r = Rest
  BY RestTypes
<1>2. CloserBy(r, 1 + 4096) => Closer(1 + 4096)
  BY <1>1 DEF Closer
<1>3. ASSUME cur = "Connecting", link = "joining"
      PROVE  CloserBy(r, 1 + 4096)
  <2>1. Owed /\ 1200 + r < 1 + 4096
    BY <1>3 DEF Owed
  <2> QED BY <2>1 DEF CloserBy
<1>4. ASSUME cur = "ConnectedIPNo"
      PROVE  CloserBy(r, 1 + 4096)
  <2>1. CASE ip_timer
    <3>1. Timed /\ 2600 + r < 1 + 4096
      BY <1>4, <2>1 DEF Timed
    <3> QED BY <3>1 DEF CloserBy
  <2>2. CASE Queued("FW_DISCONNECT")
    <3>1. r + 1300 \in Nat /\ (r + 1300) + 1120 < 1 + 4096
      OBVIOUS
    <3>2. Near({"FW_DISCONNECT"}, r + 1300, 1 + 4096)
      BY <2>2, <3>1, QueuedIsNear
    <3> QED BY <1>4, <3>2 DEF CloserBy
  <2>3. CASE Queued("IND_DISCONNECT")
    <3>1. "IND_DISCONNECT" \in Ending /\ r + 1120 < 1 + 4096
      BY DEF Ending
    <3>2. Near(Ending, r, 1 + 4096)
      BY <2>3, <3>1, QueuedIsNear
    <3> QED BY <3>2 DEF CloserBy
  <2>4. CASE dreq /\ link = "up"
    <3>1. Owed /\ 1200 + r < 1 + 4096
      BY <1>4, <2>4 DEF Owed
    <3> QED BY <3>1 DEF CloserBy
  <2>5. link = "up" \/ Queued("IND_DISCONNECT")
    BY <1>4 DEF LiveInv, IInv, LinkInv, StateFollowsLink
  <2>6. ip_timer \/ Queued("FW_DISCONNECT") \/ dreq \/ Queued("IND_DISCONNECT")
    BY <1>4 DEF LiveInv, UnderwayInv
  <2> QED BY <2>1, <2>2, <2>3, <2>4, <2>5, <2>6
<1> QED BY <1>2, <1>3, <1>4 DEF Below

\* Nothing is nearer than the first message of the queue.
LEMMA AttemptOver ==
  ASSUME NEW st, Below(st, 1)
  PROVE  cur # st
<1>1. ~Closer(1)
  <2> SUFFICES ASSUME NEW r \in 0 .. 8, CloserBy(r, 1) PROVE FALSE
    BY DEF Closer
  <2>1. \A evs : ~Near(evs, r, 1) /\ ~Near(evs, r + 1300, 1)
    BY DEF Near
  <2> QED BY <2>1 DEF CloserBy
<1> QED BY <1>1 DEF Below

\* The manager leaves Connecting if the firmware took its request, and ConnectedIPNo even if no
\* DHCP server answers (wifi_mgmr.c:738, 905-940): as long as the queue holds what is sent and
\* whoever is due can take its step, an indication is handled in the end, if need be the one
\* that the address timeout brings about.
THEOREM NoAttemptHangs ==
  FairSpec /\ []ManagerCanStep /\ []QueueFits => AttemptEnds
<1>1. Fairness => /\ HandleFair /\ CallFair /\ ReportFair
                  /\ TimerFair /\ JoinFair /\ DropFair
  BY PTL DEF Fairness, HandleFair, CallFair, ReportFair, TimerFair, JoinFair, DropFair
<1>2. /\ HandleFair => []HandleFair
      /\ CallFair => []CallFair
      /\ ReportFair => []ReportFair
      /\ TimerFair => []TimerFair
      /\ JoinFair => []JoinFair
      /\ DropFair => []DropFair
  <2>1. HandleFair => []HandleFair
    BY PTL DEF HandleFair
  <2>2. CallFair => []CallFair
    BY PTL DEF CallFair
  <2>3. ReportFair => []ReportFair
    BY PTL DEF ReportFair
  <2>4. TimerFair => []TimerFair
    BY PTL DEF TimerFair
  <2>5. JoinFair => []JoinFair
    BY PTL DEF JoinFair
  <2>6. DropFair => []DropFair
    BY PTL DEF DropFair
  <2> QED BY <2>1, <2>2, <2>3, <2>4, <2>5, <2>6
<1>3. IInv /\ UnderwayInv /\ QueueFits => LiveInv
  BY DEF LiveInv
<1>4. FairSpec /\ []ManagerCanStep /\ []QueueFits => Awake
  <2>1. FairSpec => Spec /\ Fairness
    BY DEF FairSpec
  <2>2. Spec => [][Next]_vars
    BY DEF Spec
  <2>3. Spec /\ []QueueFits => []LiveInv
    BY <1>3, Invariance, UnderwayInvariance, PTL
  <2> QED BY <1>1, <1>2, <2>1, <2>2, <2>3, PTL DEF Awake
<1>5. Awake => ((cur = "Connecting" /\ link = "joining") ~> cur # "Connecting")
  <2>1. LiveInv /\ cur = "Connecting" /\ link = "joining" => Below("Connecting", 1 + 4096)
    BY AttemptBegins
  <2>2. Awake => Drops("Connecting", 1 + 4096, 1)
    BY AttemptDrops DEF Attempts
  <2>3. Below("Connecting", 1) => cur # "Connecting"
    BY AttemptOver
  <2> QED BY <2>1, <2>2, <2>3, PTL DEF Awake, Drops
<1>6. Awake => (cur = "ConnectedIPNo" ~> cur # "ConnectedIPNo")
  <2>1. LiveInv => Below("ConnectedIPNo", 1 + 4096)
    BY AttemptBegins
  <2>2. Awake => Drops("ConnectedIPNo", 1 + 4096, 1)
    BY AttemptDrops DEF Attempts
  <2>3. Below("ConnectedIPNo", 1) => cur # "ConnectedIPNo"
    BY AttemptOver
  <2> QED BY <2>1, <2>2, <2>3, PTL DEF Awake, Drops
<1> QED BY <1>4, <1>5, <1>6 DEF AttemptEnds
===============================================================================
