------------------------------ MODULE UPnP_proof ------------------------------
(***************************************************************************)
(* Proofs about UPnP, for any number of hosts, clients, ports and tries:   *)
(* what clients acquire on their hosts and at the gateway is released but  *)
(* for the named failures, and with one client on each host an open        *)
(* cookai_upnp stays reachable from outside.                               *)
(***************************************************************************)
EXTENDS UPnP, TLAPS

USE ConstantsAssumption

\* While a client is inside upnp_AddPortMapping or has its result, it has the
\* ports that its place requires, and its loop is within its bound.
PlaceInv ==
  \A c \in Client :
    /\ pc[c] \in {"route", "ask", "accepted", "refused", "open", "closing"} =>
         port[c] \in LocalPorts
    /\ pc[c] \in {"accepted", "refused", "open", "closing"} => wanPort[c] \in WanPorts
    /\ pc[c] = "listen" => i[c] < Ports
    /\ pc[c] = "ask" => i[c] < MaxTries
    /\ pc[c] \in {"idle", "discover", "describe", "address"} => i[c] = 0

\* A socket is bound to its port until the client closes it.
SocketInv ==
  \A c \in Client : pc[c] \in {"route", "ask", "accepted", "refused", "open"} =>
    listener[HostOf[c]][port[c]] = c

ReleaseInv == TypeOK /\ PlaceInv /\ SocketInv /\ SocketsAreReleased /\ MappingsAreReleased

\* A mapping lasts from the gateway's answer to upnp_DeletePortMapping.
MappedInv ==
  \A c \in Client : pc[c] \in {"accepted", "open", "closing"} =>
    gateway[wanPort[c]] = Mine(c)

-----------------------------------------------------------------------------

LEMMA PortFacts ==
  /\ FirstPort \in LocalPorts
  /\ \A n \in 0 .. Ports - 1 : FirstPort + n \in LocalPorts
  /\ 0 \in 0 .. Rounds - 1
  /\ \A n \in 0 .. Rounds - 1 :
       n + 1 < Ports \/ n + 1 < MaxTries => n + 1 \in 0 .. Rounds - 1
BY DEF LocalPorts, Rounds

LEMMA InitInv == Init => ReleaseInv
<1> SUFFICES ASSUME Init PROVE ReleaseInv
  OBVIOUS
<1>1. [host |-> OUTSIDE, port |-> FirstPort] \in Mapping
  BY PortFacts DEF Mapping
<1>2. TypeOK
  BY <1>1, PortFacts DEF Init, TypeOK
<1>3. PlaceInv /\ SocketInv /\ SocketsAreReleased
  BY DEF Init, PlaceInv, SocketInv, SocketsAreReleased
<1>4. MappingsAreReleased
  BY DEF Init, MappingsAreReleased
<1> QED
  BY <1>2, <1>3, <1>4 DEF ReleaseInv

\* The WAN port asked for is one that the gateway knows of.
LEMMA NextWanPortFacts ==
  ASSUME TypeOK, PlaceInv, NEW c \in Client, pc[c] = "ask"
  PROVE  NextWanPort(c) \in WanPorts /\ Mine(c) \in Mapping
<1>1. port[c] \in LocalPorts /\ i[c] \in 0 .. MaxTries - 1
  BY PortFacts DEF TypeOK, PlaceInv
<1>2. WanPortOf(port[c], i[c]) \in WanPorts
  BY <1>1 DEF WanPorts
<1>3. target[c] # NULL => target[c] \in WanPorts
  BY DEF TypeOK, WanPorts
<1> QED
  BY <1>1, <1>2, <1>3 DEF NextWanPort, Mine, Mapping

\* A call that returns leaves nothing behind in its variables.
LEMMA ReturnTypes ==
  ASSUME TypeOK, NEW c \in Client, Return(c)
  PROVE  /\ pc' = [pc EXCEPT ![c] = "idle"]
         /\ target' \in [Client -> TargetPorts \cup {NULL}]
         /\ i' \in [Client -> 0 .. Rounds - 1]
         /\ port' \in [Client -> LocalPorts \cup {NULL}]
         /\ wanPort' \in [Client -> WanPorts \cup {NULL}]
BY PortFacts DEF TypeOK, Return, Goto

LEMMA ReleaseStep == ReleaseInv /\ [Next]_vars => ReleaseInv'
<1> SUFFICES ASSUME ReleaseInv, [Next]_vars PROVE ReleaseInv'
  OBVIOUS
<1> USE DEF ReleaseInv
<1>1. CASE UNCHANGED vars
  BY <1>1 DEF vars, TypeOK, PlaceInv, SocketInv, SocketsAreReleased, MappingsAreReleased
<1>2. ASSUME NEW c \in Client, NEW t \in TargetPorts \cup {NULL}, Call(c, t)
      PROVE  ReleaseInv'
  <2>1. TypeOK'
    BY <1>2 DEF Call, Goto, historyVars, TypeOK
  <2>2. PlaceInv' /\ SocketInv' /\ SocketsAreReleased'
    BY <1>2 DEF Call, Goto, historyVars, TypeOK, PlaceInv, SocketInv, SocketsAreReleased
  <2>3. MappingsAreReleased'
    BY <1>2 DEF Call, Goto, historyVars, TypeOK, MappingsAreReleased
  <2> QED
    BY <2>1, <2>2, <2>3
<1>3. ASSUME NEW c \in Client, Discover(c) PROVE ReleaseInv'
  <2>1. TypeOK'
    <3>1. CASE Goto(c, "describe") /\ UNCHANGED localVars
      BY <1>3, <3>1 DEF Discover, Phase, Goto, localVars, historyVars, TypeOK
    <3>2. CASE Return(c)
      BY <1>3, <3>2, ReturnTypes DEF Discover, Phase, historyVars, TypeOK
    <3> QED
      BY <1>3, <3>1, <3>2 DEF Discover, Phase
  <2>2. PlaceInv'
    BY <1>3, PortFacts
    DEF Discover, Phase, Return, Goto, localVars, historyVars, TypeOK, PlaceInv
  <2>3. SocketInv'
    BY <1>3
    DEF Discover, Phase, Return, Goto, localVars, historyVars, TypeOK, PlaceInv, SocketInv
  <2>4. SocketsAreReleased'
    BY <1>3
    DEF Discover, Phase, Return, Goto, localVars, historyVars, TypeOK, PlaceInv, SocketInv, SocketsAreReleased
  <2>5. MappingsAreReleased'
    BY <1>3
    DEF Discover, Phase, Return, Goto, localVars, historyVars, TypeOK, PlaceInv, MappingsAreReleased
  <2> QED
    BY <2>1, <2>2, <2>3, <2>4, <2>5
<1>4. ASSUME NEW c \in Client, Describe(c) PROVE ReleaseInv'
  <2>1. TypeOK'
    <3>1. CASE Goto(c, "address") /\ UNCHANGED localVars
      BY <1>4, <3>1 DEF Describe, Phase, Goto, localVars, historyVars, TypeOK
    <3>2. CASE Return(c)
      BY <1>4, <3>2, ReturnTypes DEF Describe, Phase, historyVars, TypeOK
    <3> QED
      BY <1>4, <3>1, <3>2 DEF Describe, Phase
  <2>2. PlaceInv'
    BY <1>4, PortFacts
    DEF Describe, Phase, Return, Goto, localVars, historyVars, TypeOK, PlaceInv
  <2>3. SocketInv'
    BY <1>4
    DEF Describe, Phase, Return, Goto, localVars, historyVars, TypeOK, PlaceInv, SocketInv
  <2>4. SocketsAreReleased'
    BY <1>4
    DEF Describe, Phase, Return, Goto, localVars, historyVars, TypeOK, PlaceInv, SocketInv, SocketsAreReleased
  <2>5. MappingsAreReleased'
    BY <1>4
    DEF Describe, Phase, Return, Goto, localVars, historyVars, TypeOK, PlaceInv, MappingsAreReleased
  <2> QED
    BY <2>1, <2>2, <2>3, <2>4, <2>5
<1>5. ASSUME NEW c \in Client, GetExternalIPAddress(c) PROVE ReleaseInv'
  <2>1. TypeOK'
    <3>1. CASE Goto(c, "listen") /\ UNCHANGED localVars
      BY <1>5, <3>1 DEF GetExternalIPAddress, Phase, Goto, localVars, historyVars, TypeOK
    <3>2. CASE Return(c)
      BY <1>5, <3>2, ReturnTypes DEF GetExternalIPAddress, Phase, historyVars, TypeOK
    <3> QED
      BY <1>5, <3>1, <3>2 DEF GetExternalIPAddress, Phase
  <2>2. PlaceInv'
    BY <1>5, PortFacts
    DEF GetExternalIPAddress, Phase, Return, Goto, localVars, historyVars, TypeOK, PlaceInv
  <2>3. SocketInv'
    BY <1>5
    DEF GetExternalIPAddress, Phase, Return, Goto, localVars, historyVars, TypeOK, PlaceInv, SocketInv
  <2>4. SocketsAreReleased'
    BY <1>5
    DEF GetExternalIPAddress, Phase, Return, Goto, localVars, historyVars, TypeOK, PlaceInv, SocketInv, SocketsAreReleased
  <2>5. MappingsAreReleased'
    BY <1>5
    DEF GetExternalIPAddress, Phase, Return, Goto, localVars, historyVars, TypeOK, PlaceInv, MappingsAreReleased
  <2> QED
    BY <2>1, <2>2, <2>3, <2>4, <2>5
<1>6. ASSUME NEW c \in Client, Listen(c) PROVE ReleaseInv'
  <2>1. TypeOK'
    BY <1>6, PortFacts
    DEF Listen, Goto, localVars, historyVars, TypeOK, PlaceInv
  <2>2. PlaceInv'
    BY <1>6, PortFacts
    DEF Listen, Goto, localVars, historyVars, TypeOK, PlaceInv
  <2>3. SocketInv'
    <3> SUFFICES ASSUME NEW d \in Client,
                        pc'[d] \in {"route", "ask", "accepted", "refused", "open"}
                 PROVE  listener'[HostOf[d]][port'[d]] = d
      BY DEF SocketInv
    <3>1. FirstPort + i[c] \in LocalPorts
      BY <1>6, PortFacts DEF Listen, PlaceInv, TypeOK
    <3>2. CASE d = c
      BY <1>6, <3>1, <3>2 DEF Listen, TypeOK
    <3>3. CASE d # c
      <4>1. port'[d] = port[d] /\ listener[HostOf[d]][port[d]] = d /\ port[d] \in LocalPorts
        BY <1>6, <3>3 DEF Listen, Goto, TypeOK, SocketInv, PlaceInv
      <4>2. ~(HostOf[d] = HostOf[c] /\ port[d] = FirstPort + i[c])
        BY <1>6, <4>1 DEF Listen
      <4> QED
        BY <1>6, <3>1, <4>1, <4>2 DEF Listen, TypeOK
    <3> QED
      BY <3>2, <3>3
  <2>4. SocketsAreReleased'
    BY <1>6
    DEF Listen, Goto, localVars, historyVars, TypeOK, PlaceInv, SocketInv, SocketsAreReleased
  <2>5. MappingsAreReleased'
    BY <1>6
    DEF Listen, Goto, localVars, historyVars, TypeOK, PlaceInv, MappingsAreReleased
  <2> QED
    BY <2>1, <2>2, <2>3, <2>4, <2>5
<1>7. ASSUME NEW c \in Client, ListenFails(c) PROVE ReleaseInv'
  <2>1. TypeOK'
    <3>1. CASE i[c] + 1 < Ports
      <4>1. i[c] + 1 \in 0 .. Rounds - 1
        BY <3>1, PortFacts DEF TypeOK
      <4> QED
        BY <1>7, <3>1, <4>1 DEF ListenFails, historyVars, TypeOK
    <3>2. CASE ~(i[c] + 1 < Ports)
      BY <1>7, <3>2, ReturnTypes DEF ListenFails, historyVars, TypeOK
    <3> QED
      BY <3>1, <3>2
  <2>2. PlaceInv'
    BY <1>7, PortFacts
    DEF ListenFails, Return, Goto, localVars, historyVars, TypeOK, PlaceInv
  <2>3. SocketInv'
    BY <1>7
    DEF ListenFails, Return, Goto, localVars, historyVars, TypeOK, PlaceInv, SocketInv
  <2>4. SocketsAreReleased'
    BY <1>7
    DEF ListenFails, Return, Goto, localVars, historyVars, TypeOK, PlaceInv, SocketInv, SocketsAreReleased
  <2>5. MappingsAreReleased'
    BY <1>7
    DEF ListenFails, Return, Goto, localVars, historyVars, TypeOK, PlaceInv, MappingsAreReleased
  <2> QED
    BY <2>1, <2>2, <2>3, <2>4, <2>5
<1>8. ASSUME NEW c \in Client, FindAddress(c) PROVE ReleaseInv'
  <2>1. TypeOK'
    BY <1>8, PortFacts
    DEF FindAddress, Goto, localVars, historyVars, TypeOK
  <2>2. PlaceInv'
    BY <1>8, PortFacts
    DEF FindAddress, Goto, localVars, historyVars, TypeOK, PlaceInv
  <2>3. SocketInv'
    BY <1>8
    DEF FindAddress, Goto, localVars, historyVars, TypeOK, PlaceInv, SocketInv
  <2>4. SocketsAreReleased'
    BY <1>8
    DEF FindAddress, Goto, localVars, historyVars, TypeOK, PlaceInv, SocketInv, SocketsAreReleased
  <2>5. MappingsAreReleased'
    BY <1>8
    DEF FindAddress, Goto, localVars, historyVars, TypeOK, PlaceInv, MappingsAreReleased
  <2> QED
    BY <2>1, <2>2, <2>3, <2>4, <2>5
<1>9. ASSUME NEW c \in Client, NoAddress(c) PROVE ReleaseInv'
  <2>1. TypeOK'
    BY <1>9, PortFacts
    DEF NoAddress, Return, Goto, localVars, historyVars, TypeOK
  <2>2. PlaceInv'
    BY <1>9, PortFacts
    DEF NoAddress, Return, Goto, localVars, historyVars, TypeOK, PlaceInv
  <2>3. SocketInv'
    BY <1>9
    DEF NoAddress, Return, Goto, localVars, historyVars, TypeOK, PlaceInv, SocketInv
  <2>4. SocketsAreReleased'
    BY <1>9
    DEF NoAddress, Return, Goto, localVars, historyVars, TypeOK, PlaceInv, SocketInv, SocketsAreReleased
  <2>5. MappingsAreReleased'
    BY <1>9
    DEF NoAddress, Return, Goto, localVars, historyVars, TypeOK, PlaceInv, MappingsAreReleased
  <2> QED
    BY <2>1, <2>2, <2>3, <2>4, <2>5
<1>10. ASSUME NEW c \in Client, Accept(c) PROVE ReleaseInv'
  <2>1. TypeOK'
    BY <1>10, PortFacts, NextWanPortFacts
    DEF Accept, Goto, localVars, historyVars, TypeOK, PlaceInv
  <2>2. PlaceInv'
    BY <1>10, PortFacts, NextWanPortFacts
    DEF Accept, Goto, localVars, historyVars, TypeOK, PlaceInv
  <2>3. SocketInv'
    BY <1>10
    DEF Accept, Goto, localVars, historyVars, TypeOK, PlaceInv, SocketInv
  <2>4. SocketsAreReleased'
    BY <1>10
    DEF Accept, Goto, localVars, historyVars, TypeOK, PlaceInv, SocketInv, SocketsAreReleased
  <2>5. MappingsAreReleased'
    BY <1>10, PortFacts, NextWanPortFacts
    DEF Accept, Goto, localVars, historyVars, TypeOK, PlaceInv, MappingsAreReleased, Mine, Mapping
  <2> QED
    BY <2>1, <2>2, <2>3, <2>4, <2>5
<1>11. ASSUME NEW c \in Client, Refuse(c) PROVE ReleaseInv'
  <2>1. TypeOK'
    BY <1>11, PortFacts, NextWanPortFacts
    DEF Refuse, Goto, localVars, historyVars, TypeOK, PlaceInv
  <2>2. PlaceInv'
    BY <1>11, PortFacts, NextWanPortFacts
    DEF Refuse, Goto, localVars, historyVars, TypeOK, PlaceInv
  <2>3. SocketInv'
    BY <1>11
    DEF Refuse, Goto, localVars, historyVars, TypeOK, PlaceInv, SocketInv
  <2>4. SocketsAreReleased'
    BY <1>11
    DEF Refuse, Goto, localVars, historyVars, TypeOK, PlaceInv, SocketInv, SocketsAreReleased
  <2>5. MappingsAreReleased'
    BY <1>11, PortFacts, NextWanPortFacts
    DEF Refuse, Goto, localVars, historyVars, TypeOK, PlaceInv, MappingsAreReleased
  <2> QED
    BY <2>1, <2>2, <2>3, <2>4, <2>5
<1>12. ASSUME NEW c \in Client, Success(c) PROVE ReleaseInv'
  <2>1. TypeOK'
    BY <1>12, PortFacts
    DEF Success, Goto, localVars, historyVars, TypeOK
  <2>2. PlaceInv'
    BY <1>12, PortFacts
    DEF Success, Goto, localVars, historyVars, TypeOK, PlaceInv
  <2>3. SocketInv'
    BY <1>12
    DEF Success, Goto, localVars, historyVars, TypeOK, PlaceInv, SocketInv
  <2>4. SocketsAreReleased'
    BY <1>12
    DEF Success, Goto, localVars, historyVars, TypeOK, PlaceInv, SocketInv, SocketsAreReleased
  <2>5. MappingsAreReleased'
    BY <1>12
    DEF Success, Goto, localVars, historyVars, TypeOK, PlaceInv, MappingsAreReleased
  <2> QED
    BY <2>1, <2>2, <2>3, <2>4, <2>5
<1>13. ASSUME NEW c \in Client, TryNext(c) PROVE ReleaseInv'
  <2>1. TypeOK'
    <3>1. CASE AnotherRound(c)
      <4>1. i[c] + 1 \in 0 .. Rounds - 1
        BY <3>1, PortFacts DEF TypeOK, AnotherRound
      <4>2. /\ Goto(c, "ask") /\ CountRound(c) /\ wanPort' = [wanPort EXCEPT ![c] = NULL]
            /\ UNCHANGED <<target, port, listener, gateway, noRoute>>
        BY <1>13, <3>1 DEF TryNext
      <4>3. faulty' \subseteq Client
        BY <1>13 DEF TryNext, TypeOK
      <4> QED
        BY <4>1, <4>2, <4>3 DEF CountRound, Goto, TypeOK
    <3>2. CASE ~AnotherRound(c)
      <4>1. CloseSocket(c) /\ Return(c) /\ UNCHANGED <<gateway, noRoute>>
        BY <1>13, <3>2 DEF TryNext
      <4>2. listener' \in [Host -> [LocalPorts -> Client \cup {NULL}]]
        BY <4>1 DEF CloseSocket, TypeOK
      <4>3. faulty' \subseteq Client
        BY <1>13 DEF TryNext, TypeOK
      <4> QED
        BY <4>1, <4>2, <4>3, ReturnTypes DEF TypeOK
    <3> QED
      BY <3>1, <3>2
  <2>2. PlaceInv'
    BY <1>13, PortFacts
    DEF TryNext, AnotherRound, CountRound, CloseSocket, Return, Goto, localVars, historyVars, TypeOK, PlaceInv
  <2>3. SocketInv'
    BY <1>13
    DEF TryNext, AnotherRound, CountRound, CloseSocket, Return, Goto, localVars, historyVars, TypeOK, PlaceInv, SocketInv
  <2>4. SocketsAreReleased'
    <3>1. CASE AnotherRound(c)
      BY <1>13, <3>1 DEF TryNext, CountRound, Goto, TypeOK, SocketsAreReleased
    <3>2. CASE ~AnotherRound(c)
      <4>1. CloseSocket(c) /\ Return(c) /\ noRoute' = noRoute
        BY <1>13, <3>2 DEF TryNext
      <4> QED
        BY <4>1 DEF CloseSocket, Return, Goto, TypeOK, SocketsAreReleased
    <3> QED
      BY <3>1, <3>2
  <2>5. MappingsAreReleased'
    BY <1>13
    DEF TryNext, AnotherRound, CountRound, CloseSocket, Return, Goto, localVars, historyVars, TypeOK, PlaceInv, MappingsAreReleased
  <2> QED
    BY <2>1, <2>2, <2>3, <2>4, <2>5
<1>14. ASSUME NEW c \in Client, NoReply(c) PROVE ReleaseInv'
  <2>1. TypeOK'
    BY <1>14, PortFacts
    DEF NoReply, CloseSocket, Return, Goto, localVars, historyVars, TypeOK
  <2>2. PlaceInv'
    BY <1>14, PortFacts
    DEF NoReply, CloseSocket, Return, Goto, localVars, historyVars, TypeOK, PlaceInv
  <2>3. SocketInv'
    BY <1>14
    DEF NoReply, CloseSocket, Return, Goto, localVars, historyVars, TypeOK, PlaceInv, SocketInv
  <2>4. SocketsAreReleased'
    BY <1>14
    DEF NoReply, CloseSocket, Return, Goto, localVars, historyVars, TypeOK, PlaceInv, SocketInv, SocketsAreReleased
  <2>5. MappingsAreReleased'
    BY <1>14
    DEF NoReply, CloseSocket, Return, Goto, localVars, historyVars, TypeOK, PlaceInv, MappingsAreReleased
  <2> QED
    BY <2>1, <2>2, <2>3, <2>4, <2>5
<1>15. ASSUME NEW c \in Client, DeletePortMapping(c) PROVE ReleaseInv'
  <2>1. TypeOK'
    BY <1>15, PortFacts
    DEF DeletePortMapping, Return, Goto, localVars, historyVars, TypeOK, PlaceInv
  <2>2. PlaceInv'
    BY <1>15, PortFacts
    DEF DeletePortMapping, Return, Goto, localVars, historyVars, TypeOK, PlaceInv
  <2>3. SocketInv'
    BY <1>15
    DEF DeletePortMapping, Return, Goto, localVars, historyVars, TypeOK, PlaceInv, SocketInv
  <2>4. SocketsAreReleased'
    BY <1>15
    DEF DeletePortMapping, Return, Goto, localVars, historyVars, TypeOK, PlaceInv, SocketInv, SocketsAreReleased
  <2>5. MappingsAreReleased'
    BY <1>15
    DEF DeletePortMapping, Return, Goto, localVars, historyVars, TypeOK, PlaceInv, MappingsAreReleased
  <2> QED
    BY <2>1, <2>2, <2>3, <2>4, <2>5
<1>16. ASSUME NEW c \in Client, DeleteFails(c) PROVE ReleaseInv'
  <2>1. TypeOK'
    BY <1>16, PortFacts
    DEF DeleteFails, Return, Goto, localVars, historyVars, TypeOK
  <2>2. PlaceInv'
    BY <1>16, PortFacts
    DEF DeleteFails, Return, Goto, localVars, historyVars, TypeOK, PlaceInv
  <2>3. SocketInv'
    BY <1>16
    DEF DeleteFails, Return, Goto, localVars, historyVars, TypeOK, PlaceInv, SocketInv
  <2>4. SocketsAreReleased'
    BY <1>16
    DEF DeleteFails, Return, Goto, localVars, historyVars, TypeOK, PlaceInv, SocketInv, SocketsAreReleased
  <2>5. MappingsAreReleased'
    BY <1>16
    DEF DeleteFails, Return, Goto, localVars, historyVars, TypeOK, PlaceInv, MappingsAreReleased
  <2> QED
    BY <2>1, <2>2, <2>3, <2>4, <2>5
<1>17. ASSUME NEW c \in Client, Close(c) PROVE ReleaseInv'
  <2>1. TypeOK'
    BY <1>17, PortFacts
    DEF Close, CloseSocket, Goto, localVars, historyVars, TypeOK
  <2>2. PlaceInv'
    BY <1>17, PortFacts
    DEF Close, CloseSocket, Goto, localVars, historyVars, TypeOK, PlaceInv
  <2>3. SocketInv'
    BY <1>17
    DEF Close, CloseSocket, Goto, localVars, historyVars, TypeOK, PlaceInv, SocketInv
  <2>4. SocketsAreReleased'
    BY <1>17
    DEF Close, CloseSocket, Goto, localVars, historyVars, TypeOK, PlaceInv, SocketInv, SocketsAreReleased
  <2>5. MappingsAreReleased'
    BY <1>17
    DEF Close, CloseSocket, Goto, localVars, historyVars, TypeOK, PlaceInv, MappingsAreReleased
  <2> QED
    BY <2>1, <2>2, <2>3, <2>4, <2>5
<1>18. ASSUME NEW c \in Client, Exit(c) PROVE ReleaseInv'
  <2>1. TypeOK'
    BY <1>18, PortFacts
    DEF Exit, Return, Goto, localVars, historyVars, TypeOK
  <2>2. PlaceInv'
    BY <1>18, PortFacts
    DEF Exit, Return, Goto, localVars, historyVars, TypeOK, PlaceInv
  <2>3. SocketInv'
    BY <1>18
    DEF Exit, Return, Goto, localVars, historyVars, TypeOK, PlaceInv, SocketInv
  <2>4. SocketsAreReleased'
    BY <1>18
    DEF Exit, Return, Goto, localVars, historyVars, TypeOK, PlaceInv, SocketInv, SocketsAreReleased
  <2>5. MappingsAreReleased'
    BY <1>18
    DEF Exit, Return, Goto, localVars, historyVars, TypeOK, PlaceInv, MappingsAreReleased
  <2> QED
    BY <2>1, <2>2, <2>3, <2>4, <2>5
<1> QED
  BY <1>1, <1>2, <1>3, <1>4, <1>5, <1>6, <1>7, <1>8, <1>9, <1>10, <1>11, <1>12, <1>13, <1>14, <1>15, <1>16, <1>17, <1>18 DEF Next, Proceed

\* What Mine says of two clients.
LEMMA MineFacts ==
  ASSUME OneClientPerHost, ReleaseInv
  PROVE  /\ \A c \in Client : Mine(c).host = HostOf[c]
         /\ \A c, d \in Client : c # d => Mine(c) # Mine(d) /\ Mine(d).host # HostOf[c]
         /\ \A c \in Client : pc[c] \in {"accepted", "open", "closing"} => Mine(c) # NULL
<1>1. \A c \in Client : pc[c] \in {"accepted", "open", "closing"} => Mine(c) \in Mapping
  BY DEF ReleaseInv, PlaceInv, Mine, Mapping
<1>2. \A c \in Client : Mine(c).host = HostOf[c]
  BY DEF Mine
<1> QED
  BY <1>1, <1>2 DEF OneClientPerHost

\* A client changes no mapping but its own host's.
LEMMA MappedStep ==
  ASSUME OneClientPerHost, ReleaseInv, MappedInv, [Next]_vars
  PROVE  MappedInv'
<1> SUFFICES ASSUME NEW d \in Client, pc'[d] \in {"accepted", "open", "closing"}
             PROVE  gateway'[wanPort'[d]] = Mine(d)'
  BY DEF MappedInv
<1> USE DEF ReleaseInv
<1>1. CASE UNCHANGED vars
  BY <1>1 DEF vars, MappedInv, Mine
<1>2. ASSUME NEW c \in Client, c # d,
             pc'[d] = pc[d] /\ port'[d] = port[d] /\ wanPort'[d] = wanPort[d],
             \/ UNCHANGED gateway
             \/ \E w \in WanPorts, m \in Mapping \cup {NULL} :
                  /\ gateway[w] # NULL => gateway[w].host = HostOf[c]
                  /\ gateway' = [gateway EXCEPT ![w] = m]
      PROVE  gateway'[wanPort'[d]] = Mine(d)'
  <2>1. gateway[wanPort[d]] = Mine(d) /\ Mine(d) # NULL /\ Mine(d)' = Mine(d)
    BY <1>2, MineFacts DEF MappedInv, Mine
  <2>2. Mine(d).host # HostOf[c]
    BY <1>2, MineFacts
  <2>3. CASE UNCHANGED gateway
    BY <1>2, <2>1, <2>3
  <2>4. ASSUME NEW w \in WanPorts, NEW m \in Mapping \cup {NULL},
               gateway[w] # NULL => gateway[w].host = HostOf[c],
               gateway' = [gateway EXCEPT ![w] = m]
        PROVE  gateway'[wanPort[d]] = gateway[wanPort[d]]
    <3>1. w # wanPort[d]
      BY <2>1, <2>2, <2>4
    <3> QED
      BY <2>4, <3>1 DEF TypeOK
  <2> QED
    BY <1>2, <2>1, <2>3, <2>4
<1> DEFINE Still(c) == pc'[d] = pc[d] /\ port'[d] = port[d] /\ wanPort'[d] = wanPort[d]
<1>3. ASSUME NEW c \in Client, NEW t \in TargetPorts \cup {NULL}, Call(c, t) PROVE gateway'[wanPort'[d]] = Mine(d)'
  BY <1>3 DEF Call, Goto, localVars, historyVars, Mine, MappedInv, TypeOK, PlaceInv
<1>4. ASSUME NEW c \in Client, Discover(c) PROVE gateway'[wanPort'[d]] = Mine(d)'
  BY <1>4 DEF Discover, Phase, Return, Goto, localVars, historyVars, Mine, MappedInv, TypeOK, PlaceInv
<1>5. ASSUME NEW c \in Client, Describe(c) PROVE gateway'[wanPort'[d]] = Mine(d)'
  BY <1>5 DEF Describe, Phase, Return, Goto, localVars, historyVars, Mine, MappedInv, TypeOK, PlaceInv
<1>6. ASSUME NEW c \in Client, GetExternalIPAddress(c) PROVE gateway'[wanPort'[d]] = Mine(d)'
  BY <1>6 DEF GetExternalIPAddress, Phase, Return, Goto, localVars, historyVars, Mine, MappedInv, TypeOK, PlaceInv
<1>7. ASSUME NEW c \in Client, Listen(c) PROVE gateway'[wanPort'[d]] = Mine(d)'
  BY <1>7 DEF Listen, Goto, localVars, historyVars, Mine, MappedInv, TypeOK, PlaceInv
<1>8. ASSUME NEW c \in Client, ListenFails(c) PROVE gateway'[wanPort'[d]] = Mine(d)'
  BY <1>8 DEF ListenFails, Return, Goto, localVars, historyVars, Mine, MappedInv, TypeOK, PlaceInv
<1>9. ASSUME NEW c \in Client, FindAddress(c) PROVE gateway'[wanPort'[d]] = Mine(d)'
  BY <1>9 DEF FindAddress, Goto, localVars, historyVars, Mine, MappedInv, TypeOK, PlaceInv
<1>10. ASSUME NEW c \in Client, NoAddress(c) PROVE gateway'[wanPort'[d]] = Mine(d)'
  BY <1>10 DEF NoAddress, Return, Goto, localVars, historyVars, Mine, MappedInv, TypeOK, PlaceInv
<1>11. ASSUME NEW c \in Client, Accept(c) PROVE gateway'[wanPort'[d]] = Mine(d)'
  <2>1. NextWanPort(c) \in WanPorts /\ Mine(c) \in Mapping
    BY <1>11, NextWanPortFacts DEF Accept
  <2>2. CASE c # d
    <3>1. Still(c)
      BY <1>11, <2>2 DEF Accept, Goto, TypeOK
    <3> QED
      BY <1>11, <1>2, <2>1, <2>2, <3>1 DEF Accept
  <2>3. CASE c = d
    BY <1>11, <2>1, <2>3 DEF Accept, Mine, TypeOK
  <2> QED
    BY <2>2, <2>3
<1>12. ASSUME NEW c \in Client, Refuse(c) PROVE gateway'[wanPort'[d]] = Mine(d)'
  BY <1>12 DEF Refuse, Goto, localVars, historyVars, Mine, MappedInv, TypeOK, PlaceInv
<1>13. ASSUME NEW c \in Client, Success(c) PROVE gateway'[wanPort'[d]] = Mine(d)'
  BY <1>13 DEF Success, Goto, localVars, historyVars, Mine, MappedInv, TypeOK, PlaceInv
<1>14. ASSUME NEW c \in Client, TryNext(c) PROVE gateway'[wanPort'[d]] = Mine(d)'
  BY <1>14 DEF TryNext, AnotherRound, CountRound, CloseSocket, Return, Goto, localVars, historyVars, Mine, MappedInv, TypeOK, PlaceInv
<1>15. ASSUME NEW c \in Client, NoReply(c) PROVE gateway'[wanPort'[d]] = Mine(d)'
  BY <1>15 DEF NoReply, CloseSocket, Return, Goto, localVars, historyVars, Mine, MappedInv, TypeOK, PlaceInv
<1>16. ASSUME NEW c \in Client, DeletePortMapping(c) PROVE gateway'[wanPort'[d]] = Mine(d)'
  <2>1. c # d
    BY <1>16 DEF DeletePortMapping, Return, Goto, TypeOK
  <2>2. Still(c)
    BY <1>16, <2>1 DEF DeletePortMapping, Return, Goto, TypeOK
  <2>3. wanPort[c] \in WanPorts /\ gateway[wanPort[c]].host = HostOf[c]
    BY <1>16, MineFacts DEF DeletePortMapping, MappedInv, PlaceInv
  <2> QED
    BY <1>16, <1>2, <2>1, <2>2, <2>3 DEF DeletePortMapping
<1>17. ASSUME NEW c \in Client, DeleteFails(c) PROVE gateway'[wanPort'[d]] = Mine(d)'
  BY <1>17 DEF DeleteFails, Return, Goto, localVars, historyVars, Mine, MappedInv, TypeOK, PlaceInv
<1>18. ASSUME NEW c \in Client, Close(c) PROVE gateway'[wanPort'[d]] = Mine(d)'
  BY <1>18 DEF Close, CloseSocket, Goto, localVars, historyVars, Mine, MappedInv, TypeOK, PlaceInv
<1>19. ASSUME NEW c \in Client, Exit(c) PROVE gateway'[wanPort'[d]] = Mine(d)'
  BY <1>19 DEF Exit, Return, Goto, localVars, historyVars, Mine, MappedInv, TypeOK, PlaceInv
<1> QED
  BY <1>1, <1>3, <1>4, <1>5, <1>6, <1>7, <1>8, <1>9, <1>10, <1>11, <1>12, <1>13, <1>14, <1>15, <1>16, <1>17, <1>18, <1>19 DEF Next, Proceed

LEMMA ReleaseIsInvariant == Spec => []ReleaseInv
BY InitInv, ReleaseStep, PTL DEF Spec

\* Every variable has its type.
THEOREM TypeCorrect == Spec => []TypeOK
<1>1. ReleaseInv => TypeOK
  BY DEF ReleaseInv
<1> QED
  BY <1>1, ReleaseIsInvariant, PTL

\* Listening sockets are released, but for those of a client that could not
\* find out its address, with any number of clients on a host.
THEOREM ListenersGoAway == Spec => []SocketsAreReleased
<1>1. ReleaseInv => SocketsAreReleased
  BY DEF ReleaseInv
<1> QED
  BY <1>1, ReleaseIsInvariant, PTL

\* A mapping that nobody uses comes from an exchange that was left halfway,
\* with any number of clients on a host.
THEOREM MappingsGoAway == Spec => []MappingsAreReleased
<1>1. ReleaseInv => MappingsAreReleased
  BY DEF ReleaseInv
<1> QED
  BY <1>1, ReleaseIsInvariant, PTL

LEMMA MappedIsInvariant ==
  ASSUME OneClientPerHost
  PROVE  Spec => [](ReleaseInv /\ MappedInv)
<1>1. Init => MappedInv
  BY DEF Init, MappedInv
<1>2. ReleaseInv /\ MappedInv /\ [Next]_vars => MappedInv'
  BY MappedStep
<1> QED
  BY <1>1, <1>2, InitInv, ReleaseStep, PTL DEF Spec

\* With one client on each host, a cookai_upnp that is open has its listening
\* socket and its mapping, whatever the others do and whatever fails.
THEOREM OpenIsMapped ==
  ASSUME OneClientPerHost
  PROVE  Spec => []ListeningIsMapped
<1>1. ReleaseInv /\ MappedInv => ListeningIsMapped
  BY DEF ReleaseInv, SocketInv, MappedInv, ListeningIsMapped
<1> QED
  BY <1>1, MappedIsInvariant, PTL

\* With one client on each host, no step of a client changes or deletes the
\* mapping of another host.
THEOREM OthersKeepTheirs ==
  ASSUME OneClientPerHost
  PROVE  Spec => OthersMappingsStay
<1> DEFINE Stays == \A w \in WanPorts : gateway[w] # NULL /\ gateway'[w] # gateway[w] =>
                      \E c \in Client : HostOf[c] = gateway[w].host /\ pc'[c] # pc[c]
<1>1. ASSUME ReleaseInv, MappedInv, Next PROVE Stays
  <2> USE DEF ReleaseInv
  <2>1. ASSUME NEW c \in Client, Accept(c) PROVE Stays
    BY <1>1, <2>1 DEF Accept, Goto, TypeOK
  <2>2. ASSUME NEW c \in Client, DeletePortMapping(c) PROVE Stays
    <3>1. gateway[wanPort[c]].host = HostOf[c]
      BY <1>1, <2>2, MineFacts DEF DeletePortMapping, MappedInv
    <3> QED
      BY <1>1, <2>2, <3>1 DEF DeletePortMapping, Return, Goto, TypeOK
  <2>3. ASSUME UNCHANGED gateway PROVE Stays
    BY <2>3
  <2> QED
    BY <1>1, <2>1, <2>2, <2>3
    DEF Next, Proceed, Call, Discover, Describe, GetExternalIPAddress, Phase, Listen,
        ListenFails, FindAddress, NoAddress, Refuse, Success, TryNext, NoReply, Close,
        DeleteFails, Exit
<1>2. ReleaseInv /\ MappedInv /\ [Next]_vars => [Stays]_vars
  BY <1>1
<1> QED
  BY <1>2, MappedIsInvariant, PTL DEF Spec, OthersMappingsStay
=============================================================================
