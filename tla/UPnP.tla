--------------------------------- MODULE UPnP ---------------------------------
(***************************************************************************)
(* upnp_listen_stream and upnp_close: programs on the hosts of one local   *)
(* network each open a listening socket and have the gateway map a port of *)
(* the WAN to it.  They compete for the ports of their host and for those  *)
(* of the gateway, over exchanges that fail at any point.                  *)
(*                                                                         *)
(* A client is a thread that has at most one cookai_upnp at a time, from   *)
(* one system call or exchange to the next.  The gateway is external: it   *)
(* handles a request while the request's connection is open, gives a WAN   *)
(* port to one host only, lets that host map it anew, and deletes a        *)
(* mapping by its WAN port, whoever asks; it may refuse any mapping.  What *)
(* it says beyond yes and no, and allocations that fail, are left out.     *)
(***************************************************************************)
EXTENDS Naturals

CONSTANTS
  Client,
  Host,
  HostOf,         \* the host each client runs on
  OUTSIDE,          \* a host outside this model, with mappings of its own
  NULL,           \* no port, no mapping, nobody
  FirstPort,      \* 2048
  Ports,          \* how many local ports are tried: 100
  WanOffset,      \* 32768 + 200
  WanStep,        \* 20
  MaxTries,       \* how often the gateway is asked: 100
  TargetPorts,    \* WAN ports the applications ask for
  Taken           \* WAN ports that OUTSIDE has mapped

LocalPorts == FirstPort .. FirstPort + Ports - 1

WanPortOf(p, n) == p + WanOffset + n * WanStep

WanPorts == TargetPorts \cup {WanPortOf(p, n) : p \in LocalPorts, n \in 0 .. MaxTries - 1}

Mapping == [host : Host \cup {OUTSIDE}, port : LocalPorts]

ASSUME ConstantsAssumption ==
  /\ HostOf \in [Client -> Host]
  /\ OUTSIDE \notin Host
  /\ NULL \notin Client /\ NULL \notin LocalPorts \cup WanPorts
  /\ NULL \notin Mapping
  /\ {FirstPort, Ports, MaxTries} \subseteq Nat \ {0}
  /\ {WanOffset, WanStep} \subseteq Nat
  /\ TargetPorts \subseteq Nat \ {0}
  /\ Taken \subseteq WanPorts

VARIABLES
  pc,           \* where each client is
  target,       \* targetPort of its call, NULL once it was asked for
  i,            \* the counter of its loop
  port,         \* local_port, which sock is bound to
  wanPort,      \* the WAN port it has asked for, later its wan_port
  listener,     \* who has the listening socket on each port of each host
  gateway,      \* the gateway's mappings
  noRoute,      \* history: clients that could not find out their address
  faulty        \* history: clients that left an exchange halfway

localVars == <<target, i, port, wanPort>>
historyVars == <<noRoute, faulty>>
vars == <<pc, target, i, port, wanPort, listener, gateway, noRoute, faulty>>

Init ==
  /\ pc = [c \in Client |-> "idle"]
  /\ target = [c \in Client |-> NULL]
  /\ i = [c \in Client |-> 0]
  /\ port = [c \in Client |-> NULL]
  /\ wanPort = [c \in Client |-> NULL]
  /\ listener = [h \in Host |-> [p \in LocalPorts |-> NULL]]
  /\ gateway = [w \in WanPorts |->
                  IF w \in Taken THEN [host |-> OUTSIDE, port |-> FirstPort] ELSE NULL]
  /\ noRoute = {} /\ faulty = {}

Goto(c, place) == pc' = [pc EXCEPT ![c] = place]

\* upnp_free: what the client knew is gone.
Return(c) ==
  /\ Goto(c, "idle")
  /\ target' = [target EXCEPT ![c] = NULL]
  /\ i' = [i EXCEPT ![c] = 0]
  /\ port' = [port EXCEPT ![c] = NULL]
  /\ wanPort' = [wanPort EXCEPT ![c] = NULL]

CloseSocket(c) ==
  listener' = [listener EXCEPT ![HostOf[c]][port[c]] = NULL]

Mine(c) == [host |-> HostOf[c], port |-> port[c]]

-----------------------------------------------------------------------------
(* upnp_listen_stream, phases 1 to 3: the gateway, its service and the     *)
(* address of the WAN.                                                     *)

Call(c, t) ==
  /\ pc[c] = "idle"
  /\ Goto(c, "discover")
  /\ target' = [target EXCEPT ![c] = t]
  /\ UNCHANGED <<i, port, wanPort, listener, gateway, historyVars>>

\* A phase that succeeds, or ends the call with NULL.
Phase(c, here, next) ==
  /\ pc[c] = here
  /\ \/ Goto(c, next) /\ UNCHANGED localVars
     \/ Return(c)
  /\ UNCHANGED <<listener, gateway, historyVars>>

\* One of the two services answers the search within ten tries, or none.
Discover(c) == Phase(c, "discover", "describe")

\* The device's description names a service, its control URL and a base URL
\* that fit the buffers.
Describe(c) == Phase(c, "describe", "address")

GetExternalIPAddress(c) == Phase(c, "address", "listen")

-----------------------------------------------------------------------------
(* upnp_AddPortMapping: a socket, the own address, then the gateway's port. *)

\* listen_stream on the next local port, which another thread may hold.
Listen(c) ==
  LET h == HostOf[c]  p == FirstPort + i[c]
  IN /\ pc[c] = "listen"
     /\ listener[h][p] = NULL
     /\ listener' = [listener EXCEPT ![h][p] = c]
     /\ port' = [port EXCEPT ![c] = p]
     /\ Goto(c, "route")
     /\ UNCHANGED <<target, i, wanPort, gateway, historyVars>>

ListenFails(c) ==
  /\ pc[c] = "listen"
  /\ IF i[c] + 1 < Ports
     THEN i' = [i EXCEPT ![c] = @ + 1] /\ UNCHANGED <<pc, target, port, wanPort>>
     ELSE Return(c)
  /\ UNCHANGED <<listener, gateway, historyVars>>

\* The address of a connection to the gateway is the one to map to.
FindAddress(c) ==
  /\ pc[c] = "route"
  /\ Goto(c, "ask")
  /\ i' = [i EXCEPT ![c] = 0]
  /\ UNCHANGED <<target, port, wanPort, listener, gateway, historyVars>>

\* HTTP_connect or getsockname fails: NULL is returned, and the listening
\* socket stays open.
NoAddress(c) ==
  /\ pc[c] = "route"
  /\ Return(c)
  /\ noRoute' = noRoute \cup {c}
  /\ UNCHANGED <<listener, gateway, faulty>>

NextWanPort(c) ==
  IF target[c] # NULL THEN target[c] ELSE WanPortOf(port[c], i[c])

\* The gateway maps the port that the client asks for.
Accept(c) ==
  LET w == NextWanPort(c)
  IN /\ pc[c] = "ask"
     /\ gateway[w] # NULL => gateway[w].host = HostOf[c]
     /\ gateway' = [gateway EXCEPT ![w] = Mine(c)]
     /\ wanPort' = [wanPort EXCEPT ![c] = w]
     /\ target' = [target EXCEPT ![c] = NULL]
     /\ Goto(c, "accepted")
     /\ UNCHANGED <<i, port, listener, historyVars>>

Refuse(c) ==
  /\ pc[c] = "ask"
  /\ wanPort' = [wanPort EXCEPT ![c] = NextWanPort(c)]
  /\ target' = [target EXCEPT ![c] = NULL]
  /\ Goto(c, "refused")
  /\ UNCHANGED <<i, port, listener, gateway, historyVars>>

\* Mutant: any reply will do.
SuccessUnread(c) ==
  /\ pc[c] \in {"accepted", "refused"}
  /\ Goto(c, "open")
  /\ i' = [i EXCEPT ![c] = 0]
  /\ UNCHANGED <<target, port, wanPort, listener, gateway, historyVars>>

\* The reply has "200 OK" and names the service.
Success(c) ==
  /\ pc[c] = "accepted"
  /\ Goto(c, "open")
  /\ i' = [i EXCEPT ![c] = 0]
  /\ UNCHANGED <<target, port, wanPort, listener, gateway, historyVars>>

AnotherRound(c) == i[c] + 1 < MaxTries

\* Mutant: the loop does not count its rounds.
CountNoRound(c) == UNCHANGED i

CountRound(c) == i' = [i EXCEPT ![c] = @ + 1]

\* The reply has not, be it that the gateway refused, be it that the reply
\* was cut short: the loop goes on to the next port, or to its end.
TryNext(c) ==
  /\ pc[c] \in {"refused", "accepted"}
  /\ faulty' = IF pc[c] = "accepted" THEN faulty \cup {c} ELSE faulty
  /\ IF AnotherRound(c)
     THEN /\ Goto(c, "ask")
          /\ CountRound(c)
          /\ wanPort' = [wanPort EXCEPT ![c] = NULL]
          /\ UNCHANGED <<target, port, listener>>
     ELSE CloseSocket(c) /\ Return(c)
  /\ UNCHANGED <<gateway, noRoute>>

\* Mutant: the socket stays open.
NoReplyUnclosed(c) ==
  /\ pc[c] \in {"ask", "accepted", "refused"}
  /\ faulty' = IF pc[c] = "accepted" THEN faulty \cup {c} ELSE faulty
  /\ Return(c)
  /\ UNCHANGED <<listener, gateway, noRoute>>

\* HTTP_post returns NULL, before the gateway handled the request or after.
NoReply(c) ==
  /\ pc[c] \in {"ask", "accepted", "refused"}
  /\ faulty' = IF pc[c] = "accepted" THEN faulty \cup {c} ELSE faulty
  /\ CloseSocket(c)
  /\ Return(c)
  /\ UNCHANGED <<gateway, noRoute>>

-----------------------------------------------------------------------------
(* upnp_close: first the socket, then the mapping; upnp_free in any case.  *)

\* Mutant: the mapping is forgotten.
CloseSocketOnly(c) ==
  /\ pc[c] = "open"
  /\ CloseSocket(c)
  /\ Return(c)
  /\ UNCHANGED <<gateway, historyVars>>

Close(c) ==
  /\ pc[c] = "open"
  /\ CloseSocket(c)
  /\ Goto(c, "closing")
  /\ UNCHANGED <<localVars, gateway, historyVars>>

\* Mutant: the port of the first try is deleted, not the one that was mapped.
DeleteFirstTry(c) ==
  /\ pc[c] = "closing"
  /\ gateway' = [gateway EXCEPT ![WanPortOf(port[c], 0)] = NULL]
  /\ Return(c)
  /\ UNCHANGED <<listener, historyVars>>

\* upnp_DeletePortMapping names the WAN port and nothing else.
DeletePortMapping(c) ==
  /\ pc[c] = "closing"
  /\ gateway' = [gateway EXCEPT ![wanPort[c]] = NULL]
  /\ Return(c)
  /\ UNCHANGED <<listener, historyVars>>

\* The request is not handled, or refused; the result is not looked at.
DeleteFails(c) ==
  /\ pc[c] = "closing"
  /\ Return(c)
  /\ faulty' = faulty \cup {c}
  /\ UNCHANGED <<listener, gateway, noRoute>>

-----------------------------------------------------------------------------
(* The client's process ends, and the system closes its sockets.           *)

Exit(c) ==
  /\ pc[c] # "idle" \/ c \in noRoute
  /\ listener' = [h \in Host |-> [p \in LocalPorts |->
                    IF listener[h][p] = c THEN NULL ELSE listener[h][p]]]
  /\ Return(c)
  /\ noRoute' = noRoute \ {c}
  /\ faulty' = IF pc[c] \in {"accepted", "open", "closing"}
               THEN faulty \cup {c} ELSE faulty
  /\ UNCHANGED gateway

\* What the client's thread and the gateway do for a call until it returns.
Proceed(c) ==
  \/ Discover(c) \/ Describe(c) \/ GetExternalIPAddress(c)
  \/ Listen(c) \/ ListenFails(c) \/ FindAddress(c) \/ NoAddress(c)
  \/ Accept(c) \/ Refuse(c) \/ Success(c) \/ TryNext(c) \/ NoReply(c)
  \/ DeletePortMapping(c) \/ DeleteFails(c)

Next ==
  \E c \in Client :
    \/ \E t \in TargetPorts \cup {NULL} : Call(c, t)
    \/ Proceed(c)
    \/ Close(c)
    \/ Exit(c)

Spec == Init /\ [][Next]_vars

\* A thread runs, and its system calls and exchanges come to an end.
FairSpec == Spec /\ \A c \in Client : WF_vars(Proceed(c))

-----------------------------------------------------------------------------
(* Properties. *)

Rounds == IF Ports < MaxTries THEN MaxTries ELSE Ports

\* Every variable has its type.
TypeOK ==
  /\ pc \in [Client -> {"idle", "discover", "describe", "address", "listen",
                        "route", "ask", "accepted", "refused", "open", "closing"}]
  /\ target \in [Client -> TargetPorts \cup {NULL}]
  /\ i \in [Client -> 0 .. Rounds - 1]
  /\ port \in [Client -> LocalPorts \cup {NULL}]
  /\ wanPort \in [Client -> WanPorts \cup {NULL}]
  /\ listener \in [Host -> [LocalPorts -> Client \cup {NULL}]]
  /\ gateway \in [WanPorts -> Mapping \cup {NULL}]
  /\ noRoute \subseteq Client /\ faulty \subseteq Client

\* No two clients share a host: ListeningIsMapped and OthersMappingsStay take it.
OneClientPerHost == \A c, d \in Client : HostOf[c] = HostOf[d] => c = d

\* From its result to upnp_close, whatever the other clients do, a cookai_upnp
\* has its listening socket, and the gateway maps its wan_port to that socket.
ListeningIsMapped ==
  \A c \in Client : pc[c] = "open" =>
    /\ listener[HostOf[c]][port[c]] = c
    /\ gateway[wanPort[c]] = Mine(c)

\* Listening sockets are released when the call fails and when the cookai_upnp
\* is closed, except by a client that could not find out its address.
SocketsAreReleased ==
  \A c \in Client \ noRoute, h \in Host, p \in LocalPorts :
    listener[h][p] = c =>
      /\ h = HostOf[c] /\ p = port[c]
      /\ pc[c] \in {"route", "ask", "accepted", "refused", "open"}

\* A host has no mapping at the gateway but that of a cookai_upnp that is open,
\* or about to be or no longer, unless a client left an exchange halfway.
MappingsAreReleased ==
  \A w \in WanPorts : gateway[w] # NULL /\ gateway[w].host # OUTSIDE =>
    \E c \in Client :
      /\ HostOf[c] = gateway[w].host
      /\ \/ c \in faulty
         \/ pc[c] \in {"accepted", "open", "closing"} /\ wanPort[c] = w

\* Nobody changes or deletes a mapping of another host.
OthersMappingsStay ==
  [][\A w \in WanPorts : gateway[w] # NULL /\ gateway'[w] # gateway[w] =>
       \E c \in Client : HostOf[c] = gateway[w].host /\ pc'[c] # pc[c]]_vars

\* upnp_listen_stream and upnp_close return, however often a port is refused.
CallsReturn == \A c \in Client : []<>(pc[c] \in {"idle", "open"})
=============================================================================
