-------------------------------- MODULE Datagram --------------------------------
(***************************************************************************)
(* The sockets of net.c: connect_dgram and accept_dgram, which make a      *)
(* connection of two datagram sockets with a handshake of one byte each    *)
(* way, bind_dgram, connect_stream and closeSocket.  A server binds a      *)
(* socket and accepts for ever; clients call, use what they get, close it  *)
(* and call again.  The network loses, delays, reorders and repeats        *)
(* datagrams; a wait of one second may end before a late answer; every     *)
(* call of the system may fail.  What the byte says is never looked at, so *)
(* that a datagram is where it comes from and where it goes.               *)
(***************************************************************************)
EXTENDS Naturals, Sequences

CONSTANTS
  Clients,          \* threads that call connect_dgram or connect_stream
  Ports,            \* addresses sockets get that do not ask for one
  LISTENING,        \* the address the server binds
  Addresses,        \* what getaddrinfo gives for the remote, in order
  MaxCalls,         \* bound: calls of all clients together
  NONE              \* no socket (-1), no peer

\* The addresses of the remote have the port it asked for, which the system gives
\* to nobody who does not ask.
ASSUME DatagramAssumption ==
  /\ LISTENING \notin Ports /\ NONE \notin Ports \cup {LISTENING}
  /\ Addresses \in Seq({Addresses[i] : i \in DOMAIN Addresses} \ Ports)
  /\ \E i \in DOMAIN Addresses : Addresses[i] = LISTENING
  /\ MaxCalls \in Nat

VARIABLES
  sockets,          \* by address, of every open socket: type, owner, peer
  net,              \* datagrams on their way
  at,               \* where a client is: "idle", "stream", "dgram" (in the loop), "select"
  res,              \* the client's position in the addresses
  s,                \* its socket
  calls,            \* how many calls there were
  accepting,        \* where the server is: "down", "recvfrom", "socket", "connect"
  ss, new_sock,     \* accept_dgram's
  accepted,         \* sockets accept_dgram has returned
  fault             \* history: a datagram was lost, late or repeated, or a call failed

clientVars == <<at, res, s, calls>>
serverVars == <<accepting, ss, new_sock, accepted>>
dgramVars == <<sockets, net, clientVars, serverVars, fault>>

Free == Ports \ DOMAIN sockets
Open(a, type, owner, peer) ==
  sockets' = [x \in DOMAIN sockets \cup {a} |->
                IF x = a THEN [type |-> type, owner |-> owner, peer |-> peer] ELSE sockets[x]]
Close(a) == sockets' = [x \in DOMAIN sockets \ {a} |-> sockets[x]]
Connect(a, peer) == sockets' = [sockets EXCEPT ![a].peer = peer]
Send(from, to) == net' = net \cup {[from |-> from, to |-> to]}

\* recvfrom takes a datagram; if the network repeats it, it stays on its way.
Receive(d) == \/ net' = net \ {d} /\ UNCHANGED fault
              \/ UNCHANGED net /\ fault' = TRUE

DgramInit ==
  /\ sockets = <<>> /\ net = {}
  /\ at = [c \in Clients |-> "idle"]
  /\ res = [c \in Clients |-> 1]
  /\ s = [c \in Clients |-> NONE]
  /\ calls = 0
  /\ accepting = "down" /\ ss = NONE /\ new_sock = NONE /\ accepted = {}
  /\ fault = FALSE

-----------------------------------------------------------------------------
(* A client. *)

Goto(c, where) == at' = [at EXCEPT ![c] = where]

\* The call is over; the next one starts at the first address.
Return(c) == Goto(c, "idle") /\ res' = [res EXCEPT ![c] = 1]

\* The call looks the remote up.
Call(c) ==
  /\ at[c] = "idle" /\ s[c] = NONE /\ calls < MaxCalls
  /\ calls' = calls + 1
  /\ \/ /\ Goto(c, "stream") \/ Goto(c, "dgram")
        /\ UNCHANGED fault
     \/ fault' = TRUE /\ UNCHANGED at
  /\ UNCHANGED <<sockets, net, res, s, serverVars>>

Looping(c) == at[c] \in {"stream", "dgram"} /\ res[c] <= Len(Addresses)
Continue(c) == res' = [res EXCEPT ![c] = @ + 1]

SocketFails(c) ==
  /\ Looping(c)
  /\ Continue(c)
  /\ fault' = TRUE
  /\ UNCHANGED <<sockets, net, at, s, calls, serverVars>>

\* connect() of connect_stream: the server's host answers as long as it is up.
ConnectStream(c) ==
  /\ Looping(c) /\ at[c] = "stream"
  /\ \/ \E p \in Free :
          /\ Addresses[res[c]] \in DOMAIN sockets
          /\ Open(p, "stream", c, Addresses[res[c]])
          /\ s' = [s EXCEPT ![c] = p]
          /\ Return(c)
          /\ UNCHANGED fault
     \/ /\ Continue(c)
        /\ fault' = (fault \/ Addresses[res[c]] = LISTENING)
        /\ UNCHANGED <<sockets, at, s>>
  /\ UNCHANGED <<net, calls, serverVars>>

\* A new socket, bound to some port by sendto, which may fail unnoticed.
SendSyn(c) ==
  /\ Looping(c) /\ at[c] = "dgram"
  /\ \E p \in Free :
       /\ Open(p, "dgram", c, NONE)
       /\ s' = [s EXCEPT ![c] = p]
       /\ \/ Send(p, Addresses[res[c]]) /\ UNCHANGED fault
          \/ UNCHANGED net /\ fault' = TRUE
  /\ Goto(c, "select")
  /\ UNCHANGED <<res, calls, serverVars>>

\* Whether an answer to socket a may still come.
OnItsWay(a) ==
  \/ \E d \in net : d.to = a \/ d = [from |-> a, to |-> LISTENING]
  \/ accepting \in {"socket", "connect"} /\ ss = a

\* The next address: the socket of this one is closed.
GiveUp(c) ==
  /\ Close(s[c])
  /\ s' = [s EXCEPT ![c] = NONE]
  /\ Continue(c)
  /\ Goto(c, "dgram")

\* Mutant: the socket of an address that did not answer stays open.
TimeoutKeeps(c) ==
  /\ at[c] = "select"
  /\ s' = [s EXCEPT ![c] = NONE]
  /\ Continue(c) /\ Goto(c, "dgram")
  /\ fault' = (fault \/ OnItsWay(s[c]))
  /\ UNCHANGED <<sockets, net, calls, serverVars>>
\* select() ends after a second.
Timeout(c) ==
  /\ at[c] = "select"
  /\ GiveUp(c)
  /\ fault' = (fault \/ OnItsWay(s[c]))
  /\ UNCHANGED <<net, calls, serverVars>>

\* recvfrom has an answer, to whose sender the socket is connected.
Answered(c) ==
  /\ at[c] = "select"
  /\ \E d \in net :
       /\ d.to = s[c]
       /\ \/ /\ Receive(d)
             /\ Connect(s[c], d.from)
             /\ Return(c)
             /\ UNCHANGED s
          \/ /\ net' \in {net, net \ {d}}
             /\ GiveUp(c)
             /\ fault' = TRUE
  /\ UNCHANGED <<calls, serverVars>>

\* No address is left.
ReturnFailure(c) ==
  /\ at[c] \in {"stream", "dgram"} /\ res[c] > Len(Addresses)
  /\ Return(c)
  /\ UNCHANGED <<sockets, net, s, calls, serverVars, fault>>

\* The application is done with the socket.
CloseSocket(c) ==
  /\ at[c] = "idle" /\ s[c] # NONE
  /\ Close(s[c])
  /\ s' = [s EXCEPT ![c] = NONE]
  /\ UNCHANGED <<net, at, res, calls, serverVars, fault>>

-----------------------------------------------------------------------------
(* The server. *)

\* The first of the host's own addresses that the socket can be bound to, or none.
BindAny(bound) == IF bound THEN Open(LISTENING, "dgram", "server", NONE) /\ UNCHANGED fault
                  ELSE fault' = TRUE /\ UNCHANGED sockets

\* bind_dgram; a socket that was not bound is closed.
BindDgram ==
  /\ accepting = "down"
  /\ \E bound \in BOOLEAN :
       /\ BindAny(bound)
       /\ accepting' = IF bound THEN "recvfrom" ELSE "down"
  /\ UNCHANGED <<net, clientVars, ss, new_sock, accepted>>

\* accept_dgram: whatever comes is a SYN.
ReceiveSyn ==
  /\ accepting = "recvfrom"
  /\ \E d \in net : d.to = LISTENING /\ Receive(d) /\ ss' = d.from
  /\ accepting' = "socket"
  /\ UNCHANGED <<sockets, clientVars, new_sock, accepted>>

\* Port 0 of the address that stands for all of the host's: some free port of it.
BindInaddrAny(p) == p \in Free /\ Open(p, "dgram", "server", NONE)

NewSocket ==
  /\ accepting = "socket"
  /\ \E p \in Ports : BindInaddrAny(p) /\ new_sock' = p
  /\ accepting' = "connect"
  /\ UNCHANGED <<net, clientVars, ss, accepted, fault>>

\* One of the two fails, and the socket is closed if there was one.
NewSocketFails ==
  /\ accepting = "socket"
  /\ accepting' = "recvfrom" /\ ss' = NONE
  /\ fault' = TRUE
  /\ UNCHANGED <<sockets, net, clientVars, new_sock, accepted>>

\* Mutant: the ACK is sent on the socket the SYN came to.
AckFromListening ==
  /\ accepting = "connect"
  /\ Connect(new_sock, ss)
  /\ Send(LISTENING, ss)
  /\ accepted' = accepted \cup {new_sock}
  /\ accepting' = "recvfrom" /\ ss' = NONE /\ new_sock' = NONE
  /\ UNCHANGED <<clientVars, fault>>
\* Mutant: no ACK is sent.
NoAck ==
  /\ accepting = "connect"
  /\ Connect(new_sock, ss)
  /\ accepted' = accepted \cup {new_sock}
  /\ accepting' = "recvfrom" /\ ss' = NONE /\ new_sock' = NONE
  /\ UNCHANGED <<net, clientVars, fault>>
\* The socket is connected to the sender of the SYN, which gets an ACK from it.
SendAck ==
  /\ accepting = "connect"
  /\ Connect(new_sock, ss)
  /\ \/ Send(new_sock, ss) /\ UNCHANGED fault
     \/ UNCHANGED net /\ fault' = TRUE
  /\ accepted' = accepted \cup {new_sock}
  /\ accepting' = "recvfrom" /\ ss' = NONE /\ new_sock' = NONE
  /\ UNCHANGED clientVars

ConnectFails ==
  /\ accepting = "connect"
  /\ Close(new_sock)
  /\ accepting' = "recvfrom" /\ ss' = NONE /\ new_sock' = NONE
  /\ fault' = TRUE
  /\ UNCHANGED <<net, clientVars, accepted>>

-----------------------------------------------------------------------------
(* The network loses a datagram, or has nobody to deliver it to. *)

Lose ==
  /\ \E d \in net :
       /\ net' = net \ {d}
       /\ fault' = (fault \/ d.to \in DOMAIN sockets \/ d.to = LISTENING)
  /\ UNCHANGED <<sockets, clientVars, serverVars>>

ClientStep(c) ==
  \/ SocketFails(c) \/ ConnectStream(c) \/ SendSyn(c)
  \/ Timeout(c) \/ Answered(c) \/ ReturnFailure(c)

ServerStep ==
  BindDgram \/ ReceiveSyn \/ NewSocket \/ NewSocketFails \/ SendAck \/ ConnectFails

DgramNext ==
  \/ \E c \in Clients : Call(c) \/ ClientStep(c) \/ CloseSocket(c)
  \/ ServerStep
  \/ Lose

DgramSpec == DgramInit /\ [][DgramNext]_dgramVars

\* A thread in a call runs, and a second ends; nothing is assumed of the server,
\* of the network or of the applications.
DgramFairSpec == DgramSpec /\ \A c \in Clients : WF_dgramVars(ClientStep(c))

-----------------------------------------------------------------------------
(* Properties. *)

\* What connect_dgram returns is connected to a socket of accept_dgram that is
\* connected to it, whatever was lost, late or repeated: never to the listening
\* socket or to one that answers someone else.  (It may have been accepted for an
\* earlier call from the same port, whose ACK came late or again.)
PeersAgree ==
  \A c \in Clients :
    at[c] = "idle" /\ s[c] # NONE /\ sockets[s[c]].type = "dgram" =>
      LET peer == sockets[s[c]].peer
      IN  /\ peer \in accepted
          /\ sockets[peer] = [type |-> "dgram", owner |-> "server", peer |-> s[c]]

\* Every socket is closed where a call gives it up: there are no others but those in
\* the hands of a call or of the application it returned them to.
SocketsAreClosed ==
  LET bound == IF accepting = "down" THEN {} ELSE {LISTENING}
      held  == {s[c] : c \in Clients} \cup {new_sock}
  IN  DOMAIN sockets = bound \cup accepted \cup (held \ {NONE})

\* Every call of connect_dgram and connect_stream ends, and if nothing goes wrong on
\* the way it ends with a socket: the two halves of the handshake fit.
EveryCallEnds ==
  \A c \in Clients : at[c] # "idle" ~> at[c] = "idle" /\ (s[c] # NONE \/ fault)
=============================================================================
