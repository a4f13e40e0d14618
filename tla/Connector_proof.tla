--------------------------- MODULE Connector_proof ---------------------------
(***************************************************************************)
(* Proofs about Connector: for any number of connections, messages and     *)
(* threads, connections are watched once, events are passed on once and in *)
(* order, and a request to connect is only lost behind a slower one.       *)
(***************************************************************************)
EXTENDS Connector, Integers, SequenceTheorems, TLAPS

USE ConnectorAssumption, NullAssumption

-----------------------------------------------------------------------------
(* Sequences. *)

\* Moving the first element of the second queue to the end of the first
\* changes nothing in their concatenation.
LEMMA MoveKeepsConcat ==
  ASSUME NEW S, NEW s \in Seq(S), NEW t \in Seq(S), t # <<>>
  PROVE  /\ Append(s, Head(t)) \o Tail(t) = s \o t
         /\ Append(s, Head(t)) \in Seq(S)
         /\ Tail(t) \in Seq(S)
OBVIOUS

\* Queuing at the end of the second queue is queuing at the end of both.
LEMMA AppendConcat ==
  ASSUME NEW S, NEW s \in Seq(S), NEW t \in Seq(S), NEW e \in S
  PROVE  s \o Append(t, e) = Append(s \o t, e)
OBVIOUS

-----------------------------------------------------------------------------
(* The inductive invariant. *)

\* The loop over pollfds stays within it, everything reported and not served
\* lies ahead, and only connections with a descriptor are reported.
IndexInv ==
  /\ manager \in {"connect", "invoke", "run"} => at >= 1
  /\ manager \in {"invoke", "run"} =>
       /\ \A i \in revents : \E n \in at .. Len(pollfds) : pollfds[n] = i
       /\ \A i \in revents \ {Acceptor} : peer[i] \in {"trying", "open"}
  /\ manager = "run" => at <= Len(pollfds) /\ pollfds[at] \in revents \ {Acceptor}

\* Every request of d came after one of c.
AskedBefore(c, d) ==
  \A n \in DOMAIN asked : asked[n] = d => \E m \in 1 .. n - 1 : asked[m] = c

\* After the acceptor the list has requests in their order, and when the iterator
\* is past the first of them, then that was not connected when it was looked at.
ListInv ==
  /\ \A n \in DOMAIN asked : asked[n] \in handlers
  /\ \A n \in DOMAIN initialConnectionList :
       \/ initialConnectionList[n] = Acceptor
       \/ \E k \in DOMAIN asked : asked[k] = initialConnectionList[n]
  /\ \A m, n \in DOMAIN initialConnectionList : m < n =>
       \/ initialConnectionList[m] = Acceptor
       \/ AskedBefore(initialConnectionList[m], initialConnectionList[n])
  /\ manager = "connect" /\ at > 1 => initialConnectionList # <<>> /\ Front \in slow

\* Only the application's connections are under way.
TryingInv == \A c \in In : peer[c] # "trying"

\* Every event is that of an open connection and of a message it has received.
EventInv ==
  /\ \A n \in DOMAIN (taken \o eventList) :
       LET ev == (taken \o eventList)[n]
       IN /\ ev.num <= received[ev.cc] /\ peer[ev.cc] = "open"
          /\ ev.type = "ACCEPT" => ev.cc \in In
  /\ \A c \in Connections : peer[c] # "open" => received[c] = 0

\* What a thread is invoking is in the history of what was taken.
HeldInv ==
  \A t \in Threads : thread[t] = "invoke" =>
    \E n \in DOMAIN taken : taken[n] = current[t]

IInv == /\ TypeOK /\ WatchedOnce /\ IndexInv
        /\ ListInv /\ TryingInv /\ RequestedIsKept
        /\ EventInv /\ EventsInOrder /\ HeldInv /\ OwnedOnce

-----------------------------------------------------------------------------
(* Lists. *)

\* Of two elements of w, the first one comes first in s too.
InOrderOf(w, s) ==
  \A l, m \in DOMAIN w : l < m =>
    \E j, k \in DOMAIN s : j < k /\ w[l] = s[j] /\ w[m] = s[k]

SameHead(w, s) == w # <<>> /\ Head(w) = Head(s)

\* Without leaves every element but the one at n, in their order.
LEMMA WithoutFacts ==
  ASSUME NEW S, NEW s \in Seq(S), NEW n \in 1 .. Len(s)
  PROVE  /\ Without(s, n) \in Seq(S)
         /\ \A m \in DOMAIN Without(s, n) :
              \E k \in DOMAIN s : Without(s, n)[m] = s[k]
         /\ \A k \in DOMAIN s \ {n} :
              \E m \in DOMAIN Without(s, n) : Without(s, n)[m] = s[k]
         /\ InOrderOf(Without(s, n), s)
         /\ n = 1 \/ SameHead(Without(s, n), s)
<1> DEFINE w == Without(s, n)
<1> DEFINE before == SubSeq(s, 1, n - 1)
           after == SubSeq(s, n + 1, Len(s))
<1>a. /\ before \in Seq(S) /\ Len(before) = n - 1
      /\ \A m \in 1 .. n - 1 : before[m] = s[m]
  OBVIOUS
<1>b. /\ after \in Seq(S) /\ Len(after) = Len(s) - n
      /\ \A m \in 1 .. Len(s) - n : after[m] = s[n + m]
  OBVIOUS
<1>c. w = before \o after
  BY DEF Without
<1> HIDE DEF before, after
<1>1. /\ w \in Seq(S) /\ Len(w) = Len(s) - 1
      /\ \A m \in 1 .. Len(w) : w[m] = IF m < n THEN s[m] ELSE s[m + 1]
  <2>1. w \in Seq(S) /\ Len(w) = Len(s) - 1
    BY <1>a, <1>b, <1>c
  <2>2. ASSUME NEW m \in 1 .. Len(w), m < n
        PROVE  w[m] = s[m]
    <3>1. w[m] = before[m] /\ m \in 1 .. n - 1
      BY <1>a, <1>b, <1>c, <2>1, <2>2
    <3> QED
      BY <1>a, <3>1
  <2>3. ASSUME NEW m \in 1 .. Len(w), m >= n
        PROVE  w[m] = s[m + 1]
    <3>1. w[m] = after[m - (n - 1)] /\ m - (n - 1) \in 1 .. Len(s) - n
      BY <1>a, <1>b, <1>c, <2>1, <2>3
    <3> QED
      BY <1>b, <3>1
  <2> QED
    BY <2>1, <2>2, <2>3
<1> HIDE DEF w
<1>2. \A m \in DOMAIN w : \E k \in DOMAIN s : w[m] = s[k]
  BY <1>1
<1>3. ASSUME NEW k \in DOMAIN s \ {n}
      PROVE  \E m \in DOMAIN w : w[m] = s[k]
  <2>1. CASE k < n
    BY <1>1, <2>1
  <2>2. CASE k > n
    <3>1. k - 1 \in DOMAIN w /\ w[k - 1] = s[k]
      BY <1>1, <2>2
    <3> QED
      BY <3>1
  <2> QED
    BY <2>1, <2>2
<1>4. ASSUME NEW l \in DOMAIN w, NEW m \in DOMAIN w, l < m
      PROVE  \E j, k \in DOMAIN s : j < k /\ w[l] = s[j] /\ w[m] = s[k]
  <2>0. /\ l \in 1 .. Len(w) /\ m \in 1 .. Len(w) /\ Len(w) = Len(s) - 1
        /\ l \in Nat /\ m \in Nat /\ l \in DOMAIN s /\ l + 1 \in DOMAIN s
        /\ m \in DOMAIN s /\ m + 1 \in DOMAIN s /\ l < m + 1 /\ l + 1 < m + 1
    BY <1>1, <1>4
  <2>1. CASE m < n
    <3>1. w[l] = s[l] /\ w[m] = s[m]
      BY <1>1, <1>4, <2>0, <2>1
    <3> QED
      BY <1>4, <2>0, <3>1
  <2>2. CASE l < n /\ m >= n
    <3>1. w[l] = s[l] /\ w[m] = s[m + 1]
      BY <1>1, <2>0, <2>2
    <3> QED
      BY <2>0, <3>1
  <2>3. CASE l >= n
    <3>1. w[l] = s[l + 1] /\ w[m] = s[m + 1]
      BY <1>1, <1>4, <2>0, <2>3
    <3> QED
      BY <2>0, <3>1
  <2> QED
    BY <2>0, <2>1, <2>2, <2>3
<1>5. InOrderOf(w, s)
  BY <1>4 DEF InOrderOf
<1>6. ASSUME n # 1
      PROVE  SameHead(w, s)
  <2>1. Len(w) >= 1 /\ w[1] = s[1]
    BY <1>1, <1>6
  <2> QED
    BY <1>1, <2>1 DEF SameHead
<1> QED
  BY <1>1, <1>2, <1>3, <1>5, <1>6 DEF w

\* What appending to a sequence leaves and adds.
LEMMA AppendFacts ==
  ASSUME NEW S, NEW s \in Seq(S), NEW e \in S
  PROVE  /\ Append(s, e) \in Seq(S)
         /\ Len(Append(s, e)) = Len(s) + 1
         /\ DOMAIN Append(s, e) = 1 .. Len(s) + 1
         /\ DOMAIN s = 1 .. Len(s)
         /\ \A n \in 1 .. Len(s) : Append(s, e)[n] = s[n]
         /\ Append(s, e)[Len(s) + 1] = e
OBVIOUS

-----------------------------------------------------------------------------
(* What the steps do to the shared state. *)

\* An event of a connection with a number in range has its type.
LEMMA EventIsTyped ==
  ASSUME TypeOK, NEW c \in Connections, NEW n \in 0 .. MaxMessages,
         NEW type \in {"ACCEPT", "RECIVE"}
  PROVE  Event(type, c, n) \in Events
BY DEF Event, Events

\* What runs is a connection with a descriptor.
LEMMA RunsFacts ==
  ASSUME TypeOK, IndexInv, manager = "run"
  PROVE  /\ Runs \in Connections /\ Runs \in revents
         /\ peer[Runs] \in {"trying", "open"}
BY DEF TypeOK, IndexInv, Runs, Interfaces

\* UpdateSelectStatus keeps the types and what is watched.
LEMMA UpdateFacts ==
  ASSUME TypeOK, WatchedOnce, NEW i \in Interfaces, UpdateSelectStatus(i)
  PROVE  /\ pollfds' \in Seq(Interfaces) /\ connectionStatusMap' \subseteq Interfaces
         /\ Len(pollfds') >= Len(pollfds)
         /\ \A n \in 1 .. Len(pollfds) : pollfds'[n] = pollfds[n]
         /\ \A m, n \in DOMAIN pollfds' : pollfds'[m] = pollfds'[n] => m = n
         /\ Watched' = connectionStatusMap'
         /\ Watched' = Watched \cup {i}
<1>0. /\ pollfds \in Seq(Interfaces) /\ connectionStatusMap \subseteq Interfaces
      /\ DOMAIN pollfds = 1 .. Len(pollfds) /\ Len(pollfds) \in Nat
  BY DEF TypeOK
<1>1. CASE i \in connectionStatusMap
  BY <1>0, <1>1 DEF UpdateSelectStatus, GetManagerInterface, WatchedOnce, Watched
<1>2. CASE i \notin connectionStatusMap
  <2>1. /\ pollfds' = Append(pollfds, i)
        /\ connectionStatusMap' = connectionStatusMap \cup {i}
    BY <1>2 DEF UpdateSelectStatus, AddFDWatcher, GetManagerInterface
  <2>2. /\ pollfds' \in Seq(Interfaces) /\ Len(pollfds') = Len(pollfds) + 1
        /\ DOMAIN pollfds' = 1 .. Len(pollfds) + 1
        /\ \A n \in 1 .. Len(pollfds) : pollfds'[n] = pollfds[n]
        /\ pollfds'[Len(pollfds) + 1] = i
    BY <1>0, <2>1, AppendFacts
  <2>3. Watched' = Watched \cup {i}
    BY <1>0, <2>2 DEF Watched
  <2>4. \A n \in 1 .. Len(pollfds) : pollfds[n] # i
    BY <1>0, <1>2 DEF WatchedOnce, Watched
  <2>5. \A m, n \in DOMAIN pollfds' : pollfds'[m] = pollfds'[n] => m = n
    BY <1>0, <2>2, <2>4 DEF WatchedOnce
  <2> QED
    BY <1>0, <2>1, <2>2, <2>3, <2>5 DEF WatchedOnce
<1> QED
  BY <1>1, <1>2

-----------------------------------------------------------------------------
(* Types. *)

LEMMA InitIsTyped ==
  ASSUME Init
  PROVE  TypeOK
<1>1. /\ eventList \in Seq(Events) /\ taken \in Seq(Events)
      /\ thread \in [Threads -> {"out", "found", "invoke"}]
      /\ current \in [Threads -> Events \cup {NULL}]
      /\ \A t \in Threads : thread[t] # "invoke" /\ current[t] = NULL
  BY DEF Init, PoolInit
<1>4. broken \in BOOLEAN
  BY DEF Init, PoolInit
<1>5. asked \in Seq(Out) /\ slow \subseteq Out
  <2>1. <<>> \in Seq(Out)
    OBVIOUS
  <2> QED
    BY <2>1 DEF Init
<1>2. initialConnectionList \in Seq(Interfaces) /\ pollfds \in Seq(Interfaces)
  BY DEF Init, Interfaces
<1>3. /\ peer \in [Connections -> {"closed", "pending", "trying", "open"}]
      /\ sent \in [Connections -> 0 .. MaxMessages]
      /\ received \in [Connections -> 0 .. MaxMessages]
  BY DEF Init
<1> QED
  BY <1>1, <1>2, <1>3, <1>4, <1>5 DEF Init, TypeOK

\* What the loop over the list looks at.
LEMMA LooksFacts ==
  ASSUME IInv, Looks
  PROVE  /\ initialConnectionList \in Seq(Interfaces)
         /\ at \in 1 .. Len(initialConnectionList) /\ Front = initialConnectionList[1]
         /\ DOMAIN initialConnectionList = 1 .. Len(initialConnectionList)
         /\ Front \in Interfaces /\ Front \in Out \cup {Acceptor}
<1>1. /\ initialConnectionList \in Seq(Interfaces)
      /\ at \in 1 .. Len(initialConnectionList) /\ Front = initialConnectionList[1]
      /\ DOMAIN initialConnectionList = 1 .. Len(initialConnectionList)
      /\ 1 \in DOMAIN initialConnectionList
  BY DEF IInv, TypeOK, IndexInv, Looks, Front
<1>2. \A k \in DOMAIN asked : asked[k] \in Out
  BY DEF IInv, TypeOK
<1>3. Front \in Out \cup {Acceptor}
  BY <1>1, <1>2 DEF IInv, ListInv
<1> QED
  BY <1>1, <1>3 DEF Interfaces, Connections

LEMMA ConnectFrontIsTyped ==
  ASSUME IInv, ConnectFront
  PROVE  TypeOK'
<1>1. Looks /\ ConnectSucceeds(Front) /\ UpdateSelectStatus(Front)
  BY DEF ConnectFront
<1>2. initialConnectionList' \in Seq(Interfaces)
  BY <1>1, LooksFacts, WithoutFacts DEF ConnectFront
<1>3. pollfds' \in Seq(Interfaces) /\ connectionStatusMap' \subseteq Interfaces
  BY <1>1, LooksFacts, UpdateFacts DEF IInv
<1>4. peer' \in [Connections -> {"closed", "pending", "trying", "open"}]
  BY <1>1, LooksFacts DEF IInv, TypeOK, ConnectSucceeds
<1> QED
  BY <1>2, <1>3, <1>4 DEF IInv, TypeOK, ConnectFront, poolVars, historyVars, readVars

LEMMA PassFrontIsTyped ==
  ASSUME IInv, ConnectTries \/ ConnectFails
  PROVE  TypeOK'
<1>1. Looks /\ PassFront /\ Front \in Out /\ Front \in Connections
  BY DEF ConnectTries, ConnectFails, Connections
<1>2. /\ pollfds' \in Seq(Interfaces) /\ connectionStatusMap' \subseteq Interfaces
      /\ peer' \in [Connections -> {"closed", "pending", "trying", "open"}]
  <2>1. CASE ConnectTries
    <3>1. pollfds' \in Seq(Interfaces) /\ connectionStatusMap' \subseteq Interfaces
      BY <1>1, <2>1, LooksFacts, UpdateFacts DEF IInv, ConnectTries
    <3> QED
      BY <1>1, <2>1, <3>1 DEF IInv, TypeOK, ConnectTries
  <2>2. CASE ConnectFails
    BY <2>2 DEF ConnectFails, watchVars, IInv, TypeOK
  <2> QED
    BY <2>1, <2>2
<1>3. at' \in Nat /\ slow' \subseteq Out
  BY <1>1 DEF PassFront, IInv, TypeOK
<1> QED
  BY <1>1, <1>2, <1>3 DEF IInv, TypeOK, PassFront, poolVars, readVars

LEMMA AcceptIsTyped ==
  ASSUME IInv, NEW c \in In, Accept(c)
  PROVE  TypeOK'
<1>1. c \in Connections /\ c \in Interfaces
  BY DEF Connections, Interfaces
<1>2. Event("ACCEPT", c, 0) \in Events
  BY <1>1, EventIsTyped DEF IInv
<1>3. eventList' \in Seq(Events)
  BY <1>2 DEF IInv, TypeOK, Accept, AddEvent
<1>4. pollfds' \in Seq(Interfaces) /\ connectionStatusMap' \subseteq Interfaces
  BY <1>1, UpdateFacts DEF IInv, Accept
<1>5. /\ peer' \in [Connections -> {"closed", "pending", "trying", "open"}]
      /\ at' \in Nat /\ revents' \subseteq Interfaces
  BY <1>1 DEF IInv, TypeOK, Accept, Served
<1> QED
  BY <1>3, <1>4, <1>5 DEF IInv, TypeOK, Accept, listVars, historyVars, readVars

LEMMA ReadMessageIsTyped ==
  ASSUME IInv, ReadMessage
  PROVE  TypeOK'
<1>1. Runs \in Connections
  BY RunsFacts DEF IInv, ReadMessage
<1>2. received[Runs] + 1 \in 0 .. MaxMessages
  BY <1>1 DEF IInv, TypeOK, ReadMessage
<1>3. Event("RECIVE", Runs, received[Runs] + 1) \in Events
  BY <1>1, <1>2, EventIsTyped DEF IInv
<1>4. eventList' \in Seq(Events)
  BY <1>3 DEF IInv, TypeOK, ReadMessage, AddEvent
<1>5. received' \in [Connections -> 0 .. MaxMessages]
  BY <1>1, <1>2 DEF IInv, TypeOK, ReadMessage
<1> QED
  BY <1>4, <1>5 DEF IInv, TypeOK, ReadMessage, listVars, historyVars, watchVars,
                    peerVars

\* The steps of the manager that change neither the registry nor the pool.
LEMMA ManagerIsTyped ==
  ASSUME IInv,
         \/ NoTick \/ StartTick \/ EndTick \/ Timeout \/ PollReturn \/ Skip
         \/ EndInvoke \/ StartRun \/ ConnectBeforeRead \/ ReadNothing
  PROVE  TypeOK'
<1> USE DEF IInv, TypeOK, poolVars, listVars, historyVars, watchVars, peerVars, readVars
<1>1. CASE NoTick \/ EndTick \/ Timeout \/ EndInvoke \/ StartRun
  BY <1>1 DEF NoTick, EndTick, Timeout, EndInvoke, StartRun
<1>2. CASE StartTick
  BY <1>2 DEF StartTick
<1>5. CASE ConnectBeforeRead
  <2>1. Runs \in Connections
    BY <1>5, RunsFacts DEF ConnectBeforeRead
  <2> QED
    BY <1>5, <2>1 DEF ConnectBeforeRead, ConnectSucceeds
<1>6. CASE Skip
  BY <1>6 DEF Skip
<1>3. CASE PollReturn
  <2>1. Watched \subseteq Interfaces
    BY DEF Watched
  <2> QED
    BY <1>3, <2>1 DEF PollReturn
<1>4. CASE ReadNothing
  BY <1>4 DEF ReadNothing, Served
<1> QED
  BY <1>1, <1>2, <1>3, <1>4, <1>5, <1>6

LEMMA GetEventIsTyped ==
  ASSUME IInv, NEW t \in Threads, GetEvent(t)
  PROVE  TypeOK'
<1> USE DEF IInv, TypeOK, listVars, historyVars, watchVars, peerVars, readVars, GetEvent
<1>1. CASE FindEvent(t)
  BY <1>1 DEF FindEvent
<1>2. CASE TakeFront(t)
  <2>1. /\ Head(eventList) \in Events /\ Head(eventList) # NULL
        /\ Tail(eventList) \in Seq(Events)
        /\ Append(taken, Head(eventList)) \in Seq(Events)
    BY <1>2 DEF TakeFront
  <2> QED
    BY <1>2, <2>1 DEF TakeFront
<1>3. CASE TakeNothing(t)
  BY <1>3 DEF TakeNothing
<1> QED
  BY <1>1, <1>2, <1>3

LEMMA InvokeIsTyped ==
  ASSUME IInv, NEW t \in Threads, Invoke(t)
  PROVE  TypeOK'
<1>1. current[t] \in Events
  BY DEF IInv, TypeOK, Invoke, DeleteEvent
<1>2. handlers' \subseteq Connections
  BY <1>1 DEF IInv, TypeOK, Invoke, Events
<1> QED
  BY <1>2 DEF IInv, TypeOK, Invoke, DeleteEvent, listVars, historyVars, watchVars,
              peerVars

LEMMA OthersAreTyped ==
  ASSUME IInv, NEW c \in Connections, Others(c)
  PROVE  TypeOK'
<1> USE DEF IInv, TypeOK, poolVars, listVars, historyVars, watchVars, peerVars, readVars
<1>1. CASE Connect(c)
  <2>1. /\ Append(initialConnectionList, c) \in Seq(Interfaces)
        /\ Append(asked, c) \in Seq(Out)
    BY <1>1 DEF Interfaces, Connect
  <2> QED
    BY <1>1, <2>1 DEF Connect, AddInterface
<1>2. CASE PeerConnects(c)
  BY <1>2 DEF PeerConnects
<1>3. CASE PeerSends(c)
  BY <1>3 DEF PeerSends
<1> QED
  BY <1>1, <1>2, <1>3 DEF Others

LEMMA StepIsTyped ==
  ASSUME IInv, [Next]_vars
  PROVE  TypeOK'
<1>1. CASE UNCHANGED vars
  BY <1>1 DEF IInv, TypeOK, vars
<1>2. CASE Manager
  BY <1>2, ConnectFrontIsTyped, PassFrontIsTyped, AcceptIsTyped, ReadMessageIsTyped, ManagerIsTyped
  DEF Manager
<1>3. ASSUME NEW t \in Threads, Application(t)
      PROVE  TypeOK'
  BY <1>3, GetEventIsTyped, InvokeIsTyped DEF Application
<1>4. ASSUME NEW c \in Connections, Others(c)
      PROVE  TypeOK'
  BY <1>4, OthersAreTyped
<1> QED
  BY <1>1, <1>2, <1>3, <1>4 DEF Next

-----------------------------------------------------------------------------
(* The registry: what is watched, and the loop over it. *)

Registered == WatchedOnce /\ IndexInv

LEMMA InitIsRegistered ==
  ASSUME Init
  PROVE  Registered
<1>1. pollfds = <<>> /\ DOMAIN pollfds = {} /\ manager = "tick"
  BY DEF Init
<1>2. WatchedOnce
  BY <1>1 DEF Init, WatchedOnce, Watched
<1> QED
  BY <1>1, <1>2 DEF Registered, IndexInv

\* A look that leaves the first interface connected or under way.
LEMMA LookRegisters ==
  ASSUME IInv, ConnectFront \/ ConnectTries
  PROVE  Registered'
<1>1. Looks /\ Front \in Interfaces /\ UpdateSelectStatus(Front)
  BY LooksFacts DEF ConnectFront, ConnectTries
<1>2. /\ \A m, n \in DOMAIN pollfds' : pollfds'[m] = pollfds'[n] => m = n
      /\ Watched' = connectionStatusMap' /\ Watched' = Watched \cup {Front}
  BY <1>1, UpdateFacts DEF IInv
<1>3. \A c \in Connections \ {Front} : peer'[c] = peer[c]
  BY DEF ConnectFront, ConnectSucceeds, ConnectTries, IInv, TypeOK
<1>4. \A c \in Connections : peer'[c] \in {"trying", "open"} => c \in Watched'
  BY <1>2, <1>3 DEF IInv, WatchedOnce
<1>5. IndexInv'
  <2>1. manager' = "connect" /\ at \in Nat /\ at >= 1 /\ at' \in {at, at + 1}
    BY <1>1 DEF IInv, TypeOK, IndexInv, Looks, ConnectFront, ConnectTries, PassFront
  <2> QED
    BY <2>1 DEF IndexInv
<1> QED
  BY <1>2, <1>4, <1>5 DEF Registered, WatchedOnce

LEMMA AcceptRegisters ==
  ASSUME IInv, NEW c \in In, Accept(c)
  PROVE  Registered'
<1>1. c \in Connections /\ c \in Interfaces /\ UpdateSelectStatus(c)
  BY DEF Connections, Interfaces, Accept
<1>2. /\ Len(pollfds') >= Len(pollfds)
      /\ \A n \in 1 .. Len(pollfds) : pollfds'[n] = pollfds[n]
      /\ \A m, n \in DOMAIN pollfds' : pollfds'[m] = pollfds'[n] => m = n
      /\ Watched' = connectionStatusMap' /\ Watched' = Watched \cup {c}
  BY <1>1, UpdateFacts DEF IInv
<1>3. \A d \in Connections : peer'[d] \in {"trying", "open"} => d \in Watched'
  BY <1>1, <1>2 DEF IInv, TypeOK, WatchedOnce, Accept
<1>4. /\ manager = "invoke" /\ manager' = "invoke"
      /\ at \in Nat /\ at >= 1 /\ at' = at + 1
      /\ revents' = revents \ {Acceptor} /\ pollfds[at] = Acceptor
      /\ Len(pollfds) \in Nat /\ Len(pollfds') \in Nat
  <2>1. pollfds' \in Seq(Interfaces)
    BY <1>1, UpdateFacts DEF IInv
  <2> QED
    BY <2>1 DEF IInv, TypeOK, IndexInv, Accept, Served
<1>5. ASSUME NEW i \in revents'
      PROVE  \E n \in at' .. Len(pollfds') : pollfds'[n] = i
  <2>1. PICK n \in at .. Len(pollfds) : pollfds[n] = i
    BY <1>4 DEF IInv, IndexInv
  <2>2. n # at
    BY <1>4, <2>1
  <2>3. n \in at' .. Len(pollfds') /\ pollfds'[n] = i
    BY <1>2, <1>4, <2>1, <2>2
  <2> QED
    BY <2>3
<1>6. \A i \in revents' \ {Acceptor} : peer'[i] \in {"trying", "open"}
  <2>1. peer' = [peer EXCEPT ![c] = "open"]
    BY DEF Accept
  <2> QED
    BY <1>4, <2>1 DEF IInv, IndexInv, TypeOK, Interfaces
<1>7. IndexInv'
  BY <1>4, <1>5, <1>6 DEF IndexInv
<1> QED
  BY <1>2, <1>3, <1>7 DEF Registered, WatchedOnce

\* Nothing else the manager does changes what is watched.
LEMMA ManagerKeepsRegistry ==
  ASSUME IInv,
         \/ NoTick \/ StartTick \/ ConnectFails \/ EndTick \/ Timeout \/ PollReturn
         \/ Skip \/ EndInvoke \/ StartRun \/ ReadMessage \/ ReadNothing
  PROVE  Registered'
<1>1. UNCHANGED <<connectionStatusMap, pollfds, peer>>
  BY DEF NoTick, StartTick, ConnectFails, EndTick, Timeout, PollReturn, Skip,
         EndInvoke, StartRun, ReadMessage, ReadNothing, watchVars, peerVars
<1>2. WatchedOnce'
  BY <1>1 DEF IInv, WatchedOnce, Watched
<1>3. /\ at \in Nat /\ Len(pollfds) \in Nat /\ DOMAIN pollfds = 1 .. Len(pollfds)
      /\ revents \subseteq Interfaces
  BY DEF IInv, TypeOK
<1>4. CASE NoTick \/ StartTick \/ EndTick \/ Timeout \/ EndInvoke
  <2>1. /\ manager' \in {"tick", "connect", "poll"}
        /\ manager' = "connect" => at' = 1
    BY <1>4 DEF NoTick, StartTick, EndTick, Timeout, EndInvoke
  <2> QED
    BY <1>2, <2>1 DEF IndexInv, Registered
<1>5. CASE ConnectFails
  <2>1. manager' = "connect" /\ at >= 1 /\ at' = at + 1
    BY <1>5 DEF ConnectFails, Looks, PassFront, IInv, IndexInv
  <2> QED
    BY <1>2, <1>3, <2>1 DEF IndexInv, Registered
<1>6. CASE PollReturn
  <2>1. manager' = "invoke" /\ at' = 1 /\ revents' = {i \in Watched : Ready(i)}
    BY <1>6 DEF PollReturn
  <2>2. \A i \in revents' : \E n \in at' .. Len(pollfds') : pollfds'[n] = i
    BY <1>1, <1>3, <2>1 DEF Watched
  <2>3. \A i \in revents' \ {Acceptor} : peer'[i] \in {"trying", "open"}
    BY <1>1, <2>1 DEF Ready
  <2> QED
    BY <1>2, <2>1, <2>2, <2>3 DEF IndexInv, Registered
<1>7. CASE Skip
  <2>1. /\ manager = "invoke" /\ manager' = "invoke" /\ at' = at + 1 /\ at >= 1
        /\ revents' = revents /\ pollfds[at] \notin revents
    BY <1>7 DEF Skip, IInv, IndexInv
  <2>2. ASSUME NEW i \in revents'
        PROVE  \E n \in at' .. Len(pollfds') : pollfds'[n] = i
    <3>1. PICK n \in at .. Len(pollfds) : pollfds[n] = i
      BY <2>1 DEF IInv, IndexInv
    <3>2. n \in at' .. Len(pollfds') /\ pollfds'[n] = i
      BY <1>1, <1>3, <2>1, <3>1
    <3> QED
      BY <3>2
  <2>3. \A i \in revents' \ {Acceptor} : peer'[i] \in {"trying", "open"}
    BY <1>1, <2>1 DEF IInv, IndexInv
  <2> QED
    BY <1>2, <1>3, <2>1, <2>2, <2>3 DEF IndexInv, Registered
<1>8. CASE StartRun
  <2>1. /\ manager = "invoke" /\ manager' = "run" /\ at' = at /\ at >= 1
        /\ revents' = revents /\ revents # {} /\ pollfds[at] \in revents \ {Acceptor}
    BY <1>8 DEF StartRun, IInv, IndexInv
  <2>2. at <= Len(pollfds)
    BY <1>3, <2>1 DEF IInv, IndexInv
  <2>3. /\ \A i \in revents' : \E n \in at' .. Len(pollfds') : pollfds'[n] = i
        /\ \A i \in revents' \ {Acceptor} : peer'[i] \in {"trying", "open"}
    BY <1>1, <2>1 DEF IInv, IndexInv
  <2> QED
    BY <1>1, <1>2, <2>1, <2>2, <2>3 DEF IndexInv, Registered
<1>9. CASE ReadMessage
  <2>1. manager = "run" /\ UNCHANGED <<manager, at, revents>>
    BY <1>9 DEF ReadMessage
  <2> QED
    BY <1>1, <1>2, <2>1 DEF IInv, IndexInv, Registered
<1>10. CASE ReadNothing
  <2>1. /\ manager = "run" /\ manager' = "invoke" /\ at' = at + 1 /\ at >= 1
        /\ revents' = revents \ {pollfds[at]}
    BY <1>10 DEF ReadNothing, Served, Runs, IInv, IndexInv
  <2>2. ASSUME NEW i \in revents'
        PROVE  \E n \in at' .. Len(pollfds') : pollfds'[n] = i
    <3>1. PICK n \in at .. Len(pollfds) : pollfds[n] = i
      BY <2>1 DEF IInv, IndexInv
    <3>2. n \in at' .. Len(pollfds') /\ pollfds'[n] = i
      BY <1>1, <1>3, <2>1, <3>1
    <3> QED
      BY <3>2
  <2>3. \A i \in revents' \ {Acceptor} : peer'[i] \in {"trying", "open"}
    BY <1>1, <2>1 DEF IInv, IndexInv
  <2> QED
    BY <1>2, <1>3, <2>1, <2>2, <2>3 DEF IndexInv, Registered
<1> QED
  BY <1>4, <1>5, <1>6, <1>7, <1>8, <1>9, <1>10

LEMMA ConnectBeforeReadRegisters ==
  ASSUME IInv, ConnectBeforeRead
  PROVE  Registered'
<1>1. /\ Runs \in Connections /\ peer[Runs] = "trying"
      /\ peer' = [peer EXCEPT ![Runs] = "open"]
      /\ UNCHANGED <<connectionStatusMap, pollfds, manager, at, revents>>
  BY RunsFacts DEF IInv, ConnectBeforeRead, ConnectSucceeds, watchVars, Connections
<1>2. \A c \in Connections : peer'[c] \in {"trying", "open"} <=> peer[c] \in {"trying", "open"}
  BY <1>1 DEF IInv, TypeOK
<1>3. WatchedOnce'
  BY <1>1, <1>2 DEF IInv, WatchedOnce, Watched
<1>4. IndexInv'
  BY <1>1, <1>2 DEF IInv, IndexInv, TypeOK, Interfaces
<1> QED
  BY <1>3, <1>4 DEF Registered

LEMMA StepKeepsRegistry ==
  ASSUME IInv, [Next]_vars
  PROVE  Registered'
<1>1. ASSUME UNCHANGED <<connectionStatusMap, pollfds, manager, at, revents, peer>>
      PROVE  Registered'
  BY <1>1 DEF IInv, Registered, WatchedOnce, Watched, IndexInv
<1>2. CASE UNCHANGED vars
  BY <1>1, <1>2 DEF vars
<1>3. CASE Manager
  BY <1>3, LookRegisters, ConnectBeforeReadRegisters, AcceptRegisters, ManagerKeepsRegistry DEF Manager
<1>4. ASSUME NEW t \in Threads, Application(t)
      PROVE  Registered'
  BY <1>1, <1>4 DEF Application, GetEvent, Invoke, watchVars, peerVars
<1>5. ASSUME NEW c \in Connections, Connect(c) \/ PeerSends(c)
      PROVE  Registered'
  BY <1>1, <1>5 DEF Connect, AddInterface, PeerSends, watchVars, peerVars
<1>6. ASSUME NEW c \in Connections, PeerConnects(c)
      PROVE  Registered'
  <2>1. /\ UNCHANGED <<connectionStatusMap, pollfds, manager, at, revents>>
        /\ \A d \in Connections :
             peer'[d] \in {"trying", "open"} <=> peer[d] \in {"trying", "open"}
    BY <1>6 DEF PeerConnects, watchVars, IInv, TypeOK
  <2>2. WatchedOnce'
    BY <2>1 DEF IInv, WatchedOnce, Watched
  <2>3. IndexInv'
    BY <2>1 DEF IInv, IndexInv, TypeOK, Interfaces
  <2> QED
    BY <2>2, <2>3 DEF Registered
<1> QED
  BY <1>2, <1>3, <1>4, <1>5, <1>6 DEF Next, Others

-----------------------------------------------------------------------------
(* The list of what is to be connected. *)

Listed == ListInv /\ TryingInv /\ RequestedIsKept

LEMMA InitIsListed ==
  ASSUME Init
  PROVE  Listed
<1>1. asked = <<>> /\ DOMAIN asked = {} /\ manager = "tick"
  BY DEF Init
<1>2. /\ DOMAIN initialConnectionList = {1} /\ initialConnectionList[1] = Acceptor
      /\ \A c \in In : c \in Connections /\ peer[c] = "closed"
  BY DEF Init, Connections
<1> QED
  BY <1>1, <1>2 DEF Listed, ListInv, TryingInv, RequestedIsKept

\* What of the list's invariant a step keeps that lets the list, the requests and
\* the position of the iterator alone.
LEMMA ListUntouched ==
  ASSUME IInv, UNCHANGED <<initialConnectionList, asked, slow>>,
         handlers \subseteq handlers',
         manager' = "connect" => at' = 1 \/ (manager = "connect" /\ at' = at),
         \A c \in Connections : peer[c] = "open" => peer'[c] = "open",
         \A c \in In : peer'[c] # "trying"
  PROVE  Listed'
<1>1. asked \in Seq(Out)
  BY DEF IInv, TypeOK
<1>2. ListInv'
  BY DEF IInv, ListInv, AskedBefore, Front
<1>3. RequestedIsKept'
  <2>1. \A n \in DOMAIN asked : asked[n] \in Connections
    BY <1>1 DEF Connections
  <2>2. \A n \in DOMAIN asked : \A m \in 1 .. n - 1 : asked[m] \in Connections
    BY <1>1 DEF Connections
  <2> QED
    BY <2>1, <2>2 DEF IInv, RequestedIsKept
<1> QED
  BY <1>2, <1>3 DEF Listed, TryingInv

LEMMA ConnectFrontKeepsList ==
  ASSUME IInv, ConnectFront
  PROVE  Listed'
<1> DEFINE list == initialConnectionList
           w == Without(list, at)
<1>1. /\ Looks /\ list' = w
      /\ UNCHANGED <<asked, slow, manager, at, handlers>>
      /\ asked \in Seq(Out) /\ slow \subseteq Out
      /\ peer \in [Connections -> {"closed", "pending", "trying", "open"}]
  BY DEF IInv, TypeOK, ConnectFront, historyVars, readVars
<1>2. /\ list \in Seq(Interfaces) /\ at \in 1 .. Len(list)
      /\ Front = list[1] /\ 1 \in DOMAIN list /\ DOMAIN list = 1 .. Len(list)
      /\ Front \in Out \cup {Acceptor}
  BY <1>1, LooksFacts
<1>3. /\ \A m \in DOMAIN w : \E k \in DOMAIN list : w[m] = list[k]
      /\ \A k \in DOMAIN list \ {at} : \E m \in DOMAIN w : w[m] = list[k]
      /\ InOrderOf(w, list) /\ (at = 1 \/ SameHead(w, list))
  <2>1. list \in Seq(Interfaces) /\ at \in 1 .. Len(list)
    BY <1>2
  <2>2. /\ \A m \in DOMAIN w : \E k \in DOMAIN list : w[m] = list[k]
        /\ \A k \in DOMAIN list \ {at} : \E m \in DOMAIN w : w[m] = list[k]
    BY <2>1, WithoutFacts, Zenon
  <2>3. InOrderOf(w, list) /\ (at = 1 \/ SameHead(w, list))
    BY <2>1, WithoutFacts, Zenon
  <2> QED
    BY <2>2, <2>3
<1> HIDE DEF w
<1>4. \A c \in Connections : peer[c] = "open" \/ c = Front => peer'[c] = "open"
  BY <1>1, <1>2 DEF ConnectFront, ConnectSucceeds, Connections
<1>5. \A c \in Connections \ {Front} : peer'[c] = peer[c]
  BY <1>1 DEF ConnectFront, ConnectSucceeds
<1>6. ListInv'
  <2>1. \A m \in DOMAIN w :
          w[m] = Acceptor \/ \E k \in DOMAIN asked : asked[k] = w[m]
    BY <1>3 DEF IInv, ListInv
  <2>2. ASSUME NEW l \in DOMAIN w, NEW m \in DOMAIN w, l < m
        PROVE  w[l] = Acceptor \/ AskedBefore(w[l], w[m])
    <3>1. PICK j \in DOMAIN list, k \in DOMAIN list :
            j < k /\ w[l] = list[j] /\ w[m] = list[k]
      BY <1>3, <2>2 DEF InOrderOf
    <3>2. list[j] = Acceptor \/ AskedBefore(list[j], list[k])
      BY <3>1 DEF IInv, ListInv
    <3> QED
      BY <3>1, <3>2
  <2>3. at > 1 => w # <<>> /\ Head(w) \in slow
    BY <1>1, <1>3 DEF IInv, ListInv, Front, Looks, SameHead
  <2>4. \A n \in DOMAIN asked : asked[n] \in handlers
    BY DEF IInv, ListInv
  <2>5. \A c, d : AskedBefore(c, d) => AskedBefore(c, d)'
    BY <1>1 DEF AskedBefore
  <2> QED
    BY <1>1, <2>1, <2>2, <2>3, <2>4, <2>5 DEF ListInv, Front
<1>7. TryingInv'
  <2>1. ASSUME NEW c \in In
        PROVE  c # Front /\ c \in Connections
    BY <1>2 DEF Connections
  <2> QED
    BY <1>5, <2>1 DEF IInv, TryingInv
<1>8. ASSUME NEW n \in DOMAIN asked
      PROVE  \/ \E m \in DOMAIN w : w[m] = asked[n]
             \/ peer'[asked[n]] = "open"
             \/ \E m \in 1 .. n - 1 : asked[m] \in slow /\ peer'[asked[m]] = "open"
  <2>1. asked[n] \in Connections /\ \A m \in 1 .. n - 1 : asked[m] \in Connections
    BY <1>1 DEF Connections
  <2>2. CASE \E m \in DOMAIN list : list[m] = asked[n]
    <3>1. PICK k \in DOMAIN list : list[k] = asked[n]
      BY <2>2
    <3>2. CASE k # at
      BY <1>3, <3>1, <3>2
    <3>3. CASE k = at /\ at = 1
      BY <1>2, <1>4, <2>1, <3>1, <3>3
    <3>4. CASE k = at /\ at > 1
      <4>1. Front \in slow /\ Front # Acceptor /\ Front \in Connections
        BY <1>1, <3>4 DEF IInv, ListInv, Looks, Connections
      <4>2. AskedBefore(list[1], list[k])
        BY <1>2, <3>4, <4>1 DEF IInv, ListInv
      <4>3. PICK m \in 1 .. n - 1 : asked[m] = Front
        BY <1>2, <3>1, <4>2 DEF AskedBefore
      <4> QED
        BY <1>4, <4>1, <4>3
    <3> QED
      BY <1>2, <3>2, <3>3, <3>4
  <2>3. CASE peer[asked[n]] = "open"
    BY <1>4, <2>1, <2>3
  <2>4. CASE \E m \in 1 .. n - 1 : asked[m] \in slow /\ peer[asked[m]] = "open"
    BY <1>4, <2>1, <2>4
  <2> QED
    BY <2>2, <2>3, <2>4 DEF IInv, RequestedIsKept
<1>9. RequestedIsKept'
  BY <1>1, <1>8 DEF RequestedIsKept
<1> QED
  BY <1>6, <1>7, <1>9 DEF Listed

LEMMA PassFrontKeepsList ==
  ASSUME IInv, ConnectTries \/ ConnectFails
  PROVE  Listed'
<1>1. /\ Looks /\ PassFront /\ Front \in Out /\ peer[Front] # "open"
      /\ asked \in Seq(Out)
      /\ peer \in [Connections -> {"closed", "pending", "trying", "open"}]
  BY DEF IInv, TypeOK, ConnectTries, ConnectFails
<1>2. /\ UNCHANGED <<initialConnectionList, asked, handlers>>
      /\ slow' = slow \cup {Front}
  BY <1>1 DEF PassFront, readVars
<1>3. \A c \in Connections \ {Front} : peer'[c] = peer[c]
  BY <1>1 DEF ConnectTries, ConnectFails
<1>4. ListInv'
  <2>1. initialConnectionList # <<>> /\ Front' \in slow'
    BY <1>1, <1>2, LooksFacts DEF Front
  <2> QED
    BY <1>2, <2>1 DEF IInv, ListInv, AskedBefore
<1>5. TryingInv'
  <2>1. \A c \in In : c # Front /\ c \in Connections
    BY <1>1 DEF Connections
  <2> QED
    BY <1>3, <2>1 DEF IInv, TryingInv
<1>6. RequestedIsKept'
  <2>1. \A c \in Out : peer[c] = "open" => peer'[c] = "open"
    BY <1>1, <1>3 DEF Connections
  <2>2. \A n \in DOMAIN asked : asked[n] \in Out /\ \A m \in 1 .. n - 1 : asked[m] \in Out
    BY <1>1
  <2> QED
    BY <1>2, <2>1, <2>2 DEF IInv, RequestedIsKept
<1> QED
  BY <1>4, <1>5, <1>6 DEF Listed

LEMMA ConnectKeepsList ==
  ASSUME IInv, NEW c \in Connections, Connect(c)
  PROVE  Listed'
<1> DEFINE list == initialConnectionList
<1>1. /\ c \in Out /\ c \notin handlers /\ c \in Interfaces /\ list \in Seq(Interfaces)
      /\ list' = Append(list, c) /\ handlers' = handlers \cup {c}
      /\ asked \in Seq(Out) /\ asked' = Append(asked, c)
      /\ UNCHANGED <<slow, manager, at, peer>> /\ manager # "connect"
  BY DEF IInv, TypeOK, Connect, AddInterface, Interfaces, peerVars
<1>2. /\ DOMAIN list = 1 .. Len(list) /\ DOMAIN list' = 1 .. Len(list) + 1
      /\ \A n \in 1 .. Len(list) : list'[n] = list[n]
      /\ list'[Len(list) + 1] = c /\ Len(list) \in Nat
  BY <1>1, AppendFacts
<1>3. /\ DOMAIN asked = 1 .. Len(asked) /\ DOMAIN asked' = 1 .. Len(asked) + 1
      /\ \A n \in 1 .. Len(asked) : asked'[n] = asked[n]
      /\ asked'[Len(asked) + 1] = c /\ Len(asked) \in Nat
  BY <1>1, AppendFacts
<1>4. \A n \in 1 .. Len(asked) : asked[n] \in handlers /\ asked[n] # c
  BY <1>1, <1>3 DEF IInv, ListInv
<1>5. \A n \in DOMAIN list :
        list[n] = Acceptor \/ \E k \in 1 .. Len(asked) : asked[k] = list[n]
  BY <1>3 DEF IInv, ListInv
<1>6. ASSUME NEW m \in DOMAIN list', NEW n \in DOMAIN list', m < n
      PROVE  \/ list'[m] = Acceptor
             \/ \A l \in DOMAIN asked' : asked'[l] = list'[n] =>
                  \E k \in 1 .. l - 1 : asked'[k] = list'[m]
  <2>1. m \in DOMAIN list /\ list'[m] = list[m]
    BY <1>2, <1>6
  <2>2. CASE n \in DOMAIN list
    <3>1. list[m] = Acceptor \/ AskedBefore(list[m], list[n])
      BY <1>6, <2>1, <2>2 DEF IInv, ListInv
    <3>2. list'[n] = list[n] /\ list[n] # c
      BY <1>1, <1>2, <1>4, <1>5, <2>2
    <3>3. ASSUME AskedBefore(list[m], list[n]), NEW l \in DOMAIN asked', asked'[l] = list[n]
          PROVE  \E k \in 1 .. l - 1 : asked'[k] = list[m]
      <4>1. l \in 1 .. Len(asked) /\ asked[l] = list[n]
        BY <1>3, <3>2, <3>3
      <4>2. PICK k \in 1 .. l - 1 : asked[k] = list[m]
        BY <1>3, <3>3, <4>1 DEF AskedBefore
      <4> QED
        BY <1>3, <4>1, <4>2
    <3> QED
      BY <2>1, <3>1, <3>2, <3>3 DEF AskedBefore
  <2>3. CASE n = Len(list) + 1
    <3>1. CASE list[m] = Acceptor
      BY <2>1, <3>1
    <3>2. CASE list[m] # Acceptor
      <4>1. PICK k \in 1 .. Len(asked) : asked[k] = list[m]
        BY <1>5, <2>1, <3>2
      <4>2. ASSUME NEW l \in DOMAIN asked', asked'[l] = c
            PROVE  \E j \in 1 .. l - 1 : asked'[j] = list[m]
        <5>1. l = Len(asked) + 1
          BY <1>3, <1>4, <4>2
        <5> QED
          BY <1>3, <4>1, <5>1
      <4> QED
        BY <1>2, <2>1, <2>3, <4>2 DEF AskedBefore
    <3> QED
      BY <3>1, <3>2
  <2> QED
    BY <1>2, <2>2, <2>3
<1>7. ListInv'
  <2>1. \A n \in DOMAIN asked' : asked'[n] \in handlers'
    BY <1>1, <1>3, <1>4
  <2>2. \A n \in DOMAIN list' :
          list'[n] = Acceptor \/ \E k \in DOMAIN asked' : asked'[k] = list'[n]
    BY <1>2, <1>3, <1>5
  <2> QED
    BY <1>1, <1>6, <2>1, <2>2 DEF ListInv, AskedBefore
<1>8. ASSUME NEW n \in DOMAIN asked'
      PROVE  \/ \E m \in DOMAIN list' : list'[m] = asked'[n]
             \/ peer[asked'[n]] = "open"
             \/ \E m \in 1 .. n - 1 : asked'[m] \in slow /\ peer[asked'[m]] = "open"
  <2>1. CASE n = Len(asked) + 1
    BY <1>2, <1>3, <2>1
  <2>2. CASE n \in 1 .. Len(asked)
    <3>1. \/ \E m \in DOMAIN list : list[m] = asked[n]
          \/ peer[asked[n]] = "open"
          \/ \E m \in 1 .. n - 1 : asked[m] \in slow /\ peer[asked[m]] = "open"
      BY <1>3, <2>2 DEF IInv, RequestedIsKept
    <3>2. \A m \in 1 .. n - 1 : asked'[m] = asked[m]
      BY <1>3, <2>2
    <3> QED
      BY <1>2, <1>3, <2>2, <3>1, <3>2
  <2> QED
    BY <1>3, <2>1, <2>2
<1>9. RequestedIsKept'
  BY <1>1, <1>8 DEF RequestedIsKept
<1>10. TryingInv'
  BY <1>1 DEF IInv, TryingInv
<1> QED
  BY <1>7, <1>9, <1>10 DEF Listed

LEMMA StepKeepsList ==
  ASSUME IInv, [Next]_vars
  PROVE  Listed'
<1>0. /\ peer \in [Connections -> {"closed", "pending", "trying", "open"}]
      /\ \A c \in In : peer[c] # "trying" /\ c \in Connections
  BY DEF IInv, TypeOK, TryingInv, Connections
<1>1. ASSUME UNCHANGED <<initialConnectionList, asked, slow, manager, at, peer>>,
             handlers \subseteq handlers'
      PROVE  Listed'
  BY <1>0, <1>1, ListUntouched
<1>2. CASE UNCHANGED vars
  BY <1>1, <1>2 DEF vars
<1>3. CASE ConnectFront
  BY <1>3, ConnectFrontKeepsList
<1>4. CASE ConnectTries \/ ConnectFails
  BY <1>4, PassFrontKeepsList
<1>5. ASSUME \/ NoTick \/ StartTick \/ EndTick \/ Timeout \/ PollReturn \/ Skip
             \/ EndInvoke \/ StartRun \/ ConnectBeforeRead \/ ReadMessage \/ ReadNothing
             \/ \E c \in In : Accept(c)
      PROVE  Listed'
  <2>1. UNCHANGED <<initialConnectionList, asked, slow, handlers>>
    BY <1>5 DEF NoTick, StartTick, EndTick, Timeout, PollReturn, Skip, EndInvoke,
                StartRun, ConnectBeforeRead, ReadMessage, ReadNothing, Accept,
                listVars, historyVars, readVars
  <2>2. manager' = "connect" => at' = 1
    BY <1>5 DEF NoTick, StartTick, EndTick, Timeout, PollReturn, Skip, EndInvoke,
                StartRun, ConnectBeforeRead, ReadMessage, ReadNothing, Accept
  <2>3. /\ \A c \in Connections : peer[c] = "open" => peer'[c] = "open"
        /\ \A c \in In : peer'[c] # "trying"
    BY <1>0, <1>5 DEF NoTick, StartTick, EndTick, Timeout, PollReturn, Skip,
                      EndInvoke, StartRun, ConnectBeforeRead, ConnectSucceeds,
                      ReadMessage, ReadNothing, Accept, peerVars
  <2> QED
    BY <2>1, <2>2, <2>3, ListUntouched
<1>6. ASSUME NEW t \in Threads, GetEvent(t)
      PROVE  Listed'
  BY <1>1, <1>6 DEF GetEvent, listVars, historyVars, peerVars, readVars
<1>7. ASSUME NEW t \in Threads, Invoke(t)
      PROVE  Listed'
  BY <1>1, <1>7 DEF Invoke, listVars, historyVars, peerVars
<1>8. ASSUME NEW c \in Connections, Connect(c)
      PROVE  Listed'
  BY <1>8, ConnectKeepsList
<1>9. ASSUME NEW c \in Connections, PeerSends(c)
      PROVE  Listed'
  BY <1>1, <1>9 DEF PeerSends, listVars, historyVars, readVars
<1>10. ASSUME NEW c \in Connections, PeerConnects(c)
       PROVE  Listed'
  <2>1. /\ UNCHANGED <<initialConnectionList, asked, slow, handlers, manager, at>>
        /\ \A d \in Connections : peer[d] = "open" => peer'[d] = "open"
        /\ \A d \in In : peer'[d] # "trying"
    BY <1>0, <1>10 DEF PeerConnects, listVars, historyVars, readVars
  <2> QED
    BY <2>1, ListUntouched
<1> QED
  BY <1>2, <1>3, <1>4, <1>5, <1>6, <1>7, <1>8, <1>9, <1>10
  DEF Next, Manager, Application, Others

-----------------------------------------------------------------------------
(* The event pool. *)

Passed == taken \o eventList

Pooled == EventInv /\ EventsInOrder /\ HeldInv /\ OwnedOnce

\* The order of EventsInOrder, of a sequence of events.
Ordered(s) ==
  \A m, n \in DOMAIN s : m < n /\ s[m].cc = s[n].cc => s[m].num < s[n].num

\* Events in strict order differ; so what was taken is not in the pool.
LEMMA TakenIsNotPooled ==
  ASSUME NEW a \in Seq(Events), NEW b \in Seq(Events),
         Ordered(a \o b), NEW m \in DOMAIN a, NEW n \in DOMAIN b
  PROVE  a[m] # b[n]
<1>1. /\ m \in DOMAIN (a \o b) /\ (a \o b)[m] = a[m]
      /\ Len(a) + n \in DOMAIN (a \o b) /\ (a \o b)[Len(a) + n] = b[n]
      /\ m < Len(a) + n
  OBVIOUS
<1>2. a[m].num \in Nat
  <2>1. a[m] \in Events
    OBVIOUS
  <2> QED
    BY <2>1 DEF Events
<1>3. SUFFICES ASSUME a[m] = b[n] PROVE FALSE
  OBVIOUS
<1>4. a[m].num < a[m].num
  BY <1>1, <1>3 DEF Ordered
<1> QED
  BY <1>2, <1>4

LEMMA InitIsPooled ==
  ASSUME Init
  PROVE  Pooled
<1>1. /\ Passed = <<>> /\ DOMAIN Passed = {} /\ taken = <<>> /\ eventList = <<>>
      /\ \A t \in Threads : thread[t] = "out"
  BY DEF Init, PoolInit, Passed
<1>2. EventInv
  BY <1>1 DEF Init, EventInv, Passed
<1>3. EventsInOrder
  BY <1>1 DEF Init, EventsInOrder, Passed
<1> QED
  BY <1>1, <1>2, <1>3 DEF Pooled, HeldInv, OwnedOnce

\* A step that leaves the pool alone keeps its invariant if connections only
\* open, and as outgoing ones that have received nothing.
LEMMA PoolUntouched ==
  ASSUME IInv, UNCHANGED <<eventList, taken, received>>,
         \A t \in Threads : thread'[t] = "invoke" =>
           thread[t] = "invoke" /\ current'[t] = current[t],
         \A t \in Threads : current'[t] = current[t] \/ current'[t] = NULL,
         \A c \in Connections : peer[c] = "open" => peer'[c] = "open",
         \A c \in In : peer'[c] = "open" => peer[c] = "open"
  PROVE  Pooled'
<1>1. Passed \in Seq(Events) /\ Passed' = Passed
  BY DEF Passed, IInv, TypeOK
<1>2. EventInv'
  <2>1. ASSUME NEW n \in DOMAIN Passed
        PROVE  /\ Passed[n].num <= received[Passed[n].cc] /\ peer'[Passed[n].cc] = "open"
               /\ Passed[n].type = "ACCEPT" => Passed[n].cc \in In
    <3>1. Passed[n] \in Events
      BY <1>1
    <3>2. Passed[n].cc \in Connections
      BY <3>1 DEF Events
    <3> QED
      BY <3>2 DEF IInv, EventInv, Passed
  <2>2. \A c \in Connections : peer'[c] # "open" => received[c] = 0
    BY DEF IInv, EventInv
  <2> QED
    BY <1>1, <2>1, <2>2 DEF EventInv, Passed
<1>3. EventsInOrder'
  <2>1. ASSUME NEW c \in Connections, peer'[c] = "open",
               NEW k \in (IF c \in In THEN 0 ELSE 1) .. received[c]
        PROVE  \E n \in DOMAIN Passed : Passed[n].cc = c /\ Passed[n].num = k
    <3>1. peer[c] = "open"
      BY <2>1 DEF IInv, EventInv
    <3> QED
      BY <3>1 DEF IInv, EventsInOrder, Passed
  <2> QED
    BY <1>1, <2>1 DEF IInv, EventsInOrder, Passed
<1>4. HeldInv'
  BY DEF IInv, HeldInv
<1>5. OwnedOnce'
  BY DEF IInv, OwnedOnce, TypeOK
<1> QED
  BY <1>2, <1>3, <1>4, <1>5 DEF Pooled

\* Adding an event of a connection that is later than all it has there.
LEMMA PoolGrows ==
  ASSUME IInv, NEW c \in Connections, NEW ev \in Events, AddEvent(ev),
         UNCHANGED <<taken, thread, current>>, ev.cc = c,
         ev.type = "ACCEPT" => c \in In,
         peer'[c] = "open",
         \A d \in Connections \ {c} : peer'[d] = peer[d] /\ received'[d] = received[d],
         received'[c] = ev.num, received[c] <= ev.num,
         \A n \in DOMAIN Passed : Passed[n].cc = c => Passed[n].num < ev.num,
         \A k \in (IF c \in In THEN 0 ELSE 1) .. ev.num - 1 :
           \E n \in DOMAIN Passed : Passed[n].cc = c /\ Passed[n].num = k
  PROVE  Pooled'
<1>1. /\ Passed \in Seq(Events) /\ Passed' = Append(Passed, ev)
      /\ eventList' \in Seq(Events) /\ taken' = taken /\ taken \in Seq(Events)
  BY AppendConcat DEF Passed, IInv, TypeOK, AddEvent
<1>2. /\ DOMAIN Passed = 1 .. Len(Passed) /\ DOMAIN Passed' = 1 .. Len(Passed) + 1
      /\ \A n \in 1 .. Len(Passed) : Passed'[n] = Passed[n]
      /\ Passed'[Len(Passed) + 1] = ev /\ Len(Passed) \in Nat
  BY <1>1, AppendFacts
<1>3. \A n \in DOMAIN Passed : Passed[n].cc \in Connections /\ Passed[n].num \in Nat
  <2>1. \A n \in DOMAIN Passed : Passed[n] \in Events
    BY <1>1
  <2> QED
    BY <2>1 DEF Events
<1>4. received[c] \in Nat /\ ev.num \in Nat
  BY DEF IInv, TypeOK, Events
<1>5. EventInv'
  <2>1. ASSUME NEW n \in DOMAIN Passed
        PROVE  /\ Passed[n].num <= received'[Passed[n].cc] /\ peer'[Passed[n].cc] = "open"
               /\ Passed[n].type = "ACCEPT" => Passed[n].cc \in In
    <3>1. /\ Passed[n].num <= received[Passed[n].cc] /\ peer[Passed[n].cc] = "open"
          /\ Passed[n].type = "ACCEPT" => Passed[n].cc \in In
      BY DEF IInv, EventInv, Passed
    <3> QED
      BY <1>3, <1>4, <3>1
  <2>2. \A d \in Connections : peer'[d] # "open" => received'[d] = 0
    BY DEF IInv, EventInv
  <2>3. \A n \in DOMAIN Passed' :
          /\ Passed'[n].num <= received'[Passed'[n].cc] /\ peer'[Passed'[n].cc] = "open"
          /\ Passed'[n].type = "ACCEPT" => Passed'[n].cc \in In
    BY <1>2, <1>4, <2>1
  <2> QED
    BY <2>2, <2>3 DEF EventInv, Passed
<1>6. \A m, n \in DOMAIN Passed' :
        m < n /\ Passed'[m].cc = Passed'[n].cc => Passed'[m].num < Passed'[n].num
  <2>1. \A m, n \in DOMAIN Passed :
          m < n /\ Passed[m].cc = Passed[n].cc => Passed[m].num < Passed[n].num
    BY DEF IInv, EventsInOrder, Passed
  <2> QED
    BY <1>2, <2>1
<1>7. ASSUME NEW d \in Connections, peer'[d] = "open",
             NEW k \in (IF d \in In THEN 0 ELSE 1) .. received'[d]
      PROVE  \E n \in DOMAIN Passed' : Passed'[n].cc = d /\ Passed'[n].num = k
  <2>1. CASE d # c
    <3>1. \E n \in DOMAIN Passed : Passed[n].cc = d /\ Passed[n].num = k
      BY <1>7, <2>1 DEF IInv, EventsInOrder, Passed
    <3> QED
      BY <1>2, <3>1
  <2>2. CASE d = c /\ k = ev.num
    BY <1>2, <2>2
  <2>3. CASE d = c /\ k # ev.num
    <3>1. \E n \in DOMAIN Passed : Passed[n].cc = d /\ Passed[n].num = k
      BY <1>4, <2>3
    <3> QED
      BY <1>2, <3>1
  <2> QED
    BY <2>1, <2>2, <2>3
<1>8. EventsInOrder'
  BY <1>6, <1>7 DEF EventsInOrder, Passed
<1>9. HeldInv'
  BY DEF IInv, HeldInv
<1>10. ASSUME NEW t \in Threads, thread'[t] = "invoke", NEW n \in DOMAIN eventList'
       PROVE  eventList'[n] # current'[t]
  <2>1. /\ Len(eventList) \in Nat /\ DOMAIN eventList = 1 .. Len(eventList)
        /\ DOMAIN eventList' = 1 .. Len(eventList) + 1
        /\ \A i \in 1 .. Len(eventList) : eventList'[i] = eventList[i]
        /\ eventList'[Len(eventList) + 1] = ev
    BY AppendFacts DEF IInv, TypeOK, AddEvent
  <2>2. PICK m \in DOMAIN taken : taken[m] = current[t]
    BY <1>10 DEF IInv, HeldInv
  <2>3. m \in DOMAIN Passed /\ Passed[m] = taken[m]
    <3>1. taken \in Seq(Events) /\ eventList \in Seq(Events)
      BY DEF IInv, TypeOK
    <3> QED
      BY <3>1 DEF Passed
  <2>4. current[t] # ev
    <3>1. CASE Passed[m].cc = c
      BY <1>3, <1>4, <2>2, <2>3, <3>1
    <3> QED
      BY <2>2, <2>3, <3>1
  <2> QED
    BY <1>10, <2>1, <2>4 DEF IInv, OwnedOnce
<1>11. OwnedOnce'
  BY <1>10 DEF IInv, OwnedOnce
<1> QED
  BY <1>5, <1>8, <1>9, <1>11 DEF Pooled

LEMMA TakeFrontKeepsPool ==
  ASSUME IInv, NEW t \in Threads, TakeFront(t), UNCHANGED <<peer, received>>
  PROVE  Pooled'
<1> DEFINE front == Head(eventList)
<1>1. /\ taken \in Seq(Events) /\ eventList \in Seq(Events) /\ eventList # <<>>
      /\ taken' = Append(taken, front) /\ eventList' = Tail(eventList)
      /\ front \in Events /\ front # NULL
      /\ current' = [current EXCEPT ![t] = front]
      /\ thread' = [thread EXCEPT ![t] = "invoke"] /\ thread[t] = "found"
      /\ thread \in [Threads -> {"out", "found", "invoke"}]
      /\ current \in [Threads -> Events \cup {NULL}]
  BY DEF IInv, TypeOK, TakeFront
<1>2. Passed' = Passed /\ taken' \in Seq(Events) /\ eventList' \in Seq(Events)
  BY <1>1, MoveKeepsConcat DEF Passed
<1>3. EventInv' /\ EventsInOrder'
  <2>1. taken' \o eventList' = taken \o eventList
    BY <1>2 DEF Passed
  <2>2. EventInv'
    BY <2>1, Zenon DEF IInv, EventInv
  <2>3. EventsInOrder'
    <3>1. ASSUME NEW c \in Connections, peer[c] = "open",
                 NEW k \in (IF c \in In THEN 0 ELSE 1) .. received[c]
          PROVE  \E n \in DOMAIN Passed : Passed[n].cc = c /\ Passed[n].num = k
      BY <3>1 DEF IInv, EventsInOrder, Passed
    <3>2. Ordered(Passed)
      BY DEF IInv, EventsInOrder, Passed, Ordered
    <3>3. /\ Ordered(Passed')
          /\ \A c \in Connections : peer'[c] = "open" =>
               \A k \in (IF c \in In THEN 0 ELSE 1) .. received'[c] :
                 \E n \in DOMAIN Passed' : Passed'[n].cc = c /\ Passed'[n].num = k
      BY <1>2, <3>1, <3>2
    <3> QED
      BY <3>3 DEF EventsInOrder, Passed, Ordered
  <2> QED
    BY <2>2, <2>3
<1>4. /\ DOMAIN taken = 1 .. Len(taken) /\ DOMAIN taken' = 1 .. Len(taken) + 1
      /\ \A n \in 1 .. Len(taken) : taken'[n] = taken[n]
      /\ taken'[Len(taken) + 1] = front /\ Len(taken) \in Nat
  BY <1>1, AppendFacts
<1>5. HeldInv'
  BY <1>1, <1>4 DEF IInv, HeldInv
<1>6. ASSUME NEW u \in Threads \ {t}
      PROVE  current'[u] = current[u] /\ current[u] # front
  <2>1. current'[u] = current[u]
    BY <1>1
  <2>2. CASE thread[u] = "invoke"
    <3>1. 1 \in DOMAIN eventList /\ eventList[1] = front
      BY <1>1
    <3> QED
      BY <2>1, <2>2, <3>1 DEF IInv, OwnedOnce
  <2>3. CASE thread[u] # "invoke"
    BY <1>1, <2>1, <2>3 DEF IInv, TypeOK
  <2> QED
    BY <2>2, <2>3
<1>7. ASSUME NEW u \in Threads, thread'[u] = "invoke", NEW v \in Threads \ {u}
      PROVE  current'[v] # current'[u]
  <2>1. CASE u = t
    BY <1>1, <1>6, <2>1
  <2>2. CASE u # t /\ v = t
    BY <1>1, <1>6, <2>2
  <2>3. CASE u # t /\ v # t
    BY <1>1, <1>6, <1>7, <2>3 DEF IInv, OwnedOnce
  <2> QED
    BY <2>1, <2>2, <2>3
<1>8. ASSUME NEW u \in Threads, thread'[u] = "invoke", NEW n \in DOMAIN eventList'
      PROVE  eventList'[n] # current'[u]
  <2>1. PICK m \in DOMAIN taken' : taken'[m] = current'[u]
    BY <1>5, <1>8 DEF HeldInv
  <2>2. taken'[m] # eventList'[n]
    <3>1. Ordered(taken' \o eventList')
      BY <1>3, Zenon DEF EventsInOrder, Ordered
    <3> QED
      BY <3>1, <1>2, <1>8, <2>1, TakenIsNotPooled, Zenon
  <2> QED
    BY <2>1, <2>2
<1> QED
  BY <1>3, <1>5, <1>7, <1>8 DEF Pooled, OwnedOnce

LEMMA AcceptKeepsPool ==
  ASSUME IInv, NEW c \in In, Accept(c)
  PROVE  Pooled'
<1> DEFINE ev == Event("ACCEPT", c, 0)
<1>1. c \in Connections /\ ev \in Events /\ AddEvent(ev)
  BY EventIsTyped DEF IInv, Accept, Connections
<1>2. ev.cc = c /\ ev.num = 0 /\ ev.type = "ACCEPT"
  BY DEF Event
<1>3. /\ UNCHANGED <<taken, thread, current, received>>
      /\ peer[c] = "pending" /\ peer' = [peer EXCEPT ![c] = "open"]
      /\ peer \in [Connections -> {"closed", "pending", "trying", "open"}]
  BY DEF IInv, TypeOK, Accept, readVars
<1>4. received[c] = 0
  BY <1>1, <1>3 DEF IInv, EventInv
<1>5. \A n \in DOMAIN Passed : Passed[n].cc # c
  BY <1>3 DEF IInv, EventInv, Passed
<1> HIDE DEF ev
<1>6. /\ peer'[c] = "open"
      /\ \A d \in Connections \ {c} : peer'[d] = peer[d] /\ received'[d] = received[d]
      /\ received'[c] = ev.num /\ received[c] <= ev.num
  BY <1>1, <1>2, <1>3, <1>4
<1>7. \A k \in (IF c \in In THEN 0 ELSE 1) .. ev.num - 1 :
        \E n \in DOMAIN Passed : Passed[n].cc = c /\ Passed[n].num = k
  BY <1>2
<1> QED
  BY <1>1, <1>2, <1>3, <1>5, <1>6, <1>7, PoolGrows

LEMMA ReadMessageKeepsPool ==
  ASSUME IInv, ReadMessage
  PROVE  Pooled'
<1> DEFINE c == Runs
           ev == Event("RECIVE", c, received[c] + 1)
<1>1. c \in Connections /\ peer[c] = "open"
  BY RunsFacts DEF IInv, ReadMessage
<1>2. /\ received[c] \in Nat /\ received[c] + 1 \in 0 .. MaxMessages
      /\ received' = [received EXCEPT ![c] = @ + 1]
      /\ received \in [Connections -> 0 .. MaxMessages]
      /\ UNCHANGED <<taken, thread, current, peer>> /\ AddEvent(ev)
  BY <1>1 DEF IInv, TypeOK, ReadMessage, peerVars
<1>3. ev \in Events
  BY <1>1, <1>2, EventIsTyped DEF IInv
<1>4. ev.cc = c /\ ev.num = received[c] + 1 /\ ev.type = "RECIVE"
  BY DEF Event
<1>5. ASSUME NEW n \in DOMAIN Passed, Passed[n].cc = c
      PROVE  Passed[n].num < ev.num
  <2>1. Passed[n].num <= received[c]
    BY <1>5 DEF IInv, EventInv, Passed
  <2>2. Passed[n] \in Events
    BY DEF Passed, IInv, TypeOK
  <2>3. Passed[n].num \in Nat
    BY <2>2 DEF Events
  <2> QED
    BY <1>2, <1>4, <2>1, <2>3
<1>6. \A k \in (IF c \in In THEN 0 ELSE 1) .. received[c] :
        \E n \in DOMAIN Passed : Passed[n].cc = c /\ Passed[n].num = k
  BY <1>1 DEF IInv, EventsInOrder, Passed
<1> HIDE DEF c, ev
<1>7. /\ peer'[c] = "open"
      /\ \A d \in Connections \ {c} : peer'[d] = peer[d] /\ received'[d] = received[d]
      /\ received'[c] = ev.num /\ received[c] <= ev.num
      /\ ev.num - 1 = received[c]
  BY <1>1, <1>2, <1>4
<1>8. \A k \in (IF c \in In THEN 0 ELSE 1) .. ev.num - 1 :
        \E n \in DOMAIN Passed : Passed[n].cc = c /\ Passed[n].num = k
  BY <1>6, <1>7
<1> QED
  BY <1>1, <1>2, <1>3, <1>4, <1>5, <1>7, <1>8, PoolGrows

\* Attempts of the application's connections start and succeed, and no other.
LEMMA ConnectKeepsPool ==
  ASSUME IInv, ConnectFront \/ ConnectTries \/ ConnectFails \/ ConnectBeforeRead
  PROVE  Pooled'
<1>1. peer \in [Connections -> {"closed", "pending", "trying", "open"}]
  BY DEF IInv, TypeOK
<1>2. ASSUME Looks, ConnectSucceeds(Front)
      PROVE  /\ \A c \in Connections : peer[c] = "open" => peer'[c] = "open"
             /\ \A c \in In : peer'[c] = "open" => peer[c] = "open"
  BY <1>1, <1>2, LooksFacts DEF ConnectSucceeds, Connections
<1>3. /\ \A c \in Connections : peer[c] = "open" => peer'[c] = "open"
      /\ \A c \in In : peer'[c] = "open" => peer[c] = "open"
  <2>1. CASE ConnectFront
    BY <1>2, <2>1 DEF ConnectFront
  <2>2. CASE ConnectTries
    BY <1>1, <2>2 DEF ConnectTries, Connections
  <2>3. CASE ConnectFails
    BY <2>3 DEF ConnectFails
  <2>4. CASE ConnectBeforeRead
    <3>1. Runs \in Out
      BY <2>4, RunsFacts DEF ConnectBeforeRead, IInv, TryingInv, Connections
    <3> QED
      BY <1>1, <2>4, <3>1 DEF ConnectBeforeRead, ConnectSucceeds, Connections
  <2> QED
    BY <2>1, <2>2, <2>3, <2>4
<1>4. UNCHANGED <<eventList, taken, received, thread, current>>
  BY DEF ConnectFront, ConnectTries, ConnectFails, ConnectBeforeRead, PassFront,
         poolVars, readVars
<1> QED
  BY <1>3, <1>4, PoolUntouched

LEMMA StepKeepsPool ==
  ASSUME IInv, [Next]_vars
  PROVE  Pooled'
<1>0. /\ peer \in [Connections -> {"closed", "pending", "trying", "open"}]
      /\ In \subseteq Connections
      /\ thread \in [Threads -> {"out", "found", "invoke"}]
      /\ current \in [Threads -> Events \cup {NULL}]
  BY DEF IInv, TypeOK, Connections
<1>1. CASE UNCHANGED vars
  <2>1. UNCHANGED <<eventList, taken, received, thread, current, peer>>
    BY <1>1 DEF vars
  <2> QED
    BY <2>1, <1>0, PoolUntouched
<1>2. ASSUME \/ NoTick \/ StartTick \/ EndTick \/ Timeout \/ PollReturn
             \/ Skip \/ EndInvoke \/ StartRun \/ ReadNothing
      PROVE  Pooled'
  <2>1. UNCHANGED <<eventList, taken, received, thread, current, peer>>
    BY <1>2 DEF NoTick, StartTick, EndTick, Timeout, PollReturn, Skip, EndInvoke,
                StartRun, ReadNothing, poolVars, peerVars, readVars
  <2> QED
    BY <2>1, <1>0, PoolUntouched
<1>3. ASSUME NEW t \in Threads, FindEvent(t) \/ TakeNothing(t),
             UNCHANGED <<received, peer>>
      PROVE  Pooled'
  <2>1. /\ UNCHANGED <<eventList, taken, current>>
        /\ \A u \in Threads : thread'[u] = "invoke" => thread[u] = "invoke"
    BY <1>0, <1>3 DEF FindEvent, TakeNothing
  <2> QED
    BY <2>1, <1>0, <1>3, PoolUntouched
<1>4. ASSUME NEW t \in Threads, GetEvent(t)
      PROVE  Pooled'
  BY <1>3, <1>4, TakeFrontKeepsPool DEF GetEvent, peerVars, readVars
<1>5. ASSUME NEW t \in Threads, Invoke(t)
      PROVE  Pooled'
  <2>1. /\ UNCHANGED <<eventList, taken, received, peer>>
        /\ thread' = [thread EXCEPT ![t] = "out"]
        /\ current' = [current EXCEPT ![t] = NULL]
    BY <1>5 DEF Invoke, DeleteEvent, peerVars
  <2>2. /\ \A u \in Threads : thread'[u] = "invoke" =>
             thread[u] = "invoke" /\ current'[u] = current[u]
        /\ \A u \in Threads : current'[u] = current[u] \/ current'[u] = NULL
    BY <1>0, <2>1
  <2> QED
    BY <2>1, <2>2, <1>0, PoolUntouched
<1>6. ASSUME NEW c \in Connections, Others(c)
      PROVE  Pooled'
  <2>1. /\ UNCHANGED <<eventList, taken, received, thread, current>>
        /\ \A d \in Connections : peer'[d] = "open" <=> peer[d] = "open"
    BY <1>0, <1>6 DEF Others, Connect, AddInterface, PeerConnects, PeerSends, poolVars, peerVars,
                      readVars
  <2> QED
    BY <2>1, <1>0, PoolUntouched
<1> QED
  BY <1>1, <1>2, <1>4, <1>5, <1>6, ConnectKeepsPool, AcceptKeepsPool,
     ReadMessageKeepsPool
  DEF Next, Manager, Application

-----------------------------------------------------------------------------
(* The theorems. *)

LEMMA InvIsInductive == Spec => []IInv
<1>1. Init => IInv
  BY InitIsTyped, InitIsRegistered, InitIsListed, InitIsPooled
  DEF IInv, Registered, Listed, Pooled
<1>2. IInv /\ [Next]_vars => IInv'
  BY StepIsTyped, StepKeepsRegistry, StepKeepsList, StepKeepsPool
  DEF IInv, Registered, Listed, Pooled
<1> QED
  BY <1>1, <1>2, PTL DEF Spec

\* The variables have their types, and a thread holds an event exactly while it
\* invokes it.
THEOREM TypeCorrect == Spec => []TypeOK
<1>1. IInv => TypeOK
  BY DEF IInv
<1> QED
  BY <1>1, InvIsInductive, PTL

\* However connections are made and accepted, each open one is watched, and once.
THEOREM EachWatchedOnce == Spec => []WatchedOnce
<1>1. IInv => WatchedOnce
  BY DEF IInv
<1> QED
  BY <1>1, InvIsInductive, PTL

\* A requested connection is connected or in the list, or was dropped behind an
\* earlier one whose attempt took more than one look, and which is connected.
THEOREM RequestsAreKept == Spec => []RequestedIsKept
<1>1. IInv => RequestedIsKept
  BY DEF IInv
<1> QED
  BY <1>1, InvIsInductive, PTL

\* The pool hands over one event for every message received, none twice, those of
\* a connection in their order.
THEOREM EventsKeepOrder == Spec => []EventsInOrder
<1>1. IInv => EventsInOrder
  BY DEF IInv
<1> QED
  BY <1>1, InvIsInductive, PTL

\* No two threads hold the same event, and none holds one that is in the pool.
THEOREM EventsHaveOneOwner == Spec => []OwnedOnce
<1>1. IInv => OwnedOnce
  BY DEF IInv
<1> QED
  BY <1>1, InvIsInductive, PTL
=============================================================================
