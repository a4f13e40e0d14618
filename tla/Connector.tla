------------------------------ MODULE Connector ------------------------------
(***************************************************************************)
(* A Connector: one ConnectionManager with its thread, one acceptor, one   *)
(* event pool, and the connections of both kinds, those the application    *)
(* asked for and those that were accepted.  The manager's thread goes over *)
(* initialConnectionList, polls what is registered, and runs one interface *)
(* after the other; the application's threads invoke the events.           *)
(*                                                                         *)
(* A look at a connection leaves it without a descriptor, under way with   *)
(* one, or connected.  An attempt under way keeps its descriptor, and no   *)
(* connection is lost (ConnectionLife); nothing is written (WriteInterest).*)
(* So an interface has one descriptor as long as it has any, and stands    *)
(* for it.  A message is what one recv() of the socket brings whole        *)
(* (ChunkedConnection).  The manager polls (HAVE_POLL), and accepted       *)
(* sockets are blocking, those NonBlockConnect made are not.               *)
(***************************************************************************)
EXTENDS EventPool, Naturals, FiniteSets

CONSTANTS
  Out,            \* connections the application asks for
  In,             \* peers that connect to this process
  Acceptor,
  Talking,        \* bound: connections whose peers send something
  MaxMessages     \* bound: messages each of them sends

ASSUME ConnectorAssumption ==
  /\ Out \cap In = {} /\ Acceptor \notin Out \cup In
  /\ Talking \subseteq Out \cup In /\ MaxMessages \in Nat

Connections == Out \cup In
Interfaces == Connections \cup {Acceptor}

Events == [type : {"ACCEPT", "RECIVE"}, cc : Connections, num : 0 .. MaxMessages,
           handled : BOOLEAN]

ASSUME NullAssumption == NULL \notin Events

VARIABLES
  initialConnectionList,
  connectionStatusMap,   \* interfaces that have a ManagerInterface
  pollfds,               \* the interfaces whose descriptors are watched
  manager,               \* where the manager's thread is
  at,                    \* its iterator in initialConnectionList or pollfds; 0
  revents,               \* interfaces poll() reported and Run has to serve
  peer,                  \* each connection: "closed", "pending" or "trying", "open"
  sent,                  \* how many messages the peer has sent
  received,              \* how many of them were read from the socket
  handlers,              \* connections whose read handlers are set
  asked,                 \* history: the connections in the order of the requests
  slow                   \* history: those that a look did not find connected

historyVars == <<asked, slow>>
listVars == <<initialConnectionList, historyVars>>
watchVars == <<connectionStatusMap, pollfds>>
peerVars == <<peer, sent>>
readVars == <<received, handlers>>
vars == <<eventList, thread, current, taken, broken, initialConnectionList,
          connectionStatusMap, pollfds, manager, at, revents, peer, sent, received,
          handlers, asked, slow>>

Event(type, c, n) ==
  [type |-> type, cc |-> c, num |-> n, handled |-> type = "ACCEPT" \/ c \in handlers]

\* Connector::Connector has registered the acceptor and started the thread.
Init ==
  /\ PoolInit
  /\ initialConnectionList = <<Acceptor>>
  /\ connectionStatusMap = {} /\ pollfds = <<>>
  /\ manager = "tick" /\ at = 0 /\ revents = {}
  /\ peer = [c \in Connections |-> "closed"]
  /\ sent = [c \in Connections |-> 0]
  /\ received = [c \in Connections |-> 0]
  /\ handlers = {} /\ asked = <<>> /\ slow = {}

-----------------------------------------------------------------------------
(* The manager's registry. *)

IsConnect(i) == i = Acceptor \/ peer[i] = "open"

AddFDWatcher(i) == pollfds' = Append(pollfds, i)

\* The ManagerInterface of i, a new one if there is none.
GetManagerInterface(i) == connectionStatusMap' = connectionStatusMap \cup {i}

\* Mutant: the descriptor is added whether or not it is watched already.
UpdateAlways(i) ==
  /\ connectionStatusMap' = connectionStatusMap \cup {i}
  /\ pollfds' = Append(pollfds, i)

\* UpdateSelectStatus(i, fd, READ) of an interface with a descriptor, which is the
\* same at every call.
UpdateSelectStatus(i) ==
  /\ GetManagerInterface(i)
  /\ IF i \in connectionStatusMap THEN UNCHANGED pollfds ELSE AddFDWatcher(i)

NoTick ==
  /\ manager = "tick"
  /\ initialConnectionList = <<>>
  /\ manager' = "poll"
  /\ UNCHANGED <<poolVars, listVars, watchVars, at, revents, peerVars,
                 readVars>>

\* Lock initialConnectionListMutex and start at begin().
StartTick ==
  /\ manager = "tick"
  /\ initialConnectionList # <<>>
  /\ manager' = "connect" /\ at' = 1
  /\ UNCHANGED <<poolVars, listVars, watchVars, revents, peerVars, readVars>>

Without(s, n) == SubSeq(s, 1, n - 1) \o SubSeq(s, n + 1, Len(s))

\* The loop looks at the FIRST interface of the list each time round.
Looks == manager = "connect" /\ at <= Len(initialConnectionList)
Front == Head(initialConnectionList)

\* Connect() of an interface, and then IsConnect().
ConnectSucceeds(i) ==
  peer' = IF i = Acceptor THEN peer ELSE [peer EXCEPT ![i] = "open"]

\* Mutant: the interface leaves the list without being watched.
ConnectUnwatched ==
  /\ Looks /\ ConnectSucceeds(Front)
  /\ initialConnectionList' = Without(initialConnectionList, at)
  /\ UNCHANGED <<poolVars, historyVars, watchVars, manager, at, revents, sent,
                 readVars>>

\* Mutant: the iterator moves on as well.
ConnectAndSkip ==
  /\ Looks /\ ConnectSucceeds(Front)
  /\ UpdateSelectStatus(Front)
  /\ initialConnectionList' = Without(initialConnectionList, at)
  /\ at' = at + 1
  /\ UNCHANGED <<poolVars, historyVars, manager, revents, sent, readVars>>

\* If the first interface is connected, the one the iterator is at is erased.
ConnectFront ==
  /\ Looks /\ ConnectSucceeds(Front)
  /\ UpdateSelectStatus(Front)
  /\ initialConnectionList' = Without(initialConnectionList, at)
  /\ UNCHANGED <<poolVars, historyVars, manager, at, revents, sent, readVars>>

\* The iterator moves on and leaves the first interface where it is.
PassFront ==
  /\ at' = at + 1
  /\ slow' = slow \cup {Front}
  /\ UNCHANGED <<poolVars, initialConnectionList, asked, manager, revents, sent,
                 readVars>>

\* connect() would block: there is a descriptor, and it is watched, but no
\* connection yet, nor anything that came over it.
ConnectTries ==
  /\ Looks /\ Front \in Out
  /\ peer[Front] \in {"closed", "trying"} /\ sent[Front] = 0
  /\ peer' = [peer EXCEPT ![Front] = "trying"]
  /\ UpdateSelectStatus(Front)
  /\ PassFront

\* The name is not found, or all of its addresses refuse at once: no descriptor.
ConnectFails ==
  /\ Looks /\ Front \in Out
  /\ peer[Front] = "closed"
  /\ PassFront
  /\ UNCHANGED <<watchVars, peer>>

EndTick ==
  /\ manager = "connect" /\ at > Len(initialConnectionList)
  /\ manager' = "poll" /\ at' = 0
  /\ UNCHANGED <<poolVars, listVars, watchVars, revents, peerVars, readVars>>

-----------------------------------------------------------------------------
(* poll() and Invoke. *)

\* A descriptor with something to read.
Ready(i) == IF i = Acceptor THEN \E c \in In : peer[c] = "pending"
            ELSE peer[i] \in {"trying", "open"} /\ received[i] < sent[i]

Watched == {pollfds[n] : n \in DOMAIN pollfds}

\* The timeout, or usleep() when nothing is watched.
Timeout ==
  /\ manager = "poll"
  /\ \A i \in Watched : ~Ready(i)
  /\ manager' = "tick"
  /\ UNCHANGED <<poolVars, listVars, watchVars, at, revents, peerVars,
                 readVars>>

PollReturn ==
  /\ manager = "poll"
  /\ \E i \in Watched : Ready(i)
  /\ revents' = {i \in Watched : Ready(i)}
  /\ manager' = "invoke" /\ at' = 1
  /\ UNCHANGED <<poolVars, listVars, watchVars, peerVars, readVars>>

\* The loop goes over pollfds, which may grow meanwhile, until everything
\* poll() counted has been served.
Skip ==
  /\ manager = "invoke" /\ revents # {}
  /\ pollfds[at] \notin revents
  /\ at' = at + 1
  /\ UNCHANGED <<poolVars, listVars, watchVars, manager, revents, peerVars,
                 readVars>>

EndInvoke ==
  /\ manager = "invoke" /\ revents = {}
  /\ manager' = "tick" /\ at' = 0
  /\ UNCHANGED <<poolVars, listVars, watchVars, revents, peerVars, readVars>>

Served(i) == revents' = revents \ {i} /\ at' = at + 1

\* ConnectionAcceptor::Run: one connection, its watcher, its event.
Accept(c) ==
  /\ manager = "invoke" /\ revents # {}
  /\ pollfds[at] = Acceptor /\ Acceptor \in revents
  /\ c \in In /\ peer[c] = "pending"
  /\ peer' = [peer EXCEPT ![c] = "open"]
  /\ UpdateSelectStatus(c)
  /\ AddEvent(Event("ACCEPT", c, 0))
  /\ Served(Acceptor)
  /\ UNCHANGED <<thread, current, taken, broken, listVars, manager, sent,
                 readVars>>

StartRun ==
  /\ manager = "invoke" /\ revents # {}
  /\ pollfds[at] \in revents \ {Acceptor}
  /\ manager' = "run"
  /\ UNCHANGED <<poolVars, listVars, watchVars, at, revents, peerVars,
                 readVars>>

Runs == pollfds[at]

\* RunRead connects first.  What came over an attempt under way shows that it has
\* succeeded, and Connect() finds it so.
ConnectBeforeRead ==
  /\ manager = "run" /\ peer[Runs] = "trying"
  /\ ConnectSucceeds(Runs)
  /\ UNCHANGED <<poolVars, listVars, watchVars, manager, at, revents, sent,
                 readVars>>

\* ChunkedConnection::Run reads a message, adds its event, and reads again.  The
\* event gets the handler the connection has now.
ReadMessage ==
  /\ manager = "run" /\ peer[Runs] = "open"
  /\ received[Runs] < sent[Runs]
  /\ received' = [received EXCEPT ![Runs] = @ + 1]
  /\ AddEvent(Event("RECIVE", Runs, received[Runs] + 1))
  /\ UNCHANGED <<thread, current, taken, broken, listVars, watchVars, manager,
                 at, revents, peerVars, handlers>>

\* A socket that is not blocking says that there is nothing left.  An accepted
\* one does not: the manager's thread stays in recv().
ReadNothing ==
  /\ manager = "run" /\ peer[Runs] = "open"
  /\ Runs \in Out /\ received[Runs] = sent[Runs]
  /\ manager' = "invoke" /\ Served(Runs)
  /\ UNCHANGED <<poolVars, listVars, watchVars, peerVars, readVars>>

Manager ==
  \/ NoTick \/ StartTick \/ ConnectFront \/ ConnectTries \/ ConnectFails \/ EndTick
  \/ Timeout \/ PollReturn \/ Skip \/ EndInvoke
  \/ \E c \in In : Accept(c)
  \/ StartRun \/ ConnectBeforeRead \/ ReadMessage \/ ReadNothing

-----------------------------------------------------------------------------
(* The application and its peers. *)

\* Waits for initialConnectionListMutex.
AddInterface(i) ==
  /\ manager # "connect"
  /\ initialConnectionList' = Append(initialConnectionList, i)

\* Connector::Connect: a new ChunkedConnection with its handlers.
Connect(c) ==
  /\ c \in Out \ handlers
  /\ handlers' = handlers \cup {c}
  /\ AddInterface(c)
  /\ asked' = Append(asked, c)
  /\ UNCHANGED <<poolVars, slow, watchVars, manager, at, revents, peerVars,
                 received>>

\* The event's handler runs; the one of an accepted connection sets the
\* connection's handlers.
Invoke(t) ==
  /\ DeleteEvent(t)
  /\ handlers' = IF current[t].type = "ACCEPT" THEN handlers \cup {current[t].cc}
                 ELSE handlers
  /\ UNCHANGED <<listVars, watchVars, manager, at, revents, peerVars, received>>

GetEvent(t) ==
  /\ FindEvent(t) \/ TakeFront(t) \/ TakeNothing(t)
  /\ UNCHANGED <<listVars, watchVars, manager, at, revents, peerVars, readVars>>

PeerConnects(c) ==
  /\ c \in In /\ peer[c] = "closed"
  /\ peer' = [peer EXCEPT ![c] = "pending"]
  /\ UNCHANGED <<poolVars, listVars, watchVars, manager, at, revents, sent,
                 readVars>>

PeerSends(c) ==
  /\ c \in Talking /\ peer[c] # "closed" /\ sent[c] < MaxMessages
  /\ sent' = [sent EXCEPT ![c] = @ + 1]
  /\ UNCHANGED <<poolVars, listVars, watchVars, manager, at, revents, peer,
                 readVars>>

Application(t) == ~broken /\ (GetEvent(t) \/ Invoke(t))

Others(c) == Connect(c) \/ PeerConnects(c) \/ PeerSends(c)

Next ==
  \/ ~broken /\ Manager
  \/ \E t \in Threads : Application(t)
  \/ \E c \in Connections : ~broken /\ Others(c)

Spec == Init /\ [][Next]_vars

\* The manager's thread runs, and the application invokes the events.
FairSpec == /\ Spec
            /\ WF_vars(~broken /\ Manager)
            /\ \A t \in Threads : WF_vars(Application(t))

-----------------------------------------------------------------------------
(* Properties. *)

\* Every variable has its type; a thread holds an event exactly while it is
\* invoking it.
TypeOK ==
  /\ eventList \in Seq(Events) /\ taken \in Seq(Events)
  /\ thread \in [Threads -> {"out", "found", "invoke"}]
  /\ current \in [Threads -> Events \cup {NULL}]
  /\ \A t \in Threads : thread[t] = "invoke" <=> current[t] # NULL
  /\ broken \in BOOLEAN
  /\ initialConnectionList \in Seq(Interfaces)
  /\ connectionStatusMap \subseteq Interfaces /\ pollfds \in Seq(Interfaces)
  /\ manager \in {"tick", "connect", "poll", "invoke", "run"}
  /\ at \in Nat /\ revents \subseteq Interfaces
  /\ peer \in [Connections -> {"closed", "pending", "trying", "open"}]
  /\ sent \in [Connections -> 0 .. MaxMessages]
  /\ received \in [Connections -> 0 .. MaxMessages]
  /\ handlers \subseteq Connections /\ asked \in Seq(Out) /\ slow \subseteq Out

\* A connection that is open or under way is watched, nothing is watched twice,
\* and what is watched is what the map finds an interface for.
WatchedOnce ==
  /\ \A m, n \in DOMAIN pollfds : pollfds[m] = pollfds[n] => m = n
  /\ Watched = connectionStatusMap
  /\ \A c \in Connections : peer[c] \in {"trying", "open"} => c \in Watched

\* A connection the application asked for waits in the list or is connected.  If
\* it is neither, then erasing at the iterator what was connected at the front
\* (ConnectFront) has erased it in the place of another: one that was asked for
\* earlier, that is connected, and that was not connected when it was first
\* looked at.  So the first request is never lost, nor one behind requests that
\* are connected at once.
RequestedIsKept ==
  \A n \in DOMAIN asked :
    \/ \E m \in DOMAIN initialConnectionList : initialConnectionList[m] = asked[n]
    \/ peer[asked[n]] = "open"
    \/ \E m \in 1 .. n - 1 : asked[m] \in slow /\ peer[asked[m]] = "open"

\* The events of one connection are in the pool, and taken from it, in the order
\* in which they came, none of them twice: that of its acceptance (0), then one
\* for every message that was received.
EventsInOrder ==
  LET all == taken \o eventList
  IN /\ \A m, n \in DOMAIN all :
          m < n /\ all[m].cc = all[n].cc => all[m].num < all[n].num
     /\ \A c \in Connections : peer[c] = "open" =>
          \A k \in (IF c \in In THEN 0 ELSE 1) .. received[c] :
            \E n \in DOMAIN all : all[n].cc = c /\ all[n].num = k

\* An event that a thread is invoking, and will delete, is neither another
\* thread's nor still in the pool.
OwnedOnce ==
  \A t \in Threads : thread[t] = "invoke" =>
    /\ \A u \in Threads \ {t} : current[u] # current[t]
    /\ \A n \in DOMAIN eventList : eventList[n] # current[t]

\* A request to connect is accepted, a message is read and its event taken, if
\* the manager does not come to wait in recv() on an accepted connection.  That
\* holds also of what comes over a connection whose attempt is still under way.
Waits == manager = "run" /\ Runs \in In /\ received[Runs] = sent[Runs]

MessagesTaken(c) == {n \in DOMAIN taken : taken[n].cc = c /\ taken[n].num > 0}

IsServed ==
  \A c \in Connections :
    /\ peer[c] = "pending" ~> peer[c] = "open" \/ Waits \/ broken
    /\ peer[c] \in {"trying", "open"} /\ received[c] < sent[c] ~>
         received[c] = sent[c] \/ Waits \/ broken
    /\ \A n \in 1 .. MaxMessages :
         received[c] = n ~> Cardinality(MessagesTaken(c)) >= n \/ broken

\* A message that is received is handed to the connection's read handler.
MessageHasHandler == \A n \in DOMAIN taken : taken[n].handled
=============================================================================
