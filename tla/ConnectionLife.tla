---------------------------- MODULE ConnectionLife ----------------------------
(***************************************************************************)
(* How a Connection gets its socket and loses it: NonBlockConnect tries    *)
(* the addresses of the target one after the other, Connection::Connect    *)
(* takes over its descriptor, ChunkedConnection::Run reads and Disconnects *)
(* on an error.  Two objects keep a copy of one descriptor, nb.fd and fd,  *)
(* in a process whose other parts open and close descriptors as well, so   *)
(* that a number that was closed may soon be another's.                    *)
(*                                                                         *)
(* The manager's thread is followed from one system call to the next.  The *)
(* application's handler may call Connect() on EVENT_ERROR_SOCKET_CLOSE;   *)
(* it is modelled where NonBlockConnect has no attempt under way.  What    *)
(* travels over the connection is the subject of ChunkedConnection, which  *)
(* events are polled for the subject of WriteInterest.                     *)
(***************************************************************************)
EXTENDS Naturals

CONSTANTS
  Platform,       \* "POSIX" or "Win32": which results connect() has
  FD,             \* descriptors
  NULL,           \* no descriptor, no address
  Addresses,      \* how many addresses the target has
  Listening,      \* those of them that accept a connection
  MaxResets       \* bound: connections the network resets

ASSUME ConstantsAssumption ==
  /\ Platform \in {"POSIX", "Win32"}
  /\ NULL \notin FD
  /\ Addresses \in Nat \ {0}
  /\ Listening \subseteq 1 .. Addresses
  /\ MaxResets \in Nat

VARIABLES
  sockets,       \* what each descriptor of the process is
  resets,        \* how many connections were reset
  nb,            \* the NonBlockConnect
  status,        \* status of the Connection
  fd,            \* fd of the Connection
  initialList,   \* the connection is in initialConnectionList
  registered,    \* the connection was given to UpdateSelectStatus
  closeEvent,    \* an EVENT_ERROR_SOCKET_CLOSE is in the event pool
  pc,            \* where the manager's thread is
  caller,        \* who called Connection::Connect
  lost,          \* history: an established connection was disconnected
  trouble        \* history: a lookup failed, or there was no descriptor left

kernelVars == <<sockets, resets>>
connVars == <<status, fd>>
managerVars == <<initialList, registered>>
historyVars == <<lost, trouble>>
vars == <<sockets, resets, nb, status, fd, initialList, registered, closeEvent,
          pc, caller, lost, trouble>>

\* A socket of this connection is fresh, connecting, connected, refused or
\* reset.
Own == {"fresh", "connecting", "connected", "refused", "reset"}
Established == {"connected", "reset"}

\* res is the position in the list of addresses, 0 for NULL; res0 says whether
\* the list is held.
NoConnect == [status |-> "NULL", fd |-> NULL, res |-> 0, res0 |-> FALSE]

Init ==
  /\ sockets \in [FD -> {"closed", "other"}] /\ resets = 0
  /\ nb = NoConnect
  /\ status = "STATUS_DISCONNECTED" /\ fd = NULL
  /\ initialList = TRUE /\ registered = FALSE
  /\ closeEvent = FALSE
  /\ pc = "list" /\ caller = "Run"
  /\ lost = FALSE /\ trouble = FALSE

IsConnect == fd # NULL /\ status = "STATUS_CONNECTED"

-----------------------------------------------------------------------------
(* Connection::Connect up to NonBlockConnect::Run. *)

CallConnect(from) == pc' = "enter" /\ caller' = from

\* Either there is a connection already, or NonBlockConnect was connected once
\* and hands out its descriptor again.
HandOut ==
  /\ pc = "enter"
  /\ \/ IsConnect /\ UNCHANGED connVars
     \/ /\ ~IsConnect
        /\ nb.status = "CONNECTED"
        /\ fd' = nb.fd /\ status' = "STATUS_CONNECTED"
  /\ pc' = "returned"
  /\ UNCHANGED <<kernelVars, nb, managerVars, closeEvent, caller, historyVars>>

\* A target that could not be looked up.
NotInitialized ==
  /\ pc = "enter"
  /\ ~IsConnect
  /\ nb.status = "NOT_INITIALIZED"
  /\ status' = "STATUS_DISCONNECTED"
  /\ pc' = "returned"
  /\ UNCHANGED <<kernelVars, nb, fd, managerVars, closeEvent, caller, historyVars>>

Found == [nb EXCEPT !.status = "INITIALIZED", !.res = 0, !.res0 = TRUE]

\* SetTarget of a new NonBlockConnect, which is thrown away when it fails.
SetTarget(found) ==
  /\ pc = "enter"
  /\ ~IsConnect
  /\ nb.status = "NULL"
  /\ nb' = IF found THEN Found ELSE NoConnect
  /\ trouble' = (trouble \/ ~found)
  /\ pc' = IF found THEN "next" ELSE "returned"
  /\ UNCHANGED <<kernelVars, connVars, managerVars, closeEvent, caller, lost>>

Resume ==
  /\ pc = "enter"
  /\ ~IsConnect
  /\ nb.status \in {"INITIALIZED", "TRYING", "FAILED"}
  /\ pc' = IF nb.fd # NULL THEN "connect" ELSE "next"
  /\ UNCHANGED <<kernelVars, nb, connVars, managerVars, closeEvent, caller,
                 historyVars>>

-----------------------------------------------------------------------------
(* NonBlockConnect::Run. *)

\* What connect() may answer, and what becomes of the socket.
ConnectResult(s) ==
  CASE s = "fresh" /\ Platform = "POSIX" ->
         [code : {"EINPROGRESS"}, socket : {"connecting"}]
         \cup (IF nb.res \in Listening THEN [code : {"OK"}, socket : {"connected"}]
               ELSE [code : {"ECONNREFUSED"}, socket : {"refused"}])
    [] s = "fresh" /\ Platform = "Win32" ->
         [code : {"EWOULDBLOCK"}, socket : {"connecting"}]
    [] s = "connecting" -> [code : {"EALREADY"}, socket : {s}]
    [] s = "connected" -> [code : {"EISCONN"}, socket : {s}]
    [] s \in {"refused", "reset"} -> [code : {"ECONNREFUSED"}, socket : {s}]
    [] OTHER -> [code : {"EBADF"}, socket : {s}]

\* The codes after which Run tries again on the same socket, and the ones after
\* which it is connected.
StillTrying == IF Platform = "POSIX" THEN {"EWOULDBLOCK", "EAGAIN"}
               ELSE {"EWOULDBLOCK", "EALREADY"}

\* Mutant: a connect() under way is taken for one that has finished.
NowConnectedTooSoon == {"OK", "EISCONN", "EALREADY"}

NowConnected == IF Platform = "POSIX" THEN {"OK"} ELSE {"OK", "EISCONN"}

Trying(r) ==
  /\ r.code \in StillTrying
  /\ sockets' = [sockets EXCEPT ![nb.fd] = r.socket]
  /\ nb' = [nb EXCEPT !.status = "TRYING"]
  /\ fd' = nb.fd /\ status' = "STATUS_CONNECTING"
  /\ pc' = "returned"

Connected(r) ==
  /\ r.code \in NowConnected
  /\ sockets' = [sockets EXCEPT ![nb.fd] = r.socket]
  /\ nb' = [nb EXCEPT !.status = "CONNECTED", !.res = 0, !.res0 = FALSE]
  /\ fd' = nb.fd /\ status' = "STATUS_CONNECTED"
  /\ pc' = "returned"

\* Mutant: the socket of a failed attempt is not closed.
FailedUnclosed(r) ==
  /\ r.code \notin StillTrying \cup NowConnected
  /\ sockets' = [sockets EXCEPT ![nb.fd] = r.socket]
  /\ nb' = [nb EXCEPT !.status = "FAILED", !.fd = NULL]
  /\ pc' = "next"
  /\ UNCHANGED connVars

\* Any other answer: the socket is closed, and Run calls itself.
Failed(r) ==
  /\ r.code \notin StillTrying \cup NowConnected
  /\ sockets' = [sockets EXCEPT ![nb.fd] = "closed"]
  /\ nb' = [nb EXCEPT !.status = "FAILED", !.fd = NULL]
  /\ pc' = "next"
  /\ UNCHANGED connVars

TryConnect ==
  /\ pc = "connect"
  /\ \E r \in ConnectResult(sockets[nb.fd]) : Trying(r) \/ Connected(r) \/ Failed(r)
  /\ UNCHANGED <<resets, managerVars, closeEvent, caller, historyVars>>

\* The next address gets a socket of its own; the descriptor may be any one
\* that is free.
NextAddress(f) ==
  /\ pc = "next"
  /\ nb.res0 /\ nb.res < Addresses
  /\ sockets[f] = "closed"
  /\ sockets' = [sockets EXCEPT ![f] = "fresh"]
  /\ nb' = [nb EXCEPT !.status = "TRYING", !.res = @ + 1, !.fd = f]
  /\ pc' = "connect"
  /\ UNCHANGED <<resets, connVars, managerVars, closeEvent, caller, historyVars>>

\* No descriptor is free: socket() returns -1, and Run calls itself.
NoDescriptor ==
  /\ pc = "next"
  /\ nb.res0 /\ nb.res < Addresses
  /\ \A f \in FD : sockets[f] # "closed"
  /\ nb' = [nb EXCEPT !.status = "TRYING", !.res = @ + 1]
  /\ trouble' = TRUE
  /\ UNCHANGED <<kernelVars, connVars, managerVars, closeEvent, pc, caller, lost>>

\* Mutant: LookupTarget does not go back to the beginning of the list.
AllFailedNoRestart(found) ==
  /\ pc = "next"
  /\ nb.res0 /\ nb.res = Addresses
  /\ nb' = IF found THEN [Found EXCEPT !.res = Addresses]
           ELSE [nb EXCEPT !.status = "NOT_INITIALIZED", !.res = 0, !.res0 = FALSE]
  /\ trouble' = (trouble \/ ~found)
  /\ status' = "STATUS_DISCONNECTED"
  /\ pc' = "returned"
  /\ UNCHANGED <<kernelVars, fd, managerVars, closeEvent, caller, lost>>

\* After the last address the target is looked up again.  The Connection keeps
\* the descriptor it was told last.
AllFailed(found) ==
  /\ pc = "next"
  /\ nb.res0 /\ nb.res = Addresses
  /\ nb' = IF found THEN Found
           ELSE [nb EXCEPT !.status = "NOT_INITIALIZED", !.res = 0, !.res0 = FALSE]
  /\ trouble' = (trouble \/ ~found)
  /\ status' = "STATUS_DISCONNECTED"
  /\ pc' = "returned"
  /\ UNCHANGED <<kernelVars, fd, managerVars, closeEvent, caller, lost>>

-----------------------------------------------------------------------------
(* ConnectionManager::Run and ChunkedConnection::Run. *)

Tick ==
  /\ pc = "list"
  /\ IF initialList THEN CallConnect("Tick")
     ELSE pc' = "poll" /\ UNCHANGED caller
  /\ UNCHANGED <<kernelVars, nb, connVars, managerVars, closeEvent, historyVars>>

TickReturned ==
  /\ pc = "returned" /\ caller = "Tick"
  /\ registered' = (registered \/ fd # NULL)
  /\ initialList' = ~IsConnect
  /\ pc' = "poll"
  /\ UNCHANGED <<kernelVars, nb, connVars, closeEvent, caller, historyVars>>

Timeout ==
  /\ pc = "poll"
  /\ pc' = "list"
  /\ UNCHANGED <<kernelVars, nb, connVars, managerVars, closeEvent, caller,
                 historyVars>>

PollReturn ==
  /\ pc = "poll" /\ registered
  /\ pc' = "run"
  /\ UNCHANGED <<kernelVars, nb, connVars, managerVars, closeEvent, caller,
                 historyVars>>

\* Connection::RunRead connects first if it has to.
RunRead ==
  /\ pc = "run"
  /\ IF IsConnect THEN pc' = "recv" /\ UNCHANGED caller
     ELSE CallConnect(IF fd = NULL THEN "Run" ELSE "RunAgain")
  /\ UNCHANGED <<kernelVars, nb, connVars, managerVars, closeEvent, historyVars>>

\* Disconnect() and the event; the loop of ChunkedConnection::Run goes on.
SocketError ==
  /\ status' = "STATUS_DISCONNECTED" /\ fd' = NULL
  /\ sockets' = IF fd = NULL THEN sockets
                ELSE [sockets EXCEPT ![fd] = "closed"]
  /\ closeEvent' = TRUE

\* A connection that had a descriptor and could not be established is an error;
\* one that had none is not.
RunReturned ==
  /\ pc = "returned" /\ caller \in {"Run", "RunAgain"}
  /\ IF caller = "RunAgain" /\ status = "STATUS_DISCONNECTED"
     THEN SocketError /\ pc' = "run"
     ELSE /\ pc' = IF IsConnect THEN "recv" ELSE "list"
          /\ UNCHANGED <<sockets, connVars, closeEvent>>
  /\ UNCHANGED <<resets, nb, managerVars, caller, historyVars>>

\* recv() brings a message, or nothing.
Receive ==
  /\ pc = "recv"
  /\ sockets[fd] \in {"connected", "other"}
  /\ pc' \in {"run", "list"}
  /\ UNCHANGED <<kernelVars, nb, connVars, managerVars, closeEvent, caller,
                 historyVars>>

ReceiveError ==
  /\ pc = "recv"
  /\ sockets[fd] # "connected"
  /\ SocketError
  /\ lost' = TRUE
  /\ pc' = "run"
  /\ UNCHANGED <<resets, nb, managerVars, caller, trouble>>

\* send() comes before recv(), if poll() reported WRITE; without READ the loop
\* ends after the error.
SendError ==
  /\ pc = "run"
  /\ IsConnect /\ sockets[fd] # "connected"
  /\ SocketError
  /\ lost' = TRUE
  /\ pc' \in {"run", "list"}
  /\ UNCHANGED <<resets, nb, managerVars, caller, trouble>>

Manager ==
  \/ HandOut \/ NotInitialized \/ Resume \/ TryConnect \/ NoDescriptor
  \/ \E found \in BOOLEAN : SetTarget(found) \/ AllFailed(found)
  \/ \E f \in FD : NextAddress(f)
  \/ Tick \/ TickReturned \/ Timeout \/ PollReturn
  \/ RunRead \/ RunReturned \/ Receive \/ ReceiveError \/ SendError

-----------------------------------------------------------------------------
(* The application, the rest of the process and the network. *)

\* The error handler calls Connect(), or leaves connecting to the manager.
HandleClose ==
  /\ closeEvent
  /\ closeEvent' = FALSE
  /\ \/ UNCHANGED connVars
     \/ /\ nb.status = "CONNECTED" /\ ~IsConnect
        /\ fd' = nb.fd /\ status' = "STATUS_CONNECTED"
  /\ UNCHANGED <<kernelVars, nb, managerVars, pc, caller, historyVars>>

OtherOpens(f) ==
  /\ sockets[f] = "closed"
  /\ sockets' = [sockets EXCEPT ![f] = "other"]
  /\ UNCHANGED <<resets, nb, connVars, managerVars, closeEvent, pc, caller,
                 historyVars>>

OtherCloses(f) ==
  /\ sockets[f] = "other"
  /\ sockets' = [sockets EXCEPT ![f] = "closed"]
  /\ UNCHANGED <<resets, nb, connVars, managerVars, closeEvent, pc, caller,
                 historyVars>>

\* The peer accepts or refuses.
Resolve(f) ==
  /\ sockets[f] = "connecting"
  /\ sockets' = [sockets EXCEPT ![f] = IF nb.res \in Listening THEN "connected"
                                       ELSE "refused"]
  /\ UNCHANGED <<resets, nb, connVars, managerVars, closeEvent, pc, caller,
                 historyVars>>

Reset(f) ==
  /\ sockets[f] = "connected"
  /\ resets < MaxResets
  /\ resets' = resets + 1
  /\ sockets' = [sockets EXCEPT ![f] = "reset"]
  /\ UNCHANGED <<nb, connVars, managerVars, closeEvent, pc, caller, historyVars>>

Next ==
  \/ Manager
  \/ HandleClose
  \/ \E f \in FD : OtherOpens(f) \/ OtherCloses(f) \/ Resolve(f) \/ Reset(f)

Spec == Init /\ [][Next]_vars

\* The manager's thread runs, poll() has a timeout, input pauses, and a
\* connect() under way is answered in the end.
FairSpec == /\ Spec
            /\ WF_vars(Manager)
            /\ SF_vars(Timeout) /\ SF_vars(Receive /\ pc' = "list")
            /\ \A f \in FD : WF_vars(Resolve(f))

-----------------------------------------------------------------------------
(* Properties. *)

ConnectStatus == {"NULL", "NOT_INITIALIZED", "INITIALIZED", "TRYING", "FAILED",
                  "CONNECTED"}

\* Every variable has its type.
TypeOK ==
  /\ sockets \in [FD -> Own \cup {"closed", "other"}] /\ resets \in Nat
  /\ nb \in [status : ConnectStatus, fd : FD \cup {NULL}, res : 0 .. Addresses,
             res0 : BOOLEAN]
  /\ status \in {"STATUS_DISCONNECTED", "STATUS_CONNECTING", "STATUS_CONNECTED"}
  /\ fd \in FD \cup {NULL}
  /\ initialList \in BOOLEAN /\ registered \in BOOLEAN /\ closeEvent \in BOOLEAN
  /\ pc \in {"list", "poll", "run", "enter", "connect", "next", "returned", "recv"}
  /\ caller \in {"Tick", "Run", "RunAgain"}
  /\ lost \in BOOLEAN /\ trouble \in BOOLEAN

\* Every socket that was opened for the connection is still in NonBlockConnect's
\* hands, however many addresses were tried and failed.
NoSocketLeak == \A f \in FD : sockets[f] \in Own => f = nb.fd

\* Until the connection is lost, a Connection that says it is connected has the
\* descriptor of a socket of its own that was established.
ConnectedIsOwn ==
  status = "STATUS_CONNECTED" /\ ~lost =>
    fd # NULL /\ fd = nb.fd /\ sockets[fd] \in Established

\* NonBlockConnect calls connect() with its own socket and with an address of
\* a list it still holds (res->ai_addr), and looks for the next one only when
\* it has no socket.
ConnectHasAddress ==
  /\ pc = "connect" => /\ nb.fd # NULL /\ sockets[nb.fd] \in Own
                       /\ nb.res0 /\ nb.res \in 1 .. Addresses
  /\ pc = "next" => nb.fd = NULL /\ nb.res0

\* If lookups succeed and there are descriptors, a target with an address that
\* listens is connected to, whatever the other addresses do.
Reached == IsConnect /\ sockets[fd] \in Established

ListenerIsReached == []~trouble => <>Reached

\* A connection that was lost is connected again, to a socket of its own.
LostIsReconnected == lost ~> (IsConnect /\ sockets[fd] = "connected")
=============================================================================
