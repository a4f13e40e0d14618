---------------------------- MODULE WriteInterest ----------------------------
(***************************************************************************)
(* Who asks poll() for WRITE, and when.  An application thread writes to a *)
(* ChunkedConnection (StreamWrite, BlockCommit) while the thread of        *)
(* Connector::LoopFunc runs ConnectionManager::Run: connect, poll(), and   *)
(* ChunkedConnection::Run for what is ready.  They share the list of       *)
(* unsent chunks, under writeBufferMutex, and the WRITE interest of the    *)
(* connection, which no mutex guards: ManagerInterface::status and the     *)
(* events of the pollfd, two words that UpdateSelectStatus writes one      *)
(* after the other.                                                        *)
(*                                                                         *)
(* One connection and its first life: it connects and stays connected.     *)
(* Chunks are numbered in the order of their pushes; how one travels is    *)
(* the subject of module ChunkedConnection.                                *)
(***************************************************************************)
EXTENDS Naturals, Sequences

CONSTANTS MaxChunks,       \* bound: chunks the application writes
          MaxBlockChunks   \* bound: chunks of one block

ASSUME BoundsAssumption == MaxChunks \in Nat /\ MaxBlockChunks \in Nat

VARIABLES
  status,            \* status of the Connection; fd < 0 when disconnected
  initialList,       \* the connection is in initialConnectionList
  miStatus,          \* ManagerInterface::status, {} before it is registered
  events,            \* events of its pollfd, {} while there is none
  polled,            \* the events poll() was called with
  ready,             \* what poll() reported
  writeBufferList,   \* unsent chunks
  writeBufferMutex,  \* its holder, or "free"
  copy,              \* the list a thread has read and is about to write
  toPush,            \* chunks left to push in the application's call
  pushed,            \* how many chunks were pushed
  out,               \* the chunks sent
  pc,                \* where each thread is
  call               \* argument and return point of its UpdateSelectStatus

connVars == <<status, initialList>>
interestVars == <<miStatus, events>>
pollVars == <<polled, ready>>
listVars == <<writeBufferList, writeBufferMutex, copy, pushed, out>>
vars == <<status, initialList, miStatus, events, polled, ready, writeBufferList,
          writeBufferMutex, copy, toPush, pushed, out, pc, call>>

Thread == {"app", "mgr"}
READ_OK == {"READ"}
READ_WRITE_OK == {"READ", "WRITE"}

Init ==
  /\ status = "STATUS_DISCONNECTED" /\ initialList = TRUE
  /\ miStatus = {} /\ events = {}
  /\ polled = {} /\ ready = {}
  /\ writeBufferList = <<>> /\ writeBufferMutex = "free" /\ copy = <<>>
  /\ toPush = 0 /\ pushed = 0 /\ out = <<>>
  /\ pc = [app |-> "idle", mgr |-> "list"]
  /\ call = [t \in Thread |-> [want |-> {}, next |-> "idle"]]

Goto(t, place) == pc' = [pc EXCEPT ![t] = place]
At(t, place) == pc[t] = place

-----------------------------------------------------------------------------
(* ConnectionManager::UpdateSelectStatus, called by both threads. *)

UpdateSelectStatus(t, want, next) ==
  /\ Goto(t, "look")
  /\ call' = [call EXCEPT ![t] = [want |-> want, next |-> next]]

\* Nothing is done without an fd, or when the status is already the wanted
\* one; WRITE is not asked for before the connection is established.
Look(t) ==
  LET want == IF status = "STATUS_CONNECTED" THEN call[t].want
              ELSE call[t].want \ {"WRITE"}
  IN  /\ At(t, "look")
      /\ IF status = "STATUS_DISCONNECTED" \/ miStatus = want
         THEN Goto(t, call[t].next)
         ELSE Goto(t, "status")
      /\ call' = [call EXCEPT ![t].want = want]
      /\ UNCHANGED <<connVars, interestVars, pollVars, listVars, toPush>>

SetStatus(t) ==
  /\ At(t, "status")
  /\ miStatus' = call[t].want
  /\ Goto(t, "events")
  /\ UNCHANGED <<connVars, events, pollVars, listVars, toPush, call>>

SetEvents(t) ==
  /\ At(t, "events")
  /\ events' = call[t].want
  /\ Goto(t, call[t].next)
  /\ UNCHANGED <<connVars, miStatus, pollVars, listVars, toPush, call>>

-----------------------------------------------------------------------------
(* The application thread. *)

\* StreamWrite asks for WRITE only if it finds the list empty; it reads the
\* list without the mutex.
StreamWrite ==
  /\ At("app", "idle")
  /\ pushed < MaxChunks
  /\ toPush' = 1
  /\ IF writeBufferList = <<>>
     THEN UpdateSelectStatus("app", READ_WRITE_OK, "lock")
     ELSE Goto("app", "lock") /\ UNCHANGED call
  /\ UNCHANGED <<connVars, interestVars, pollVars, listVars>>

\* BlockCommit asks for WRITE once, before it pushes the first of its chunks.
BlockCommit(n) ==
  /\ At("app", "idle")
  /\ pushed + n <= MaxChunks
  /\ toPush' = n
  /\ UpdateSelectStatus("app", READ_WRITE_OK, "lock")
  /\ UNCHANGED <<connVars, interestVars, pollVars, listVars>>

\* Mutant: the list is read without the mutex.
LockNothing ==
  /\ At("app", "lock")
  /\ copy' = writeBufferList
  /\ Goto("app", "push")
  /\ UNCHANGED <<connVars, interestVars, pollVars, writeBufferList,
                 writeBufferMutex, toPush, pushed, out, call>>

\* NonBlockWrite: push_back reads the list and then writes it.
LockAndRead ==
  /\ At("app", "lock")
  /\ writeBufferMutex = "free"
  /\ writeBufferMutex' = "app"
  /\ copy' = writeBufferList
  /\ Goto("app", "push")
  /\ UNCHANGED <<connVars, interestVars, pollVars, writeBufferList, toPush,
                 pushed, out, call>>

PushAndUnlock ==
  /\ At("app", "push")
  /\ writeBufferList' = Append(copy, pushed + 1)
  /\ pushed' = pushed + 1
  /\ writeBufferMutex' = "free"
  /\ copy' = <<>>
  /\ toPush' = toPush - 1
  /\ Goto("app", IF toPush > 1 THEN "lock" ELSE "idle")
  /\ UNCHANGED <<connVars, interestVars, pollVars, out, call>>

StartCall == StreamWrite \/ \E n \in 1 .. MaxBlockChunks : BlockCommit(n)

FinishCall == \/ Look("app") \/ SetStatus("app") \/ SetEvents("app")
              \/ LockAndRead \/ PushAndUnlock

-----------------------------------------------------------------------------
(* The manager's thread: ConnectionManager::Run, over and over. *)

\* Connect() of an interface in the list: still without an fd, or trying, or
\* connected.
Connect(s) ==
  /\ At("mgr", "list")
  /\ initialList
  /\ status = "STATUS_CONNECTING" => s # "STATUS_DISCONNECTED"
  /\ status = "STATUS_CONNECTED" => s = status
  /\ status' = s
  /\ Goto("mgr", IF s = "STATUS_DISCONNECTED" THEN "poll" ELSE "hasWriteQueue")
  /\ UNCHANGED <<initialList, interestVars, pollVars, listVars, toPush, call>>

NothingInList ==
  /\ At("mgr", "list")
  /\ ~initialList
  /\ Goto("mgr", "poll")
  /\ UNCHANGED <<connVars, interestVars, pollVars, listVars, toPush, call>>

\* Mutant: a connection always starts without WRITE.
StartReadOnly ==
  /\ At("mgr", "hasWriteQueue")
  /\ UpdateSelectStatus("mgr", READ_OK, "erase")
  /\ UNCHANGED <<connVars, interestVars, pollVars, listVars, toPush>>

HasWriteQueue ==
  /\ At("mgr", "hasWriteQueue")
  /\ UpdateSelectStatus("mgr",
       IF writeBufferList = <<>> THEN READ_OK ELSE READ_WRITE_OK, "erase")
  /\ UNCHANGED <<connVars, interestVars, pollVars, listVars, toPush>>

EraseFromList ==
  /\ At("mgr", "erase")
  /\ initialList' = (status # "STATUS_CONNECTED")
  /\ Goto("mgr", "poll")
  /\ UNCHANGED <<status, interestVars, pollVars, listVars, toPush, call>>

\* poll() works on the events it was called with; without a pollfd Run sleeps.
Poll ==
  /\ At("mgr", "poll")
  /\ polled' = events
  /\ Goto("mgr", IF events = {} THEN "sleep" ELSE "polling")
  /\ UNCHANGED <<connVars, interestVars, ready, listVars, toPush, call>>

\* Mutant: poll() waits without a limit.
TimeoutOfSleep ==
  /\ At("mgr", "sleep")
  /\ Goto("mgr", "list")
  /\ UNCHANGED <<connVars, interestVars, pollVars, listVars, toPush, call>>

\* Nothing became ready in time.
Timeout ==
  /\ At("mgr", "polling") \/ At("mgr", "sleep")
  /\ Goto("mgr", "list")
  /\ UNCHANGED <<connVars, interestVars, pollVars, listVars, toPush, call>>

PollReturn(r) ==
  /\ At("mgr", "polling")
  /\ r # {}
  /\ ready' = r
  /\ Goto("mgr", "run")
  /\ UNCHANGED <<connVars, interestVars, polled, listVars, toPush, call>>

\* Connection::Run writes first if poll() reported WRITE, and then reads.
StartWrite ==
  /\ At("mgr", "run")
  /\ IF "WRITE" \in ready /\ status = "STATUS_CONNECTED"
     THEN /\ writeBufferMutex = "free"
          /\ writeBufferMutex' = "mgr"
          /\ Goto("mgr", "send")
     ELSE Goto("mgr", "read") /\ UNCHANGED writeBufferMutex
  /\ UNCHANGED <<connVars, interestVars, pollVars, writeBufferList, copy, pushed,
                 out, toPush, call>>

\* WriteToSocket has sent the last byte of the first chunk.
SendFirst ==
  /\ At("mgr", "send")
  /\ writeBufferList # <<>>
  /\ out' = Append(out, Head(writeBufferList))
  /\ writeBufferList' = Tail(writeBufferList)
  /\ UNCHANGED <<connVars, interestVars, pollVars, writeBufferMutex, copy, pushed,
                 toPush, pc, call>>

\* The list is empty, or the socket takes no more for now.
EndWrite ==
  /\ At("mgr", "send")
  /\ writeBufferMutex' = "free"
  /\ Goto("mgr", "read")
  /\ UNCHANGED <<connVars, interestVars, pollVars, writeBufferList, copy, pushed,
                 out, toPush, call>>

\* RunRead: a connection that is not established yet tries again first.
TryConnect(s) == /\ \/ s = status
                   \/ /\ status = "STATUS_CONNECTING" /\ "READ" \in ready
                      /\ s = "STATUS_CONNECTED"
                /\ status' = s

\* ChunkedConnection::Run calls Connection::Run again after each event that it
\* returns, and goes on when there is none.
ReadEvent(s) ==
  /\ At("mgr", "read")
  /\ "READ" \in ready
  /\ TryConnect(s) /\ s = "STATUS_CONNECTED"
  /\ Goto("mgr", "run")
  /\ UNCHANGED <<initialList, interestVars, pollVars, listVars, toPush, call>>

ReadNothing(s) ==
  /\ At("mgr", "read")
  /\ TryConnect(s)
  /\ Goto("mgr", "check")
  /\ UNCHANGED <<initialList, interestVars, pollVars, listVars, toPush, call>>

\* Run_UpdateStatus: the list is read without the mutex.
CheckEmpty ==
  /\ At("mgr", "check")
  /\ IF writeBufferList = <<>>
     THEN UpdateSelectStatus("mgr", READ_OK, "list")
     ELSE Goto("mgr", "list") /\ UNCHANGED call
  /\ UNCHANGED <<connVars, interestVars, pollVars, listVars, toPush>>

Status == {"STATUS_DISCONNECTED", "STATUS_CONNECTING", "STATUS_CONNECTED"}

ManagerRuns ==
  \/ \E s \in Status : Connect(s) \/ ReadEvent(s) \/ ReadNothing(s)
  \/ NothingInList \/ HasWriteQueue \/ EraseFromList
  \/ Look("mgr") \/ SetStatus("mgr") \/ SetEvents("mgr")
  \/ Poll \/ Timeout
  \/ StartWrite \/ SendFirst \/ EndWrite \/ CheckEmpty

PollReports == \E r \in SUBSET polled : PollReturn(r)
PollReportsWrite == \E r \in SUBSET polled : "WRITE" \in r /\ PollReturn(r)

Next == StartCall \/ FinishCall \/ ManagerRuns \/ PollReports

Spec == Init /\ [][Next]_vars

\* Both threads run, and poll() has a timeout; nothing says that there is ever
\* input.  A connected peer makes room, so that poll() does not withhold WRITE
\* for ever, and chunks, which are finite, are sent in the end.  Input pauses
\* now and then: the loop of ChunkedConnection::Run ends only when it does.
FairSpec == /\ Spec
            /\ WF_vars(FinishCall) /\ WF_vars(ManagerRuns)
            /\ SF_vars(PollReportsWrite) /\ SF_vars(SendFirst)
            /\ SF_vars(\E s \in Status : ReadNothing(s))

-----------------------------------------------------------------------------
(* Properties. *)

Interest == {{}, READ_OK, READ_WRITE_OK}

UpdatePlace == {"look", "status", "events"}
AppPlace == UpdatePlace \cup {"idle", "lock", "push"}
MgrPlace == UpdatePlace \cup {"list", "hasWriteQueue", "erase", "poll", "sleep",
                             "polling", "run", "send", "read", "check"}

\* Every variable has its type, and a call pushes as many chunks as it has.
TypeOK ==
  /\ status \in Status /\ initialList \in BOOLEAN
  /\ miStatus \in Interest /\ events \in Interest
  /\ polled \in Interest /\ ready \subseteq READ_WRITE_OK
  /\ writeBufferList \in Seq(Nat) /\ copy \in Seq(Nat) /\ out \in Seq(Nat)
  /\ writeBufferMutex \in {"free", "app", "mgr"}
  /\ toPush \in Nat /\ pushed \in Nat
  /\ pc \in [Thread -> AppPlace \cup MgrPlace]
  /\ pc["app"] \in AppPlace /\ pc["mgr"] \in MgrPlace
  /\ pc["app"] = "idle" <=> toPush = 0
  /\ call \in [Thread -> [want : Interest, next : {"idle", "lock", "erase", "list"}]]
  /\ pc["app"] \in UpdatePlace => call["app"].next = "lock"
  /\ pc["mgr"] \in UpdatePlace => call["mgr"].next \in {"erase", "list"}

\* A thread has the mutex from the moment it reads the list until it has changed
\* it, so the list that the application extends is the current one
\* (writeBufferMutex in NonBlockWrite and RunWrite).
NoStaleCopy ==
  /\ At("app", "push") <=> writeBufferMutex = "app"
  /\ At("mgr", "send") <=> writeBufferMutex = "mgr"
  /\ At("app", "push") => copy = writeBufferList

\* Every chunk is sent at most once and in the order of the pushes, although
\* push_back and pop_front of two threads meet on one list (NonBlockWrite and
\* RunWrite).
SentOnceInOrder == out \o writeBufferList = [i \in 1 .. pushed |-> i]

\* A chunk that waits while WRITE is asked for is sent, or WRITE is given up:
\* poll() may work on older events, but not for ever (the usec of
\* ConnectionManager::Run).
ArmedChunkIsSent ==
  \A n \in 1 .. MaxChunks :
    ("WRITE" \in events /\ pushed >= n)
      ~> (Len(out) >= n \/ "WRITE" \notin events)

\* Everything written to a connected connection is sent.
WrittenIsSent ==
  \A n \in 1 .. MaxChunks :
    (pushed >= n /\ status = "STATUS_CONNECTED") ~> Len(out) >= n

\* No call of the application overlaps with the manager's work: the manager is
\* waiting from the beginning of the call to its end.
Quiet == pc["app"] = "idle" \/ pc["mgr"] \in {"polling", "sleep"}

\* If no call overlaps with the manager's work, everything written is sent,
\* whether it was written before the connection was established, while it was
\* or later (HasWriteQueue in ConnectionManager::Run, UpdateSelectStatus).
QuietWritesAreSent == []Quiet => WrittenIsSent
=============================================================================
