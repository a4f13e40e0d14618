------------------------- MODULE WriteInterest_proof -------------------------
(***************************************************************************)
(* Proofs about WriteInterest: the list of unsent chunks that two threads  *)
(* share loses, repeats and reorders nothing, for every number of chunks.  *)
(***************************************************************************)
EXTENDS WriteInterest, Integers, SequenceTheorems, TLAPS

USE BoundsAssumption

-----------------------------------------------------------------------------
(* Sequences. *)

\* Moving the first element of the second queue to the end of the first
\* changes nothing in their concatenation.
LEMMA MoveKeepsConcat ==
  ASSUME NEW S, NEW s \in Seq(S), NEW t \in Seq(S), t # <<>>
  PROVE  /\ Append(s, Head(t)) \o Tail(t) = s \o t
         /\ Append(s, Head(t)) \in Seq(S)
         /\ Tail(t) \in Seq(S)
OBVIOUS

\* Queuing at the end of the second queue is queuing at the end of both.
LEMMA AppendConcat ==
  ASSUME NEW S, NEW s \in Seq(S), NEW t \in Seq(S), NEW e \in S
  PROVE  s \o Append(t, e) = Append(s \o t, e)
OBVIOUS

-----------------------------------------------------------------------------
(* The inductive invariant. *)

IInv == TypeOK /\ NoStaleCopy /\ SentOnceInOrder

-----------------------------------------------------------------------------
(* Types. *)

LEMMA InitIsTyped == Init => TypeOK
BY DEF Init, TypeOK, Status, Interest, AppPlace, MgrPlace, UpdatePlace, Thread

\* A thread that moves leaves the other where it is.
LEMMA GotoFacts ==
  ASSUME TypeOK, NEW t \in Thread, NEW place \in AppPlace \cup MgrPlace,
         Goto(t, place)
  PROVE  /\ pc' \in [Thread -> AppPlace \cup MgrPlace]
         /\ pc'[t] = place
         /\ \A u \in Thread \ {t} : pc'[u] = pc[u]
BY DEF TypeOK, Goto

LEMMA LookIsTyped ==
  ASSUME TypeOK, NEW t \in Thread, Look(t)
  PROVE  TypeOK'
<1> DEFINE want == IF status = "STATUS_CONNECTED" THEN call[t].want
                   ELSE call[t].want \ {"WRITE"}
<1>1. /\ call[t] \in [want : Interest, next : {"idle", "lock", "erase", "list"}]
      /\ call[t].want \in Interest
  BY DEF TypeOK
<1>2. want \in Interest
  BY <1>1 DEF Interest, READ_OK, READ_WRITE_OK
<1>3. call' = [call EXCEPT ![t].want = want]
  BY DEF Look
<1>4. /\ call' \in [Thread -> [want : Interest, next : {"idle", "lock", "erase", "list"}]]
      /\ \A u \in Thread : call'[u].next = call[u].next
  BY <1>1, <1>2, <1>3 DEF TypeOK
<1>5. PICK place \in {"status", call[t].next} : Goto(t, place)
  BY DEF Look
<1>6. place \in AppPlace \cup MgrPlace /\ pc[t] = "look"
  BY <1>1, <1>5 DEF AppPlace, MgrPlace, UpdatePlace, Look, At
<1>7. /\ pc' \in [Thread -> AppPlace \cup MgrPlace]
      /\ pc'[t] = place
      /\ \A u \in Thread \ {t} : pc'[u] = pc[u]
  BY <1>5, <1>6, GotoFacts
<1> QED
  BY <1>4, <1>5, <1>6, <1>7
  DEF TypeOK, Look, Thread, AppPlace, MgrPlace, UpdatePlace, connVars, interestVars,
      pollVars, listVars

LEMMA SetIsTyped ==
  ASSUME TypeOK, NEW t \in Thread, SetStatus(t) \/ SetEvents(t)
  PROVE  TypeOK'
<1>1. /\ call[t] \in [want : Interest, next : {"idle", "lock", "erase", "list"}]
      /\ call[t].want \in Interest
  BY DEF TypeOK
<1>2. PICK place \in {"events", call[t].next} : Goto(t, place)
  BY DEF SetStatus, SetEvents
<1>3. place \in AppPlace \cup MgrPlace /\ pc[t] \in {"status", "events"}
  BY <1>1, <1>2 DEF AppPlace, MgrPlace, UpdatePlace, SetStatus, SetEvents, At
<1>4. /\ pc' \in [Thread -> AppPlace \cup MgrPlace]
      /\ pc'[t] = place
      /\ \A u \in Thread \ {t} : pc'[u] = pc[u]
  BY <1>2, <1>3, GotoFacts
<1>5. miStatus' \in Interest /\ events' \in Interest /\ call' = call
  BY <1>1 DEF TypeOK, SetStatus, SetEvents
<1> QED
  BY <1>2, <1>3, <1>4, <1>5
  DEF TypeOK, SetStatus, SetEvents, Thread, AppPlace, MgrPlace, UpdatePlace, connVars,
      pollVars, listVars

LEMMA StartCallIsTyped ==
  ASSUME TypeOK, StartCall
  PROVE  TypeOK'
<1>1. READ_WRITE_OK \in Interest /\ "app" \in Thread /\ pc["app"] = "idle"
  BY DEF Interest, Thread, StartCall, StreamWrite, BlockCommit, At
<1>2. toPush' \in Nat \ {0}
  BY DEF StartCall, StreamWrite, BlockCommit
<1>3. UNCHANGED <<connVars, interestVars, pollVars, listVars>>
  BY DEF StartCall, StreamWrite, BlockCommit
<1>4. CASE UpdateSelectStatus("app", READ_WRITE_OK, "lock")
  <2>1. /\ pc' \in [Thread -> AppPlace \cup MgrPlace]
        /\ pc'["app"] = "look" /\ pc'["mgr"] = pc["mgr"]
        /\ call'["app"].next = "lock" /\ call'["mgr"] = call["mgr"]
        /\ call' \in [Thread -> [want : Interest, next : {"idle", "lock", "erase", "list"}]]
    BY <1>1, <1>4 DEF TypeOK, UpdateSelectStatus, Goto, Thread, AppPlace, UpdatePlace
  <2> QED
    BY <1>2, <1>3, <2>1
    DEF TypeOK, AppPlace, UpdatePlace, connVars, interestVars, pollVars, listVars
<1>5. CASE Goto("app", "lock") /\ UNCHANGED call
  BY <1>1, <1>2, <1>3, <1>5, GotoFacts
  DEF TypeOK, Thread, AppPlace, UpdatePlace, connVars, interestVars, pollVars, listVars
<1> QED
  BY <1>4, <1>5 DEF StartCall, StreamWrite, BlockCommit

LEMMA LockAndReadIsTyped ==
  ASSUME TypeOK, LockAndRead
  PROVE  TypeOK'
<1>1. "app" \in Thread /\ Goto("app", "push") /\ "push" \in AppPlace /\ pc["app"] = "lock"
  BY DEF Thread, AppPlace, LockAndRead, At
<1> QED
  BY <1>1, GotoFacts
  DEF TypeOK, LockAndRead, Thread, UpdatePlace, connVars, interestVars, pollVars

LEMMA PushAndUnlockIsTyped ==
  ASSUME TypeOK, PushAndUnlock
  PROVE  TypeOK'
<1> DEFINE place == IF toPush > 1 THEN "lock" ELSE "idle"
<1>1. /\ "app" \in Thread /\ Goto("app", place)
      /\ place \in AppPlace \ UpdatePlace /\ pc["app"] = "push"
  BY DEF Thread, AppPlace, UpdatePlace, PushAndUnlock, At
<1>2. toPush \in Nat \ {0}
  BY <1>1 DEF TypeOK
<1>3. toPush' \in Nat /\ (toPush' = 0 <=> place = "idle")
  BY <1>2 DEF PushAndUnlock
<1>4. writeBufferList' \in Seq(Nat) /\ pushed' \in Nat
  BY DEF TypeOK, PushAndUnlock
<1>5. /\ pc' \in [Thread -> AppPlace \cup MgrPlace]
      /\ pc'["app"] = place /\ pc'["mgr"] = pc["mgr"]
  BY <1>1, GotoFacts DEF Thread
<1> QED
  BY <1>1, <1>3, <1>4, <1>5
  DEF TypeOK, PushAndUnlock, connVars, interestVars, pollVars

\* The manager's steps that only move it.
LEMMA ManagerMoves ==
  ASSUME TypeOK, NEW place \in MgrPlace \ UpdatePlace, Goto("mgr", place),
         UNCHANGED <<toPush, call>>
  PROVE  /\ pc' \in [Thread -> AppPlace \cup MgrPlace]
         /\ pc'["app"] \in AppPlace /\ pc'["mgr"] \in MgrPlace
         /\ pc'["app"] = "idle" <=> toPush' = 0
         /\ pc'["app"] \in UpdatePlace => call'["app"].next = "lock"
         /\ pc'["mgr"] \in UpdatePlace => call'["mgr"].next \in {"erase", "list"}
BY GotoFacts DEF TypeOK, Thread

LEMMA ManagerCalls ==
  ASSUME TypeOK, NEW want \in Interest, NEW next \in {"erase", "list"},
         UpdateSelectStatus("mgr", want, next),
         UNCHANGED <<connVars, interestVars, pollVars, listVars, toPush>>
  PROVE  TypeOK'
<1>1. /\ pc' \in [Thread -> AppPlace \cup MgrPlace]
      /\ pc'["mgr"] = "look" /\ pc'["app"] = pc["app"]
      /\ call'["mgr"].next = next /\ call'["app"] = call["app"]
      /\ call' \in [Thread -> [want : Interest, next : {"idle", "lock", "erase", "list"}]]
  BY DEF TypeOK, UpdateSelectStatus, Goto, Thread, AppPlace, UpdatePlace
<1> QED
  BY <1>1
  DEF TypeOK, MgrPlace, UpdatePlace, connVars, interestVars, pollVars, listVars

LEMMA ManagerRunsIsTyped ==
  ASSUME TypeOK, ManagerRuns
  PROVE  TypeOK'
<1> USE DEF connVars, interestVars, pollVars, listVars
<1> DEFINE Plain == MgrPlace \ UpdatePlace
<1>1. CASE \E s \in Status : Connect(s)
  <2>1. PICK s \in Status : Connect(s)
    BY <1>1
  <2>2. PICK place \in Plain : Goto("mgr", place)
    BY <2>1 DEF Connect, MgrPlace, UpdatePlace
  <2> QED
    BY <2>1, <2>2, ManagerMoves DEF TypeOK, Connect
<1>2. CASE \E s \in Status : ReadEvent(s) \/ ReadNothing(s)
  <2>1. PICK s \in Status : ReadEvent(s) \/ ReadNothing(s)
    BY <1>2
  <2>2. PICK place \in Plain : Goto("mgr", place)
    BY <2>1 DEF ReadEvent, ReadNothing, MgrPlace, UpdatePlace
  <2> QED
    BY <2>1, <2>2, ManagerMoves DEF TypeOK, ReadEvent, ReadNothing, TryConnect
<1>3. CASE NothingInList \/ EraseFromList \/ Timeout
  <2>1. PICK place \in Plain : Goto("mgr", place)
    BY <1>3 DEF NothingInList, EraseFromList, Timeout, MgrPlace, UpdatePlace
  <2> QED
    BY <1>3, <2>1, ManagerMoves DEF TypeOK, NothingInList, EraseFromList, Timeout
<1>4. CASE HasWriteQueue
  <2>1. PICK want \in Interest : UpdateSelectStatus("mgr", want, "erase")
    BY <1>4 DEF HasWriteQueue, Interest
  <2> QED
    BY <1>4, <2>1, ManagerCalls DEF HasWriteQueue
<1>5. CASE Look("mgr") \/ SetStatus("mgr") \/ SetEvents("mgr")
  BY <1>5, LookIsTyped, SetIsTyped DEF Thread
<1>6. CASE Poll
  <2>1. PICK place \in Plain : Goto("mgr", place)
    BY <1>6 DEF Poll, MgrPlace, UpdatePlace
  <2> QED
    BY <1>6, <2>1, ManagerMoves DEF TypeOK, Poll
<1>7. CASE StartWrite \/ EndWrite
  <2>1. PICK place \in Plain : Goto("mgr", place)
    BY <1>7 DEF StartWrite, EndWrite, MgrPlace, UpdatePlace
  <2> QED
    BY <1>7, <2>1, ManagerMoves DEF TypeOK, StartWrite, EndWrite
<1>8. CASE SendFirst
  <2>1. out' \in Seq(Nat) /\ writeBufferList' \in Seq(Nat)
    BY <1>8 DEF TypeOK, SendFirst
  <2> QED
    BY <1>8, <2>1 DEF TypeOK, SendFirst
<1>9. CASE CheckEmpty
  <2>1. CASE UpdateSelectStatus("mgr", READ_OK, "list")
    BY <1>9, <2>1, ManagerCalls DEF CheckEmpty, Interest
  <2>2. CASE Goto("mgr", "list") /\ UNCHANGED call
    <3>1. "list" \in Plain
      BY DEF MgrPlace, UpdatePlace
    <3> QED
      BY <1>9, <2>2, <3>1, ManagerMoves DEF TypeOK, CheckEmpty
  <2> QED
    BY <1>9, <2>1, <2>2 DEF CheckEmpty
<1> QED
  BY <1>1, <1>2, <1>3, <1>4, <1>5, <1>6, <1>7, <1>8, <1>9 DEF ManagerRuns

LEMMA PollReportsIsTyped ==
  ASSUME TypeOK, PollReports
  PROVE  TypeOK'
<1>1. PICK r \in SUBSET polled : PollReturn(r)
  BY DEF PollReports
<1>2. "run" \in MgrPlace \ UpdatePlace /\ ready' \subseteq READ_WRITE_OK
  BY <1>1 DEF TypeOK, PollReturn, MgrPlace, UpdatePlace, Interest, READ_OK, READ_WRITE_OK
<1> QED
  BY <1>1, <1>2, ManagerMoves
  DEF TypeOK, PollReturn, connVars, interestVars, listVars

LEMMA NextIsTyped ==
  ASSUME TypeOK, [Next]_vars
  PROVE  TypeOK'
<1>1. CASE FinishCall
  BY <1>1, LookIsTyped, SetIsTyped, LockAndReadIsTyped, PushAndUnlockIsTyped
  DEF FinishCall, Thread
<1>2. CASE UNCHANGED vars
  BY <1>2 DEF TypeOK, vars
<1> QED
  BY <1>1, <1>2, StartCallIsTyped, ManagerRunsIsTyped, PollReportsIsTyped DEF Next

-----------------------------------------------------------------------------
(* The list. *)

LEMMA InitIsInOrder == Init => NoStaleCopy /\ SentOnceInOrder
BY DEF Init, NoStaleCopy, SentOnceInOrder, At

\* The row 1, 2, ..., n with n + 1 at its end.
LEMMA RowGrows ==
  ASSUME NEW n \in Nat
  PROVE  /\ [i \in 1 .. n |-> i] \in Seq(Nat)
         /\ Append([i \in 1 .. n |-> i], n + 1) = [i \in 1 .. n + 1 |-> i]
<1> DEFINE row == [i \in 1 .. n |-> i]
<1>1. row \in Seq(Nat) /\ Len(row) = n
  OBVIOUS
<1> QED
  BY <1>1

\* A step that leaves the list, the mutex and the places of push_back and
\* pop_front alone.
LEMMA ListUntouched ==
  ASSUME IInv, UNCHANGED listVars,
         At("app", "push")' <=> At("app", "push"),
         At("mgr", "send")' <=> At("mgr", "send")
  PROVE  NoStaleCopy' /\ SentOnceInOrder'
BY DEF IInv, NoStaleCopy, SentOnceInOrder, At, listVars

\* Where UpdateSelectStatus takes a thread is neither.
LEMMA UpdateLeavesList ==
  ASSUME IInv, NEW t \in Thread, Look(t) \/ SetStatus(t) \/ SetEvents(t)
  PROVE  NoStaleCopy' /\ SentOnceInOrder'
<1>1. pc[t] \in UpdatePlace /\ call[t].next \in {"lock", "erase", "list"}
  BY DEF IInv, TypeOK, Thread, UpdatePlace, Look, SetStatus, SetEvents, At
<1>2. PICK place \in {"status", "events", call[t].next} : Goto(t, place)
  BY DEF Look, SetStatus, SetEvents
<1>3. place \in AppPlace \cup MgrPlace /\ place \notin {"push", "send"}
  BY <1>1, <1>2 DEF AppPlace, MgrPlace, UpdatePlace
<1>4. pc'[t] = place /\ \A u \in Thread \ {t} : pc'[u] = pc[u]
  BY <1>2, <1>3, GotoFacts DEF IInv
<1>5. UNCHANGED listVars
  BY DEF Look, SetStatus, SetEvents
<1> QED
  BY <1>1, <1>3, <1>4, <1>5, ListUntouched DEF Thread, At, UpdatePlace

LEMMA StartCallLeavesList ==
  ASSUME IInv, StartCall
  PROVE  NoStaleCopy' /\ SentOnceInOrder'
<1>1. UNCHANGED listVars /\ pc["app"] = "idle"
  BY DEF StartCall, StreamWrite, BlockCommit, At
<1>2. PICK place \in {"look", "lock"} : Goto("app", place)
  BY DEF StartCall, StreamWrite, BlockCommit, UpdateSelectStatus
<1>3. pc'["app"] = place /\ pc'["mgr"] = pc["mgr"]
  BY <1>2, GotoFacts DEF IInv, Thread, AppPlace, UpdatePlace
<1> QED
  BY <1>1, <1>3, ListUntouched DEF At

LEMMA PushKeepsOrder ==
  ASSUME IInv, LockAndRead \/ PushAndUnlock
  PROVE  NoStaleCopy' /\ SentOnceInOrder'
<1>1. out \in Seq(Nat) /\ writeBufferList \in Seq(Nat) /\ pushed \in Nat
  BY DEF IInv, TypeOK
<1>2. CASE LockAndRead
  <2>1. pc'["app"] = "push" /\ pc'["mgr"] = pc["mgr"]
    BY <1>2, GotoFacts DEF IInv, LockAndRead, Thread, AppPlace
  <2> QED
    BY <1>2, <2>1 DEF IInv, NoStaleCopy, SentOnceInOrder, LockAndRead, At
<1>3. CASE PushAndUnlock
  <2>1. PICK place \in {"lock", "idle"} : Goto("app", place)
    BY <1>3 DEF PushAndUnlock
  <2>2. pc'["app"] = place /\ pc'["mgr"] = pc["mgr"]
    BY <2>1, GotoFacts DEF IInv, Thread, AppPlace
  <2>3. pc["app"] = "push" /\ copy = writeBufferList /\ writeBufferMutex = "app"
    BY <1>3 DEF IInv, NoStaleCopy, PushAndUnlock, At
  <2>4. NoStaleCopy'
    BY <1>3, <2>2, <2>3 DEF IInv, NoStaleCopy, PushAndUnlock, At
  <2>5. out \o Append(writeBufferList, pushed + 1)
          = Append(out \o writeBufferList, pushed + 1)
    BY <1>1, AppendConcat
  <2>6. out \o writeBufferList = [i \in 1 .. pushed |-> i]
    BY DEF IInv, SentOnceInOrder
  <2>7. SentOnceInOrder'
    BY <1>1, <1>3, <2>3, <2>5, <2>6, RowGrows DEF SentOnceInOrder, PushAndUnlock
  <2> QED
    BY <2>4, <2>7
<1> QED
  BY <1>2, <1>3

LEMMA SendFirstKeepsOrder ==
  ASSUME IInv, SendFirst
  PROVE  NoStaleCopy' /\ SentOnceInOrder'
<1>1. out \in Seq(Nat) /\ writeBufferList \in Seq(Nat) /\ writeBufferList # <<>>
  BY DEF IInv, TypeOK, SendFirst
<1>2. out' \o writeBufferList' = out \o writeBufferList
  BY <1>1, MoveKeepsConcat DEF SendFirst
<1>3. SentOnceInOrder'
  BY <1>2 DEF IInv, SentOnceInOrder, SendFirst
<1>4. NoStaleCopy'
  BY DEF IInv, NoStaleCopy, SendFirst, At
<1> QED
  BY <1>3, <1>4

LEMMA MutexIsPassed ==
  ASSUME IInv, StartWrite \/ EndWrite
  PROVE  NoStaleCopy' /\ SentOnceInOrder'
<1>1. PICK place \in {"send", "read"} : Goto("mgr", place)
  BY DEF StartWrite, EndWrite
<1>2. pc'["mgr"] = place /\ pc'["app"] = pc["app"]
  BY <1>1, GotoFacts DEF IInv, Thread, MgrPlace
<1>3. SentOnceInOrder'
  BY DEF IInv, SentOnceInOrder, StartWrite, EndWrite
<1>4. CASE StartWrite
  <2>1. pc["mgr"] = "run" /\ writeBufferMutex # "mgr"
    BY <1>4 DEF IInv, NoStaleCopy, StartWrite, At
  <2>2. /\ writeBufferMutex' = "mgr" <=> place = "send"
        /\ writeBufferMutex' = "app" <=> writeBufferMutex = "app"
    <3>1. CASE "WRITE" \in ready /\ status = "STATUS_CONNECTED"
      <4>1. Goto("mgr", "send") /\ writeBufferMutex = "free" /\ writeBufferMutex' = "mgr"
        BY <1>4, <3>1 DEF StartWrite
      <4> QED
        BY <1>2, <4>1, GotoFacts DEF IInv, Thread, MgrPlace
    <3>2. CASE ~("WRITE" \in ready /\ status = "STATUS_CONNECTED")
      <4>1. Goto("mgr", "read") /\ UNCHANGED writeBufferMutex
        BY <1>4, <3>2 DEF StartWrite
      <4> QED
        BY <1>2, <2>1, <4>1, GotoFacts DEF IInv, Thread, MgrPlace
    <3> QED
      BY <3>1, <3>2
  <2> QED
    BY <1>2, <1>3, <1>4, <2>2 DEF IInv, NoStaleCopy, StartWrite, At
<1>5. CASE EndWrite
  <2>1. place = "read" /\ writeBufferMutex = "mgr" /\ writeBufferMutex' = "free"
    <3>1. Goto("mgr", "read")
      BY <1>5 DEF EndWrite
    <3>2. pc'["mgr"] = "read"
      BY <3>1, GotoFacts DEF IInv, Thread, MgrPlace
    <3> QED
      BY <1>2, <1>5, <3>2 DEF IInv, NoStaleCopy, EndWrite, At
  <2> QED
    BY <1>2, <1>3, <1>5, <2>1 DEF IInv, NoStaleCopy, EndWrite, At
<1> QED
  BY <1>4, <1>5

\* The other steps of the manager and of poll() move it between other places.
LEMMA ManagerLeavesList ==
  ASSUME IInv, UNCHANGED listVars,
         NEW place \in MgrPlace \ {"send"}, Goto("mgr", place), pc["mgr"] # "send"
  PROVE  NoStaleCopy' /\ SentOnceInOrder'
<1>1. pc'["mgr"] = place /\ pc'["app"] = pc["app"]
  BY GotoFacts DEF IInv, Thread
<1> QED
  BY <1>1, ListUntouched DEF At

LEMMA ManagerRunsKeepsOrder ==
  ASSUME IInv, ManagerRuns \/ PollReports
  PROVE  NoStaleCopy' /\ SentOnceInOrder'
<1> DEFINE Others == \/ \E s \in Status : Connect(s) \/ ReadEvent(s) \/ ReadNothing(s)
                     \/ NothingInList \/ HasWriteQueue \/ EraseFromList
                     \/ Poll \/ Timeout \/ CheckEmpty
                     \/ \E r \in SUBSET polled : PollReturn(r)
<1>1. CASE Others
  <2>1. /\ UNCHANGED listVars /\ pc["mgr"] # "send"
        /\ \E place \in MgrPlace \ {"send"} : Goto("mgr", place)
    BY <1>1
    DEF Connect, ReadEvent, ReadNothing, NothingInList, HasWriteQueue, EraseFromList,
        Poll, Timeout, CheckEmpty, PollReturn, UpdateSelectStatus, MgrPlace,
        UpdatePlace, At
  <2> QED
    BY <2>1, ManagerLeavesList
<1> QED
  BY <1>1, UpdateLeavesList, MutexIsPassed, SendFirstKeepsOrder
  DEF ManagerRuns, PollReports, Thread

LEMMA NextKeepsOrder ==
  ASSUME IInv, [Next]_vars
  PROVE  NoStaleCopy' /\ SentOnceInOrder'
<1>1. CASE FinishCall
  BY <1>1, UpdateLeavesList, PushKeepsOrder DEF FinishCall, Thread
<1>2. CASE UNCHANGED vars
  BY <1>2, ListUntouched DEF vars, listVars, At
<1> QED
  BY <1>1, <1>2, StartCallLeavesList, ManagerRunsKeepsOrder DEF Next

-----------------------------------------------------------------------------
\* IInv is inductive: without the mutex's part, a push could write back a list
\* that pop_front has changed meanwhile.
THEOREM Inductive == Spec => []IInv
<1>1. Init => IInv
  BY InitIsTyped, InitIsInOrder DEF IInv
<1>2. IInv /\ [Next]_vars => IInv'
  BY NextIsTyped, NextKeepsOrder DEF IInv
<1> QED
  BY <1>1, <1>2, PTL DEF Spec

\* Every variable of the two threads keeps its type.
THEOREM TypeCorrect == Spec => []TypeOK
<1>1. IInv => TypeOK
  BY DEF IInv
<1> QED
  BY <1>1, Inductive, PTL

\* The list that NonBlockWrite extends is the current one.
THEOREM CopyIsCurrent == Spec => []NoStaleCopy
<1>1. IInv => NoStaleCopy
  BY DEF IInv
<1> QED
  BY <1>1, Inductive, PTL

\* Every chunk is sent at most once, in the order of the pushes, for every
\* number of chunks and every interleaving of the two threads.
THEOREM ChunksSentOnceInOrder == Spec => []SentOnceInOrder
<1>1. IInv => SentOnceInOrder
  BY DEF IInv
<1> QED
  BY <1>1, Inductive, PTL
=============================================================================
