------------------------------ MODULE EventPool ------------------------------
(***************************************************************************)
(* EventPool: the list of events through which the manager's thread hands  *)
(* over to the threads of the application.  A thread in InvokeOne looks    *)
(* whether the list is empty, takes the front of it under the mutex, and   *)
(* runs the event's handler; the look at the list is not under the mutex.  *)
(***************************************************************************)
EXTENDS Sequences

CONSTANTS
  Threads,        \* the application's threads
  NULL            \* no event

VARIABLES
  eventList,      \* the events in the pool
  thread,         \* where each thread is in InvokeAll
  current,        \* the event each thread has taken and is about to invoke
  taken,          \* history: the events in the order they were taken
  broken          \* front() of an empty list was used

poolVars == <<eventList, thread, current, taken, broken>>

PoolInit ==
  /\ eventList = <<>>
  /\ thread = [t \in Threads |-> "out"]
  /\ current = [t \in Threads |-> NULL]
  /\ taken = <<>>
  /\ broken = FALSE

\* Mutant: a new event goes to the front.
AddEventInFront(ev) == eventList' = <<ev>> \o eventList

AddEvent(ev) == eventList' = Append(eventList, ev)

\* GetEvent's test, without the mutex.  InvokeAll ends when it finds nothing;
\* the application calls it again and again.
FindEvent(t) ==
  /\ thread[t] = "out"
  /\ eventList # <<>>
  /\ thread' = [thread EXCEPT ![t] = "found"]
  /\ UNCHANGED <<eventList, current, taken, broken>>

\* GetEvent under the mutex.
TakeFront(t) ==
  /\ thread[t] = "found"
  /\ eventList # <<>>
  /\ current' = [current EXCEPT ![t] = Head(eventList)]
  /\ taken' = Append(taken, Head(eventList))
  /\ eventList' = Tail(eventList)
  /\ thread' = [thread EXCEPT ![t] = "invoke"]
  /\ UNCHANGED broken

\* Another thread was faster: front() and pop_front() of an empty list, after
\* which nothing is said of the process.
TakeNothing(t) ==
  /\ thread[t] = "found"
  /\ eventList = <<>>
  /\ broken' = TRUE
  /\ UNCHANGED <<eventList, thread, current, taken>>

\* InvokeOne after the handler: the event is deleted.
DeleteEvent(t) ==
  /\ thread[t] = "invoke"
  /\ thread' = [thread EXCEPT ![t] = "out"]
  /\ current' = [current EXCEPT ![t] = NULL]
  /\ UNCHANGED <<eventList, taken, broken>>
=============================================================================
