----------------------------- MODULE EventManager -----------------------------
(***************************************************************************)
(* plEventManager: a list of events under a mutex, and a condition that    *)
(* consumers wait for.  Event.cpp uses thread_cond_reset, which only the   *)
(* Win32 build has, so the condition is a Win32 event with manual reset:   *)
(* it stays signalled until it is reset, and any number of waits pass.     *)
(*                                                                         *)
(* Everything between lock and unlock is one step; a wait is one step to   *)
(* its unlock, one in which WaitForSingleObject returns, and one from the  *)
(* lock that follows.  The second condition, canNotWriteCond, is set and   *)
(* reset but nothing waits for it or reads it: it is left out, as are the  *)
(* events' data and handlers.                                              *)
(***************************************************************************)
EXTENDS Naturals, Sequences

CONSTANTS
  Client,       \* the threads that use the manager
  MaxPushed,    \* bound: how many events are pushed
  NULL

ASSUME ConstantsAssumption ==
  /\ MaxPushed \in Nat
  /\ NULL \notin Nat

VARIABLES
  queue,        \* the list; an event is named by the number of its push
  canRead,      \* canReadCond is signalled
  pc,           \* where each client is
  pushed,       \* how many events were pushed
  taken,        \* history: the events that were taken, in this order
  crowded       \* history: waiting clients beside which another timed one waits

vars == <<queue, canRead, pc, pushed, taken, crowded>>

\* CreateEvent's third argument: signalled from the beginning.
Init ==
  /\ queue = <<>>
  /\ canRead = TRUE
  /\ pc = [c \in Client |-> "idle"]
  /\ pushed = 0
  /\ taken = <<>>
  /\ crowded = {}

\* pop_front, when there is something.
TakeFront ==
  /\ queue # <<>>
  /\ taken' = Append(taken, Head(queue))
  /\ queue' = Tail(queue)

-----------------------------------------------------------------------------
(* Operations that do not wait. *)

Push(c, q) ==
  /\ pc[c] = "idle" /\ pushed < MaxPushed
  /\ q # NULL
  /\ queue' = Append(queue, q)
  /\ canRead' = TRUE
  /\ pushed' = pushed + 1
  /\ UNCHANGED <<pc, taken, crowded>>

\* Mutant: the condition is reset although events are left.
PopResets(c) ==
  /\ pc[c] = "idle"
  /\ TakeFront
  /\ canRead' = FALSE
  /\ UNCHANGED <<pc, pushed, crowded>>

\* pop, and next, which calls the event's handler after it.
Pop(c) ==
  /\ pc[c] = "idle"
  /\ TakeFront
  /\ canRead' = (canRead /\ queue' # <<>>)
  /\ UNCHANGED <<pc, pushed, crowded>>

\* Mutant: the list that is handed out stays the manager's.
PopAllKeeps(c) ==
  /\ pc[c] = "idle"
  /\ queue # <<>>
  /\ taken' = taken \o queue
  /\ UNCHANGED <<queue, canRead, pc, pushed, crowded>>

\* The whole list is handed out; the condition stays as it is.
PopAll(c) ==
  /\ pc[c] = "idle"
  /\ queue # <<>>
  /\ taken' = taken \o queue
  /\ queue' = <<>>
  /\ UNCHANGED <<canRead, pc, pushed, crowded>>

-----------------------------------------------------------------------------
(* timedPop, with a time ("timed") or with none ("patient"). *)

\* There is an event already: the condition is not looked at.
TimedPopAtOnce(c) ==
  /\ pc[c] = "idle"
  /\ TakeFront
  /\ UNCHANGED <<canRead, pc, pushed, crowded>>

Waiting == {c \in Client : pc[c] # "idle"}
WillReset == {c \in Client : pc[c] \in {"timed", "woken"}}
Sleeping == {c \in Client : pc[c] \in {"timed", "patient"}}

Sleep(c, how) ==
  /\ pc[c] = "idle"
  /\ queue = <<>>
  /\ pc' = [pc EXCEPT ![c] = how]
  /\ crowded' = crowded \cup (IF how = "timed" THEN Waiting ELSE {})
                        \cup (IF WillReset # {} THEN {c} ELSE {})
  /\ UNCHANGED <<queue, canRead, pushed, taken>>

\* WaitForSingleObject returns WAIT_OBJECT_0.
Wake(c) ==
  /\ c \in Sleeping
  /\ canRead
  /\ pc' = [pc EXCEPT ![c] = IF @ = "timed" THEN "woken" ELSE "back"]
  /\ UNCHANGED <<queue, canRead, pushed, taken, crowded>>

Timeout(c) ==
  /\ pc[c] = "timed"
  /\ pc' = [pc EXCEPT ![c] = "back"]
  /\ UNCHANGED <<queue, canRead, pushed, taken, crowded>>

\* Mutant: every wait that was called resets the condition, the patient too.
ResetAlways(c) == canRead' = FALSE

\* thread_cond_timedwait resets the condition that called it, thread_cond_wait
\* does not.
ResetIfTimed(c) == canRead' = (canRead /\ pc[c] # "woken")

\* The mutex is locked again: what is there is taken, else NULL is returned.
Return(c) ==
  /\ pc[c] \in {"woken", "back"}
  /\ ResetIfTimed(c)
  /\ \/ TakeFront
     \/ queue = <<>> /\ UNCHANGED <<queue, taken>>
  /\ pc' = [pc EXCEPT ![c] = "idle"]
  /\ crowded' = crowded \ {c}
  /\ UNCHANGED pushed

Next ==
  \E c \in Client :
    \/ \E q \in {pushed + 1, NULL} : Push(c, q)
    \/ Pop(c) \/ PopAll(c) \/ TimedPopAtOnce(c)
    \/ \E how \in {"timed", "patient"} : Sleep(c, how)
    \/ Wake(c) \/ Timeout(c) \/ Return(c)

Spec == Init /\ [][Next]_vars

\* The system lets a wait return whose condition is signalled, and grants the
\* mutex to who wants it.
FairSpec == Spec /\ \A c \in Client : WF_vars(Wake(c)) /\ WF_vars(Return(c))

-----------------------------------------------------------------------------
(* Properties. *)

\* Every variable has its type; only events that were pushed are in the list.
TypeOK ==
  /\ queue \in Seq(1 .. pushed) /\ taken \in Seq(1 .. pushed)
  /\ canRead \in BOOLEAN
  /\ pc \in [Client -> {"idle", "timed", "patient", "woken", "back"}]
  /\ pushed \in 0 .. MaxPushed
  /\ crowded \subseteq Waiting

\* Events are taken once each, in the order of the pushes, by pop, timedPop and
\* popAll together, whoever calls them; the rest is in the list.
TakenOnceInOrder == taken \o queue = [n \in 1 .. pushed |-> n]

\* No wake-up is lost: while there is an event, the condition calls a client
\* that sleeps, unless another client's timed wait overlaps with its own: that
\* one may reset the condition when a second event has come.
SleeperIsCalled ==
  \A c \in Sleeping \ crowded : queue # <<>> => canRead

\* So a client that waits without a time gets up when an event comes, unless
\* others take all events before.
PatientGetsUp ==
  \A c \in Client :
    (pc[c] = "patient" /\ queue # <<>>) ~>
      (pc[c] # "patient" \/ c \in crowded \/ queue = <<>>)
=============================================================================
