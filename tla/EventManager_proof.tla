------------------------- MODULE EventManager_proof -------------------------
(***************************************************************************)
(* Proofs about EventManager: for any number of clients and events, each   *)
(* event is taken once and in its turn, and no wake-up is lost but where   *)
(* another client's timed wait overlaps.                                   *)
(***************************************************************************)
EXTENDS EventManager, Integers, SequenceTheorems, TLAPS

USE ConstantsAssumption

-----------------------------------------------------------------------------
(* Sequences. *)

\* The type and length of a concatenation.
LEMMA ConcatType ==
  ASSUME NEW S, NEW s \in Seq(S), NEW t \in Seq(S)
  PROVE  /\ s \o t \in Seq(S)
         /\ Len(s \o t) = Len(s) + Len(t)
OBVIOUS

\* A queue that is the concatenation of two is popped at its first part as
\* long as that has an element, and then at its second.
LEMMA HeadTailConcat ==
  ASSUME NEW S, NEW s \in Seq(S), NEW t \in Seq(S)
  PROVE  /\ s \o t \in Seq(S)
         /\ Len(s \o t) = Len(s) + Len(t)
         /\ s \o t = <<>> <=> s = <<>> /\ t = <<>>
         /\ s = <<>> => s \o t = t
         /\ s # <<>> => /\ Head(s \o t) = Head(s)
                        /\ Tail(s \o t) = Tail(s) \o t
OBVIOUS

\* Moving the first element of the second queue to the end of the first
\* changes nothing in their concatenation.
LEMMA MoveKeepsConcat ==
  ASSUME NEW S, NEW s \in Seq(S), NEW t \in Seq(S), t # <<>>
  PROVE  /\ Append(s, Head(t)) \o Tail(t) = s \o t
         /\ Append(s, Head(t)) \in Seq(S)
         /\ Tail(t) \in Seq(S)
OBVIOUS

\* Queuing at the end of the second queue is queuing at the end of both.
LEMMA AppendConcat ==
  ASSUME NEW S, NEW s \in Seq(S), NEW t \in Seq(S), NEW e \in S
  PROVE  s \o Append(t, e) = Append(s \o t, e)
OBVIOUS

\* Who sleeps beside a client that will reset the condition is noted.
OverlapIsNoted ==
  \A c \in Sleeping, d \in WillReset : c # d => c \in crowded

-----------------------------------------------------------------------------
(* Types. *)

LEMMA WiderRange ==
  ASSUME NEW n \in Nat, NEW s \in Seq(1 .. n)
  PROVE  s \in Seq(1 .. n + 1)
OBVIOUS

LEMMA TakeFrontFacts ==
  ASSUME TypeOK, TakeFront
  PROVE  /\ queue' \in Seq(1 .. pushed) /\ taken' \in Seq(1 .. pushed)
         /\ taken' \o queue' = taken \o queue
<1>1. /\ queue # <<>> /\ queue' = Tail(queue)
      /\ taken' = Append(taken, Head(queue))
  BY DEF TakeFront
<1> QED
  BY <1>1, MoveKeepsConcat DEF TypeOK

LEMMA InitIsTyped == Init => TypeOK
BY DEF Init, TypeOK

LEMMA PushFacts ==
  ASSUME TypeOK, NEW c \in Client, NEW q \in {pushed + 1, NULL}, Push(c, q)
  PROVE  /\ pushed \in Nat /\ pushed' = pushed + 1 /\ pushed' \in 0 .. MaxPushed
         /\ queue' = Append(queue, pushed')
         /\ queue' \in Seq(1 .. pushed') /\ taken' \in Seq(1 .. pushed')
<1>1. /\ pushed \in Nat /\ pushed < MaxPushed
      /\ pushed' = pushed + 1 /\ q = pushed'
      /\ queue' = Append(queue, pushed') /\ taken' = taken
  BY DEF Push, TypeOK
<1>2. queue \in Seq(1 .. pushed + 1) /\ taken \in Seq(1 .. pushed + 1)
  BY <1>1, WiderRange DEF TypeOK
<1>3. pushed + 1 \in 1 .. pushed + 1
  BY <1>1
<1>4. queue' \in Seq(1 .. pushed + 1)
  BY <1>1, <1>2, <1>3
<1> QED
  BY <1>1, <1>2, <1>4

LEMMA StepIsTyped ==
  ASSUME TypeOK, [Next]_vars
  PROVE  TypeOK'
<1>1. CASE UNCHANGED vars
  BY <1>1 DEF TypeOK, vars, Waiting
<1>2. ASSUME NEW c \in Client, NEW q \in {pushed + 1, NULL}, Push(c, q)
      PROVE  TypeOK'
  BY <1>2, PushFacts DEF TypeOK, Push, Waiting
<1>3. ASSUME NEW c \in Client, Pop(c)
      PROVE  TypeOK'
  BY <1>3, TakeFrontFacts DEF TypeOK, Pop, Waiting
<1>4. ASSUME NEW c \in Client, PopAll(c)
      PROVE  TypeOK'
  BY <1>4, ConcatType DEF TypeOK, PopAll, Waiting
<1>5. ASSUME NEW c \in Client, TimedPopAtOnce(c)
      PROVE  TypeOK'
  BY <1>5, TakeFrontFacts DEF TypeOK, TimedPopAtOnce, Waiting
<1>6. ASSUME NEW c \in Client, NEW how \in {"timed", "patient"}, Sleep(c, how)
      PROVE  TypeOK'
  BY <1>6 DEF TypeOK, Sleep, Waiting
<1>7. ASSUME NEW c \in Client, Wake(c)
      PROVE  TypeOK'
  BY <1>7 DEF TypeOK, Wake, Waiting, Sleeping
<1>8. ASSUME NEW c \in Client, Timeout(c)
      PROVE  TypeOK'
  BY <1>8 DEF TypeOK, Timeout, Waiting
<1>9. ASSUME NEW c \in Client, Return(c)
      PROVE  TypeOK'
  <2>1. queue' \in Seq(1 .. pushed) /\ taken' \in Seq(1 .. pushed)
    BY <1>9, TakeFrontFacts DEF Return, TypeOK
  <2>2. canRead' \in BOOLEAN
    BY <1>9 DEF Return, ResetIfTimed, TypeOK
  <2> QED
    BY <1>9, <2>1, <2>2 DEF TypeOK, Return, Waiting
<1> QED
  BY <1>1, <1>2, <1>3, <1>4, <1>5, <1>6, <1>7, <1>8, <1>9 DEF Next

\* The types hold, for any clients and any number of events.
THEOREM TypeCorrect == Spec => []TypeOK
BY InitIsTyped, StepIsTyped, PTL DEF Spec

-----------------------------------------------------------------------------
(* Order. *)

LEMMA StepKeepsOrder ==
  ASSUME TypeOK, TakenOnceInOrder, [Next]_vars
  PROVE  TakenOnceInOrder'
<1>1. ASSUME NEW c \in Client, NEW q \in {pushed + 1, NULL}, Push(c, q)
      PROVE  TakenOnceInOrder'
  <2>1. /\ pushed \in Nat /\ pushed' = pushed + 1
        /\ queue' = Append(queue, pushed') /\ taken' = taken
    BY <1>1, PushFacts DEF Push
  <2>2. queue \in Seq(Nat) /\ taken \in Seq(Nat)
    BY <2>1 DEF TypeOK
  <2>3. taken' \o queue' = Append(taken \o queue, pushed + 1)
    BY <2>1, <2>2, AppendConcat
  <2>4. Append([n \in 1 .. pushed |-> n], pushed + 1) = [n \in 1 .. pushed + 1 |-> n]
    BY <2>1
  <2> QED
    BY <2>1, <2>3, <2>4 DEF TakenOnceInOrder
<1>2. ASSUME TakeFront, UNCHANGED pushed
      PROVE  TakenOnceInOrder'
  BY <1>2, TakeFrontFacts DEF TakenOnceInOrder
<1>3. ASSUME NEW c \in Client, PopAll(c)
      PROVE  TakenOnceInOrder'
  BY <1>3, ConcatType, HeadTailConcat DEF PopAll, TakenOnceInOrder, TypeOK
<1>4. ASSUME UNCHANGED <<queue, taken, pushed>>
      PROVE  TakenOnceInOrder'
  BY <1>4 DEF TakenOnceInOrder
<1>5. ASSUME NEW c \in Client, Return(c)
      PROVE  TakenOnceInOrder'
  BY <1>5, <1>2, <1>4 DEF Return
<1> QED
  BY <1>1, <1>2, <1>3, <1>4, <1>5
  DEF Next, Pop, TimedPopAtOnce, Sleep, Wake, Timeout, vars

LEMMA InitIsOrdered == Init => TakenOnceInOrder
BY DEF Init, TakenOnceInOrder

\* Any number of clients, with any mix of pop, popAll and timedPop, takes every
\* event once and in the order of the pushes.
THEOREM EventsComeInOrder == Spec => []TakenOnceInOrder
BY InitIsTyped, StepIsTyped, InitIsOrdered, StepKeepsOrder, PTL DEF Spec

-----------------------------------------------------------------------------
(* Wake-ups.  The condition is reset by pop, which leaves no event then, and *)
(* by a timed wait, beside which every other sleeper is crowded.             *)

LEMMA StepNotesOverlap ==
  ASSUME TypeOK, OverlapIsNoted, [Next]_vars
  PROVE  OverlapIsNoted'
<1>1. ASSUME UNCHANGED <<pc, crowded>>
      PROVE  OverlapIsNoted'
  BY <1>1 DEF OverlapIsNoted, Sleeping, WillReset
<1>2. ASSUME NEW c \in Client, NEW how \in {"timed", "patient"}, Sleep(c, how)
      PROVE  OverlapIsNoted'
  BY <1>2 DEF OverlapIsNoted, Sleeping, WillReset, Waiting, Sleep, TypeOK
<1>3. ASSUME NEW c \in Client, Wake(c)
      PROVE  OverlapIsNoted'
  BY <1>3 DEF OverlapIsNoted, Sleeping, WillReset, Wake, TypeOK
<1>4. ASSUME NEW c \in Client, Timeout(c)
      PROVE  OverlapIsNoted'
  BY <1>4 DEF OverlapIsNoted, Sleeping, WillReset, Timeout, TypeOK
<1>5. ASSUME NEW c \in Client, Return(c)
      PROVE  OverlapIsNoted'
  BY <1>5 DEF OverlapIsNoted, Sleeping, WillReset, Return, TypeOK
<1> QED
  BY <1>1, <1>2, <1>3, <1>4, <1>5
  DEF Next, Push, Pop, PopAll, TimedPopAtOnce, vars

LEMMA StepCallsSleepers ==
  ASSUME TypeOK, OverlapIsNoted, SleeperIsCalled, [Next]_vars
  PROVE  SleeperIsCalled'
<1>1. ASSUME UNCHANGED <<queue, canRead, pc, crowded>>
      PROVE  SleeperIsCalled'
  BY <1>1 DEF SleeperIsCalled, Sleeping
<1>2. ASSUME NEW c \in Client, NEW q \in {pushed + 1, NULL}, Push(c, q)
      PROVE  SleeperIsCalled'
  BY <1>2 DEF SleeperIsCalled, Push
<1>3. ASSUME NEW c \in Client, Pop(c)
      PROVE  SleeperIsCalled'
  BY <1>3 DEF SleeperIsCalled, Sleeping, Pop, TakeFront
<1>4. ASSUME NEW c \in Client, PopAll(c)
      PROVE  SleeperIsCalled'
  BY <1>4 DEF SleeperIsCalled, PopAll
<1>5. ASSUME NEW c \in Client, TimedPopAtOnce(c)
      PROVE  SleeperIsCalled'
  BY <1>5 DEF SleeperIsCalled, Sleeping, TimedPopAtOnce, TakeFront
<1>6. ASSUME NEW c \in Client, NEW how \in {"timed", "patient"}, Sleep(c, how)
      PROVE  SleeperIsCalled'
  BY <1>6 DEF SleeperIsCalled, Sleep
<1>7. ASSUME NEW c \in Client, Wake(c) \/ Timeout(c)
      PROVE  SleeperIsCalled'
  BY <1>7 DEF SleeperIsCalled, Sleeping, Wake, Timeout, TypeOK
<1>8. ASSUME NEW c \in Client, Return(c)
      PROVE  SleeperIsCalled'
  <2>1. CASE pc[c] = "woken"
    \* The reset finds no other sleeper that is not crowded.
    <3>1. c \in WillReset
      BY <2>1 DEF WillReset
    <3>2. \A d \in Client : d # c => pc'[d] = pc[d]
      BY <1>8 DEF Return, TypeOK
    <3>3. c \notin Sleeping'
      BY <1>8 DEF Return, Sleeping, TypeOK
    <3>4. Sleeping' \subseteq Sleeping
      BY <3>2, <3>3 DEF Sleeping
    <3>5. crowded' = crowded \ {c}
      BY <1>8 DEF Return
    <3>6. \A d \in Sleeping' : d \in crowded'
      BY <3>1, <3>3, <3>4, <3>5 DEF OverlapIsNoted
    <3> QED
      BY <3>6 DEF SleeperIsCalled
  <2>2. CASE pc[c] = "back"
    <3>1. canRead' = canRead
      BY <1>8, <2>2 DEF Return, ResetIfTimed, TypeOK
    <3>2. queue' # <<>> => queue # <<>>
      BY <1>8 DEF Return, TakeFront
    <3>3. \A d \in Sleeping' \ crowded' : d \in Sleeping \ crowded
      BY <1>8 DEF Return, Sleeping, TypeOK
    <3> QED
      BY <3>1, <3>2, <3>3 DEF SleeperIsCalled
  <2> QED
    BY <1>8, <2>1, <2>2 DEF Return
<1> QED
  BY <1>1, <1>2, <1>3, <1>4, <1>5, <1>6, <1>7, <1>8 DEF Next, vars

LEMMA InitCallsSleepers == Init => OverlapIsNoted /\ SleeperIsCalled
BY DEF Init, OverlapIsNoted, SleeperIsCalled, Sleeping, WillReset

\* Where no other client's timed wait overlaps, the condition calls every
\* sleeper as long as there is an event.
THEOREM NoWakeUpIsLost == Spec => []SleeperIsCalled
BY InitIsTyped, StepIsTyped, InitCallsSleepers, StepNotesOverlap,
   StepCallsSleepers, PTL DEF Spec
=============================================================================
