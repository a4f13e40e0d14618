------------------------- MODULE RoutingTable_proof -------------------------
(***************************************************************************)
(* Proofs about RoutingTable: for any number of threads, keys, data and    *)
(* peers, and any length of ids, an element holds data or peers, a query   *)
(* that finds nothing is right, and a set spares the peers it knew of.     *)
(***************************************************************************)
EXTENDS RoutingTable, Integers, WellFoundedInduction, TLAPS

-----------------------------------------------------------------------------
(* Sets of numbers and sequences. *)

\* A nonempty set of naturals has a least element, and Min gives it.
LEMMA MinIsLeast ==
  ASSUME NEW S \in SUBSET Nat, S # {}
  PROVE  Min(S) \in S /\ \A n \in S : Min(S) =< n
<1>1. PICK m \in S : \A n \in S : ~ (<<n, m>> \in OpToRel(<, Nat))
  BY NatLessThanWellFounded, WFMin
<1>2. \A n, k \in Nat : n < k => <<n, k>> \in OpToRel(<, Nat)
  BY DEF OpToRel
<1>3. \A n \in S : m =< n
  <2>1. \A n \in S : n \in Nat /\ m \in Nat /\ ~ (n < m)
    BY <1>1, <1>2
  <2> QED
    BY <2>1
<1> QED
  BY <1>3 DEF Min

\* The type and length of a concatenation.
LEMMA ConcatType ==
  ASSUME NEW S, NEW s \in Seq(S), NEW t \in Seq(S)
  PROVE  /\ s \o t \in Seq(S)
         /\ Len(s \o t) = Len(s) + Len(t)
OBVIOUS

\* What is left when one entry of a list is removed.
LEMMA RemoveAtFacts ==
  ASSUME NEW S, NEW s \in Seq(S), NEW i \in DOMAIN s
  PROVE  /\ RemoveAt(s, i) \in Seq(S)
         /\ Len(RemoveAt(s, i)) = Len(s) - 1
<1>1. i \in 1 .. Len(s)
  OBVIOUS
<1>2. /\ SubSeq(s, 1, i - 1) \in Seq(S)
      /\ Len(SubSeq(s, 1, i - 1)) = i - 1
  BY <1>1
<1>3. /\ SubSeq(s, i + 1, Len(s)) \in Seq(S)
      /\ Len(SubSeq(s, i + 1, Len(s))) = Len(s) - i
  BY <1>1
<1> DEFINE a == SubSeq(s, 1, i - 1)
           b == SubSeq(s, i + 1, Len(s))
<1>4. a \o b \in Seq(S) /\ Len(a \o b) = Len(a) + Len(b)
  BY <1>2, <1>3, ConcatType
<1>5. Len(a) + Len(b) = Len(s) - 1
  <2>1. Len(a) = i - 1 /\ Len(b) = Len(s) - i /\ i \in Nat /\ Len(s) \in Nat
    BY <1>1, <1>2, <1>3
  <2> HIDE DEF a, b
  <2> QED
    BY <2>1
<1>6. RemoveAt(s, i) = a \o b
  BY DEF RemoveAt
<1> QED
  BY <1>4, <1>5, <1>6

-----------------------------------------------------------------------------
(* The operators of the model. *)

\* An id belongs to an element.
LEMMA GetElementIsElement ==
  ASSUME NEW target \in ID
  PROVE  GetElement(target) \in Element
<1>1. Differ(target) \in SUBSET Nat /\ Differ(target) \subseteq Position
  BY DEF Differ, Position
<1>2. CASE Differ(target) = {}
  <2>1. Digits - 1 \in Position
    BY ConstantsAssumption DEF Position
  <2> QED
    BY <1>2, <2>1 DEF GetElement, Element, ID
<1>3. CASE Differ(target) # {}
  <2>1. Min(Differ(target)) \in Position
    BY <1>1, <1>3, MinIsLeast
  <2> QED
    BY <1>3, <2>1 DEF GetElement, Element, ID
<1> QED
  BY <1>2, <1>3

\* Adding to a list.
LEMMA PutFacts ==
  ASSUME NEW S, NEW list \in Seq(S) \cup {NULL}, NEW x \in S, NULL \notin Seq(S)
  PROVE  /\ Put(list, x) \in Seq(S)
         /\ Put(list, x) # NULL /\ Put(list, x) # <<>>
         /\ Items(Put(list, x)) = Items(list) \cup {x}
<1>1. CASE list = NULL
  <2>1. Put(list, x) = <<x>> /\ <<x>> \in Seq(S) /\ <<x>> # <<>>
    BY <1>1 DEF Put
  <2>2. DOMAIN <<x>> = {1} /\ <<x>>[1] = x /\ <<x>> # NULL
    <3>1. DOMAIN <<x>> = {1} /\ <<x>>[1] = x
      OBVIOUS
    <3> QED
      BY <2>1, <3>1, Zenon
  <2>3. Items(Put(list, x)) = {x}
    BY <2>1, <2>2 DEF Items, ToSet
  <2> QED
    BY <1>1, <2>1, <2>3 DEF Items
<1>2. CASE list # NULL
  <2>1. /\ Put(list, x) = Append(list, x) /\ Append(list, x) \in Seq(S)
        /\ list \in Seq(S) /\ Append(list, x) # <<>>
    BY <1>2 DEF Put
  <2>2. /\ DOMAIN Append(list, x) = DOMAIN list \cup {Len(list) + 1}
        /\ \A n \in DOMAIN list : Append(list, x)[n] = list[n]
        /\ Append(list, x)[Len(list) + 1] = x
    BY <2>1
  <2>3. ToSet(Append(list, x)) = ToSet(list) \cup {x}
    BY <2>2 DEF ToSet
  <2>4. Items(Append(list, x)) = ToSet(Append(list, x)) /\ Items(list) = ToSet(list)
    BY <1>2, <2>1 DEF Items
  <2> QED
    BY <2>1, <2>3, <2>4
<1> QED
  BY <1>1, <1>2

\* A list from which the first of some places is erased is still a list, and
\* it is not empty: its last entry takes it away.
LEMMA EraseFirstFacts ==
  ASSUME NEW S, NEW list \in Seq(S), list # <<>>, NEW places \in SUBSET (DOMAIN list),
         NULL \notin Seq(S)
  PROVE  /\ EraseFirst(list, places) \in Seq(S) \cup {NULL}
         /\ EraseFirst(list, places) # <<>>
<1>1. CASE places = {} \/ Len(list) = 1
  <2>1. <<>> \in Seq(S)
    OBVIOUS
  <2>2. NULL # <<>>
    BY <2>1, Zenon
  <2> QED
    BY <1>1, <2>2 DEF EraseFirst
<1>2. CASE places # {} /\ Len(list) # 1
  <2>1. places \in SUBSET Nat
    OBVIOUS
  <2>2. Min(places) \in DOMAIN list
    BY <1>2, <2>1, MinIsLeast
  <2>3. /\ RemoveAt(list, Min(places)) \in Seq(S)
        /\ Len(RemoveAt(list, Min(places))) = Len(list) - 1
    BY <2>2, RemoveAtFacts
  <2>4. Len(list) > 1
    <3> DEFINE n == Len(list)
    <3>1. n \in Nat /\ n # 0 /\ n # 1
      BY <1>2
    <3> HIDE DEF n
    <3>2. n > 1
      BY <3>1
    <3> QED
      BY <3>2 DEF n
  <2>5. RemoveAt(list, Min(places)) # <<>>
    BY <2>3, <2>4
  <2> QED
    BY <1>2, <2>3, <2>5 DEF EraseFirst
<1> QED
  BY <1>1, <1>2

\* If no entry is the first of its key there is none of that key.
LEMMA FirstOfKeyFacts ==
  ASSUME NEW list \in Seq(Data), NEW k
  PROVE  /\ FirstOfKey(list, k) \subseteq DOMAIN list
         /\ FirstOfKey(list, k) = {} => ~ HasKey(list, k)
<1>1. FirstOfKey(list, k) \subseteq DOMAIN list
  BY DEF FirstOfKey
<1>2. ASSUME HasKey(list, k)
      PROVE  FirstOfKey(list, k) # {}
  <2> DEFINE S == {n \in DOMAIN list : DataKey[list[n]] = k}
  <2>1. list # NULL /\ Items(list) = {list[n] : n \in DOMAIN list}
    BY ConstantsAssumption DEF Items, ToSet
  <2>2. S \in SUBSET Nat /\ S # {}
    BY <1>2, <2>1 DEF HasKey
  <2>3. Min(S) \in S /\ \A n \in S : Min(S) =< n
    BY <2>2, MinIsLeast
  <2>4. \A m \in 1 .. Min(S) - 1 : m \in DOMAIN list /\ m \notin S
    <3> DEFINE n == Min(S)
    <3>1. n \in 1 .. Len(list) /\ Len(list) \in Nat
      BY <2>3
    <3>2. SUFFICES ASSUME NEW m \in 1 .. n - 1
                   PROVE  m \in DOMAIN list /\ m \notin S
      OBVIOUS
    <3> HIDE DEF n
    <3>3. m \in 1 .. Len(list) /\ ~ (n =< m)
      BY <3>1
    <3> QED
      BY <2>3, <3>3 DEF n
  <2>5. Min(S) \in FirstOfKey(list, k)
    BY <2>3, <2>4 DEF FirstOfKey
  <2> QED
    BY <2>5
<1> QED
  BY <1>1, <1>2

-----------------------------------------------------------------------------
(* The inductive invariant. *)

\* Which operations come to which places.
Fits(op, place) ==
  /\ place = "enqueue" => op \in {"set", "del"}
  /\ place \in {"type", "type2"} => op \in {"set", "del", "query"}
  /\ place \in {"lock1", "lock2", "store", "drop"} => op \in {"set", "setPeer"}
  /\ place \in {"test", "search"} => op \in {"del", "query", "delPeer"}

\* A thread in a call is at a place of its operation.
CallsInPlace == \A t \in Thread : pc[t] # "idle" => Fits(Op(t), pc[t])

\* Who stores into an element has its mutexes, the first of them while it
\* waits for the second.
HoldsMutexes ==
  \A t \in Thread :
    /\ pc[t] \in {"lock2", "store", "drop"} => mutex[Elem(t)]["data"] = t
    /\ pc[t] \in {"store", "drop"} => mutex[Elem(t)]["peer"] = t

\* A query during which its key was there all the time would find it.
QueriesWouldFind ==
  \A t \in Thread : Op(t) = "query" => t \in missing \/ HasKey(datas[Elem(t)], Item(t))

\* Where a set is past the test for peers, none are there but those that came
\* since.
PeersCameSince ==
  \A t \in Thread :
    /\ Op(t) = "set" /\ pc[t] \in {"type2", "lock1", "lock2", "store", "drop"}
    /\ peers[Elem(t)] # NULL
    => t \in raced

IInv ==
  /\ TypeOK /\ CallsInPlace /\ HoldsMutexes /\ ListsExclude
  /\ QueriesWouldFind /\ AnswersAreCurrent /\ PeersCameSince

-----------------------------------------------------------------------------
(* Types. *)

\* A call that is being made has the types of its operation.
LEMMA CallFacts ==
  ASSUME TypeOK, NEW t \in Thread, pc[t] # "idle"
  PROVE  /\ call[t] \in CallType /\ call[t] # NoCall
         /\ Elem(t) \in Element
         /\ Op(t) \in {"set", "del", "query", "setPeer", "delPeer"}
         /\ Op(t) \in {"set", "del"} => Item(t) \in Data
         /\ Op(t) = "query" => Item(t) \in Key
         /\ Op(t) \in {"setPeer", "delPeer"} => Item(t) \in Peer
<1>1. call[t] # NoCall /\ call[t] \in CallType
  BY DEF TypeOK
<1> QED
  BY <1>1 DEF CallType, CallOf, Op, Elem, Item

\* A thread of which the operation is known is in a call.
LEMMA OpMeansCall ==
  ASSUME TypeOK, NEW t \in Thread,
         Op(t) \in {"set", "del", "query", "setPeer", "delPeer"}
  PROVE  pc[t] # "idle"
BY DEF TypeOK, Op, NoCall

\* NoCall is the call without an operation.
LEMMA NoCallByOp ==
  ASSUME TypeOK, call' \in [Thread -> CallType \cup {NoCall}],
         NEW t \in Thread, Op(t)' = Op(t)
  PROVE  (call'[t] = NoCall) = (call[t] = NoCall)
<1>1. \A c \in CallType \cup {NoCall} : c = NoCall <=> c.op = "none"
  BY DEF CallType, CallOf, NoCall
<1> QED
  BY <1>1 DEF Op, TypeOK

\* What the lists of an element can be.
LEMMA ListFacts ==
  ASSUME TypeOK, NEW e \in Element
  PROVE  /\ datas[e] \in Seq(Data) \cup {NULL} /\ peers[e] \in Seq(Peer) \cup {NULL}
         /\ NULL \notin Seq(Data) /\ NULL \notin Seq(Peer)
BY ConstantsAssumption DEF TypeOK

\* A thread that moves leaves the others where they are.
LEMMA GotoFacts ==
  ASSUME TypeOK, NEW t \in Thread, NEW place \in Place, Goto(t, place)
  PROVE  /\ pc' \in [Thread -> Place]
         /\ pc'[t] = place
         /\ \A u \in Thread \ {t} : pc'[u] = pc[u]
BY DEF TypeOK, Goto

\* A thread that returns forgets its call; the others go on.
LEMMA ReturnFacts ==
  ASSUME TypeOK, NEW t \in Thread, Return(t)
  PROVE  /\ pc' \in [Thread -> Place]
         /\ call' \in [Thread -> CallType \cup {NoCall}]
         /\ pc'[t] = "idle" /\ call'[t] = NoCall
         /\ \A u \in Thread \ {t} : pc'[u] = pc[u] /\ call'[u] = call[u]
         /\ \A u \in Thread : (pc'[u] = "idle") = (call'[u] = NoCall)
         /\ missing' = missing \ {t} /\ raced' = raced \ {t}
<1>1. /\ pc' \in [Thread -> Place] /\ pc'[t] = "idle"
      /\ \A u \in Thread \ {t} : pc'[u] = pc[u]
  BY GotoFacts DEF Return, Place
<1>2. /\ call' = [call EXCEPT ![t] = NoCall]
      /\ missing' = missing \ {t} /\ raced' = raced \ {t}
  BY DEF Return
<1>3. /\ call' \in [Thread -> CallType \cup {NoCall}] /\ call'[t] = NoCall
      /\ \A u \in Thread \ {t} : call'[u] = call[u]
  BY <1>2 DEF TypeOK
<1>4. \A u \in Thread : (pc'[u] = "idle") = (call'[u] = NoCall)
  BY <1>1, <1>3 DEF TypeOK
<1> QED
  BY <1>1, <1>2, <1>3, <1>4

\* A step within a call that changes only the place keeps its thread in it.
LEMMA StayInCall ==
  ASSUME TypeOK, NEW t \in Thread, NEW place \in Place \ {"idle"},
         pc[t] # "idle", Goto(t, place), UNCHANGED call
  PROVE  /\ pc' \in [Thread -> Place]
         /\ call' \in [Thread -> CallType \cup {NoCall}]
         /\ \A u \in Thread : (pc'[u] = "idle") = (call'[u] = NoCall)
         /\ pc'[t] = place
         /\ \A u \in Thread \ {t} : pc'[u] = pc[u]
         /\ \A u \in Thread : Op(u)' = Op(u) /\ Elem(u)' = Elem(u) /\ Item(u)' = Item(u)
<1>1. /\ pc' \in [Thread -> Place] /\ pc'[t] = place
      /\ \A u \in Thread \ {t} : pc'[u] = pc[u]
  BY GotoFacts
<1>2. \A u \in Thread : (pc'[u] = "idle") = (call'[u] = NoCall)
  BY <1>1 DEF TypeOK
<1> QED
  BY <1>1, <1>2 DEF TypeOK, Op, Elem, Item

LEMMA InitIsTyped == Init => TypeOK
BY ConstantsAssumption DEF Init, TypeOK, Place, NoCall


-----------------------------------------------------------------------------
(* Steps that only look: the type of the element, its pointers, its list.   *)

Looking == {"type", "type2", "test", "search"}

\* A thread goes to another place of its call, and nothing else changes but
\* what it has found.
Look(t, place) ==
  /\ Goto(t, place)
  /\ call' \in [Thread -> CallType \cup {NoCall}]
  /\ \A u \in Thread : Op(u)' = Op(u) /\ Elem(u)' = Elem(u) /\ Item(u)' = Item(u)
  /\ UNCHANGED <<tableVars, mutex, sendQueue, calls, historyVars>>

\* Where a look may lead: to no place at which a mutex is held, to "nothing"
\* only where the key is absent, and to a store of data only where no peers
\* are or their absence was seen before.
LooksRight(t, place) ==
  /\ place \in Place \ {"idle", "lock2", "store", "drop"}
  /\ Fits(Op(t), place)
  /\ Op(t) = "query" /\ place = "nothing" => ~ HasKey(datas[Elem(t)], Item(t))
  /\ Op(t) = "set" /\ place \in {"type2", "lock1"} =>
       peers[Elem(t)] = NULL \/ pc[t] = "type2"

LEMMA ReadPeersLooks ==
  ASSUME TypeOK, CallsInPlace, NEW t \in Thread, ReadPeers(t)
  PROVE  pc[t] \in Looking /\ \E place : Look(t, place) /\ LooksRight(t, place)
<1> DEFINE place == IF peers[Elem(t)] # NULL THEN ForPeers(Op(t)) ELSE "type2"
<1>1. /\ pc[t] = "type" /\ Goto(t, place)
      /\ UNCHANGED <<tableVars, mutex, sendQueue, call, calls, historyVars>>
  BY DEF ReadPeers
<1>2. Op(t) \in {"set", "del", "query"}
  BY <1>1 DEF CallsInPlace, Fits
<1>3. Look(t, place)
  BY <1>1 DEF Look, Op, Elem, Item, TypeOK
<1>4. /\ Op(t) \in {"set", "del"} => ForPeers(Op(t)) = "enqueue"
      /\ Op(t) = "query" => ForPeers(Op(t)) = "unanswered"
  BY <1>2 DEF ForPeers
<1>5. LooksRight(t, place)
  BY <1>2, <1>4 DEF LooksRight, Fits, Place
<1> QED
  BY <1>1, <1>3, <1>5 DEF Looking

LEMMA ReadDatasLooks ==
  ASSUME TypeOK, CallsInPlace, NEW t \in Thread, ReadDatas(t)
  PROVE  pc[t] \in Looking /\ \E place : Look(t, place) /\ LooksRight(t, place)
<1> DEFINE place == IF datas[Elem(t)] # NULL THEN ForData(Op(t)) ELSE ForUnknown(Op(t))
<1>1. /\ pc[t] = "type2" /\ Goto(t, place)
      /\ UNCHANGED <<tableVars, mutex, sendQueue, call, calls, historyVars>>
  BY DEF ReadDatas
<1>2. Op(t) \in {"set", "del", "query"}
  BY <1>1 DEF CallsInPlace, Fits
<1>3. Look(t, place)
  BY <1>1 DEF Look, Op, Elem, Item, TypeOK
<1>4. /\ Op(t) = "set" => ForData(Op(t)) = "lock1" /\ ForUnknown(Op(t)) = "lock1"
      /\ Op(t) \in {"del", "query"} => ForData(Op(t)) = "test" /\ ForUnknown(Op(t)) = "nothing"
  BY <1>2 DEF ForData, ForUnknown
<1>5. datas[Elem(t)] = NULL => ~ HasKey(datas[Elem(t)], Item(t))
  BY DEF HasKey, Items
<1>6. LooksRight(t, place)
  BY <1>1, <1>2, <1>4, <1>5 DEF LooksRight, Fits, Place
<1> QED
  BY <1>1, <1>3, <1>6 DEF Looking

LEMMA TestLooks ==
  ASSUME TypeOK, CallsInPlace, NEW t \in Thread, Test(t)
  PROVE  pc[t] \in Looking /\ \E place : Look(t, place) /\ LooksRight(t, place)
<1> DEFINE place == IF ListOf(t) = NULL THEN "nothing" ELSE "search"
<1>1. /\ pc[t] = "test" /\ Goto(t, place)
      /\ UNCHANGED <<tableVars, mutex, sendQueue, call, calls, historyVars>>
  BY DEF Test
<1>2. Op(t) \in {"del", "query", "delPeer"}
  BY <1>1 DEF CallsInPlace, Fits
<1>3. Look(t, place)
  BY <1>1 DEF Look, Op, Elem, Item, TypeOK
<1>4. Op(t) = "query" /\ ListOf(t) = NULL => ~ HasKey(datas[Elem(t)], Item(t))
  BY DEF HasKey, Items, ListOf
<1>5. LooksRight(t, place)
  BY <1>1, <1>2, <1>4 DEF LooksRight, Fits, Place
<1> QED
  BY <1>1, <1>3, <1>5 DEF Looking

LEMMA SearchNothingLooks ==
  ASSUME TypeOK, CallsInPlace, NEW t \in Thread, SearchNothing(t)
  PROVE  pc[t] \in Looking /\ \E place : Look(t, place) /\ LooksRight(t, place)
<1>1. /\ pc[t] = "search" /\ Goto(t, "undefined")
      /\ UNCHANGED <<tableVars, mutex, sendQueue, call, calls, historyVars>>
  BY DEF SearchNothing
<1>2. Look(t, "undefined")
  BY <1>1 DEF Look, Op, Elem, Item, TypeOK
<1>3. LooksRight(t, "undefined")
  BY DEF LooksRight, Fits, Place
<1> QED
  BY <1>1, <1>2, <1>3 DEF Looking

LEMMA SearchLooks ==
  ASSUME TypeOK, CallsInPlace, NEW t \in Thread, Search(t)
  PROVE  pc[t] \in Looking /\ \E place : Look(t, place) /\ LooksRight(t, place)
<1> DEFINE list == datas[Elem(t)]
           first == FirstOfKey(list, Item(t))
<1>1. /\ pc[t] = "search" /\ Op(t) = "query" /\ list # NULL
      /\ UNCHANGED <<tableVars, mutex, sendQueue, calls, historyVars>>
  BY DEF Search
<1>2. list \in Seq(Data) /\ call[t] \in CallType
  BY <1>1, CallFacts, ListFacts
<1>3. CASE \E n \in first : /\ call' = [call EXCEPT ![t].found = list[n]]
                            /\ Goto(t, "found")
  <2>1. PICK n \in first : /\ call' = [call EXCEPT ![t].found = list[n]]
                           /\ Goto(t, "found")
    BY <1>3
  <2>2. list[n] \in Data
    BY <1>2, FirstOfKeyFacts
  <2>3. call'[t] = [call[t] EXCEPT !.found = list[n]] /\ call'[t] \in CallType
    BY <1>2, <2>1, <2>2 DEF CallType, CallOf, TypeOK
  <2>4. \A u \in Thread \ {t} : call'[u] = call[u]
    BY <2>1 DEF TypeOK
  <2>5. \A u \in Thread : Op(u)' = Op(u) /\ Elem(u)' = Elem(u) /\ Item(u)' = Item(u)
    BY <1>2, <2>3, <2>4 DEF Op, Elem, Item, CallType, CallOf
  <2>6. call' \in [Thread -> CallType \cup {NoCall}]
    BY <2>1, <2>3, <2>4 DEF TypeOK
  <2>7. Look(t, "found") /\ LooksRight(t, "found")
    BY <1>1, <2>1, <2>5, <2>6 DEF Look, LooksRight, Fits, Place
  <2> QED
    BY <1>1, <2>7 DEF Looking
<1>4. CASE first = {} /\ Goto(t, "nothing") /\ UNCHANGED call
  <2>1. ~ HasKey(list, Item(t))
    BY <1>2, <1>4, FirstOfKeyFacts
  <2>2. Look(t, "nothing")
    BY <1>1, <1>4 DEF Look, Op, Elem, Item, TypeOK
  <2>3. LooksRight(t, "nothing")
    BY <1>1, <2>1 DEF LooksRight, Fits, Place
  <2> QED
    BY <1>1, <2>2, <2>3 DEF Looking
<1> QED
  BY <1>3, <1>4 DEF Search

\* A look keeps the invariant.
LEMMA LookKeeps ==
  ASSUME IInv, NEW t \in Thread, NEW place, Look(t, place), LooksRight(t, place),
         pc[t] \in Looking
  PROVE  IInv'
<1> USE DEF IInv
<1>1. /\ place \in Place \ {"idle", "lock2", "store", "drop"}
      /\ pc' \in [Thread -> Place] /\ pc'[t] = place
      /\ \A u \in Thread \ {t} : pc'[u] = pc[u]
  BY GotoFacts DEF Look, LooksRight
<1>2. /\ call' \in [Thread -> CallType \cup {NoCall}]
      /\ \A u \in Thread : Op(u)' = Op(u) /\ Elem(u)' = Elem(u) /\ Item(u)' = Item(u)
      /\ UNCHANGED <<datas, peers, mutex, sendQueue, calls, missing, raced>>
  BY DEF Look, tableVars, historyVars
<1>3. \A u \in Thread : (call'[u] = NoCall) = (call[u] = NoCall)
  BY <1>2, NoCallByOp
<1>4. \A u \in Thread : (pc'[u] = "idle") = (call'[u] = NoCall)
  BY <1>1, <1>3 DEF TypeOK, Looking
<1>5. TypeOK'
  BY <1>1, <1>2, <1>4 DEF TypeOK
<1>6. CallsInPlace'
  BY <1>1, <1>2 DEF CallsInPlace, LooksRight
<1>7. HoldsMutexes'
  BY <1>1, <1>2 DEF HoldsMutexes
<1>8. ListsExclude'
  <2>1. \A u \in Thread : pc[u] = "drop" => pc'[u] = "drop"
    BY <1>1 DEF Looking
  <2> QED
    BY <1>2, <2>1 DEF ListsExclude
<1>9. QueriesWouldFind'
  BY <1>2 DEF QueriesWouldFind
<1>10. AnswersAreCurrent'
  BY <1>1, <1>2 DEF AnswersAreCurrent, LooksRight, QueriesWouldFind
<1>11. PeersCameSince'
  BY <1>1, <1>2 DEF PeersCameSince, LooksRight
<1> QED
  BY <1>5, <1>6, <1>7, <1>8, <1>9, <1>10, <1>11

-----------------------------------------------------------------------------
(* Making a call, and ending one that changes no list. *)

LEMMA IdOfIsID ==
  ASSUME NEW op, NEW item,
         \/ op \in {"set", "del"} /\ item \in Data
         \/ op = "query" /\ item \in Key
         \/ op \in {"setPeer", "delPeer"} /\ item \in Peer
  PROVE  IdOf(op, item) \in ID
BY ConstantsAssumption DEF IdOf

LEMMA CallKeeps ==
  ASSUME IInv, NEW t \in Thread, NEW op, NEW item, Call(t, op, item),
         \/ op \in {"set", "del"} /\ item \in Data
         \/ op = "query" /\ item \in Key
         \/ op \in {"setPeer", "delPeer"} /\ item \in Peer
  PROVE  IInv'
<1> USE DEF IInv
<1> DEFINE e == GetElement(IdOf(op, item))
           new == [op |-> op, item |-> item, elem |-> e, found |-> NULL]
           place == CASE op = "setPeer" -> "lock1" [] op = "delPeer" -> "test"
                      [] op \in {"set", "del", "query"} -> "type"
<1>1. e \in Element
  BY IdOfIsID, GetElementIsElement
<1>2. /\ pc[t] = "idle" /\ calls < MaxCalls /\ calls' = calls + 1
      /\ call' = [call EXCEPT ![t] = new] /\ Goto(t, place)
      /\ missing' = IF op = "query" /\ ~ HasKey(datas[e], item) THEN missing \cup {t} ELSE missing
      /\ UNCHANGED <<datas, peers, mutex, sendQueue, raced>>
  BY DEF Call, tableVars
<1>3. new \in CallType
  BY <1>1 DEF CallType, CallOf
<1>4. /\ op = "setPeer" => place = "lock1"
      /\ op = "delPeer" => place = "test"
      /\ op \in {"set", "del", "query"} => place = "type"
      /\ place \in {"lock1", "test", "type"}
  OBVIOUS
<1> HIDE DEF e, place
<1>5. /\ pc' \in [Thread -> Place] /\ pc'[t] = place
      /\ \A u \in Thread \ {t} : pc'[u] = pc[u]
  BY <1>2, <1>4, GotoFacts DEF Place
<1>6. /\ call' \in [Thread -> CallType \cup {NoCall}] /\ call'[t] = new
      /\ \A u \in Thread \ {t} : call'[u] = call[u]
  BY <1>2, <1>3 DEF TypeOK
<1>7. /\ Op(t)' = op /\ Elem(t)' = e /\ Item(t)' = item
      /\ \A u \in Thread \ {t} : Op(u)' = Op(u) /\ Elem(u)' = Elem(u) /\ Item(u)' = Item(u)
  BY <1>6 DEF Op, Elem, Item
<1>8. TypeOK'
  <2>1. new # NoCall
    BY DEF NoCall
  <2>2. \A u \in Thread : (pc'[u] = "idle") = (call'[u] = NoCall)
    BY <1>4, <1>5, <1>6, <2>1 DEF TypeOK
  <2>3. calls' \in 0 .. MaxCalls
    BY <1>2, ConstantsAssumption DEF TypeOK
  <2> QED
    BY <1>2, <1>5, <1>6, <2>2, <2>3 DEF TypeOK
<1>9. CallsInPlace'
  BY <1>4, <1>5, <1>7 DEF CallsInPlace, Fits
<1>10. HoldsMutexes'
  BY <1>2, <1>4, <1>5, <1>7 DEF HoldsMutexes
<1>11. ListsExclude'
  BY <1>2, <1>5, <1>7 DEF ListsExclude
<1>12. QueriesWouldFind'
  BY <1>2, <1>7 DEF QueriesWouldFind
<1>13. AnswersAreCurrent'
  BY <1>2, <1>4, <1>5, <1>7 DEF AnswersAreCurrent
<1>14. PeersCameSince'
  BY <1>2, <1>4, <1>5, <1>7 DEF PeersCameSince
<1> QED
  BY <1>8, <1>9, <1>10, <1>11, <1>12, <1>13, <1>14

LEMMA RequestKeeps ==
  ASSUME IInv, NEW t \in Thread, Request(t)
  PROVE  IInv'
<1>1. \E op, item : /\ Call(t, op, item)
                    /\ \/ op \in {"set", "del"} /\ item \in Data
                       \/ op = "query" /\ item \in Key
                       \/ op \in {"setPeer", "delPeer"} /\ item \in Peer
  BY DEF Request
<1> QED
  BY <1>1, CallKeeps

\* What a returning thread leaves of the facts about calls.
LEMMA ReturnKeepsCalls ==
  ASSUME IInv, NEW t \in Thread, Return(t)
  PROVE  /\ CallsInPlace' /\ AnswersAreCurrent'
         /\ Op(t)' = "none"
         /\ \A u \in Thread \ {t} : Op(u)' = Op(u) /\ Elem(u)' = Elem(u) /\ Item(u)' = Item(u)
<1>1. /\ pc'[t] = "idle" /\ call'[t] = NoCall
      /\ \A u \in Thread \ {t} : pc'[u] = pc[u] /\ call'[u] = call[u]
      /\ missing' = missing \ {t}
  BY ReturnFacts DEF IInv
<1>2. /\ Op(t)' = "none"
      /\ \A u \in Thread \ {t} : Op(u)' = Op(u) /\ Elem(u)' = Elem(u) /\ Item(u)' = Item(u)
  BY <1>1 DEF Op, Elem, Item, NoCall
<1>3. CallsInPlace'
  BY <1>1, <1>2 DEF IInv, CallsInPlace
<1>4. AnswersAreCurrent'
  BY <1>1, <1>2 DEF IInv, AnswersAreCurrent
<1> QED
  BY <1>2, <1>3, <1>4

\* A call that ends without a change of the table.
LEMMA LeaveKeeps ==
  ASSUME IInv, NEW t \in Thread, Return(t), pc[t] # "drop",
         UNCHANGED <<datas, peers, mutex, calls>>,
         sendQueue' \in Seq([type : {"set", "del"}, data : Data])
  PROVE  IInv'
<1> USE DEF IInv
<1>1. /\ pc'[t] = "idle" /\ missing' = missing \ {t} /\ raced' = raced \ {t}
      /\ \A u \in Thread \ {t} : pc'[u] = pc[u]
  BY ReturnFacts
<1>2. /\ CallsInPlace' /\ AnswersAreCurrent' /\ Op(t)' = "none"
      /\ \A u \in Thread \ {t} : Op(u)' = Op(u) /\ Elem(u)' = Elem(u) /\ Item(u)' = Item(u)
  BY ReturnKeepsCalls
<1>3. TypeOK'
  BY ReturnFacts DEF TypeOK
<1>4. HoldsMutexes'
  BY <1>1, <1>2 DEF HoldsMutexes
<1>5. ListsExclude'
  BY <1>1, <1>2 DEF ListsExclude
<1>6. QueriesWouldFind'
  BY <1>1, <1>2 DEF QueriesWouldFind
<1>7. PeersCameSince'
  BY <1>1, <1>2 DEF PeersCameSince
<1> QED
  BY <1>2, <1>3, <1>4, <1>5, <1>6, <1>7

LEMMA EnqueueKeeps ==
  ASSUME IInv, NEW t \in Thread, Enqueue(t)
  PROVE  IInv'
<1>1. /\ pc[t] = "enqueue" /\ Return(t) /\ UNCHANGED <<datas, peers, mutex, calls>>
      /\ sendQueue' = Append(sendQueue, [type |-> Op(t), data |-> Item(t)])
  BY DEF Enqueue, tableVars
<1>2. Op(t) \in {"set", "del"} /\ Item(t) \in Data
  BY <1>1, CallFacts DEF IInv, CallsInPlace, Fits
<1>3. sendQueue' \in Seq([type : {"set", "del"}, data : Data])
  BY <1>1, <1>2 DEF IInv, TypeOK
<1> QED
  BY <1>1, <1>3, LeaveKeeps

LEMMA ReturnFoundKeeps ==
  ASSUME IInv, NEW t \in Thread, ReturnFound(t) \/ ReturnEmpty(t)
  PROVE  IInv'
<1>1. /\ pc[t] # "drop" /\ Return(t) /\ UNCHANGED <<datas, peers, mutex, calls>>
      /\ sendQueue' = sendQueue
  BY DEF ReturnFound, ReturnEmpty, tableVars
<1> QED
  BY <1>1, LeaveKeeps DEF IInv, TypeOK

-----------------------------------------------------------------------------
(* setData and setPeer. *)

LEMMA LockKeeps ==
  ASSUME IInv, NEW t \in Thread, NEW m \in {"data", "peer"}, NEW place,
         pc[t] = (IF m = "data" THEN "lock1" ELSE "lock2"),
         place = (IF m = "data" THEN "lock2" ELSE "store"),
         mutex[Elem(t)][m] = NULL,
         mutex' = [mutex EXCEPT ![Elem(t)][m] = t],
         Goto(t, place),
         UNCHANGED <<tableVars, sendQueue, call, calls, historyVars>>
  PROVE  IInv'
<1> USE DEF IInv
<1>1. /\ UNCHANGED <<datas, peers, sendQueue, call, calls, missing, raced>>
      /\ Elem(t) \in Element
  BY CallFacts DEF tableVars, historyVars
<1>2. /\ pc' \in [Thread -> Place] /\ pc'[t] = place
      /\ \A u \in Thread : (pc'[u] = "idle") = (call'[u] = NoCall)
      /\ \A u \in Thread \ {t} : pc'[u] = pc[u]
      /\ \A u \in Thread : Op(u)' = Op(u) /\ Elem(u)' = Elem(u) /\ Item(u)' = Item(u)
  BY <1>1, StayInCall DEF Place
<1>3. /\ mutex' \in [Element -> [{"data", "peer"} -> Thread \cup {NULL}]]
      /\ mutex'[Elem(t)][m] = t
      /\ \A e \in Element, n \in {"data", "peer"} :
           mutex[e][n] # NULL => mutex'[e][n] = mutex[e][n]
  BY <1>1 DEF TypeOK
<1>4. TypeOK'
  BY <1>1, <1>2, <1>3 DEF TypeOK
<1>5. CallsInPlace'
  BY <1>2 DEF CallsInPlace, Fits
<1>6. HoldsMutexes'
  <2>1. ASSUME NEW u \in Thread, u # t
        PROVE  /\ pc'[u] \in {"lock2", "store", "drop"} => mutex'[Elem(u)]["data"] = u
               /\ pc'[u] \in {"store", "drop"} => mutex'[Elem(u)]["peer"] = u
    <3>1. pc'[u] # "idle" => Elem(u) \in Element
      BY <1>2, <2>1, CallFacts
    <3>2. u # NULL
      BY ConstantsAssumption
    <3> QED
      BY <1>2, <1>3, <2>1, <3>1, <3>2 DEF HoldsMutexes
  <2>2. /\ pc'[t] \in {"lock2", "store", "drop"} => mutex'[Elem(t)]["data"] = t
        /\ pc'[t] \in {"store", "drop"} => mutex'[Elem(t)]["peer"] = t
    <3>1. t # NULL
      BY ConstantsAssumption
    <3>2. CASE m = "data"
      BY <1>2, <1>3, <3>2
    <3>3. CASE m = "peer"
      BY <1>1, <1>2, <1>3, <3>1, <3>3 DEF HoldsMutexes
    <3> QED
      BY <3>2, <3>3
  <2> QED
    BY <1>2, <2>1, <2>2 DEF HoldsMutexes
<1>7. ListsExclude'
  BY <1>1, <1>2 DEF ListsExclude
<1>8. QueriesWouldFind'
  BY <1>1, <1>2 DEF QueriesWouldFind
<1>9. AnswersAreCurrent'
  BY <1>1, <1>2 DEF AnswersAreCurrent
<1>10. PeersCameSince'
  BY <1>1, <1>2 DEF PeersCameSince
<1> QED
  BY <1>4, <1>5, <1>6, <1>7, <1>8, <1>9, <1>10

LEMMA LockFirstKeeps ==
  ASSUME IInv, NEW t \in Thread, LockFirst(t)
  PROVE  IInv'
<1>1. Mutexes(Op(t))[1] = "data"
  BY DEF Mutexes
<1>2. /\ pc[t] = "lock1" /\ mutex[Elem(t)]["data"] = NULL
      /\ mutex' = [mutex EXCEPT ![Elem(t)]["data"] = t] /\ Goto(t, "lock2")
      /\ UNCHANGED <<tableVars, sendQueue, call, calls, historyVars>>
  BY <1>1 DEF LockFirst, Lock
<1> QED
  BY <1>2, LockKeeps

LEMMA LockSecondKeeps ==
  ASSUME IInv, NEW t \in Thread, LockSecond(t)
  PROVE  IInv'
<1>1. Mutexes(Op(t))[2] = "peer"
  BY DEF Mutexes
<1>2. /\ pc[t] = "lock2" /\ mutex[Elem(t)]["peer"] = NULL
      /\ mutex' = [mutex EXCEPT ![Elem(t)]["peer"] = t] /\ Goto(t, "store")
      /\ UNCHANGED <<tableVars, sendQueue, call, calls, historyVars>>
  BY <1>1 DEF LockSecond, Lock
<1> QED
  BY <1>2, LockKeeps

LEMMA StoreDataKeeps ==
  ASSUME IInv, NEW t \in Thread, StoreData(t)
  PROVE  IInv'
<1> USE DEF IInv
<1>1. /\ pc[t] = "store" /\ Op(t) = "set"
      /\ datas' = [datas EXCEPT ![Elem(t)] = Put(datas[Elem(t)], Item(t))]
      /\ Goto(t, "drop")
      /\ UNCHANGED <<peers, mutex, sendQueue, call, calls, missing, raced>>
  BY DEF StoreData, historyVars
<1>2. Elem(t) \in Element /\ Item(t) \in Data
  BY <1>1, CallFacts
<1>3. /\ pc' \in [Thread -> Place] /\ pc'[t] = "drop"
      /\ \A u \in Thread : (pc'[u] = "idle") = (call'[u] = NoCall)
      /\ \A u \in Thread \ {t} : pc'[u] = pc[u]
      /\ \A u \in Thread : Op(u)' = Op(u) /\ Elem(u)' = Elem(u) /\ Item(u)' = Item(u)
  BY <1>1, StayInCall DEF Place
<1>4. /\ datas'[Elem(t)] \in Seq(Data) /\ datas'[Elem(t)] # NULL /\ datas'[Elem(t)] # <<>>
      /\ Items(datas'[Elem(t)]) = Items(datas[Elem(t)]) \cup {Item(t)}
      /\ \A e \in Element \ {Elem(t)} : datas'[e] = datas[e]
      /\ datas' \in [Element -> Seq(Data) \cup {NULL}]
  <2>1. /\ Put(datas[Elem(t)], Item(t)) \in Seq(Data)
        /\ Put(datas[Elem(t)], Item(t)) # NULL /\ Put(datas[Elem(t)], Item(t)) # <<>>
        /\ Items(Put(datas[Elem(t)], Item(t))) = Items(datas[Elem(t)]) \cup {Item(t)}
    BY <1>2, ListFacts, PutFacts
  <2> QED
    BY <1>1, <1>2, <2>1 DEF TypeOK
<1>5. TypeOK'
  BY <1>1, <1>3, <1>4 DEF TypeOK
<1>6. CallsInPlace'
  BY <1>1, <1>3 DEF CallsInPlace, Fits
<1>7. HoldsMutexes'
  BY <1>1, <1>3 DEF HoldsMutexes
<1>8. ListsExclude'
  <2>1. ASSUME NEW e \in Element
        PROVE  /\ datas'[e] # NULL /\ peers'[e] # NULL =>
                    \E u \in Thread : pc'[u] = "drop" /\ Elem(u)' = e
               /\ datas'[e] # <<>> /\ peers'[e] # <<>>
    <3>1. CASE e = Elem(t)
      BY <1>1, <1>3, <1>4, <3>1 DEF ListsExclude
    <3>2. CASE e # Elem(t)
      BY <1>1, <1>3, <1>4, <3>2 DEF ListsExclude
    <3> QED
      BY <3>1, <3>2
  <2> QED
    BY <2>1 DEF ListsExclude
<1>9. QueriesWouldFind'
  <2>1. ASSUME NEW u \in Thread, Op(u) = "query", HasKey(datas[Elem(u)], Item(u))
        PROVE  HasKey(datas'[Elem(u)], Item(u))
    <3>1. Elem(u) \in Element
      BY <2>1, OpMeansCall, CallFacts
    <3> QED
      BY <1>4, <2>1, <3>1 DEF HasKey
  <2> QED
    BY <1>1, <1>3, <2>1 DEF QueriesWouldFind
<1>10. AnswersAreCurrent'
  BY <1>1, <1>3 DEF AnswersAreCurrent
<1>11. PeersCameSince'
  BY <1>1, <1>3 DEF PeersCameSince
<1> QED
  BY <1>5, <1>6, <1>7, <1>8, <1>9, <1>10, <1>11

LEMMA StorePeerKeeps ==
  ASSUME IInv, NEW t \in Thread, StorePeer(t)
  PROVE  /\ IInv'
         /\ \A e \in Element : peers[e] # NULL => peers'[e] # NULL
<1> USE DEF IInv
<1>1. /\ pc[t] = "store" /\ Op(t) = "setPeer"
      /\ peers' = [peers EXCEPT ![Elem(t)] = Put(peers[Elem(t)], Item(t))]
      /\ raced' = raced \cup {u \in Thread : Op(u) = "set" /\ Elem(u) = Elem(t)}
      /\ Goto(t, "drop")
      /\ UNCHANGED <<datas, mutex, sendQueue, call, calls, missing>>
  BY DEF StorePeer
<1>2. Elem(t) \in Element /\ Item(t) \in Peer
  BY <1>1, CallFacts
<1>3. /\ pc' \in [Thread -> Place] /\ pc'[t] = "drop"
      /\ \A u \in Thread : (pc'[u] = "idle") = (call'[u] = NoCall)
      /\ \A u \in Thread \ {t} : pc'[u] = pc[u]
      /\ \A u \in Thread : Op(u)' = Op(u) /\ Elem(u)' = Elem(u) /\ Item(u)' = Item(u)
  BY <1>1, StayInCall DEF Place
<1>4. /\ peers'[Elem(t)] # NULL /\ peers'[Elem(t)] # <<>>
      /\ \A e \in Element \ {Elem(t)} : peers'[e] = peers[e]
      /\ peers' \in [Element -> Seq(Peer) \cup {NULL}]
  <2>1. /\ Put(peers[Elem(t)], Item(t)) \in Seq(Peer)
        /\ Put(peers[Elem(t)], Item(t)) # NULL /\ Put(peers[Elem(t)], Item(t)) # <<>>
    <3>1. peers[Elem(t)] \in Seq(Peer) \cup {NULL} /\ NULL \notin Seq(Peer)
      BY <1>2, ListFacts
    <3> QED
      BY <1>2, <3>1, PutFacts
  <2> QED
    BY <1>1, <1>2, <2>1 DEF TypeOK
<1>5. TypeOK'
  BY <1>1, <1>3, <1>4 DEF TypeOK
<1>6. CallsInPlace'
  BY <1>1, <1>3 DEF CallsInPlace, Fits
<1>7. HoldsMutexes'
  BY <1>1, <1>3 DEF HoldsMutexes
<1>8. ListsExclude'
  <2>1. ASSUME NEW e \in Element
        PROVE  /\ datas'[e] # NULL /\ peers'[e] # NULL =>
                    \E u \in Thread : pc'[u] = "drop" /\ Elem(u)' = e
               /\ datas'[e] # <<>> /\ peers'[e] # <<>>
    <3>1. CASE e = Elem(t)
      BY <1>1, <1>3, <1>4, <3>1 DEF ListsExclude
    <3>2. CASE e # Elem(t)
      BY <1>1, <1>3, <1>4, <3>2 DEF ListsExclude
    <3> QED
      BY <3>1, <3>2
  <2> QED
    BY <2>1 DEF ListsExclude
<1>9. QueriesWouldFind'
  BY <1>1, <1>3 DEF QueriesWouldFind
<1>10. AnswersAreCurrent'
  BY <1>1, <1>3 DEF AnswersAreCurrent
<1>11. PeersCameSince'
  <2>1. ASSUME NEW u \in Thread, Op(u) = "set",
               pc'[u] \in {"type2", "lock1", "lock2", "store", "drop"},
               peers'[Elem(u)] # NULL, u \notin raced'
        PROVE  FALSE
    <3>1. Elem(u) \in Element /\ Elem(u) # Elem(t) /\ u # t
      BY <1>1, <2>1, OpMeansCall, CallFacts
    <3> QED
      BY <1>1, <1>3, <1>4, <2>1, <3>1 DEF PeersCameSince
  <2> QED
    BY <1>3, <2>1 DEF PeersCameSince
<1>12. \A e \in Element : peers[e] # NULL => peers'[e] # NULL
  BY <1>4
<1> QED
  BY <1>5, <1>6, <1>7, <1>8, <1>9, <1>10, <1>11, <1>12

\* Giving back the mutexes of an element takes none from a thread at another,
\* and nobody else is at this one.
LEMMA UnlockFacts ==
  ASSUME TypeOK, HoldsMutexes, NEW t \in Thread, pc[t] = "drop", Unlock(t)
  PROVE  /\ mutex' \in [Element -> [{"data", "peer"} -> Thread \cup {NULL}]]
         /\ \A u \in Thread \ {t} :
              pc[u] \in {"lock2", "store", "drop"} =>
                Elem(u) # Elem(t) /\ mutex'[Elem(u)] = mutex[Elem(u)]
<1>1. Elem(t) \in Element
  BY CallFacts
<1>2. mutex' = [mutex EXCEPT ![Elem(t)] = [m \in {"data", "peer"} |-> NULL]]
  BY DEF Unlock
<1>3. ASSUME NEW u \in Thread \ {t}, pc[u] \in {"lock2", "store", "drop"}
      PROVE  Elem(u) # Elem(t) /\ mutex'[Elem(u)] = mutex[Elem(u)]
  <2>1. Elem(u) \in Element
    BY <1>3, CallFacts
  <2>2. mutex[Elem(u)]["data"] = u /\ mutex[Elem(t)]["data"] = t
    BY <1>3 DEF HoldsMutexes
  <2> QED
    BY <1>2, <2>1, <2>2 DEF TypeOK
<1> QED
  BY <1>1, <1>2, <1>3 DEF TypeOK

LEMMA DropPeersKeeps ==
  ASSUME IInv, NEW t \in Thread, DropPeers(t)
  PROVE  /\ IInv'
         /\ \A e \in Element : peers[e] # NULL /\ peers'[e] = NULL =>
              Elem(t) = e /\ pc[t] # "idle" /\ pc'[t] = "idle" /\ Op(t) = "set" /\ t \in raced
<1> USE DEF IInv
<1>1. /\ pc[t] = "drop" /\ Op(t) = "set" /\ Unlock(t) /\ Return(t)
      /\ peers' = [peers EXCEPT ![Elem(t)] = NULL]
      /\ UNCHANGED <<datas, sendQueue, calls>>
  BY DEF DropPeers
<1>2. /\ pc'[t] = "idle" /\ missing' = missing \ {t} /\ raced' = raced \ {t}
      /\ \A u \in Thread \ {t} : pc'[u] = pc[u]
  BY <1>1, ReturnFacts
<1>3. /\ CallsInPlace' /\ AnswersAreCurrent' /\ Op(t)' = "none"
      /\ \A u \in Thread \ {t} : Op(u)' = Op(u) /\ Elem(u)' = Elem(u) /\ Item(u)' = Item(u)
  BY <1>1, ReturnKeepsCalls
<1>4. Elem(t) \in Element
  BY <1>1, CallFacts
<1>5. /\ peers'[Elem(t)] = NULL
      /\ \A e \in Element \ {Elem(t)} : peers'[e] = peers[e]
      /\ peers' \in [Element -> Seq(Peer) \cup {NULL}]
  BY <1>1, <1>4 DEF TypeOK
<1>6. TypeOK'
  BY <1>1, <1>5, ReturnFacts, UnlockFacts DEF TypeOK
<1>7. HoldsMutexes'
  BY <1>1, <1>2, <1>3, UnlockFacts DEF HoldsMutexes
<1>8. ListsExclude'
  <2>1. NULL # <<>>
    <3>1. <<>> \in Seq(Peer)
      OBVIOUS
    <3> QED
      BY <3>1, ConstantsAssumption, Zenon
  <2>2. ASSUME NEW e \in Element
        PROVE  /\ datas'[e] # NULL /\ peers'[e] # NULL =>
                    \E u \in Thread : pc'[u] = "drop" /\ Elem(u)' = e
               /\ datas'[e] # <<>> /\ peers'[e] # <<>>
    <3>1. CASE e = Elem(t)
      BY <1>1, <1>5, <2>1, <3>1 DEF ListsExclude
    <3>2. CASE e # Elem(t)
      <4>1. datas'[e] = datas[e] /\ peers'[e] = peers[e]
        BY <1>1, <1>5, <3>2
      <4>2. \A u \in Thread : pc[u] = "drop" /\ Elem(u) = e => pc'[u] = "drop" /\ Elem(u)' = e
        BY <1>2, <1>3, <3>2
      <4> QED
        BY <4>1, <4>2 DEF ListsExclude
    <3> QED
      BY <3>1, <3>2
  <2> QED
    BY <2>2 DEF ListsExclude
<1>9. QueriesWouldFind'
  BY <1>1, <1>2, <1>3 DEF QueriesWouldFind
<1>10. PeersCameSince'
  <2>1. ASSUME NEW u \in Thread \ {t}, Op(u) = "set",
               pc[u] \in {"type2", "lock1", "lock2", "store", "drop"},
               peers'[Elem(u)] # NULL
        PROVE  u \in raced
    <3>1. Elem(u) \in Element /\ Elem(u) # Elem(t)
      BY <1>5, <2>1, CallFacts
    <3> QED
      BY <1>5, <2>1, <3>1 DEF PeersCameSince
  <2> QED
    BY <1>2, <1>3, <2>1 DEF PeersCameSince
<1>11. \A e \in Element : peers[e] # NULL /\ peers'[e] = NULL =>
         Elem(t) = e /\ pc[t] # "idle" /\ pc'[t] = "idle" /\ Op(t) = "set" /\ t \in raced
  BY <1>1, <1>2, <1>5 DEF PeersCameSince
<1> QED
  BY <1>3, <1>6, <1>7, <1>8, <1>9, <1>10, <1>11

\* A step that ends its thread's call and takes from some threads what they
\* had found.
LEMMA EvictFacts ==
  ASSUME TypeOK, NEW t \in Thread, pc'[t] = "idle",
         pc' = [u \in Thread |-> pc'[u]],
         \A u \in Thread \ {t} : pc'[u] = pc[u] \/ (pc[u] = "found" /\ pc'[u] = "undefined")
  PROVE  pc' \in [Thread -> Place]
<1>1. \A u \in Thread : pc'[u] \in Place
  BY DEF TypeOK, Place
<1> QED
  BY <1>1

LEMMA EndFacts ==
  ASSUME TypeOK, NEW t \in Thread, call' = [call EXCEPT ![t] = NoCall]
  PROVE  /\ call' \in [Thread -> CallType \cup {NoCall}] /\ call'[t] = NoCall
         /\ \A u \in Thread \ {t} : call'[u] = call[u]
         /\ Op(t)' = "none"
         /\ \A u \in Thread \ {t} : Op(u)' = Op(u) /\ Elem(u)' = Elem(u) /\ Item(u)' = Item(u)
BY DEF TypeOK, Op, Elem, Item, NoCall

LEMMA DropDataKeeps ==
  ASSUME IInv, NEW t \in Thread, DropData(t)
  PROVE  IInv'
<1> USE DEF IInv
<1>1. /\ pc[t] = "drop" /\ Op(t) = "setPeer" /\ Unlock(t)
      /\ datas' = [datas EXCEPT ![Elem(t)] = NULL]
      /\ pc' = [u \in Thread |-> CASE u = t -> "idle"
                                   [] pc[u] = "found" /\ Elem(u) = Elem(t) -> "undefined"
                                   [] OTHER -> pc[u]]
      /\ call' = [call EXCEPT ![t] = NoCall]
      /\ missing' = missing \cup Queries(Elem(t))
      /\ UNCHANGED <<peers, sendQueue, calls, raced>>
  BY DEF DropData
<1>2. /\ pc' \in [Thread -> Place] /\ pc'[t] = "idle"
      /\ \A u \in Thread \ {t} : pc'[u] = pc[u] \/ (pc[u] = "found" /\ pc'[u] = "undefined")
  <2>1. pc'[t] = "idle" /\ pc' = [u \in Thread |-> pc'[u]]
    BY <1>1
  <2>2. ASSUME NEW u \in Thread \ {t}
        PROVE  pc'[u] = pc[u] \/ (pc[u] = "found" /\ pc'[u] = "undefined")
    <3>1. CASE pc[u] = "found" /\ Elem(u) = Elem(t)
      BY <1>1, <3>1
    <3>2. CASE ~ (pc[u] = "found" /\ Elem(u) = Elem(t))
      BY <1>1, <3>2
    <3> QED
      BY <3>1, <3>2
  <2> QED
    BY <2>1, <2>2, EvictFacts
<1>3. /\ call' \in [Thread -> CallType \cup {NoCall}] /\ call'[t] = NoCall
      /\ \A u \in Thread \ {t} : call'[u] = call[u]
      /\ Op(t)' = "none"
      /\ \A u \in Thread \ {t} : Op(u)' = Op(u) /\ Elem(u)' = Elem(u) /\ Item(u)' = Item(u)
  BY <1>1, EndFacts
<1>4. Elem(t) \in Element
  BY <1>1, CallFacts
<1>5. /\ datas'[Elem(t)] = NULL
      /\ \A e \in Element \ {Elem(t)} : datas'[e] = datas[e]
      /\ datas' \in [Element -> Seq(Data) \cup {NULL}]
  BY <1>1, <1>4 DEF TypeOK
<1>6. TypeOK'
  <2>1. \A u \in Thread : (pc'[u] = "idle") = (call'[u] = NoCall)
    BY <1>2, <1>3 DEF TypeOK
  <2>2. missing' \subseteq Thread
    BY <1>1 DEF TypeOK, Queries
  <2> QED
    BY <1>1, <1>2, <1>3, <1>5, <2>1, <2>2, UnlockFacts DEF TypeOK
<1>7. CallsInPlace'
  BY <1>2, <1>3 DEF CallsInPlace, Fits
<1>8. HoldsMutexes'
  BY <1>1, <1>2, <1>3, UnlockFacts DEF HoldsMutexes
<1>9. ListsExclude'
  <2>1. NULL # <<>>
    <3>1. <<>> \in Seq(Peer)
      OBVIOUS
    <3> QED
      BY <3>1, ConstantsAssumption, Zenon
  <2>2. ASSUME NEW e \in Element
        PROVE  /\ datas'[e] # NULL /\ peers'[e] # NULL =>
                    \E u \in Thread : pc'[u] = "drop" /\ Elem(u)' = e
               /\ datas'[e] # <<>> /\ peers'[e] # <<>>
    <3>1. CASE e = Elem(t)
      BY <1>1, <1>5, <2>1, <3>1 DEF ListsExclude
    <3>2. CASE e # Elem(t)
      <4>1. datas'[e] = datas[e] /\ peers'[e] = peers[e]
        BY <1>1, <1>5, <3>2
      <4>2. \A u \in Thread : pc[u] = "drop" /\ Elem(u) = e => pc'[u] = "drop" /\ Elem(u)' = e
        BY <1>2, <1>3, <3>2
      <4> QED
        BY <4>1, <4>2 DEF ListsExclude
    <3> QED
      BY <3>1, <3>2
  <2> QED
    BY <2>2 DEF ListsExclude
<1>10. QueriesWouldFind'
  <2>1. ASSUME NEW u \in Thread \ {t}, Op(u) = "query", u \notin missing'
        PROVE  HasKey(datas'[Elem(u)], Item(u))
    <3>1. Elem(u) \in Element /\ Elem(u) # Elem(t) /\ u \notin missing
      BY <1>1, <2>1, OpMeansCall, CallFacts DEF Queries
    <3> QED
      BY <1>5, <2>1, <3>1 DEF QueriesWouldFind
  <2> QED
    BY <1>3, <2>1 DEF QueriesWouldFind
<1>11. AnswersAreCurrent'
  BY <1>1, <1>2, <1>3 DEF AnswersAreCurrent
<1>12. PeersCameSince'
  BY <1>1, <1>2, <1>3 DEF PeersCameSince
<1> QED
  BY <1>6, <1>7, <1>8, <1>9, <1>10, <1>11, <1>12

-----------------------------------------------------------------------------
(* delData and delPeer. *)

LEMMA DelDataKeeps ==
  ASSUME IInv, NEW t \in Thread, DelData(t)
  PROVE  IInv'
<1> USE DEF IInv
<1> DEFINE same == {n \in DOMAIN datas[Elem(t)] : SameData(datas[Elem(t)][n], Item(t))}
<1>1. /\ pc[t] = "search" /\ Op(t) = "del" /\ datas[Elem(t)] # NULL
      /\ datas' = [datas EXCEPT ![Elem(t)] = EraseFirst(datas[Elem(t)], same)]
      /\ pc' = [u \in Thread |->
                  CASE u = t -> "idle"
                    [] same # {} /\ pc[u] = "found" /\ SameData(call[u].found, Item(t)) -> "undefined"
                    [] OTHER -> pc[u]]
      /\ call' = [call EXCEPT ![t] = NoCall]
      /\ missing' = missing \cup {u \in Queries(Elem(t)) : ~ HasKey(datas'[Elem(t)], Item(u))}
      /\ UNCHANGED <<peers, mutex, sendQueue, calls, raced>>
  BY DEF DelData
<1>2. /\ pc' \in [Thread -> Place] /\ pc'[t] = "idle"
      /\ \A u \in Thread \ {t} : pc'[u] = pc[u] \/ (pc[u] = "found" /\ pc'[u] = "undefined")
  <2>1. pc'[t] = "idle" /\ pc' = [u \in Thread |-> pc'[u]]
    BY <1>1
  <2>2. ASSUME NEW u \in Thread \ {t}
        PROVE  pc'[u] = pc[u] \/ (pc[u] = "found" /\ pc'[u] = "undefined")
    <3>1. CASE same # {} /\ pc[u] = "found" /\ SameData(call[u].found, Item(t))
      BY <1>1, <3>1
    <3>2. CASE ~ (same # {} /\ pc[u] = "found" /\ SameData(call[u].found, Item(t)))
      BY <1>1, <3>2
    <3> QED
      BY <3>1, <3>2
  <2> QED
    BY <2>1, <2>2, EvictFacts
<1>3. /\ call' \in [Thread -> CallType \cup {NoCall}] /\ call'[t] = NoCall
      /\ \A u \in Thread \ {t} : call'[u] = call[u]
      /\ Op(t)' = "none"
      /\ \A u \in Thread \ {t} : Op(u)' = Op(u) /\ Elem(u)' = Elem(u) /\ Item(u)' = Item(u)
  BY <1>1, EndFacts
<1>4. /\ Elem(t) \in Element
      /\ datas[Elem(t)] \in Seq(Data) /\ datas[Elem(t)] # <<>> /\ NULL \notin Seq(Data)
  BY <1>1, CallFacts, ListFacts DEF ListsExclude
<1>5. /\ datas'[Elem(t)] \in Seq(Data) \cup {NULL} /\ datas'[Elem(t)] # <<>>
      /\ \A e \in Element \ {Elem(t)} : datas'[e] = datas[e]
      /\ datas' \in [Element -> Seq(Data) \cup {NULL}]
  <2>1. same \in SUBSET (DOMAIN datas[Elem(t)])
    OBVIOUS
  <2> HIDE DEF same
  <2>2. /\ EraseFirst(datas[Elem(t)], same) \in Seq(Data) \cup {NULL}
        /\ EraseFirst(datas[Elem(t)], same) # <<>>
    BY <1>4, <2>1, EraseFirstFacts
  <2> QED
    BY <1>1, <1>4, <2>2 DEF TypeOK
<1> HIDE DEF same
<1>6. TypeOK'
  <2>1. \A u \in Thread : (pc'[u] = "idle") = (call'[u] = NoCall)
    BY <1>2, <1>3 DEF TypeOK
  <2>2. missing' \subseteq Thread
    BY <1>1 DEF TypeOK, Queries
  <2> QED
    BY <1>1, <1>2, <1>3, <1>5, <2>1, <2>2 DEF TypeOK
<1>7. CallsInPlace'
  BY <1>2, <1>3 DEF CallsInPlace, Fits
<1>8. HoldsMutexes'
  BY <1>1, <1>2, <1>3 DEF HoldsMutexes
<1>9. ListsExclude'
  <2>1. ASSUME NEW e \in Element
        PROVE  /\ datas'[e] # NULL /\ peers'[e] # NULL =>
                    \E u \in Thread : pc'[u] = "drop" /\ Elem(u)' = e
               /\ datas'[e] # <<>> /\ peers'[e] # <<>>
    <3>1. peers'[e] = peers[e] /\ (datas'[e] # NULL => datas[e] # NULL) /\ datas'[e] # <<>>
      BY <1>1, <1>5 DEF ListsExclude
    <3>2. \A u \in Thread : pc[u] = "drop" => pc'[u] = "drop" /\ Elem(u)' = Elem(u)
      BY <1>1, <1>2, <1>3
    <3> QED
      BY <3>1, <3>2 DEF ListsExclude
  <2> QED
    BY <2>1 DEF ListsExclude
<1>10. QueriesWouldFind'
  <2>1. ASSUME NEW u \in Thread \ {t}, Op(u) = "query", u \notin missing'
        PROVE  HasKey(datas'[Elem(u)], Item(u))
    <3>1. Elem(u) \in Element /\ u \notin missing
      BY <1>1, <2>1, OpMeansCall, CallFacts
    <3>2. CASE Elem(u) = Elem(t)
      BY <1>1, <2>1, <3>2 DEF Queries
    <3>3. CASE Elem(u) # Elem(t)
      BY <1>5, <2>1, <3>1, <3>3 DEF QueriesWouldFind
    <3> QED
      BY <3>2, <3>3
  <2> QED
    BY <1>3, <2>1 DEF QueriesWouldFind
<1>11. AnswersAreCurrent'
  BY <1>1, <1>2, <1>3 DEF AnswersAreCurrent
<1>12. PeersCameSince'
  BY <1>1, <1>2, <1>3 DEF PeersCameSince
<1> QED
  BY <1>6, <1>7, <1>8, <1>9, <1>10, <1>11, <1>12

LEMMA DelPeerKeeps ==
  ASSUME IInv, NEW t \in Thread, DelPeer(t)
  PROVE  /\ IInv'
         /\ \A e \in Element : peers[e] # NULL /\ peers'[e] = NULL =>
              Elem(t) = e /\ pc[t] # "idle" /\ pc'[t] = "idle" /\ Op(t) = "delPeer"
<1> USE DEF IInv
<1> DEFINE same == {n \in DOMAIN peers[Elem(t)] : PeerID[peers[Elem(t)][n]] = PeerID[Item(t)]}
<1>1. /\ pc[t] = "search" /\ Op(t) = "delPeer" /\ peers[Elem(t)] # NULL
      /\ peers' = [peers EXCEPT ![Elem(t)] = EraseFirst(peers[Elem(t)], same)]
      /\ Return(t)
      /\ UNCHANGED <<datas, mutex, sendQueue, calls>>
  BY DEF DelPeer
<1>2. /\ pc'[t] = "idle" /\ missing' = missing \ {t} /\ raced' = raced \ {t}
      /\ \A u \in Thread \ {t} : pc'[u] = pc[u]
  BY <1>1, ReturnFacts
<1>3. /\ CallsInPlace' /\ AnswersAreCurrent' /\ Op(t)' = "none"
      /\ \A u \in Thread \ {t} : Op(u)' = Op(u) /\ Elem(u)' = Elem(u) /\ Item(u)' = Item(u)
  BY <1>1, ReturnKeepsCalls
<1>4. /\ Elem(t) \in Element
      /\ peers[Elem(t)] \in Seq(Peer) /\ peers[Elem(t)] # <<>> /\ NULL \notin Seq(Peer)
  BY <1>1, CallFacts, ListFacts DEF ListsExclude
<1>5. /\ peers'[Elem(t)] \in Seq(Peer) \cup {NULL} /\ peers'[Elem(t)] # <<>>
      /\ \A e \in Element \ {Elem(t)} : peers'[e] = peers[e]
      /\ peers' \in [Element -> Seq(Peer) \cup {NULL}]
  <2>1. same \in SUBSET (DOMAIN peers[Elem(t)])
    OBVIOUS
  <2> HIDE DEF same
  <2>2. /\ EraseFirst(peers[Elem(t)], same) \in Seq(Peer) \cup {NULL}
        /\ EraseFirst(peers[Elem(t)], same) # <<>>
    BY <1>4, <2>1, EraseFirstFacts
  <2> QED
    BY <1>1, <1>4, <2>2 DEF TypeOK
<1> HIDE DEF same
<1>6. TypeOK'
  BY <1>1, <1>5, ReturnFacts DEF TypeOK
<1>7. HoldsMutexes'
  BY <1>1, <1>2, <1>3 DEF HoldsMutexes
<1>8. ListsExclude'
  <2>1. ASSUME NEW e \in Element
        PROVE  /\ datas'[e] # NULL /\ peers'[e] # NULL =>
                    \E u \in Thread : pc'[u] = "drop" /\ Elem(u)' = e
               /\ datas'[e] # <<>> /\ peers'[e] # <<>>
    <3>1. datas'[e] = datas[e] /\ (peers'[e] # NULL => peers[e] # NULL) /\ peers'[e] # <<>>
      BY <1>1, <1>5 DEF ListsExclude
    <3>2. \A u \in Thread : pc[u] = "drop" => pc'[u] = "drop" /\ Elem(u)' = Elem(u)
      BY <1>1, <1>2, <1>3
    <3> QED
      BY <3>1, <3>2 DEF ListsExclude
  <2> QED
    BY <2>1 DEF ListsExclude
<1>9. QueriesWouldFind'
  BY <1>1, <1>2, <1>3 DEF QueriesWouldFind
<1>10. PeersCameSince'
  <2>1. ASSUME NEW u \in Thread \ {t}, Op(u) = "set",
               pc[u] \in {"type2", "lock1", "lock2", "store", "drop"},
               peers'[Elem(u)] # NULL
        PROVE  u \in raced
    <3>1. Elem(u) \in Element
      BY <2>1, CallFacts
    <3>2. peers[Elem(u)] # NULL
      BY <1>1, <1>5, <2>1, <3>1
    <3> QED
      BY <2>1, <3>2 DEF PeersCameSince
  <2> QED
    BY <1>2, <1>3, <2>1 DEF PeersCameSince
<1>11. \A e \in Element : peers[e] # NULL /\ peers'[e] = NULL =>
         Elem(t) = e /\ pc[t] # "idle" /\ pc'[t] = "idle" /\ Op(t) = "delPeer"
  BY <1>1, <1>2, <1>5
<1> QED
  BY <1>3, <1>6, <1>7, <1>8, <1>9, <1>10, <1>11

-----------------------------------------------------------------------------
(* The theorems. *)

LEMMA InitIInv == Init => IInv
<1> SUFFICES ASSUME Init PROVE IInv
  OBVIOUS
<1>1. TypeOK
  BY InitIsTyped
<1>2. /\ \A t \in Thread : pc[t] = "idle" /\ Op(t) = "none"
      /\ \A e \in Element : datas[e] = NULL /\ peers[e] = NULL
  BY DEF Init, NoCall, Op
<1>3. NULL # <<>>
  <2>1. <<>> \in Seq(Peer)
    OBVIOUS
  <2> QED
    BY <2>1, ConstantsAssumption, Zenon
<1>4. CallsInPlace /\ HoldsMutexes
  BY <1>2 DEF CallsInPlace, HoldsMutexes
<1>5. ListsExclude
  BY <1>2, <1>3 DEF ListsExclude
<1>6. QueriesWouldFind /\ AnswersAreCurrent /\ PeersCameSince
  BY <1>2 DEF QueriesWouldFind, AnswersAreCurrent, PeersCameSince
<1> QED
  BY <1>1, <1>4, <1>5, <1>6 DEF IInv

LEMMA StutterKeeps == IInv /\ UNCHANGED vars => IInv'
BY DEF IInv, vars, TypeOK, CallsInPlace, HoldsMutexes, ListsExclude,
       QueriesWouldFind, AnswersAreCurrent, PeersCameSince, Op, Elem, Item

LEMMA ProceedKeeps ==
  ASSUME IInv, NEW t \in Thread, Proceed(t)
  PROVE  IInv'
<1> USE DEF IInv
<1>1. CASE ReadPeers(t)
  BY <1>1, ReadPeersLooks, LookKeeps
<1>2. CASE ReadDatas(t)
  BY <1>2, ReadDatasLooks, LookKeeps
<1>3. CASE Test(t)
  BY <1>3, TestLooks, LookKeeps
<1>4. CASE SearchNothing(t)
  BY <1>4, SearchNothingLooks, LookKeeps
<1>5. CASE Search(t)
  BY <1>5, SearchLooks, LookKeeps
<1> HIDE DEF IInv
<1>6. CASE Enqueue(t)
  BY <1>6, EnqueueKeeps
<1>7. CASE LockFirst(t)
  BY <1>7, LockFirstKeeps
<1>8. CASE LockSecond(t)
  BY <1>8, LockSecondKeeps
<1>9. CASE StoreData(t)
  BY <1>9, StoreDataKeeps
<1>10. CASE StorePeer(t)
  BY <1>10, StorePeerKeeps
<1>11. CASE DropPeers(t)
  BY <1>11, DropPeersKeeps
<1>12. CASE DropData(t)
  BY <1>12, DropDataKeeps
<1>13. CASE DelData(t)
  BY <1>13, DelDataKeeps
<1>14. CASE DelPeer(t)
  BY <1>14, DelPeerKeeps
<1>15. CASE ReturnFound(t) \/ ReturnEmpty(t)
  BY <1>15, ReturnFoundKeeps
<1> QED
  BY <1>1, <1>2, <1>3, <1>4, <1>5, <1>6, <1>7, <1>8, <1>9, <1>10, <1>11, <1>12,
     <1>13, <1>14, <1>15 DEF Proceed

LEMMA NextKeeps == IInv /\ [Next]_vars => IInv'
<1>1. ASSUME IInv, Next
      PROVE  IInv'
  <2>1. PICK t \in Thread : Request(t) \/ Proceed(t)
    BY <1>1 DEF Next
  <2> QED
    BY <1>1, <2>1, RequestKeeps, ProceedKeeps
<1> QED
  BY <1>1, StutterKeeps

THEOREM Invariance == Spec => []IInv
BY InitIInv, NextKeeps, PTL DEF Spec

\* The lists hold data and peers, only data is queued, for SET or DEL, and a
\* thread has a call if and only if it is not idle (PastryLike.cpp:55-96,
\* RoutingTable.cpp:86-130).
THEOREM TypeCorrect == Spec => []TypeOK
<1>1. IInv => TypeOK
  BY DEF IInv
<1> QED
  BY <1>1, Invariance, PTL

\* An element holds data or peers, and both only while somebody is in the
\* middle of setData or setPeer with both mutexes; no list is ever empty
\* (RoutingTable.cpp:56, 76, 97, 116).
THEOREM ElementsAreOfOneType == Spec => []ListsExclude
<1>1. IInv => ListsExclude
  BY DEF IInv
<1> QED
  BY <1>1, Invariance, PTL

\* A query that answers that there is nothing was right at some moment of the
\* call, whatever others set and deleted meanwhile (RoutingTable.cpp:133-154).
THEOREM QueriesAreAnsweredRight == Spec => []AnswersAreCurrent
<1>1. IInv => AnswersAreCurrent
  BY DEF IInv
<1> QED
  BY <1>1, Invariance, PTL

\* The last step of delPeer takes an element's last peer, or that of a set
\* throws peers away that came after it had asked for the type: nothing else
\* takes them (PastryLike.cpp:62, RoutingTable.cpp:97).
THEOREM PeersAreSpared == Spec => SetSparesPeers
<1> DEFINE Spared ==
      \A e \in Element : peers[e] # NULL /\ peers'[e] = NULL =>
        \E t \in Thread : /\ Elem(t) = e /\ pc[t] # "idle" /\ pc'[t] = "idle"
                          /\ Op(t) = "delPeer" \/ (Op(t) = "set" /\ t \in raced)
<1>1. ASSUME IInv, [Next]_vars
      PROVE  [Spared]_vars
  <2>1. CASE UNCHANGED vars
    BY <2>1
  <2>2. CASE Next
    <3>1. PICK t \in Thread : Request(t) \/ Proceed(t)
      BY <2>2 DEF Next
    <3>2. CASE Request(t)
      <4>1. UNCHANGED peers
        BY <3>2 DEF Request, Call, tableVars
      <4> QED
        BY <4>1
    <3>3. CASE DropPeers(t)
      BY <1>1, <3>3, DropPeersKeeps
    <3>4. CASE DelPeer(t)
      BY <1>1, <3>4, DelPeerKeeps
    <3>5. CASE StorePeer(t)
      BY <1>1, <3>5, StorePeerKeeps
    <3>6. CASE \/ ReadPeers(t) \/ ReadDatas(t) \/ Enqueue(t) \/ LockFirst(t)
               \/ LockSecond(t) \/ StoreData(t) \/ DropData(t) \/ Test(t)
               \/ SearchNothing(t) \/ DelData(t) \/ Search(t)
               \/ ReturnFound(t) \/ ReturnEmpty(t)
      <4>1. UNCHANGED peers
        BY <3>6 DEF ReadPeers, ReadDatas, Enqueue, LockFirst, LockSecond, Lock, StoreData,
                    DropData, Test, SearchNothing, DelData, Search, ReturnFound,
                    ReturnEmpty, tableVars
      <4> QED
        BY <4>1
    <3> QED
      BY <3>1, <3>2, <3>3, <3>4, <3>5, <3>6 DEF Proceed
  <2> QED
    BY <1>1, <2>1, <2>2
<1> QED
  BY <1>1, Invariance, PTL DEF Spec, SetSparesPeers
=============================================================================
