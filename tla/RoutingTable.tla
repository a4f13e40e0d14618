----------------------------- MODULE RoutingTable -----------------------------
(***************************************************************************)
(* The overlay's routing table: PastryLike's set, del and query, setPeer   *)
(* and delPeer of an element, and plSendQueue, called by any number of     *)
(* threads.                                                                *)
(*                                                                         *)
(* An element holds data or peers, each list under a mutex of its own; a   *)
(* list that is NULL says that there are none.  getType and the tests for  *)
(* NULL read the pointers without a mutex.  Steps are therefore what such  *)
(* a reader can tell apart.                                                *)
(*                                                                         *)
(* PastryLike's constructor leaves rt NULL and join is empty: this is a    *)
(* PastryLike that was given a table, whose setID was called once, and     *)
(* that was told whom to give the answers, before the calls.  Keys are     *)
(* equal when they are the same object: plKey compares the pointers of its *)
(* ids.                                                                    *)
(*                                                                         *)
(* A call that uses an iterator or a list that another thread has deleted  *)
(* is at "undefined"; nothing is claimed of what follows.                  *)
(***************************************************************************)
EXTENDS Naturals, Sequences, SequencesExt, FiniteSetsExt

CONSTANTS
  Thread,
  Digits,         \* maxPos: how many digits an id has
  Digit,          \* their values: 16
  OwnID,          \* what setID was given
  Key, KeyID,     \* the keys and their ids
  Data,           \* the plData objects,
  DataKey,        \* with their keys
  DataValue,      \* and what their bytes are
  Peer, PeerID,
  MaxCalls,       \* bound: how many calls are made
  NULL

Position == 0 .. Digits - 1
ID == [Position -> Digit]
Element == Position \X Digit

ASSUME ConstantsAssumption ==
  /\ Digits \in Nat \ {0} /\ MaxCalls \in Nat
  /\ OwnID \in ID /\ KeyID \in [Key -> ID] /\ PeerID \in [Peer -> ID]
  /\ DataKey \in [Data -> Key] /\ DOMAIN DataValue = Data
  /\ NULL \notin Thread /\ NULL \notin Seq(Data) /\ NULL \notin Seq(Peer)

VARIABLES
  datas, peers,   \* the lists of each element
  mutex,          \* who has its dataMutex and its peerMutex
  sendQueue,
  pc,             \* where each thread is
  call,           \* which call it is in, of which element
  calls,          \* how many calls were made
  missing,        \* history: queries during which their key was absent
  raced           \* history: sets during which a peer came to the element

tableVars == <<datas, peers>>
historyVars == <<missing, raced>>
vars == <<datas, peers, mutex, sendQueue, pc, call, calls, missing, raced>>

-----------------------------------------------------------------------------
(* RoutingTable::getElement. *)

Differ(target) == {p \in Position : OwnID[p] # target[p]}

GetElement(target) ==
  LET p == IF Differ(target) = {} THEN Digits - 1 ELSE Min(Differ(target))
  IN <<p, target[p]>>

-----------------------------------------------------------------------------

NoCall == [op |-> "none", item |-> NULL, elem |-> NULL, found |-> NULL]

Init ==
  /\ datas = [e \in Element |-> NULL] /\ peers = [e \in Element |-> NULL]
  /\ mutex = [e \in Element |-> [m \in {"data", "peer"} |-> NULL]]
  /\ sendQueue = <<>>
  /\ pc = [t \in Thread |-> "idle"]
  /\ call = [t \in Thread |-> NoCall]
  /\ calls = 0
  /\ missing = {} /\ raced = {}

Goto(t, place) == pc' = [pc EXCEPT ![t] = place]

Return(t) ==
  /\ Goto(t, "idle")
  /\ call' = [call EXCEPT ![t] = NoCall]
  /\ missing' = missing \ {t} /\ raced' = raced \ {t}

Items(list) == IF list = NULL THEN {} ELSE ToSet(list)

HasKey(list, k) == \E d \in Items(list) : DataKey[d] = k

IdOf(op, item) ==
  CASE op \in {"set", "del"} -> KeyID[DataKey[item]]
    [] op = "query" -> KeyID[item]
    [] op \in {"setPeer", "delPeer"} -> PeerID[item]

\* An operation of PastryLike begins with getElement; setPeer and delPeer are
\* called for the element their peer belongs to.
Call(t, op, item) ==
  LET e == GetElement(IdOf(op, item))
  IN /\ pc[t] = "idle" /\ calls < MaxCalls
     /\ calls' = calls + 1
     /\ call' = [call EXCEPT ![t] = [op |-> op, item |-> item, elem |-> e, found |-> NULL]]
     /\ Goto(t, CASE op = "setPeer" -> "lock1" [] op = "delPeer" -> "test"
                  [] op \in {"set", "del", "query"} -> "type")
     /\ missing' = IF op = "query" /\ ~ HasKey(datas[e], item) THEN missing \cup {t}
                   ELSE missing
     /\ UNCHANGED <<tableVars, mutex, sendQueue, raced>>

Op(t) == call[t].op
Elem(t) == call[t].elem
Item(t) == call[t].item

\* What has to be done if the element has peers, data or neither.

\* Mutant: what is set is stored also where there are peers.
ForPeersStored(op) ==
  CASE op = "set" -> "lock1" [] op = "del" -> "enqueue" [] op = "query" -> "unanswered"

ForPeers(op) ==
  CASE op \in {"set", "del"} -> "enqueue" [] op = "query" -> "unanswered"

ForData(op) == IF op = "set" THEN "lock1" ELSE "test"

ForUnknown(op) == CASE op = "set" -> "lock1" [] op \in {"del", "query"} -> "nothing"

\* getType looks at peers, and after that at datas.
ReadPeers(t) ==
  /\ pc[t] = "type"
  /\ Goto(t, IF peers[Elem(t)] # NULL THEN ForPeers(Op(t)) ELSE "type2")
  /\ UNCHANGED <<tableVars, mutex, sendQueue, call, calls, historyVars>>

ReadDatas(t) ==
  /\ pc[t] = "type2"
  /\ Goto(t, IF datas[Elem(t)] # NULL THEN ForData(Op(t)) ELSE ForUnknown(Op(t)))
  /\ UNCHANGED <<tableVars, mutex, sendQueue, call, calls, historyVars>>

\* plSendQueue::enqueue, under a mutex of its own.
Enqueue(t) ==
  /\ pc[t] = "enqueue"
  /\ sendQueue' = Append(sendQueue, [type |-> Op(t), data |-> Item(t)])
  /\ Return(t)
  /\ UNCHANGED <<tableVars, mutex, calls>>

\* The call is over; a query has told its caller that there is nothing
\* ("nothing"), or has told nothing.
ReturnEmpty(t) ==
  /\ pc[t] \in {"nothing", "unanswered"}
  /\ Return(t)
  /\ UNCHANGED <<tableVars, mutex, sendQueue, calls>>

-----------------------------------------------------------------------------
(* RoutingTableElement::setData and setPeer. *)

\* Mutant: each takes the mutex of its own list first.
OwnMutexFirst(op) == IF op = "setPeer" THEN <<"peer", "data">> ELSE <<"data", "peer">>

Mutexes(op) == <<"data", "peer">>

Lock(t, here, n, next) ==
  LET m == Mutexes(Op(t))[n]
  IN /\ pc[t] = here
     /\ mutex[Elem(t)][m] = NULL
     /\ mutex' = [mutex EXCEPT ![Elem(t)][m] = t]
     /\ Goto(t, next)
     /\ UNCHANGED <<tableVars, sendQueue, call, calls, historyVars>>

LockFirst(t) == Lock(t, "lock1", 1, "lock2")
LockSecond(t) == Lock(t, "lock2", 2, "store")

Put(list, x) == IF list = NULL THEN <<x>> ELSE Append(list, x)

StoreData(t) ==
  /\ pc[t] = "store" /\ Op(t) = "set"
  /\ datas' = [datas EXCEPT ![Elem(t)] = Put(@, Item(t))]
  /\ Goto(t, "drop")
  /\ UNCHANGED <<peers, mutex, sendQueue, call, calls, historyVars>>

StorePeer(t) ==
  /\ pc[t] = "store" /\ Op(t) = "setPeer"
  /\ peers' = [peers EXCEPT ![Elem(t)] = Put(@, Item(t))]
  /\ raced' = raced \cup {u \in Thread : Op(u) = "set" /\ Elem(u) = Elem(t)}
  /\ Goto(t, "drop")
  /\ UNCHANGED <<datas, mutex, sendQueue, call, calls, missing>>

Unlock(t) == mutex' = [mutex EXCEPT ![Elem(t)] = [m \in {"data", "peer"} |-> NULL]]

DropPeers(t) ==
  /\ pc[t] = "drop" /\ Op(t) = "set"
  /\ peers' = [peers EXCEPT ![Elem(t)] = NULL]
  /\ Unlock(t)
  /\ Return(t)
  /\ UNCHANGED <<datas, sendQueue, calls>>

Queries(e) == {u \in Thread : Op(u) = "query" /\ Elem(u) = e}

\* Those that hold an iterator of the list that is deleted.
DropData(t) ==
  LET e == Elem(t)
  IN /\ pc[t] = "drop" /\ Op(t) = "setPeer"
     /\ datas' = [datas EXCEPT ![e] = NULL]
     /\ pc' = [u \in Thread |-> CASE u = t -> "idle"
                                  [] pc[u] = "found" /\ Elem(u) = e -> "undefined"
                                  [] OTHER -> pc[u]]
     /\ call' = [call EXCEPT ![t] = NoCall]
     /\ missing' = missing \cup Queries(e)
     /\ Unlock(t)
     /\ UNCHANGED <<peers, sendQueue, calls, raced>>

-----------------------------------------------------------------------------
(* RoutingTableElement::delData, delPeer and query. *)

ListOf(t) == IF Op(t) = "delPeer" THEN peers[Elem(t)] ELSE datas[Elem(t)]

MutexOf(t) == mutex[Elem(t)][IF Op(t) = "delPeer" THEN "peer" ELSE "data"]

\* The test for NULL without the mutex.
Test(t) ==
  /\ pc[t] = "test"
  /\ Goto(t, IF ListOf(t) = NULL THEN "nothing" ELSE "search")
  /\ UNCHANGED <<tableVars, mutex, sendQueue, call, calls, historyVars>>

\* The list has become NULL since: its begin() is undefined.
SearchNothing(t) ==
  /\ pc[t] = "search" /\ MutexOf(t) = NULL
  /\ ListOf(t) = NULL
  /\ Goto(t, "undefined")
  /\ UNCHANGED <<tableVars, mutex, sendQueue, call, calls, historyVars>>

\* Mutant: the list is not deleted with its last entry.
EraseFirstLeft(list, places) == IF places = {} THEN list ELSE RemoveAt(list, Min(places))

EraseFirst(list, places) ==
  IF places = {} THEN list
  ELSE IF Len(list) = 1 THEN NULL ELSE RemoveAt(list, Min(places))

SameData(d, f) == DataKey[d] = DataKey[f] /\ DataValue[d] = DataValue[f]

\* The first plData that is equal is erased, which may be one that a query has
\* found and not returned yet.
DelData(t) ==
  LET e == Elem(t)
      same == {n \in DOMAIN datas[e] : SameData(datas[e][n], Item(t))}
  IN /\ pc[t] = "search" /\ Op(t) = "del"
     /\ MutexOf(t) = NULL /\ datas[e] # NULL
     /\ datas' = [datas EXCEPT ![e] = EraseFirst(@, same)]
     /\ pc' = [u \in Thread |->
                 CASE u = t -> "idle"
                   [] same # {} /\ pc[u] = "found" /\ SameData(call[u].found, Item(t)) -> "undefined"
                   [] OTHER -> pc[u]]
     /\ call' = [call EXCEPT ![t] = NoCall]
     /\ missing' = missing \cup {u \in Queries(e) : ~ HasKey(datas'[e], Item(u))}
     /\ UNCHANGED <<peers, mutex, sendQueue, calls, raced>>

DelPeer(t) ==
  LET e == Elem(t)
      same == {n \in DOMAIN peers[e] : PeerID[peers[e][n]] = PeerID[Item(t)]}
  IN /\ pc[t] = "search" /\ Op(t) = "delPeer"
     /\ MutexOf(t) = NULL /\ peers[e] # NULL
     /\ peers' = [peers EXCEPT ![e] = EraseFirst(@, same)]
     /\ Return(t)
     /\ UNCHANGED <<datas, mutex, sendQueue, calls>>

\* Mutant: only the first of the list is looked at.
FirstOfKeyAtHead(list, k) == IF DataKey[list[1]] = k THEN {1} ELSE {}

FirstOfKey(list, k) == {n \in DOMAIN list : /\ DataKey[list[n]] = k
                                            /\ \A m \in 1 .. n - 1 : DataKey[list[m]] # k}

\* What is found is read through its iterator after the mutex is given back.
Search(t) ==
  LET list == datas[Elem(t)]
      place == FirstOfKey(list, Item(t))
  IN /\ pc[t] = "search" /\ Op(t) = "query"
     /\ MutexOf(t) = NULL /\ list # NULL
     /\ \/ \E n \in place : /\ call' = [call EXCEPT ![t].found = list[n]]
                            /\ Goto(t, "found")
        \/ /\ place = {}
           /\ Goto(t, "nothing")
           /\ UNCHANGED call
     /\ UNCHANGED <<tableVars, mutex, sendQueue, calls, historyVars>>

ReturnFound(t) ==
  /\ pc[t] = "found"
  /\ Return(t)
  /\ UNCHANGED <<tableVars, mutex, sendQueue, calls>>

-----------------------------------------------------------------------------

Proceed(t) ==
  \/ ReadPeers(t) \/ ReadDatas(t) \/ Enqueue(t)
  \/ LockFirst(t) \/ LockSecond(t)
  \/ StoreData(t) \/ StorePeer(t) \/ DropPeers(t) \/ DropData(t)
  \/ Test(t) \/ SearchNothing(t) \/ DelData(t) \/ DelPeer(t) \/ Search(t)
  \/ ReturnFound(t) \/ ReturnEmpty(t)

Request(t) ==
  \/ \E d \in Data : Call(t, "set", d) \/ Call(t, "del", d)
  \/ \E k \in Key : Call(t, "query", k)
  \/ \E p \in Peer : Call(t, "setPeer", p) \/ Call(t, "delPeer", p)

Broken == \E t \in Thread : pc[t] = "undefined"

Next == ~ Broken /\ \E t \in Thread : Request(t) \/ Proceed(t)

Spec == Init /\ [][Next]_vars

\* Every thread runs on.
FairSpec == Spec /\ \A t \in Thread : WF_vars(~ Broken /\ Proceed(t))

-----------------------------------------------------------------------------
(* Properties. *)

CallOf(ops, items) == [op : ops, item : items, elem : Element, found : Data \cup {NULL}]

CallType == CallOf({"set", "del"}, Data) \cup CallOf({"query"}, Key)
            \cup CallOf({"setPeer", "delPeer"}, Peer)

Place == {"idle", "type", "type2", "enqueue", "lock1", "lock2", "store", "drop",
          "test", "search", "found", "nothing", "unanswered", "undefined"}

\* The types.  Only data is put into the queue, for SET or DEL.
TypeOK ==
  /\ datas \in [Element -> Seq(Data) \cup {NULL}]
  /\ peers \in [Element -> Seq(Peer) \cup {NULL}]
  /\ mutex \in [Element -> [{"data", "peer"} -> Thread \cup {NULL}]]
  /\ sendQueue \in Seq([type : {"set", "del"}, data : Data])
  /\ pc \in [Thread -> Place]
  /\ call \in [Thread -> CallType \cup {NoCall}]
  /\ \A t \in Thread : (pc[t] = "idle") = (call[t] = NoCall)
  /\ calls \in 0 .. MaxCalls
  /\ missing \subseteq Thread /\ raced \subseteq Thread

\* An element is of one type: while nobody is in the middle of setData or
\* setPeer it does not hold data and peers, and it has no empty list, which
\* getType would take for data or peers (RoutingTable.cpp:56, 76, 97, 116).
ListsExclude ==
  \A e \in Element :
    /\ datas[e] # NULL /\ peers[e] # NULL => \E t \in Thread : pc[t] = "drop" /\ Elem(t) = e
    /\ datas[e] # <<>> /\ peers[e] # <<>>

\* Who is told that there is nothing under a key is told the truth of some
\* moment of his call, though the type, the pointer and the list are looked at
\* one after another while others set and delete (RoutingTable.cpp:133-154).
AnswersAreCurrent ==
  \A t \in Thread : pc[t] = "nothing" /\ Op(t) = "query" => t \in missing

\* A set throws an element's peers away only if one of them came during the
\* set, after getType was asked (PastryLike.cpp:62, RoutingTable.cpp:97).
\* Otherwise it is delPeer that took the last.
SetSparesPeers ==
  [][\A e \in Element : peers[e] # NULL /\ peers'[e] = NULL =>
       \E t \in Thread : /\ Elem(t) = e /\ pc[t] # "idle" /\ pc'[t] = "idle"
                         /\ Op(t) = "delPeer" \/ (Op(t) = "set" /\ t \in raced)]_vars

\* Every call returns, whatever the others do; setData and setPeer take the
\* two mutexes of an element at once (RoutingTable.cpp:90, 109).
CallsReturn == \A t \in Thread : pc[t] # "idle" ~> (pc[t] = "idle" \/ Broken)
=============================================================================
