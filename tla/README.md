# libcookai-ng in TLA+

libcookai-ng is a C/C++ library for peer-to-peer programs: message-oriented
connections over TCP (`ChunkedConnection`), a Pastry-like key/value overlay
(`pastry-like`), helpers for NAT traversal (`Rendezvous/UPnP`) and portable
wrappers of sockets and threads (`tools`). It has no documentation apart from
its comments, its constants and one program that uses it
(`testApplication/main.cpp`), so every definition below is read off the code.

This directory holds TLA+ models of its core, TLC configurations that check
them on small instances, and TLAPS proofs about them for every value of their
constants.

Paths are relative to `src/libcookai-ng/libcookai-ng/`; `CC/` abbreviates
`ChunkedConnection/`.

## 1. The system

### Components

| Component | Code | State it keeps | Operations |
|---|---|---|---|
| Data plane | `CC/ChunkedConnection.cpp`, `CC/Connection.cpp`, `CC/Event.cpp` | per channel a queue of unsent block buffers; the list of unsent chunks with the position in the first; `readHeaderBuffer`, the stream and the block event being received, `blockChunkLength`, `nowChunkNum`; `status` and `fd` | `BlockWrite`, `BlockCommit`, `StreamWrite`; `Run` (`RunWrite`, `RunRead`) |
| Static buffer | `CC/StaticBuffer.cpp` | a block of bytes, the position to write at and the one to read at | `Write*`, `Read*`, `WriteSeek`, `ReadSeek`, `Clear`, `ReadFromSocket`, `WriteToSocket` |
| WRITE interest | `ChunkedConnection::Run`, `ConnectionManager::UpdateSelectStatus`, `ConnectionManager::Run` | `ManagerInterface::status`, the pollfd's `events`, `initialConnectionList` | ask for WRITE, give it up, `poll()` |
| Connection life | `CC/NonBlockConnect.cpp`, `Connection::Connect`, `Connection::Disconnect` | list of addresses, socket being tried, its status; the `Connection`'s `status`, `fd` and `connector` | `SetTarget`, `Run`, `Connect`, `Disconnect` |
| Watcher registry | `CC/ConnectionManager.cpp`, `CC/ConnectionAcceptor.cpp`, `CC/Connector.cpp` | the array of pollfds with its size, the list of interfaces, the list of unconnected ones | `AddInterface`, `AddFDWatcher`, `DeleteFDWatcher`, `UpdateSelectStatus`, `Run`; `accept()` |
| Event pool | `CC/EventPool.cpp` | a list of events and its mutex, a handler per event type | `AddEvent`, `GetEvent`, `InvokeOne`, `InvokeAll` |
| Routing | `pastry-like/PastryLike.cpp`, `RoutingTable.cpp`, `Distance.cpp`, `Peer.cpp` | an element per place and value of a digit, with a list of data or of peers and a mutex for each; own id | `set`, `del`, `query`, `setData`, `delData`, `setPeer`, `delPeer` |
| Ids, keys and data | `pastry-like/id.cpp`, `Key.cpp`, `Data.cpp`, `openssl/crypto/sha/*`, `openssl/md32_common.h` | a hash context: five words, the length, an incomplete block | `bin2ID`, `id2str_r`, `id_cmp`, `SHA1`, `SHA`, `save`, `load` |
| Overlay events and send queue | `pastry-like/Event.cpp`, `plSendQueue.cpp` | a queue, its mutex and condition variable | `push`, `pop`, `timedPop`, `popAll`, `next`, `enqueue`, `process` |
| Tools: bytes and buffers | `tools/tools.c`, `tools/Cache.cpp` | none of their own, but for the cache and the random generator | `bin_inc`, `bin2ull`, `rnd0`, `vf_*`, `realloc_push`, `Cache` |
| Tools: sockets | `tools/net.c` | none of their own; the sockets a call has open | `connect_stream`, `listen_stream`, `bind_dgram`, `connect_dgram`, `accept_dgram`, `closeSocket` |
| Tools: threads | `tools/thread.c` | none | wrappers of the operating system's calls |
| UPnP port mapping | `Rendezvous/UPnP/upnp.c`, `Rendezvous/Rendezevous.cpp` | discovered gateway, mapping, listening socket | `upnp_discover`, `GetExternalIPAddress`, `AddPortMapping`, `DeletePortMapping`, `upnp_listen_stream`, `upnp_close` |
| Bonjour, Skype; Win32 DLL | the rest | | empty classes; stubs |

### How they interact

* The *application's threads* call `BlockWrite`, `BlockCommit` and
  `StreamWrite`. These put chunks (a header of number, channel and length, then
  a payload) at the end of `writeBufferList` and ask the manager for WRITE.
* *One manager thread* (`Connector::LoopFunc`) calls `ConnectionManager::Run`
  over and over: `Connect()` what is in `initialConnectionList`, `poll()`, then
  `Run()` of each interface that is ready. `ChunkedConnection::Run` writes the
  list to the socket, reads, puts the messages together and adds an event for
  each to the `EventPool`; when the list is empty it gives WRITE up.
* The two sides share `writeBufferList`, under `writeBufferMutex`, and the WRITE
  interest (`ManagerInterface::status` and the `events` of a pollfd), under no
  mutex at all.
* The application takes events out of the pool with handlers (`InvokeAll`).
* The overlay keeps its tables behind locks of its own; at this commit its
  send queue does not use the connections yet (`plSendQueue::process` is empty).

### What is hard here, and what makes each component correct

* **Data plane.** A TCP socket splits bytes anywhere, and `RunRead` returns
  whenever `recv()` brought less than it asked for; where it was is only told
  by which of its events exist and by `blockChunkLength`. Stream chunks of
  another thread land between the chunks of a block. The header's fields are
  8 and 16 bits wide. *Correct if* messages are delivered once, unchanged and
  in the order they were queued, the receiver never mistakes payload for a
  header, the receive buffer always has room for the current chunk, and
  whatever has left the sender is delivered.
* **WRITE interest.** A check and the action that depends on it are separate
  steps in both threads. *Correct if* the shared list loses nothing and whatever
  is written is sent in the end.
* **Connection life.** Connect attempts under way, errors, reconnects with what
  was left of the last connection. *Correct if* one connection's descriptor is
  never used after it was closed, a reconnect starts at a chunk boundary on
  both sides, and an address that would accept is reached.
* **Watcher registry.** An array that is extended and compacted while `poll()`
  uses it. *Correct if* every registered connection is watched exactly once, with
  its present descriptor, and no unconnected one drops out of the list but in the place of
  an earlier one that was slow to connect (section 4).
* **Event pool, overlay queue.** *Correct if* each event is taken exactly once, a
  consumer is woken by every push, and nothing is taken from an empty list.
* **Routing.** *Correct if* what was set is found until it is deleted, under every
  interleaving, and lookups choose the nearest peer of those known.
* **Static buffer, bytes, hash, text.** Positions of type `size_t` are subtracted, bytes
  are or-ed into words across calls, numbers carry over bytes, rounds are unrolled with
  changing roles of the variables. *Correct if* both sides give the same bytes the same
  meaning, and the code agrees with the arithmetic it stands for on all inputs, the
  boundaries included.
* **Sockets.** A connection of datagrams is made with one byte each way over a network
  that loses, delays and repeats; any system call may fail between two addresses.
  *Correct if* both ends name each other, every path out closes what it opened, and a
  call ends.
* **UPnP.** *Correct if* each early return releases what was acquired before it.

`hazards` in PROJECT.json lists these at the lines where they bite, each with
the properties that cover it, or a note saying why none does.

## 2. Plan

Most important first. Every module that is proved about has parameters with
named assumptions, one action per operation and no recursive operator.

| # | Module | Composes / refines | State |
|---|---|---|---|
| 1 | `MessageChannel` | abstract: exactly-once in-order channel | done |
| 2 | `ChunkedConnection` | implements `MessageChannel` | done; safety and refinement proved |
| 3 | `WriteInterest` | two threads and `poll()` | done; safety proved |
| 4 | `ConnectionLife` | `NonBlockConnect`, `Connect`, `Disconnect`, loss and reconnect in a process that reuses descriptors | done; safety proved |
| 5 | `EventPool` | the list of events, its producers and its consumers | done |
| 6 | `Connector` | composes `EventPool` with the manager's lists and the acceptor, for many connections | done; safety proved |
| 7 | `WatcherRegistry` | descriptors that change: `DeleteFDWatcher`, `realloc` during `poll()` | left out (section 7) |
| 8 | `UPnP` | sockets and mappings along every early return, for competing clients | done; safety proved |
| 9 | `EventManager` | the overlay's queue with its condition | done; safety proved |
| 10 | `SendBuffer` | the tagged buffers of `tools.c`, written and read | done; safety proved |
| 11 | `RoutingTable` | the overlay's table with `set`, `del` and `query` of many threads | done; safety proved |
| 12 | `StaticBuffer`, `ChunkWire` | the data plane byte by byte; implements `MessageChannel` | done; safety of the buffers and refinement proved |
| 13 | `HashBuffer`, `Sha1`, `Ids`, `Text`, `Streams`, `Counters` | pure algorithms against reference definitions over bounded inputs; what is saved in a stream, and rows as numbers, for every row | done; `Streams` and `Counters` proved |
| 14 | `Datagram` | the sockets of `net.c` over an unreliable network | done; safety proved |

## 3. The modules

### MessageChannel

What one direction of a connection promises its users: `Accept` appends a
message to `sent`, `Deliver` hands over the next one. `delivered` is always a
prefix of `sent`.

### ChunkedConnection

One direction of an established connection, application to event pool.

*A chunk on its way is a record*, not a row of bytes: `num` and `length` as the
header's fields hold them (reduced to `UInt8` and `UInt16`), `channel` (which the code
cuts to a byte as well, and which `ChannelsAssumption` says fits one), the `body`, and an auxiliary `at` no guard reads. `readPos` counts the bytes of the
first unsent chunk that were sent and `inPos` those of the first undelivered
chunk that were received, so that every split of the byte stream is still a
behaviour. If the receiver reads a header where the stream has payload, what it
reads is arbitrary; `LoseFraming` records that in `desync` and the receiver
stops. Nothing is claimed of a run after that.

| TLA+ | Code |
|---|---|
| `channelWriteQueue`, `GetWriteQueue`, `HasWriteQueue`, `SetWriteQueue` | the map of buffer lists, `ChunkedConnection::GetWriteQueue`: it creates a queue only while the whole map is empty |
| `BlockRefused`, `BlockWrite` | `BlockWrite` returning false, and appending to the buffers; `Fill` relates bytes and buffers, so that a write of nothing leaves an empty buffer |
| `BlockCommit`, `CommitChunk`, `commit` | `BlockCommit`, one action per chunk, because `StreamWrite` of another thread can come between two pushes |
| `StreamWrite`, `Chunk`, `NonBlockWrite` | `StreamWrite`, `WriteHeader`, `Connection::NonBlockWrite` |
| `RunWrite(k)`, `RunWriteError` | one `send()` that takes `k` bytes; one that fails (`Disconnect`) |
| `ChunkHeaderReadPart(k)`, `ReceiveStreamHeader`, `ReceiveBlockHeader`, `RefuseBlockHeader` | the header part of `RunRead`: bytes gathered in `readHeaderBuffer`; what a complete header starts; a block above the limit, which disconnects |
| `StreamReadPart(k)`, `StreamReadFull`, `BlockReadPart(k)`, `BlockReadFull`, `BlockChunkComplete` | the stream and block parts, one `recv()` each; the full buffer, for which `ReadFromSocket` does not call `recv()` |
| `RunReadError` | a failing `recv()`: the event in hand is deleted, `Disconnect` |
| `NetworkReset` | the network, when `MayReset` |

`sent` and `delivered` are histories: a block counts as sent when its last chunk
is queued, a stream when its chunk is.

### WriteInterest

The application's thread and the manager's, at the grain of the shared accesses.
Chunks are numbers. `pc` says where each thread is, `call` holds the argument of
its `UpdateSelectStatus` and where that returns to.

| TLA+ | Code |
|---|---|
| `Look`, `SetStatus`, `SetEvents` | `ConnectionManager::UpdateSelectStatus`: the early returns, `mi->status = ...`, `pollfds[i].events = ...`, in either thread |
| `StreamWrite`, `BlockCommit(n)` | ask for WRITE, if the list is empty and always, respectively; the pushes follow |
| `LockAndRead`, `PushAndUnlock` | `push_back` under `writeBufferMutex`, as a read and a write of the list |
| `Connect(s)`, `NothingInList`, `HasWriteQueue`, `EraseFromList` | the loop over `initialConnectionList` in `ConnectionManager::Run` |
| `Poll`, `Timeout`, `PollReturn(r)` | `poll()` on the events it was called with; without a descriptor `Run` sleeps |
| `StartWrite`, `SendFirst`, `EndWrite` | `Connection::RunWrite` under the mutex |
| `TryConnect`, `ReadEvent`, `ReadNothing` | `Connection::RunRead` and the loop of `ChunkedConnection::Run`, which calls `Connection::Run` again after every event |
| `CheckEmpty` | the end of `ChunkedConnection::Run`: give WRITE up if the list is empty, read without the mutex |

Simplifications: the two reads of `Look` (`IsConnect()` and `mi->status`) are one
step; a connection that fails after it was CONNECTING, or is lost, is left to
`ConnectionLife`; a connection has a descriptor exactly when it is not
DISCONNECTED; the mutex-protected part of the list's accesses is `SendFirst`
chunk by chunk, a partly sent chunk being the same as an unsent one here.

### ConnectionLife

The manager's thread from one system call to the next, in a process whose other
parts open and close descriptors at any moment, so that a closed number can be
another's by the next step. `sockets` says what each descriptor is: closed,
`other`, or a socket of this connection that is fresh, connecting, connected,
refused or reset. Two objects hold a copy of one number: the Connection (`fd`)
and its `NonBlockConnect` (`nb.fd`). `Platform` selects the answers of
`connect()` and the codes `NonBlockConnect::Run` knows: on POSIX a nonblocking
`connect()` says EINPROGRESS first, on Win32 WSAEWOULDBLOCK, then WSAEALREADY
and WSAEISCONN.

| TLA+ | Code |
|---|---|
| `HandOut`, `SetTarget(found)`, `NotInitialized`, `Resume` | `Connection::Connect` up to `NonBlockConnect::Run`, and its first returns: `CONNECTED` hands out the fd it has |
| `TryConnect`: `Trying`, `Connected`, `Failed` | one `connect()` and what `Run` does with its answer |
| `NextAddress(f)`, `NoDescriptor`, `AllFailed(found)` | `res = res->ai_next`, `socket()`, which may fail; the end of the list, a new lookup |
| `Tick`, `TickReturned` | the part of `ConnectionManager::Run` before `poll()`, for this connection |
| `Timeout`, `PollReturn` | `poll()`; it reports something only after `UpdateSelectStatus` was given a descriptor |
| `RunRead`, `RunReturned`, `Receive`, `ReceiveError`, `SendError` | the loop of `ChunkedConnection::Run`: connect if need be, then `recv()`; an error is `SocketError`, that is `Disconnect`, an event, and the next time round |
| `HandleClose` | the application's error handler: it may call `Connect()` |
| `OtherOpens`, `OtherCloses`, `Resolve`, `Reset` | the rest of the process, the peer, the network |

`lost` and `trouble` are histories no guard reads: an established connection
was disconnected; a lookup failed or there was no free descriptor.

Simplifications: which events are polled is `WriteInterest`'s subject, so
`PollReturn` may happen whenever something is watched; the handler's `Connect()`
is one step and happens where `NonBlockConnect` has no attempt under way (two
threads inside one `NonBlockConnect` would need its fields one by one, and
nothing in the repository says they may meet there); what was in the buffers at
the loss stays `ChunkedConnection`'s.

### EventPool and Connector

All connections of one `Connector`: those the application asks for (`Out`) and
those that are accepted (`In`), its acceptor, the manager's thread, and the
threads of the application that invoke events. `EventPool` is a part of its own,
without a `Next`: its operations are conjoined with those of `Connector`.

| TLA+ | Code |
|---|---|
| `AddEvent` | `EventPool::AddEvent` |
| `FindEvent(t)`, `TakeFront(t)`, `TakeNothing(t)` | `GetEvent`: the test without the mutex; `front()` and `pop_front()` under it, of a list that is not, or is, empty by then |
| `DeleteEvent(t)`, `Invoke(t)` | the rest of `InvokeOne`; the handler of `main.cpp:99`, which sets the handlers of an accepted connection |
| `Connect(c)`, `AddInterface` | `Connector::Connect` |
| `NoTick`, `StartTick`, `EndTick` | the loop over `initialConnectionList` in `ConnectionManager::Run`; `at` is its iterator, `Front` what it looks at each time round |
| `ConnectFront`, `ConnectTries`, `ConnectFails` | the three results of `Connect()` and `IsConnect()`: connected, and the iterator's interface is erased; a descriptor but no connection yet (TRYING), and the iterator moves on (`PassFront`); no descriptor, and it moves on |
| `UpdateSelectStatus`, `GetManagerInterface`, `AddFDWatcher` | the same, of an interface with a descriptor that is to be read |
| `Timeout`, `PollReturn`, `Skip`, `EndInvoke` | `poll()` and the loop over `pollfds`; `revents` is what it reported and `pollRet` still counts |
| `Accept(c)` | `ConnectionAcceptor::Run`: `accept()`, the watcher, the event |
| `StartRun`, `ReadMessage`, `ReadNothing` | `ConnectionManager::Invoke`, and the loop of `ChunkedConnection::Run`: one message and its event each time round |
| `ConnectBeforeRead` | the start of `Connection::RunRead`, which connects what is not connected yet |
| `PeerConnects`, `PeerSends`, `Ready` | the peers and the operating system |

An event is its connection, its number (0 for the acceptance, then the messages)
and whether a handler was set when it was made. `taken` is the history of what
the threads took, `asked` that of the requests to connect, and `slow` the connections a
look did not find connected; no guard reads any of them. After `front()` of an empty list (`broken`) nothing happens any
more and nothing is claimed.

Simplifications: a look at a connection leaves it without a descriptor (the name is not
found, or all addresses refuse at once), under way, or connected; an attempt under way is
the usual first answer on Win32. It keeps its descriptor: an address that refuses after it
was tried for a while, and the next one, are in `ConnectionLife`. Connections are not
lost; nothing is written (`WriteInterest`), so that every watcher is for READ; a
message is read as a whole (`ChunkedConnection`). An accepted socket is blocking,
as `accept()` leaves it: where `recv()` would wait, no action of the manager is
enabled.

### UPnP

The clients of one gateway, each in a call of `upnp_listen_stream` or holding the
`cookai_upnp` it returned. A client is the program of one host; the gateway's
mappings and the hosts' listening sockets are what it acquires and must give
back.

| TLA+ | Code |
|---|---|
| `Call`, `Discover`, `Describe`, `GetExternalIPAddress` | `upnp_listen_stream` up to the mapping: each exchange succeeds or the call returns |
| `Listen`, `ListenFails` | `listen_stream` of a free port, and the loop over local ports in `upnp_AddPortMapping` |
| `FindAddress`, `NoAddress` | `getsockname` of a connection to the gateway |
| `NextWanPort`, `Accept`, `Refuse` | the next port asked for; what the gateway does with the request |
| `Success`, `TryNext`, `NoReply` | what the client does with the answer, or without one |
| `Close`, `DeletePortMapping`, `DeleteFails` | `upnp_close`: the socket is closed, then the mapping deleted, by its WAN port only |
| `Exit` | the process ends and its sockets are closed |

Simplifications: HTTP and XML are left out, an exchange brings yes, no or
nothing; the gateway keeps its mappings; discovery finds this gateway.

### EventManager

`plEventManager`, shared by any number of threads. It calls `thread_cond_reset`,
which only the Win32 build has, so its condition is a Win32 event with manual
reset, signalled when it is made. `pc` says of each thread whether it waits with
a time (`timed`), without one (`patient`), was called in a timed wait (`woken`) or is
to lock the mutex for another reason (`back`). `crowded` is a history: the
waiting threads whose wait overlaps with another timed one.

| TLA+ | Code |
|---|---|
| `Push`, `Pop`, `PopAll`, `TimedPopAtOnce` | `push`; `pop` and `next`; `popAll`; `timedPop` when there is an event: each is one critical section |
| `Sleep` | `timedPop` of an empty list up to the unlock in `thread_cond_wait` or `thread_cond_timedwait` |
| `Wake`, `Timeout` | `WaitForSingleObject` returns |
| `Return`, `ResetIfTimed` | the lock, `ResetEvent` after a timed wait that was called, and what `timedPop` takes then |

### SendBuffer

A call of `vf_create_send_buf`, step by step, and one of `vf_get_from_send_buf` for
the same fields, on what arrived. A field is a number ("i", signed or not), a string
or data behind its length ("s", "d"), or bytes of a fixed size ("f"). `Pieces` is what
is copied for a field, with a `CHECK_SIZE` each; `siz` is the code's count of
bytes needed, or, of the reader, of bytes left; `pp` is how far it got. `Htonl`, the
bytes of a number, is a constant: any one-to-one map of the numbers onto rows of
`IntSize` bytes.

| TLA+ | Code |
|---|---|
| `Create`, `CreateNoMemory`, `NewBuffer` | the static buffer, made anew when it was lost |
| `NextField`, `AddSize`, `Copy` | the loop over the format |
| `Grow`, `GrowTooLarge`, `GrowNoMemory` | one round of the loop of `CHECK_SIZE` |
| `Finish`, `FinishNoMemory` | the copy that is returned |
| `Get` | the reader is given the message, its beginning, or `Noise` |
| `GetInt`, `GetData`, `GetFixed`, `GetNoLength` | the cases of its loop; reading beyond the end makes `pc` `"undefined"` |
| `GetTooShort`, `GetNoMemory`, `Done` | its returns |

Simplifications: one thread; formats and arguments agree; sums of sizes do not
exceed a `size_t` (the data is in memory), only the doubling of `buf_siz` may.

### RoutingTable

`PastryLike` with a table, called by any number of threads, which also set and delete
peers. An id is its digits; a key, a `plData` and a peer are names with constant
functions to their ids and contents, because `plKey` compares pointers while `plData`
compares keys and bytes, and `Peer` ids. Each element is a pair of lists, `NULL` when
there is none, and a pair of mutexes. A call is taken apart where another thread can
tell: each unlocked look at a pointer, each mutex of `setData` and `setPeer`, and the
moment between their two assignments, which an unlocked reader sees.

| TLA+ | Code |
|---|---|
| `Differ`, `GetElement` | `RoutingTable::getElement`: the first digit in which the target differs from the own id, and that digit |
| `Call(t, op, item)`, `ForPeers`, `ForData`, `ForUnknown` | the beginnings of `set`, `del` and `query`, and their switches over the type of the element |
| `ReadPeers`, `ReadDatas` | `RoutingTableElement::getType` |
| `Enqueue` | `plSendQueue::enqueue` |
| `LockFirst`, `LockSecond`, `StoreData`, `StorePeer`, `DropPeers`, `DropData` | `setData` and `setPeer` |
| `Test`, `SearchNothing`, `DelData`, `DelPeer`, `Search` | `delData`, `delPeer` and `query`: the test for NULL without the mutex, then what is done under it |
| `ReturnFound`, `ReturnEmpty` | the answers of `query`; `ReturnFound` reads the iterator after the mutex was given back |

A thread whose list or iterator another one has deleted goes to "undefined", and
nothing follows. `missing` and `raced` are histories no guard reads: queries during
which their key was absent from its element, sets during which a peer came to it.
`setPeer` and `delPeer` have no caller at this commit; they are called for the
element the peer's id belongs to, as the disabled `RoutingTable::setPeer`
(`pastry-like/RoutingTable.cpp:210`) did. The lists `setData` and `setPeer` return, which they
have deleted, are used by nobody and left out, as is `join`, which is empty.

### StaticBuffer and ChunkWire

`StaticBuffer` has the methods of the class as operators on records (the block, the two
positions); a method that changes the buffer and returns a value gives both. `ChunkWire`
is the journey of `ChunkedConnection` once more with rows of bytes: an application
writes numbers and data into a buffer of its own, sends its contents, and the handler of
the event reads the same types at the other end. What `ChunkedConnection` assumes of a
chunk's header, that it tells the number, channel and length of the bytes behind it, is
what the bytes do here; errors, two channels and messages that do not fit stay there.

| TLA+ | Code |
|---|---|
| `WriteUint8` ... `ReadInt32`, `Write`, `Read` | the methods, with `htonl` and two's complement as `Htonl` and `Signed` |
| `ReadFromSocket`, `WriteToSocket` | the methods; what `recv()` brings or `send()` takes is an argument |
| `WriteHeader`, `CreateNewBuffer`, `Pieces`, `BlockBuffers`, `StreamBuffer` | `WriteHeader` and the making of chunks in `BlockWrite`, `BlockCommit`, `StreamWrite` |
| `WriteField`, `Send`, `Handle` | the application |
| `RunWrite(n)`, `StreamReadPart(k)`, `BlockReadPart(k)`, `ChunkHeaderReadPart(k)`, `StartChunk` | `Connection::RunWrite` and the parts of `RunRead` |

### HashBuffer, Sha1, Ids, Text, Streams and Counters

Operators, without state of their own.

| Module | Code |
|---|---|
| `HashBuffer` | `HASH_UPDATE` and `HASH_FINAL` of `md32_common.h`: bytes gathered into words, whole blocks from the data, the length in two words, the padding |
| `Sha1` | the rounds of `sha_locl.h`, of words in two halves of 16 bits: `BODY` with the roles of the six variables that change from round to round, the words of `X` updated in place, in data and in host order |
| `Ids` | `bin2ID`, `id2str_r`, `strID2id` |
| `Counters` | rows of bytes as numbers: `id_cmp`, `bin_cmp` of signed bytes, `bin_inc` round by round (`Carry`), `bin2ull`, with bytes of any number of bits. Extends `ChunkWire`, whose `Ntohl` is the number of a row |
| `Streams` | `save` and `load` of keys and data; the buffers of `tools.c` that grow at the end and shrink at the front (`realloc_push`, `pop_buf`). Extends `ChunkWire`: what is saved is what the application has in its `StaticBuffer`, and a length is put into bytes as `StaticBuffer` does it |
| `Text` | `strstr_ci`, `getTag`, `HTTP_connect` (the URL), `LookupIPPort`, `ServiceName2PortNumber` and the remote's name the acceptor makes |

A word of the hash has a width of its own in `HashBuffer` (`WordBytes`), so that the
length overflows the lower of its two words; `Sha1` has the real one. `strID2id` is modelled as it is
and no property speaks of it: `sscanf("%x")` takes all digits there are and not one, so
that it does not do what its comment (`pastry-like/id.cpp:126`) says; nothing calls it. `bin2ull`
counts the bits up to `depth`, unless these are whole bytes: then bit `depth` is left
out, which `bin_inc` counts. `bin2ID` of nothing leaves the caller's id as it was, which
the constructors of `plID` have not initialised.

### Datagram

A server that binds a datagram socket and accepts for ever, and clients that call it
(`connect_dgram`, `connect_stream`), use the socket, close it and call again. A datagram
is its sender and its receiver; what the byte says is never looked at.

| TLA+ | Code |
|---|---|
| `Call`, `SocketFails`, `ConnectStream`, `ReturnFailure` | `connect_stream` and the frame of `connect_dgram`: the loop over the addresses |
| `SendSyn`, `Timeout`, `Answered`, `GiveUp` | `socket()` and `sendto()`; `select()` without an answer; `recvfrom()` and `connect()`; the closing of this address's socket |
| `BindDgram`, `BindAny` | `bind_dgram`, `bind_any` |
| `ReceiveSyn`, `NewSocket`, `BindInaddrAny`, `NewSocketFails`, `SendAck`, `ConnectFails` | `accept_dgram` from one system call to the next |
| `CloseSocket` | `closeSocket` |
| `Lose`, `Receive` | the network, which may also repeat what it delivers, at any later time |

`at` says where in its call a client is. The specification is `DgramSpec`, since
`Tools_proof` has it beside `SendBuffer`'s.

`fault` is a history no guard reads: something was lost, late or repeated, or a system
call failed. Simplifications: sockets the server has accepted stay open, since what it
does with them is not in `net.c`; a `recvfrom()` of the client that fails leaves an
address that is not one, and the `connect()` to it fails (`Answered`'s second case).

### The other modules

`*_proof` has the proofs about a module (`Tools_proof` those about `SendBuffer` and
`Datagram`), with the lemmas about sequences and numbers they need at its head,
`MCChunkedConnection`, `MCUPnP`, `MCSendBuffer`, `MCRoutingTable` and `MCDatagram` the payloads, hosts,
messages, ids and addresses of the small instances. `MCBytes` has those of `ChunkWire`, and checks the pure
algorithms on the rows of bytes its application can make. The other components need no MC module: their constants
are numbers and names.

Operators headed *Mutant* in the component modules are not used by any specification. Each is a plausible bug in the definition that follows
it; put in its place, it makes a property of a run fail (`mutants` in
PROJECT.json), which shows that the property constrains that code.

## 4. The runs

Run from this directory: `tlc -workers 2 -config <cfg> <module>`.

| Run | Configuration | States | Checks |
|---|---|---|---|
| wire | `MCChunkedConnection.cfg` | 46,526 | `InSync`; `ImplementsChannel`, `FullySentIsDelivered` |
| careless | `MCChunkedConnection_careless.cfg` | 515,719 | `ReadsStayInChunk`, `DeliveredInOrder` |
| bytes | `MCBytes.cfg` | 79,180 | `PositionsAreOrdered`, `HashIsOfMessage`, `RoundsAgree`, `CountsUp`, `SavedIsLoaded`, `TextIsRead`; `CarriesFields` |
| write_interest | `WriteInterest.cfg` | 14,787 | `SentOnceInOrder`; `ArmedChunkIsSent`, `QuietWritesAreSent` |
| lost_wakeup | `WriteInterest_lost.cfg` | counterexample | `WrittenIsSent` |
| connection_life | `ConnectionLife.cfg` | 4,576 | `NoSocketLeak`, `ConnectedIsOwn`; `ListenerIsReached` |
| connector | `Connector.cfg` | 79,413 | `WatchedOnce`, `RequestedIsKept`, `EventsInOrder`; `IsServed` |
| upnp_mapping | `UPnP.cfg` (`MCUPnP`) | 491,392 | `ListeningIsMapped`, `SocketsAreReleased`, `MappingsAreReleased`, `OthersMappingsStay`; `CallsReturn` |
| event_manager | `EventManager.cfg` | 4,083 | `TakenOnceInOrder`, `SleeperIsCalled`; `PatientGetsUp` |
| send_buffer | `SendBuffer.cfg` (`MCSendBuffer`) | 19,211 | `StaysInBuffers`, `SentIsMessage`, `ReadIsWritten` |
| routing_table | `RoutingTable.cfg` (`MCRoutingTable`) | 140,569 | `ListsExclude`, `AnswersAreCurrent`; `SetSparesPeers`, `CallsReturn` |
| datagram | `MCDatagram.cfg` | 362,415 | `PeersAgree`, `SocketsAreClosed`; `EveryCallEnds` |

Five configurations are kept for their counterexamples, which section *Findings*
describes, and are not among the regular runs: `MCChunkedConnection_channel.cfg`
(`NoChannelRefused`), `MCChunkedConnection_length.cfg` (`MaxDataLengthIsDelivered`),
`ConnectionLife_posix.cfg` (`ListenerIsReached`), `ConnectionLife_reconnect.cfg`
(`LostIsReconnected`) and `Connector_handlers.cfg` (`MessageHasHandler`). The types of the
state modules that have proofs are proved (section 6), and so are `NoStaleCopy`,
`ConnectHasAddress` and `OwnedOnce`, which no run names.

**wire.** All messages fit their headers and nothing breaks. Blocks of one to
three chunks (Capacity 2, up to 5 bytes, the last chunk full or not) and streams
of one byte in every order, the stream also between two chunks of a block; a
header of 2 bytes so that it can be split; every split of every `send()` and
`recv()`. `MAX_DATALENGTH` 6 is exactly what the largest block announces
(3 chunks of 2). Two messages are enough to have one message's end next to
another's beginning and a stream within a block, the two adjacencies a third
message would only repeat. Shown: the data plane implements `MessageChannel`, and
every message whose chunks have left the sender is delivered.

**careless.** An application that commits empty blocks, streams of `UInt16`
bytes (length 0 in the header) and blocks longer than the receiver accepts, calls
two channels, over a connection that is reset at any moment. Here the receiver
does lose the framing in some behaviours. Shown: a
`recv()` for payload never reaches beyond the chunk whose header announced it, and
as long as all messages fit, they are delivered in order up to the point where
the connection broke. The header is 1 byte, which keeps the instance small; its
splits are the other run's subject.

**write_interest.** Up to 3 chunks in calls of 1 or 2, from before the connection
exists to after it is established: with 3 there can be a sent, a waiting and a
being-written chunk at once. Shown: the list is intact; a chunk that waits while
WRITE is asked for goes out; and if no call of the application overlaps with the
manager's work, everything is sent.

**connection_life.** Two addresses, of which the first refuses and the second
listens, on Win32: the recursion over the list, a whole round of failures (no
descriptor free, then a new lookup) and success after failure all occur. Two
descriptors, the least with which another part of the process can take the one
number while the connection holds the other; one reset, after which a closed
descriptor is handed out. Shown: no attempt leaves its socket open, a connection that says it is connected is so until it is lost, and
the listener is reached if lookups and `socket()` work.

**connector.** Two requested connections, the least with which the loop over
`initialConnectionList` can erase another interface than the one it connected; one
accepted, whose event and message pass through the same list as those of the
requested ones; two threads, the least that can meet in `GetEvent`. One message
each from two of the three peers (`Talking`): a second one would only repeat the order
of an acceptance and the message after it. Shown: whatever comes in which order,
every connection that is open or under way is watched once, also when `accept()` makes
`pollfds` grow while the manager goes over it; a request leaves the list unconnected only in
the place of an earlier one that is connected but was not at its first look, so never the
first, nor one behind requests that are connected at once; the
pool passes on every event once, in its connection's order; and a
request or a message waits for ever only if the manager waits in `recv()` on an
accepted connection.

**upnp_mapping.** Two clients on two hosts, two local ports and two tries for a WAN
port, of which another device has one: each client can meet a port that is taken, by
the other or from the start, and run out of tries. Every exchange may fail, and a
client may end anywhere. Shown: an open `cookai_upnp` has its socket and its
mapping; a call that fails, at whichever exchange, leaves no socket, unless the own
address was not found (`Rendezvous/UPnP/upnp.c:465` returns without
closing it), and no mapping, unless its exchange was cut short; nobody's
mapping is changed by another; and calls return.

**event_manager.** Three threads, the least with which two waits can overlap while a
third thread pushes; four events, so that the list can be emptied and filled again
while they wait. Shown: no event is lost, taken twice or overtaken; and a thread
that waits while there is an event is called, unless another timed wait overlaps
with its own.

**send_buffer.** Bytes of four values, numbers of two bytes, a buffer that grows from
2 bytes to 4 and 8; the next doubling exceeds a `size_t` of 16 values. Six messages:
the empty one, one per kind of field and mixtures of two, of lengths that leave the
buffer as it is, make it grow once or twice within a field or between two, and
exceed it. The reader gets every beginning of every message, and four rows that are
none. Several calls follow one another, so that a failed `realloc` is followed by
a further message. Shown: what the list of section 1 asks of this part, for messages
without fields of fixed size where the input is cut short.

**routing_table.** Ids of two binary digits; two keys and a peer in the same element, a
second peer in another, and of one key two `plData` that are equal. Two threads, the
least that can be inside one element; four calls between them, so that one may meet
another in an element that two calls before have filled, emptied or turned from data to
peers. Shown: an element holds data or peers, never an empty list; who is told that
there is nothing was told the truth of some moment of his call; a set throws peers away
only if one came while it was under way; and calls return.

**bytes.** Bytes of four values, so that numbers of four bytes have 256; two fields of all
types, positive and negative, in one message or in two, as streams and as blocks of chunks of two
bytes: a field is cut by the end of a chunk, and a chunk holds two fields. Every split of
every `send()` and `recv()`. Shown: the fields that are read are those that were
written, in order (`CarriesFields`, the refinement of `MessageChannel` under the mapping that gives it the
histories `sent` and `delivered`); and no position passes another
(`PositionsAreOrdered`). TLC also evaluates `MessagesFit`: the constants satisfy `WireFits`, the
premise of the theorem about `CarriesFields`. The pure algorithms are checked on each row of bytes that two fields
make: messages of up to three rows, in three pieces cut anywhere, of words of two bytes
and blocks of four (`HashIsOfMessage`); 16 words with the row spread over them, and
the tests of `sha1test.c` and `shatest.c`, as the text of the id of these keys (`RoundsAgree`); the row in the
application's buffer, up to five bytes of two bits, counted up at every bit (`CountsUp`); keys and data that are any two parts of what is in the
application's buffer, in every state, with NULs (`SavedIsLoaded`); texts of up to six words out of four that look like tags, or like parts of a URL
(`TextIsRead`). The rows have few values, and every structure the
algorithms tell apart: first and last bit, carry, NUL, block and word boundary.

**datagram.** Two clients, the least that can get each other's ports; two calls in all, so
that what a call left on its way meets another; three ports, which one client, its
socket at the server and the other client use up. Nobody is at the first of two
addresses: the loop goes on. Any datagram may be lost, wait or come again, and any system
call fail. Shown: what `connect_dgram` returns and a socket the server accepted are
connected to each other; no path leaves a socket open; and a call ends, with a socket
unless something went wrong on the way.

Deadlock is checked in `WriteInterest`, `ConnectionLife` and `UPnP`. The configurations of
`ChunkedConnection` say `CHECK_DEADLOCK FALSE`, because an application may stop
writing and the bound `MaxSent` makes it stop. So do those of `Connector`: `front()` of
an empty list ends the process; of `MCBytes` and `MCDatagram`: everything was sent, the calls are used up; of `EventManager`: all threads may wait while
nobody pushes; of `SendBuffer`: nothing follows a read beyond the buffer; and of
`RoutingTable`: `MaxCalls` ends the calls, and nothing follows "undefined".

### Bounds

`MaxBlockBytes`, `MaxSent`, `MaxChunks`, `MaxBlockChunks`, `Talking`,
`MaxMessages`, `MaxPushed`, `MaxFields` and `MaxCalls` are bounds of the check and stand only in the guards of the
application's and the peers' own actions. `UInt8`,
`UInt16`, `Capacity`, `HEADERLENGTH` and `MAX_DATALENGTH` are the code's constants
(256, 65536, chunkSize - 4, 4 and 1414*256) made small in proportion, so that
each limit is reached: the code's arithmetic sees only how they compare.

### Findings

1. *A second channel is refused* (`MCChunkedConnection_channel.cfg`). `GetWriteQueue` creates a
   queue only while the whole map is empty (`CC/ChunkedConnection.cpp:75`), while
   `CHUNKED_CONNECTION_MAX_CHANNEL` is 256 (`CC/ChunkedConnection.h:47`).
2. *A block of 256 chunks is announced as a stream* (`MCChunkedConnection_length.cfg`).
   `COOKAI_CHUNKEDCONNECTION_MAX_DATALENGTH` is `1414*256` (`CC/Connection.h:45`),
   `WriteHeader` puts the number of chunks in a `uint8_t`
   (`CC/ChunkedConnection.cpp:63`).
3. *A written chunk is left behind* (`lost_wakeup`). The manager finds the list
   empty, the application asks for WRITE and pushes, the manager gives WRITE up
   (`CC/ChunkedConnection.cpp:241`). `StreamWrite` asks for WRITE only when it
   finds the list empty, so later streams do not repair it. Another way to the
   same end is two overlapping `UpdateSelectStatus`: they can leave
   `mi->status` at READ|WRITE and `events` at READ, and from then on every request
   for WRITE returns early at `CC/ConnectionManager.cpp:167`, `BlockCommit`'s
   unconditional one included. The mismatch the other way round makes `poll()`
   return at once for ever.

4. *On POSIX a connection under way is given up* (`ConnectionLife_posix.cfg`). The socket is
   nonblocking, `connect()` answers EINPROGRESS, and `NonBlockConnect::Run` tries
   again only for EWOULDBLOCK and EAGAIN (`CC/NonBlockConnect.cpp:160`): it closes
   the socket, tries the next address, looks the target up again, and so on for
   ever, unless a `connect()` happens to be answered at once. The test program
   connects this way and expects its messages.
5. *A lost connection never comes back* (`ConnectionLife_reconnect.cfg`). `NonBlockConnect` was
   CONNECTED and says so for ever, with the descriptor `Disconnect` has closed
   (`CC/NonBlockConnect.cpp:144`). The manager's thread then stays in the loop of
   `ChunkedConnection::Run`, adding an event each time round; if the number is
   another's by then, it reads that one's input, and closes it.

6. *A message is dropped before the handlers are set* (`Connector_handlers.cfg`). A
   message's event gets the handler its connection has when it is read
   (`CC/ChunkedConnection.cpp:222`), and an accepted connection has none until the
   application has invoked `EVENT_ACCEPT_NEW_SOCKET`. `Event::Invoke` passes over
   an event without a handler, and it is deleted. The test program sets the
   handlers in that event, at most once a second, while its peer sends at once.

7. *A path with a colon becomes part of the host.* `HTTP_connect` looks for `:` in the
   whole rest of the URL; if there is none before the path but one in it, the host is not cut off
   at all (`Rendezvous/UPnP/upnp.c:236`). `TextIsRead` exempts such URLs; no text in the repository says
   more.

Also reached in `connector`, where nothing in the repository says otherwise: two
threads that find the same last event (`CC/EventPool.cpp:49`) end in `front()` of
an empty list; and a connection that is not connected at its first look of a pass, but
at a later one, leaves `initialConnectionList` in another's place. The loop always looks at
the first interface, and erases the one at its iterator (`CC/ConnectionManager.cpp:223`).
With the list A, B: A is under way, the iterator moves to B, the second look finds A
connected, and B is erased, never to be connected. A stays, and of a longer list everything
from the iterator on goes, for A is connected at each further look. No failure is needed:
on Win32 the first answer of an attempt is that it is under way. `RequestedIsKept` says
which requests this can hit, and that nothing else loses one.

There are more states nothing in the repository speaks of. Two
programs on one host, or one program that calls `upnp_listen_stream` while it closes:
`upnp_close` frees the port before it deletes the mapping, by its WAN port only, and
can delete the mapping the other has just renewed; `ListeningIsMapped` and
`OthersMappingsStay` therefore assume one client per host. Two threads in `timedPop`:
the timed one resets the condition (`tools/thread.c:221`) after an event that came
since, and the other sleeps on beside it. The condition is signalled from its
initialisation on, and `timedPop` and `popAll` do not reset it, so `timedPop` may
return NULL before its time. A field of fixed size is not compared with what is left
of the buffer (`tools/tools.c:681`), nor counted, so that a message cut short is read
beyond its end. In the routing table, `delData`, `delPeer` and `query` look at the
pointer of the list before they lock and do not look again
(`pastry-like/RoutingTable.cpp:50`, 69, 135), so that a list deleted in between is
searched; and `query` reads through its iterator after it has given the mutex back (line
141).

What `careless` leaves outside `Fits` is not a disagreement with a stated promise,
but worth knowing: a commit after a write of nothing and a stream of 65536
bytes or more both cost the connection its framing.

## 5. Fairness

* `ChunkedConnection!FairSpec`: weak fairness of `RunRead`. The manager's thread
  polls a connected socket for input at all times (READ is in every interest it
  sets), and `poll()` reports input as long as there is some. Neither the
  application nor the sender is assumed to do anything.
* `WriteInterest!FairSpec`: weak fairness of an application's call once it has
  begun and of the manager's thread (both run; `poll()` has a timeout). Strong
  fairness of `PollReportsWrite` and `SendFirst`: a connected peer makes room, so a
  socket that is polled for WRITE again and again is writable some time, and
  sending gets through a finite list. Strong fairness of `ReadNothing`: the input
  pauses now and then. The code needs the last one, because the loop of
  `ChunkedConnection::Run` (line 210) goes on as long as `Connection::Run`
  returns events; under unending input a chunk may wait for ever.
* `ConnectionLife!FairSpec`: weak fairness of the manager's thread; strong fairness
  of `Timeout`, as `poll()` has one and may be left on a report each time, and of a
  `Receive` that finds nothing, as input pauses; weak fairness of `Resolve`, since
  TCP answers every connection request in the end, if only by its own timeout.
  No fairness of the application, of resets or of the rest of the process.
* `Connector!FairSpec`: weak fairness of the manager's thread and of each thread of the
  application in `InvokeAll`, which the test program calls in its loop. None of
  the peers or of requests to connect, and the attempts of the manager may fail, or stay
  under way, for ever; only of one over which something came is it known that it succeeded.
* `UPnP!FairSpec`: weak fairness of the steps of a call that was begun, as sockets
  have timeouts; whether an exchange succeeds is not assumed.
* `EventManager!FairSpec`: weak fairness of `Wake` and `Return` for each thread: the
  system lets a wait return whose event object is signalled, and grants the mutex.
  Nobody is assumed to push or to pop.
* `Datagram!FairSpec`: weak fairness of each client's steps in a call: its thread runs, and
  `select()` ends after a second. Nothing is assumed of the server, the network or
  the applications, so that a call also has to end where nobody answers.
* `RoutingTable!FairSpec`: weak fairness of each thread's next step. The calls being
  bounded, a mutex is not handed to others for ever.
* The timeout is long: `ConnectionManager::Run` passes `usec * 1000` to `poll()`,
  which takes milliseconds, so the test program's `RunTick(10000)` waits up to
  10,000 s. `Timeout` is still an action that happens; the liveness properties
  say "in the end", and no more.

## 6. The proofs

`tlapm <module>_proof.tla` checks them. The assumptions are `ConstantsAssumption`
and `BoundsAssumption`, which say no more than the types of the constants,
that the channels leave `NULL` free and that sizes are positive; in `RoutingTable`
that `NULL` is not a list, in `ChunkedConnection` (`ChannelsAssumption`) that a channel's
number fits its byte, and in `Datagram` (`DatagramAssumption`) that the addresses of
the remote are not among the ports the system picks by itself; those of `ChunkWire` are told
below. In a proof module come the
invariant in named parts, one lemma for each action, and the theorems.

**ChunkedConnection_proof** (`TypeCorrect`, `ReadsAreFramed`, `FramingKept`,
`NothingIsLostOrMixed`, `ChannelIsImplemented`, `CarefulUsersHaveAChannel`). The inductive
invariant is `IInv == FramingInv /\ SenderInv /\ (AllFit => OrderInv)`.
`FramingInv` is `TypeOK` together with `ReadsStayInChunk`, and needs nothing else. Neither is
inductive alone: that `nowChunkNum` and `blockChunkLength` keep their widths
needs the types of the chunks in `wire` and `writeBufferList`, and that a read
stays in its chunk needs, besides `length <= Len(body)` of every chunk (part of
the chunk's type: reducing modulo `UInt16` can only make the length smaller),
the two cursor facts `SendPosition` and `ReceivePosition`, and that a stream event
exists only while `blockChunkLength` is 0.
It holds for messages that do not fit as well, and across errors: a receiver
that has lost the framing is caught by `desync`, not by the reads of payload.
`SenderInv` says that a queue holds full chunks but for the last, and that a block under
way is what of it was queued followed by what is left; it, too, holds whatever is sent.
`OrderInv` is what must not be asked of messages that do not fit. It rests on the stamp
`at` of each chunk, the state of the message stream when it was queued (how many messages
were sent, and of a block under way the channel, the bytes and the chunks left):
in `Pipe`, the chunks under way in their order, each chunk's stamp with its own contents
leads to the stamp of the next one, and that of the last to the sender's
present state (`ChainInv`); and the stamp of the first is the receiver's state, as
far as it has read (`ReceiverInv`: at a header, in a stream chunk, in a block's). A step of
the sender changes only the end of the chain and one of the receiver its front. A receiver
that agrees with the front stamp cannot take a payload for a header, and completes exactly
the message with the next number. `AllFit` never becomes true again, so that a step from
a state where it holds to one where it does not needs no proof.
For the refinement, `OneMessagePerStep` shows that a step appends at most one message
to `sent` or one to `delivered`, the latter the next one of `sent`. Under `[]AllFit` each step is then
`Accept`, `Deliver` or a stutter of `MessageChannel`. The hypothesis stands
for the code's missing checks (findings 1 and 2); `Careful` is a condition on the constants under
which every behaviour satisfies it: the data the application may gather fit the
header's fields. The run `wire` has such constants.

**WriteInterest_proof** (`TypeCorrect`, `CopyIsCurrent`, `ChunksSentOnceInOrder`).
The inductive invariant is `TypeOK /\ NoStaleCopy /\ SentOnceInOrder`:
`SentOnceInOrder` survives a push only because the pushed list is current, and
that is `NoStaleCopy`, whose first two conjuncts tie the mutex to the places of
the threads. The result holds whatever becomes of the WRITE interest, and so
also in the behaviours of finding 3: a chunk can be left behind, but never lost,
repeated or overtaken.

**Connection_proof, ChunkWire** (`BuffersAreSound`). That the positions are in order is not
inductive: the receiver makes a buffer of the size a header tells, so that the bytes on the wire have
to be known to be bytes, and so have those in every buffer, the sender's and the
application's included. `WireInv` says so; that nothing reads the application's buffer (`Unread`), so that
`Contents` is all that was written; and that a chunk's length is a natural number. There is
a lemma for each method of `StaticBuffer`; the differences of `size_t` only make what fits smaller, since
a smaller number is never larger modulo `SizeT`. Two facts of arithmetic are
not built into the provers: a power of two is positive, as the number of subsets of a set (`PowerOfTwo`),
and the number that some bytes make is natural (`NtohlType`), for which the fold in
`Ntohl` is shown to exist and to have natural values by a least counterexample. `WireAssumption` says that
a chunk's buffer is larger than its header and its size a `size_t`; otherwise `Pieces` would divide by
zero, as `BlockWrite` would go round without end. It does not say that the header's four bytes
fit into `HEADERLENGTH`, nor that a message fits: the positions stay in order without.

**Connection_proof, ChunkWire** (`FieldsAreCarried`). That the handler reads what the
application wrote, `WireFits => (WireSpec => CarriesFields)`, has a premise on the constants.
`WireFits` says that a message fits the numbers that describe it, which the code does not check
(findings 1 and 2): the header's four bytes into `HEADERLENGTH`; the bytes of a
message into a length of two bytes, so below 64 KiB; its chunks into a number of one byte, so at
most 255; a channel into one byte; a field's value into its type; the sizes of buffers into a `size_t`;
and that a field has bytes: of a block without any, the receiver has a header, and takes the next
message's chunk for the block's next one. A number that does not fit is cut by the code, and the
receiver reads another one. The run's constants satisfy `WireFits`, and so do the code's
(bytes of 8 bits, a header of 4 bytes) for an application that sends at most 65,535 bytes at
a time.

The inductive invariant `Carrying` speaks of `AllBytes(sent)`, the bytes of all chunks of all
messages sent, one after the other. With `p` the number of those already received, the wire and the unsent
parts of the sender's buffers are, joined, the bytes after the first `p` (`PipeAt`). The receiver
is at a place that fits `p` (`ReceiverAt`): in the header of a message's first chunk
(`AtMessage`) or of a later one (`AtChunk`), or `o` bytes into the payload of a chunk (`InStream`, `InBlock`);
its header buffer has that chunk's header so far, the event's buffer the message's
bytes up to there, `blockChunkLength` what is left of the chunk and `nowChunkNum` the chunks left. The
event pool has the messages after the delivered ones, whole, and the application's buffer the bytes
of the fields written since the last one. A `send()` moves bytes from a buffer to the wire and
changes nothing of this (`PipeWritten`); a `recv()` of `k` bytes moves `p` by `k`, and the lemmas
`HeaderCarries`, `StreamCarries` and `BlockCarries` find the receiver at the new place. A
message's last byte completes it and nothing else does (`MessageEnds`), so that `Handle` is the
`Deliver` of `MessageChannel`.

Below it are lemmas about the data. Bytes: `NtohlOfHtonl`, that the number made of the bytes of a
number is that number modulo what they can hold, by a least counterexample over the fold, and with it
that each signed and unsigned type is read as it was written. Fields: `ReadFieldsIs`, that from
a buffer with the bytes of some fields the reader gets these fields. Chunks: `MessageChunks`, that the chunks
of a message carry its bytes in order, each with a header that tells its length, channel
and place; and `ChunkIsAt`, where each is found among all the bytes.
That `Carrying` is an invariant was checked by TLC on a small instance (7,460 states, messages of up
to three fields) before it was proved.

**Connection_proof, Streams** (`StreamsGiveBack`). The premise is that the buffer's size fits the four
bytes `save` writes of a length: the code writes `htonl` of it into eight (`SizeBytes`). That
the buffer keeps its size is an invariant (`NoteSizeInv`). The rest is about rows: one that is put
before another is the first part of both (`RowSplits`), so that a row saved with its length in
front is read and what follows it is left (`SavedRow`), twice for data (`SavedData`); of the
growing buffers `PushedIsPopped` says the same. A key is a string afterwards, up to its first NUL,
and still the next piece is found.

**Connection_proof, Counters** (`CountsGoUp`). No premise: rows of any length, bytes of any
number of bits. The loops of `bin_inc` and `bin2ull` are folds; a fold over any row
exists and takes a step for each element (`FoldExists`, `FoldOfFirst`: a least counterexample again), and
what it does in a step is an argument (`FoldStep`). For `bin_inc` the invariant over its rounds is that
the number of the row, and the weight of the byte that the carry enters next if there is
one, make the old number and the one that is added (`CarryIs` for a round, `IncAdds`); so what is lost in front is a
whole row (`Wraps`). The number of a row is known by its first parts (`Numbers`: Horner's
rule): the first byte that differs decides (`LowerByteFirst`, `IdsAreCompared`), a
byte that changes counts what it weighs (`NumberExcept`), and the first bytes are the quotient by what the others weigh
(`FirstBytes`), which is what `bin2ull` has read before the last shift (`BitsAreRead`).

**Connection_proof, ConnectionLife** (`TypeCorrect`, `SocketsAreKept`, `ConnectedByItsOwn`,
`AddressIsHeld`). The inductive invariant `IInv` is `TypeOK /\ NoSocketLeak /\
AttemptInv /\ HandedOutInv /\ CloseInv`. `AttemptInv` says what `nb` looks like during
an attempt (a held list; a descriptor, if there is one, of an own socket) and at
each `pc`; with `NoSocketLeak`, a new socket is then the only one of the
connection, and closing it leaves none. `HandedOutInv` says that a Connection is
connected only with the descriptor of a connected `NonBlockConnect`, that this is
an established socket until the loss, and that after it the connection has no
socket at all, so that a number handed out again can only be another's.
`CloseInv` covers the two places where the manager closes what it was told:
after an established connection, or when `NonBlockConnect` has given its own
socket back, so that a stale number never hits a socket of an attempt. The proof
holds on both platforms and for any number of descriptors and addresses; the
rest of the process is any sequence of `OtherOpens` and `OtherCloses`.

**Connector_proof** (`TypeCorrect`, `EachWatchedOnce`, `RequestsAreKept`,
`EventsKeepOrder`, `EventsHaveOneOwner`). Besides its assumptions on the constants,
`NULL` is not an event. The inductive invariant `IInv` adds to the five properties:
`IndexInv`, that what `poll()` reported and was not served yet lies ahead of the
manager's index (without it, `StartRun` might run what is not an interface), and
belongs to connections that are open or under way; `TryingInv`, that no accepted one is
under way; `ListInv`, that `initialConnectionList` has the acceptor and requests only, in
the order in which they were made, and that the first of the list is in `slow` whenever the
iterator has left it, so that what is erased further on was asked for later than it;
`EventInv`, that no event is
ahead of what was received, so that a new one is the last of its connection; and
`HeldInv`, that what a thread holds is in `taken`, from which `OwnedOnce` follows,
because no two events of `taken \o eventList` are equal. The proof has one lemma per
action that changes the part of the state in question and one, `PoolUntouched`, for
all that leave the pool alone.

**UPnP_proof** (`TypeCorrect`, `ListenersGoAway`, `MappingsGoAway`, `OpenIsMapped`,
`OthersKeepTheirs`). The inductive invariant relates each place in the call to what
the client holds there: a listening socket exactly from `Listen` on, a mapping only
between the gateway's yes and the deletion, and that mapping leads to the client's
host and port. The first three theorems hold for clients that share hosts as well;
the last two have the assumption `OneClientPerHost`, which says that no two clients
are on one host.

**EventManager_proof** (`TypeCorrect`, `EventsComeInOrder`, `NoWakeUpIsLost`).
`TakenOnceInOrder` is inductive beside the types. For `SleeperIsCalled` the
invariant adds that a thread outside `crowded` is alone: if another waits, or is
about to reset, no third one is in a timed wait, so that the only resets it can
meet are its own and that of a `pop` that left the list empty.

**RoutingTable_proof** (`Invariance`, `TypeCorrect`, `ElementsAreOfOneType`,
`QueriesAreAnsweredRight`, `PeersAreSpared`). The inductive invariant `IInv` has, beside the types and
the two properties: `CallsInPlace`, that a thread is only at places of its operation;
`HoldsMutexes`, that who stores holds both of the element's mutexes, without which two threads could
store data and peers at once; `QueriesWouldFind`, that a query that was never in `missing`
would find its key now, so that a thread that deletes it must enter the query there; and
`PeersCameSince`, that peers a set meets after its look at the type are ones
that came since (`raced`). Every place of the code that looks at a pointer without the mutex is
a step of its own here, and the proof says what each of them may conclude. `Min` of
`getElement`'s digits exists by well-foundedness of the naturals, for ids of any length.

**Tools_proof, SendBuffer** (`TypeCorrect`, `CopiesStayInBlock`, `ReadsStayInside`,
both together, `BuffersAreKept`; `MessageIsSent`, `WhatIsWrittenIsRead`). The invariant of the writer, `SizesAgree`, says that a buffer that exists has `bufSiz` bytes,
that `siz` is `pp` between two fields and `pp` and the piece's length when the
size is checked; the first part survives a failed `realloc` only because the next
call resets `bufSiz`. That of the reader, `ReaderCounts`, says that what it passed and
what it counts as left make up the buffer, unless there is a field of fixed size.
What is copied and what is left of the field under way are the bytes of the first `d` fields
of the message, for some `d` after which `fields` go on (`WritesMessage`); when all are
written, that is the message. From a part of the message, the reader that has found
the first `d` fields has passed just their bytes, and what is there of the next one are that field's
first bytes (`ReadsMessage`); what comes instead of a message is left out. Three facts about a
message of any length are needed and proved by a least counterexample, which the naturals have
because they are well-founded (`LeastNumber`): the function that `FlattenSeq` defines by recursion
exists and is unique, one row more appends this row (`FlattenAppend`), and the bytes of the first
fields begin those of the message (`FirstBytes`). `WhatIsWrittenIsRead` has the hypothesis
`LengthsFit`: the length of a string or of data is sent in 32 bits, and a longer one is cut
by the code, so that the reader would take another length. The messages of the run satisfy it.

**Tools_proof, Datagram** (`BothEndsAgree`, `NoSocketStaysOpen`). The inductive invariant
`DgramInv` has, beside the two properties: `PlacesFit`, the types and which variable holds a
socket at which place; `HeldOnce`, that no socket is held twice; and
`AnswersFit`: whatever is on its way to a port is from a socket that was
accepted for this port and is still connected to it. A SYN goes to an address
that is not a port, so that nothing else is ever sent to one; hence a late ACK, or one that comes twice, is
as good as the first, also where the port has a new socket by then.

**Only model-checked.** Of the run `bytes`, `HashIsOfMessage` and `RoundsAgree` (they use
`Bitwise`, which no module with a theorem may reach) and `TextIsRead`. **Out of the prover's reach**, and left to TLC: the liveness
properties `FullySentIsDelivered`, `ArmedChunkIsSent`, `QuietWritesAreSent`,
`ListenerIsReached`, `IsServed`, `PatientGetsUp`, `EveryCallEnds` and the two `CallsReturn`; and what the
folds of the hash and the recursion of the text compute for inputs of any length.

## 7. What is not modelled

* Watchers of descriptors that change. When an interface comes back with another
  descriptor, `UpdateSelectStatus` deletes the watcher of the new one
  (`CC/ConnectionManager.cpp:154`), and `realloc` may move the array while `poll()` is working
  on it (line 104). What a reader of moved memory sees is undefined, and finding 5
  keeps descriptors from changing after a loss; nothing true is left to be stated.
* `PastryLike::join`, `plSendQueue::process` and `RoutingTable::setPeer`, which are empty or
  disabled. As `PastryLike`'s routing table is never made at this commit, `RoutingTable`
  assumes one.
* `Distance`, which nothing calls, and the destructors of the table
  and of `plEventManager`. The constructor of `StaticBuffer` that takes a block over, which nothing calls and
  which leaves the size uninitialised (`CC/StaticBuffer.cpp:77`).
* What a reconnect would do to half sent and half received chunks (`Disconnect`
  leaves them as they are): finding 5 keeps it from happening.
* Abstracted within the modelled parts: allocations that
  fail (of the error exits of the header part only `RefuseBlockHeader`, the size
  limit, is kept); the end of the file, which `ReadFromSocket` on POSIX does not
  tell from "nothing yet" (`CC/StaticBuffer.cpp:149`: `errno` was set to 0), so
  that it changes no state; logging and handlers.
* `rnd0` and the cache of `tools`, creating and ending threads, the text of the UPnP
  requests; output for debugging.
* Bonjour and Skype, which are empty; DLL entry points, the test program (which tells how the
  library is used) and build files; assembler and big-endian variants of the hash.
