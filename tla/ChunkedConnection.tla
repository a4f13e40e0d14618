-------------------------- MODULE ChunkedConnection --------------------------
(***************************************************************************)
(* The data plane of one direction of a ChunkedConnection: the application *)
(* writes blocks and streams, the sending side cuts them into chunks (a    *)
(* header of HEADERLENGTH bytes and a payload), the socket carries the     *)
(* bytes in fragments of any size, and the receiving side's RunRead puts   *)
(* the messages together again and hands them to the event pool.           *)
(*                                                                         *)
(* A chunk on its way is a record instead of a row of bytes; readPos and   *)
(* inPos say how many of its bytes were sent and received.  A receiver     *)
(* that takes payload bytes for a header has lost the framing: what it     *)
(* reads from then on is arbitrary, and the model only records it          *)
(* (desync) and stops reading.                                             *)
(*                                                                         *)
(* One thread issues the block calls and commits; another may issue        *)
(* StreamWrite at any time, so a stream chunk can land between two chunks  *)
(* of a block.  When the WRITE interest is armed is the subject of module  *)
(* WriteInterest: here the sender may always send.                         *)
(***************************************************************************)
EXTENDS Naturals, Sequences

CONSTANTS
  Byte,             \* payload bytes
  Channels,         \* channel numbers the application uses, each of one byte
  NULL,             \* no channel
  BlockData,        \* what one BlockWrite may be given
  StreamData,       \* what one StreamWrite may be given
  Capacity,         \* payload bytes of a block chunk: chunkSize - HEADERLENGTH
  HEADERLENGTH,     \* COOKAI_CHUNKEDCONNECTION_HEADERLENGTH
  MAX_DATALENGTH,   \* COOKAI_CHUNKEDCONNECTION_MAX_DATALENGTH
  UInt8, UInt16,    \* how many values a uint8_t and a uint16_t have
  MaxBlockBytes,    \* bound: bytes the application gathers before a commit
  MaxSent,          \* bound: messages the application sends
  MayReset          \* bound: whether the network may reset the connection

ASSUME ConstantsAssumption ==
  /\ NULL \notin Channels
  /\ BlockData \subseteq Seq(Byte) /\ StreamData \subseteq Seq(Byte)
  /\ Capacity \in Nat \ {0} /\ HEADERLENGTH \in Nat \ {0}
  /\ UInt8 \in Nat \ {0} /\ UInt16 \in Nat \ {0}
  /\ MAX_DATALENGTH \in Nat /\ MaxBlockBytes \in Nat /\ MaxSent \in Nat
  /\ MayReset \in BOOLEAN

\* A channel fits its byte of the header.
ASSUME ChannelsAssumption == Channels \subseteq 0 .. UInt8 - 1

VARIABLES
  channelWriteQueue,  \* the map from channel to its queue of unsent buffers
  blockRefused,       \* channels on which a block call has returned false
  commit,             \* the BlockCommit under way
  writeBufferList,    \* chunks not wholly sent
  readPos,            \* bytes of the first of them already sent
  sndStatus,          \* status of the sending Connection
  wire,               \* chunks wholly sent and not wholly received
  inPos,              \* bytes of the first undelivered chunk received
  link,               \* FALSE once the network has reset the connection
  rcvStatus,          \* status of the receiving Connection
  hdrPos,             \* bytes gathered in readHeaderBuffer
  streamEvent,        \* the stream message being received, or NoEvent
  blockEvent,         \* the block being received, or NoEvent
  blockChunkLength,   \* payload bytes of the block's chunk still to come
  nowChunkNum,        \* nextChunkNum of the last block header read
  desync,             \* the receiver has taken payload for a header
  sent,               \* history: messages whose last chunk was queued
  delivered           \* messages handed to the receiver's event pool

sndVars == <<channelWriteQueue, blockRefused, commit>>
netVars == <<wire, inPos, link>>
rcvVars == <<hdrPos, streamEvent, blockEvent, blockChunkLength, nowChunkNum>>
vars == <<channelWriteQueue, blockRefused, commit, writeBufferList, readPos,
          sndStatus, wire, inPos, link, rcvStatus, hdrPos, streamEvent,
          blockEvent, blockChunkLength, nowChunkNum, desync, sent, delivered>>

Lesser(m, n) == IF m <= n THEN m ELSE n

\* bufs buffers, every one but the last full, hold n bytes; a queue that was
\* written to has a buffer even when it holds no byte.
Fill(bufs, n) == /\ bufs >= 1
                 /\ n <= bufs * Capacity
                 /\ bufs > 1 => (bufs - 1) * Capacity < n

Event(channel, size) == [channel |-> channel, size |-> size, data |-> <<>>]
NoEvent == Event(NULL, 0)

NoCommit == [channel |-> NULL, num |-> 0, block |-> <<>>, part |-> <<>>]

BlockMessage(channel, data) ==
  [type |-> "EVENT_RECIVE_BLOCK", channel |-> channel, data |-> data]
StreamMessage(channel, data) ==
  [type |-> "EVENT_RECIVE_STREAM", channel |-> channel, data |-> data]

Message == [type : {"EVENT_RECIVE_BLOCK", "EVENT_RECIVE_STREAM"},
            channel : Channels, data : Seq(Byte)]

Init ==
  /\ channelWriteQueue = [c \in {} |-> 0]
  /\ blockRefused = {}
  /\ commit = NoCommit
  /\ writeBufferList = <<>> /\ readPos = 0
  /\ sndStatus = "STATUS_CONNECTED" /\ rcvStatus = "STATUS_CONNECTED"
  /\ wire = <<>> /\ inPos = 0 /\ link = TRUE
  /\ hdrPos = 0
  /\ streamEvent = NoEvent /\ blockEvent = NoEvent
  /\ blockChunkLength = 0 /\ nowChunkNum = 0
  /\ desync = FALSE
  /\ sent = <<>> /\ delivered = <<>>

-----------------------------------------------------------------------------
(* The sending application. *)

\* GetWriteQueue creates a queue only when the map is empty; otherwise it
\* indexes the map, which yields NULL for a channel that has none.
HasWriteQueue(c) ==
  \/ DOMAIN channelWriteQueue = {}
  \/ c \in DOMAIN channelWriteQueue

GetWriteQueue(c) == IF c \in DOMAIN channelWriteQueue
                    THEN channelWriteQueue[c]
                    ELSE [bufs |-> 0, data |-> <<>>]

SetWriteQueue(c, q) ==
  channelWriteQueue' =
    [d \in DOMAIN channelWriteQueue \cup {c} |->
       IF d = c THEN q ELSE channelWriteQueue[d]]

BlockRefused(c) ==
  /\ commit = NoCommit
  /\ ~HasWriteQueue(c)
  /\ blockRefused' = blockRefused \cup {c}
  /\ UNCHANGED <<channelWriteQueue, commit, writeBufferList, readPos, sndStatus,
                 rcvStatus, desync, sent, delivered, netVars, rcvVars>>

BlockWrite(c, d) ==
  LET data == GetWriteQueue(c).data \o d
  IN  /\ commit = NoCommit
      /\ HasWriteQueue(c)
      /\ Len(data) <= MaxBlockBytes /\ Len(sent) < MaxSent
      /\ \E n \in 1 .. MaxBlockBytes + 1 :
           /\ Fill(n, Len(data))
           /\ SetWriteQueue(c, [bufs |-> n, data |-> data])
      /\ UNCHANGED <<blockRefused, commit, writeBufferList, readPos, sndStatus,
                     rcvStatus, desync, sent, delivered, netVars, rcvVars>>

\* An empty queue has nothing to commit.  Otherwise num is the number of
\* buffers, which the loop of BlockCommit counts down.
BlockCommit(c) ==
  LET q == GetWriteQueue(c)
  IN  /\ commit = NoCommit
      /\ HasWriteQueue(c)
      /\ Len(sent) < MaxSent
      /\ SetWriteQueue(c, q)
      /\ commit' = IF q.bufs = 0 THEN NoCommit
                   ELSE [channel |-> c, num |-> q.bufs,
                         block |-> q.data, part |-> <<>>]
      /\ UNCHANGED <<blockRefused, writeBufferList, readPos, sndStatus,
                     rcvStatus, desync, sent, delivered, netVars, rcvVars>>

\* Auxiliary: how far the message stream has come when a chunk is queued: the
\* message that is completed next, and of a block under way its channel, the
\* number of its chunks still to come and the payload already queued.
Stamp(msg, channel, left, part) ==
  [msg |-> msg, channel |-> channel, left |-> left, part |-> part]

SenderStamp ==
  IF commit.part = <<>> THEN Stamp(Len(sent) + 1, NULL, 0, <<>>)
  ELSE Stamp(Len(sent) + 1, commit.channel, commit.num, commit.part)

\* WriteHeader, then Connection::NonBlockWrite.  The header's fields have the
\* width of their types, which a channel fits (ChannelsAssumption); at is
\* auxiliary and no guard reads it.
Chunk(num, c, body) ==
  [num |-> num % UInt8, channel |-> c, length |-> Len(body) % UInt16,
   body |-> body, at |-> SenderStamp]

NonBlockWrite(chunk) == writeBufferList' = Append(writeBufferList, chunk)

\* One iteration of the loop of BlockCommit.
CommitChunk ==
  LET c == commit.channel
      q == channelWriteQueue[c]
      n == Lesser(Capacity, Len(q.data))
      body == SubSeq(q.data, 1, n)
  IN  /\ commit # NoCommit
      /\ NonBlockWrite(Chunk(commit.num, c, body))
      /\ SetWriteQueue(c, [bufs |-> q.bufs - 1,
                           data |-> SubSeq(q.data, n + 1, Len(q.data))])
      /\ IF q.bufs = 1
         THEN /\ commit' = NoCommit
              /\ sent' = Append(sent, BlockMessage(c, commit.block))
         ELSE /\ commit' = [commit EXCEPT !.num = @ - 1, !.part = @ \o body]
              /\ UNCHANGED sent
      /\ UNCHANGED <<blockRefused, readPos, sndStatus, rcvStatus, desync,
                     delivered, netVars, rcvVars>>

StreamWrite(c, d) ==
  /\ Len(d) > 0
  /\ Len(sent) < MaxSent
  /\ NonBlockWrite(Chunk(0, c, d))
  /\ sent' = Append(sent, StreamMessage(c, d))
  /\ UNCHANGED <<sndVars, readPos, sndStatus, rcvStatus, desync, delivered,
                 netVars, rcvVars>>

Application ==
  \/ \E c \in Channels : \/ BlockRefused(c)
                         \/ \E d \in BlockData : BlockWrite(c, d)
                         \/ BlockCommit(c)
                         \/ \E d \in StreamData : StreamWrite(c, d)
  \/ CommitChunk

-----------------------------------------------------------------------------
(* The sending Connection and the network. *)

ChunkBytes(chunk) == HEADERLENGTH + Len(chunk.body)

\* One send() of RunWrite takes k bytes of the first buffer; the buffer is
\* popped when it is complete.
RunWrite(k) ==
  /\ sndStatus = "STATUS_CONNECTED" /\ link
  /\ writeBufferList # <<>>
  /\ readPos + k <= ChunkBytes(Head(writeBufferList))
  /\ IF readPos + k = ChunkBytes(Head(writeBufferList))
     THEN /\ wire' = Append(wire, Head(writeBufferList))
          /\ writeBufferList' = Tail(writeBufferList)
          /\ readPos' = 0
     ELSE /\ readPos' = readPos + k
          /\ UNCHANGED <<wire, writeBufferList>>
  /\ UNCHANGED <<sndVars, sndStatus, inPos, link, rcvStatus, desync, sent,
                 delivered, rcvVars>>

\* send() fails: Disconnect().  The write list is kept as it is.
RunWriteError ==
  /\ sndStatus = "STATUS_CONNECTED" /\ ~link
  /\ writeBufferList # <<>>
  /\ sndStatus' = "STATUS_DISCONNECTED"
  /\ UNCHANGED <<sndVars, writeBufferList, readPos, rcvStatus, desync, sent,
                 delivered, netVars, rcvVars>>

NetworkReset ==
  /\ MayReset
  /\ link
  /\ link' = FALSE
  /\ UNCHANGED <<sndVars, writeBufferList, readPos, sndStatus, wire, inPos,
                 rcvStatus, desync, sent, delivered, rcvVars>>

-----------------------------------------------------------------------------
(* The receiving Connection.  RunRead returns whenever a recv() brings less *)
(* than was asked for, and finds its place again from streamEvent,          *)
(* blockEvent and blockChunkLength: one action per recv().                  *)

Pipe == wire \o writeBufferList
Current == Head(Pipe)

\* Bytes of the current chunk that were sent and not yet received.
Available == IF wire # <<>> THEN ChunkBytes(Current) - inPos
             ELSE readPos - inPos

\* recv() takes k bytes, and what they are when they are payload.
Consume(k) ==
  IF inPos + k = ChunkBytes(Current) THEN /\ wire' = Tail(wire)
                                          /\ inPos' = 0
  ELSE /\ inPos' = inPos + k
       /\ UNCHANGED wire

Payload(k) == LET from == inPos - HEADERLENGTH
              IN  SubSeq(Current.body, from + 1, from + k)

Reading == rcvStatus = "STATUS_CONNECTED" /\ ~desync
InStreamPart == streamEvent # NoEvent
InBlockPart == /\ streamEvent = NoEvent
               /\ blockEvent # NoEvent
               /\ blockChunkLength > 0
InHeaderPart == ~InStreamPart /\ ~InBlockPart

RunReadFrame == UNCHANGED <<sndVars, writeBufferList, readPos, sndStatus, sent>>

DeliverStream(data) ==
  /\ delivered' = Append(delivered, StreamMessage(streamEvent.channel, data))
  /\ streamEvent' = NoEvent

\* Run_StreamReadPart.  ReadFromSocket returns 0 without reading when the
\* buffer is already full.
StreamReadFull ==
  /\ Reading /\ InStreamPart
  /\ Len(streamEvent.data) >= streamEvent.size
  /\ DeliverStream(streamEvent.data)
  /\ UNCHANGED <<rcvStatus, desync, netVars, hdrPos, blockEvent,
                 blockChunkLength, nowChunkNum>>
  /\ RunReadFrame

StreamReadPart(k) ==
  LET data == streamEvent.data \o Payload(k)
  IN  /\ Reading /\ InStreamPart /\ link
      /\ k <= streamEvent.size - Len(streamEvent.data)
      /\ k <= Available
      /\ Consume(k)
      /\ IF Len(data) = streamEvent.size
         THEN DeliverStream(data)
         ELSE /\ streamEvent' = [streamEvent EXCEPT !.data = data]
              /\ UNCHANGED delivered
      /\ UNCHANGED <<rcvStatus, desync, link, hdrPos, blockEvent,
                     blockChunkLength, nowChunkNum>>
      /\ RunReadFrame

\* Mutants: the last chunk is taken to be number 2, the last chunk is taken to
\* be number 0.
LastChunkIsTwo(data) ==
  /\ blockChunkLength' = 0
  /\ IF nowChunkNum > 2
     THEN /\ blockEvent' = [blockEvent EXCEPT !.data = data]
          /\ UNCHANGED delivered
     ELSE /\ delivered' = Append(delivered,
                                 BlockMessage(blockEvent.channel, data))
          /\ blockEvent' = NoEvent

LastChunkIsZero(data) ==
  /\ blockChunkLength' = 0
  /\ IF nowChunkNum > 0
     THEN /\ blockEvent' = [blockEvent EXCEPT !.data = data]
          /\ UNCHANGED delivered
     ELSE /\ delivered' = Append(delivered,
                                 BlockMessage(blockEvent.channel, data))
          /\ blockEvent' = NoEvent

\* The chunk's payload is complete: wait for the next header, or deliver.
BlockChunkComplete(data) ==
  /\ blockChunkLength' = 0
  /\ IF nowChunkNum > 1
     THEN /\ blockEvent' = [blockEvent EXCEPT !.data = data]
          /\ UNCHANGED delivered
     ELSE /\ delivered' = Append(delivered,
                                 BlockMessage(blockEvent.channel, data))
          /\ blockEvent' = NoEvent

\* Run_BlockReadPart, with the buffer full and with room left in it; the
\* room limits what is read of the chunk, and so blockChunkLength itself.
BlockRoom == blockEvent.size - Len(blockEvent.data)

BlockReadFull ==
  /\ Reading /\ InBlockPart
  /\ BlockRoom = 0
  /\ BlockChunkComplete(blockEvent.data)
  /\ UNCHANGED <<rcvStatus, desync, netVars, hdrPos, streamEvent, nowChunkNum>>
  /\ RunReadFrame

\* Mutant: ReadFromSocket does not limit the read to the room in the buffer.
BlockReadUnlimited(k) ==
  LET data == blockEvent.data \o Payload(k)
  IN  /\ Reading /\ InBlockPart /\ link
      /\ k <= blockChunkLength
      /\ k <= Available
      /\ Consume(k)
      /\ IF k = blockChunkLength
         THEN BlockChunkComplete(data)
         ELSE /\ blockEvent' = [blockEvent EXCEPT !.data = data]
              /\ blockChunkLength' = blockChunkLength - k
              /\ UNCHANGED delivered
      /\ UNCHANGED <<rcvStatus, desync, link, hdrPos, streamEvent, nowChunkNum>>
      /\ RunReadFrame

BlockReadPart(k) ==
  LET readSize == Lesser(blockChunkLength, BlockRoom)
      data == blockEvent.data \o Payload(k)
  IN  /\ Reading /\ InBlockPart /\ link
      /\ k <= readSize
      /\ k <= Available
      /\ Consume(k)
      /\ IF k = readSize
         THEN BlockChunkComplete(data)
         ELSE /\ blockEvent' = [blockEvent EXCEPT !.data = data]
              /\ blockChunkLength' = readSize - k
              /\ UNCHANGED delivered
      /\ UNCHANGED <<rcvStatus, desync, link, hdrPos, streamEvent, nowChunkNum>>
      /\ RunReadFrame

\* What a complete header starts.
ReceiveStreamHeader(h) ==
  /\ h.num = 0
  /\ streamEvent' = Event(h.channel, h.length)
  /\ UNCHANGED <<rcvStatus, link, blockEvent, blockChunkLength, nowChunkNum>>

\* Mutants: the buffer is sized from the first chunk alone, and every chunk of
\* a block gets an event of its own.
SizeOfOneChunk(h) ==
  /\ h.num > 0
  /\ blockEvent = NoEvent => h.length * h.num <= MAX_DATALENGTH
  /\ blockEvent' = IF blockEvent # NoEvent THEN blockEvent
                   ELSE Event(h.channel, h.length)
  /\ blockChunkLength' = h.length
  /\ nowChunkNum' = h.num
  /\ UNCHANGED <<rcvStatus, link, streamEvent>>

EventPerChunk(h) ==
  /\ h.num > 0
  /\ blockEvent = NoEvent => h.length * h.num <= MAX_DATALENGTH
  /\ blockEvent' = Event(h.channel, h.length * h.num)
  /\ blockChunkLength' = h.length
  /\ nowChunkNum' = h.num
  /\ UNCHANGED <<rcvStatus, link, streamEvent>>

ReceiveBlockHeader(h) ==
  /\ h.num > 0
  /\ blockEvent = NoEvent => h.length * h.num <= MAX_DATALENGTH
  /\ blockEvent' = IF blockEvent # NoEvent THEN blockEvent
                   ELSE Event(h.channel, h.length * h.num)
  /\ blockChunkLength' = h.length
  /\ nowChunkNum' = h.num
  /\ UNCHANGED <<rcvStatus, link, streamEvent>>

\* A block that could not be held: Disconnect().
RefuseBlockHeader(h) ==
  /\ h.num > 0
  /\ blockEvent = NoEvent
  /\ h.length * h.num > MAX_DATALENGTH
  /\ rcvStatus' = "STATUS_DISCONNECTED"
  /\ link' = FALSE
  /\ UNCHANGED <<streamEvent, blockEvent, blockChunkLength, nowChunkNum>>

ReceiveHeader(h) == \/ ReceiveStreamHeader(h)
                    \/ ReceiveBlockHeader(h)
                    \/ RefuseBlockHeader(h)

\* Run_ChunkHeaderReadPart, as long as the bytes read are a header's.
ChunkHeaderReadPart(k) ==
  /\ Reading /\ InHeaderPart /\ link
  /\ k <= HEADERLENGTH - hdrPos
  /\ k <= Available
  /\ inPos = hdrPos
  /\ Consume(k)
  /\ IF hdrPos + k < HEADERLENGTH
     THEN /\ hdrPos' = hdrPos + k
          /\ UNCHANGED <<rcvStatus, link, streamEvent, blockEvent,
                         blockChunkLength, nowChunkNum>>
     ELSE /\ hdrPos' = 0
          /\ ReceiveHeader(Current)
  /\ UNCHANGED <<desync, delivered>>
  /\ RunReadFrame

\* The bytes the header is read from belong to a payload.
LoseFraming ==
  /\ Reading /\ InHeaderPart /\ link
  /\ Available > 0
  /\ inPos # hdrPos
  /\ desync' = TRUE
  /\ UNCHANGED <<rcvStatus, delivered, netVars, rcvVars>>
  /\ RunReadFrame

\* recv() fails: Run_SocketError, with the event of the part it is in deleted.
\* A buffer that is already full is handed over without a recv().
RunReadError ==
  /\ Reading /\ ~link
  /\ InStreamPart => Len(streamEvent.data) < streamEvent.size
  /\ InBlockPart => BlockRoom > 0
  /\ rcvStatus' = "STATUS_DISCONNECTED"
  /\ streamEvent' = NoEvent
  /\ blockEvent' = IF InBlockPart THEN NoEvent ELSE blockEvent
  /\ UNCHANGED <<desync, delivered, netVars, hdrPos, blockChunkLength,
                 nowChunkNum>>
  /\ RunReadFrame

MaxChunkBytes == HEADERLENGTH + UInt16

RunRead == \/ StreamReadFull
           \/ BlockReadFull
           \/ \E k \in 1 .. MaxChunkBytes : \/ StreamReadPart(k)
                                            \/ BlockReadPart(k)
                                            \/ ChunkHeaderReadPart(k)
           \/ LoseFraming
           \/ RunReadError

Next == \/ Application
        \/ \E k \in 1 .. MaxChunkBytes : RunWrite(k)
        \/ RunWriteError
        \/ NetworkReset
        \/ RunRead

Spec == Init /\ [][Next]_vars

\* The manager thread polls a connected socket for input at all times, and
\* poll() reports input for as long as there is some.
FairSpec == Spec /\ WF_vars(RunRead)

-----------------------------------------------------------------------------
(* Properties. *)

ChunkRecord == [num : 0 .. UInt8 - 1, channel : Channels, length : 0 .. UInt16 - 1,
                body : Seq(Byte),
                at : [msg : Nat \ {0}, channel : Channels \cup {NULL},
                      left : Nat, part : Seq(Byte)]]

\* A header never announces more payload than follows it.
ChunkType == {c \in ChunkRecord : c.length <= Len(c.body)}

EventType == {NoEvent} \cup [channel : Channels, size : Nat, data : Seq(Byte)]

Status == {"STATUS_CONNECTED", "STATUS_DISCONNECTED"}

\* Every variable has its type; a commit under way has a queue of as many
\* buffers as its num says, and the first buffer is not wholly sent.
TypeOK ==
  /\ DOMAIN channelWriteQueue \subseteq Channels
  /\ channelWriteQueue \in [DOMAIN channelWriteQueue -> [bufs : Nat, data : Seq(Byte)]]
  /\ blockRefused \subseteq Channels
  /\ commit \in [channel : Channels \cup {NULL}, num : Nat, block : Seq(Byte),
                 part : Seq(Byte)]
  /\ commit # NoCommit => /\ commit.channel \in DOMAIN channelWriteQueue
                          /\ commit.num = channelWriteQueue[commit.channel].bufs
                          /\ commit.num > 0
  /\ writeBufferList \in Seq(ChunkType) /\ readPos \in Nat
  /\ sndStatus \in Status /\ rcvStatus \in Status
  /\ wire \in Seq(ChunkType) /\ inPos \in Nat /\ link \in BOOLEAN
  /\ hdrPos \in 0 .. HEADERLENGTH - 1
  /\ streamEvent \in EventType /\ blockEvent \in EventType
  /\ blockChunkLength \in 0 .. UInt16 - 1 /\ nowChunkNum \in 0 .. UInt8 - 1
  /\ desync \in BOOLEAN
  /\ sent \in Seq(Message) /\ delivered \in Seq(Message)

\* The two cursors: readPos lies within the first unsent chunk, inPos within
\* the first chunk not wholly received, and no byte is received before it is
\* sent.
Remaining == ChunkBytes(Current) - inPos

SendPosition ==
  IF writeBufferList = <<>> THEN readPos = 0
  ELSE readPos < ChunkBytes(Head(writeBufferList))

ReceivePosition ==
  IF Pipe = <<>> THEN inPos = 0
  ELSE inPos < ChunkBytes(Current) /\ (wire = <<>> => inPos <= readPos)

\* Whatever the application sends: what RunRead still wants for a stream or a
\* block chunk is payload of the chunk whose header announced it, so that a
\* recv() for payload never reaches into the next chunk.
StreamReadsOwnChunk ==
  Reading /\ streamEvent # NoEvent =>
    LET wanted == streamEvent.size - Len(streamEvent.data)
    IN  /\ blockChunkLength = 0
        /\ wanted >= 0
        /\ wanted > 0 => /\ Pipe # <<>>
                         /\ inPos >= HEADERLENGTH
                         /\ wanted <= Remaining

BlockReadsOwnChunk ==
  Reading =>
    /\ blockEvent = NoEvent => blockChunkLength = 0
    /\ blockEvent # NoEvent => BlockRoom >= 0
    /\ blockChunkLength > 0 => /\ Pipe # <<>>
                               /\ inPos >= HEADERLENGTH
                               /\ blockChunkLength <= Remaining

ReadsStayInChunk == /\ SendPosition /\ ReceivePosition
                    /\ StreamReadsOwnChunk /\ BlockReadsOwnChunk

\* A message whose lengths the header's fields can carry: a payload, no chunk
\* of UInt16 bytes, no block of UInt8 chunks.  BlockWrite, BlockCommit and
\* StreamWrite accept others as well.
Fits(m) ==
  /\ Len(m.data) > 0
  /\ IF m.type = "EVENT_RECIVE_BLOCK"
     THEN Capacity < UInt16 /\ Len(m.data) <= (UInt8 - 1) * Capacity
     ELSE Len(m.data) < UInt16

\* The application has so far queued only messages that fit.
AllFit ==
  /\ \A i \in 1 .. Len(sent) : Fits(sent[i])
  /\ commit # NoCommit => Fits(BlockMessage(commit.channel, commit.block))

\* As long as all messages fit, the receiver never takes a byte of a payload
\* for a byte of a header (Connection::RunRead keeps no other mark of where a
\* chunk begins).
InSync == AllFit => ~desync

\* As long as all messages fit, what the event pool was handed is a prefix of
\* what was sent: no message is lost, repeated, altered, reordered or mixed
\* with another, however the socket splits the bytes and wherever a stream
\* chunk lands within a block (RunRead's streamEvent, blockEvent,
\* blockChunkLength and nowChunkNum).
DeliveredInOrder ==
  AllFit => /\ Len(delivered) <= Len(sent)
            /\ \A i \in 1 .. Len(delivered) : delivered[i] = sent[i]

\* CHUNKED_CONNECTION_MAX_CHANNEL promises 256 channels: a block call must not
\* be refused for its channel.
NoChannelRefused == blockRefused = {}

\* COOKAI_CHUNKEDCONNECTION_MAX_DATALENGTH promises blocks of up to 256 chunks:
\* if every message has a payload, blocks are no longer than that and streams
\* fit their header, what is delivered is a prefix of what was sent.
WithinMaxDataLength(m) ==
  /\ Len(m.data) > 0
  /\ IF m.type = "EVENT_RECIVE_BLOCK" THEN Len(m.data) <= MAX_DATALENGTH
     ELSE Len(m.data) < UInt16

MaxDataLengthIsDelivered ==
  (/\ \A i \in 1 .. Len(sent) : WithinMaxDataLength(sent[i])
   /\ commit # NoCommit =>
        WithinMaxDataLength(BlockMessage(commit.channel, commit.block)))
  => /\ Len(delivered) <= Len(sent)
     /\ \A i \in 1 .. Len(delivered) : delivered[i] = sent[i]

\* The data plane implements the channel its users are promised.
Channel == INSTANCE MessageChannel
ImplementsChannel == Channel!Spec

\* The chunks of the first n messages have left the sender.
FullySent(n) ==
  /\ Len(sent) >= n
  /\ \A i \in 1 .. Len(writeBufferList) : writeBufferList[i].at.msg > n

\* A message whose bytes are all in the network is handed to the event pool,
\* unless the connection breaks: RunRead never waits for input that the
\* sender has no reason to send.
FullySentIsDelivered ==
  \A n \in 1 .. MaxSent :
    FullySent(n) ~> (Len(delivered) >= n \/ ~link)
=============================================================================
