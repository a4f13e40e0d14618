------------------------------- MODULE ChunkWire -------------------------------
(***************************************************************************)
(* The bytes of a message's journey: an application puts the fields of a   *)
(* message into a StaticBuffer (note) and gives its contents to            *)
(* StreamWrite, or to BlockWrite and BlockCommit; the chunks made of them  *)
(* go through a socket in pieces; the receiver gathers headers and         *)
(* payloads in StaticBuffers; the handler of the event reads the fields    *)
(* out of the one it is given.  Module ChunkedConnection has the same      *)
(* journey with chunks as records, and with all that can come between:     *)
(* here every header and payload is a row of bytes, and what is to be      *)
(* shown is that both sides agree on what the bytes mean.                  *)
(***************************************************************************)
EXTENDS StaticBuffer

CONSTANTS
  Fields,           \* what an application puts into messages: a type, a value
  Channels,         \* channel numbers it uses
  HEADERLENGTH,     \* COOKAI_CHUNKEDCONNECTION_HEADERLENGTH
  MAX_DATALENGTH,   \* COOKAI_CHUNKEDCONNECTION_MAX_DATALENGTH
  ChunkSize,        \* chunkSize
  NoteSize,         \* size of the application's buffer
  MaxFields         \* bound: fields in all messages together

ASSUME WireAssumption ==
  /\ HEADERLENGTH \in Nat /\ NoteSize \in Nat
  /\ ChunkSize \in Nat /\ HEADERLENGTH < ChunkSize /\ ChunkSize < SizeT
  /\ Channels \subseteq Nat
  /\ \A f \in Fields :
       \/ f \in [type : {"uint8", "uint16", "uint32", "int8", "int16", "int32"}, value : Int]
       \/ f \in [type : {"data"}, value : Seq(Byte)]

VARIABLES
  note,             \* the application's StaticBuffer
  fields,           \* the fields written to it
  writeBufferList,  \* the sender's buffers not wholly sent
  wire,             \* the bytes in the network
  readHeaderBuffer, \* the receiver's
  streamEvent,      \* the stream event being filled, or NoEvent
  blockEvent,       \* the block event being filled, or NoEvent
  blockChunkLength, \* bytes of the block's chunk still to come
  nowChunkNum,      \* nextChunkNum of the last block header
  eventPool,        \* events not handled yet
  sent, delivered   \* histories of messages

appVars == <<note, fields, sent>>
rcvVars == <<readHeaderBuffer, streamEvent, blockEvent, blockChunkLength, nowChunkNum>>
wireVars == <<appVars, writeBufferList, wire, rcvVars, eventPool, delivered>>

Event(type, channel, b) == [type |-> type, channel |-> channel, b |-> b]
NoEvent == Event("EVENT_NOTHING", 0, New(0))

Message == [type : {"EVENT_RECIVE_BLOCK", "EVENT_RECIVE_STREAM"},
            channel : Channels, fields : Seq(Fields)]

WireInit ==
  /\ note = New(NoteSize) /\ fields = <<>>
  /\ writeBufferList = <<>> /\ wire = <<>>
  /\ readHeaderBuffer = New(HEADERLENGTH)
  /\ streamEvent = NoEvent /\ blockEvent = NoEvent
  /\ blockChunkLength = 0 /\ nowChunkNum = 0
  /\ eventPool = <<>>
  /\ sent = <<>> /\ delivered = <<>>

-----------------------------------------------------------------------------
(* The sender. *)

\* The method of StaticBuffer for a type of field.
Put(b, f) ==
  CASE f.type = "uint8"  -> WriteUint8(b, f.value)
    [] f.type = "uint16" -> WriteUint16(b, f.value)
    [] f.type = "uint32" -> WriteUint32(b, f.value)
    [] f.type = "int8"   -> WriteInt8(b, f.value)
    [] f.type = "int16"  -> WriteInt16(b, f.value)
    [] f.type = "int32"  -> WriteInt32(b, f.value)
    [] f.type = "data"   -> Write(b, f.value)

WriteField(f) ==
  LET r == Put(note, f)
  IN  /\ FoldLeft(LAMBDA n, m : n + Len(m.fields), Len(fields), sent) < MaxFields
      /\ r.ret
      /\ note' = r.b
      /\ fields' = Append(fields, f)
      /\ UNCHANGED <<sent, writeBufferList, wire, rcvVars, eventPool, delivered>>

\* Mutant: the write position is left after the header.
HeaderAtFront(b, nextChunkNum, channel, length) ==
  LET b1 == WriteUint8(WriteSeek(b, 0).b, nextChunkNum).b
      b2 == WriteUint8(b1, channel).b
  IN  WriteUint16(b2, length).b
WriteHeader(b, nextChunkNum, channel, length) ==
  LET writePos == GetDataLength(b)
      b1 == WriteUint8(WriteSeek(b, 0).b, nextChunkNum).b
      b2 == WriteUint8(b1, channel).b
      b3 == WriteUint16(b2, length).b
  IN  WriteSeek(b3, IF writePos < HEADERLENGTH THEN HEADERLENGTH ELSE writePos).b

CreateNewBuffer == WriteHeader(New(ChunkSize), 1, 0, 0)

\* The rows BlockWrite spreads the data over: each buffer takes what it has room for.
Pieces(data) ==
  LET room == GetAvailableSize(CreateNewBuffer)
      num  == Smaller(Len(data), (Len(data) + room - 1) \div room)
  IN  [i \in 1 .. num |-> SubSeq(data, room * (i - 1) + 1, Smaller(room * i, Len(data)))]

BlockBuffers(data, channel) ==
  LET pieces == Pieces(data)
      num    == Len(pieces)
  IN  [i \in 1 .. num |->
         LET b == Write(CreateNewBuffer, pieces[i]).b
         IN  WriteHeader(b, num - i + 1, channel, GetDataLength(b) - HEADERLENGTH)]

StreamBuffer(data, channel) ==
  Write(WriteHeader(New(Len(data) + HEADERLENGTH), 0, channel, Len(data)), data).b

\* The application sends what it has written and starts anew.
Send(type, channel, buffers) ==
  /\ fields # <<>>
  /\ sent' = Append(sent, [type |-> type, channel |-> channel, fields |-> fields])
  /\ writeBufferList' = writeBufferList \o buffers
  /\ note' = Clear(note) /\ fields' = <<>>
  /\ UNCHANGED <<wire, rcvVars, eventPool, delivered>>

\* What GetBuffer and GetDataLength of the note tell.
Contents == SubSeq(GetBuffer(note), 1, GetDataLength(note))

StreamWrite(channel) ==
  Send("EVENT_RECIVE_STREAM", channel, <<StreamBuffer(Contents, channel)>>)

BlockWriteAndCommit(channel) ==
  Send("EVENT_RECIVE_BLOCK", channel, BlockBuffers(Contents, channel))

RunWrite(n) ==
  /\ LET b == Head(writeBufferList)
         r == WriteToSocket(b, n)
     IN  /\ wire' = wire \o SubSeq(Unsent(b), 1, n)
         /\ writeBufferList' = IF r.ret = 0 THEN Tail(writeBufferList)
                               ELSE <<r.b>> \o Tail(writeBufferList)
  /\ UNCHANGED <<appVars, rcvVars, eventPool, delivered>>

-----------------------------------------------------------------------------
(* The receiver: one recv() that brings k bytes. *)

Recv(k) == SubSeq(wire, 1, k)
Received(k) == /\ wire' = SubSeq(wire, k + 1, Len(wire))
               /\ UNCHANGED <<appVars, writeBufferList, delivered>>

\* The event goes to the pool with its buffer rewound.
Deliver(event, b) ==
  eventPool' = Append(eventPool, [event EXCEPT !.b = ReadSeek(b, 0).b])

StreamReadPart(k) ==
  /\ streamEvent # NoEvent
  /\ k <= GetAvailableSize(streamEvent.b)
  /\ Received(k)
  /\ LET r == ReadFromSocket(streamEvent.b, GetAvailableSize(streamEvent.b), Recv(k))
     IN  IF r.ret = 0
         THEN Deliver(streamEvent, r.b) /\ streamEvent' = NoEvent
         ELSE streamEvent' = [streamEvent EXCEPT !.b = r.b] /\ UNCHANGED eventPool
  /\ UNCHANGED <<readHeaderBuffer, blockEvent, blockChunkLength, nowChunkNum>>

BlockReadPart(k) ==
  /\ streamEvent = NoEvent /\ blockEvent # NoEvent /\ blockChunkLength > 0
  /\ k <= Asked(blockEvent.b, blockChunkLength)
  /\ Received(k)
  /\ LET r    == ReadFromSocket(blockEvent.b, blockChunkLength, Recv(k))
         last == r.ret = 0 /\ nowChunkNum <= 1
     IN  /\ blockChunkLength' = IF r.ret = 0 THEN 0 ELSE r.readSize
         /\ blockEvent' = IF last THEN NoEvent ELSE [blockEvent EXCEPT !.b = r.b]
         /\ IF last THEN Deliver(blockEvent, r.b) ELSE UNCHANGED eventPool
  /\ UNCHANGED <<readHeaderBuffer, streamEvent, nowChunkNum>>

\* A whole header starts a stream, a block, or the next chunk of a block.  (A block
\* above MAX_DATALENGTH, which disconnects, is in module ChunkedConnection.)
StartChunk(num, channel, length) ==
  /\ num # 0 /\ blockEvent = NoEvent => length * num <= MAX_DATALENGTH
  /\ IF num = 0
     THEN /\ streamEvent' = Event("EVENT_RECIVE_STREAM", channel, New(length))
          /\ UNCHANGED <<blockEvent, blockChunkLength, nowChunkNum>>
     ELSE /\ blockEvent' = IF blockEvent # NoEvent THEN blockEvent
                           ELSE Event("EVENT_RECIVE_BLOCK", channel, New(length * num))
          /\ blockChunkLength' = length /\ nowChunkNum' = num
          /\ UNCHANGED streamEvent

ChunkHeaderReadPart(k) ==
  /\ streamEvent = NoEvent /\ (blockEvent = NoEvent \/ blockChunkLength = 0)
  /\ k <= GetAvailableSize(readHeaderBuffer)
  /\ Received(k)
  /\ LET r == ReadFromSocket(readHeaderBuffer, GetAvailableSize(readHeaderBuffer), Recv(k))
         nextChunkNum == ReadUint8(ReadSeek(r.b, 0).b)
         channel      == ReadUint8(nextChunkNum.b)
         length       == ReadUint16(channel.b)
     IN  IF r.ret = 0
         THEN /\ StartChunk(nextChunkNum.ret, channel.ret, length.ret)
              /\ readHeaderBuffer' = Clear(length.b)
         ELSE /\ readHeaderBuffer' = r.b
              /\ UNCHANGED <<streamEvent, blockEvent, blockChunkLength, nowChunkNum>>
  /\ UNCHANGED eventPool

-----------------------------------------------------------------------------
(* The handler reads fields of the types its peer wrote. *)

Get(b, f) ==
  CASE f.type = "uint8"  -> ReadUint8(b)
    [] f.type = "uint16" -> ReadUint16(b)
    [] f.type = "uint32" -> ReadUint32(b)
    [] f.type = "int8"   -> ReadInt8(b)
    [] f.type = "int16"  -> ReadInt16(b)
    [] f.type = "int32"  -> ReadInt32(b)
    [] f.type = "data"   -> LET r == Read(b, Len(f.value)) IN [ret |-> r.data, b |-> r.b]

ReadFields(b, types) ==
  FoldLeft(LAMBDA s, f : LET r == Get(s.b, f)
                         IN  [b |-> r.b, fields |-> Append(s.fields, [f EXCEPT !.value = r.ret])],
           [b |-> b, fields |-> <<>>], types).fields

Handle ==
  /\ eventPool # <<>>
  /\ LET ev == Head(eventPool)
     IN  delivered' =
           Append(delivered,
             [type |-> ev.type, channel |-> ev.channel,
              fields |-> ReadFields(ev.b, sent[Len(delivered) + 1].fields)])
  /\ eventPool' = Tail(eventPool)
  /\ UNCHANGED <<appVars, writeBufferList, wire, rcvVars>>

WireNext ==
  \/ \E f \in Fields : WriteField(f)
  \/ \E c \in Channels : StreamWrite(c) \/ BlockWriteAndCommit(c)
  \/ writeBufferList # <<>> /\ \E n \in 1 .. Len(Unsent(Head(writeBufferList))) : RunWrite(n)
  \/ \E k \in 1 .. Len(wire) : \/ StreamReadPart(k)
                               \/ BlockReadPart(k)
                               \/ ChunkHeaderReadPart(k)
  \/ Handle

WireSpec == WireInit /\ [][WireNext]_wireVars

-----------------------------------------------------------------------------
(* Properties. *)

\* A message fits its numbers: a field its type, a length two bytes, a channel and the
\* number of chunks of a block one byte, a size a size_t; and no field is empty.
FieldFits(f) ==
  LET unsigned(w) == f.value \in 0 .. Limit(w) - 1
      signed(w)   == -Limit(w) <= 2 * f.value /\ 2 * f.value < Limit(w)
  IN  /\ f.type = "uint8"  => unsigned(1)
      /\ f.type = "uint16" => unsigned(2)
      /\ f.type = "uint32" => unsigned(4)
      /\ f.type = "int8"   => signed(1)
      /\ f.type = "int16"  => signed(2)
      /\ f.type = "int32"  => signed(4)
      /\ f.type = "data"   => f.value # <<>>
WireFits ==
  /\ 4 <= HEADERLENGTH /\ Channels \subseteq Byte
  /\ NoteSize + HEADERLENGTH < SizeT /\ MAX_DATALENGTH \in 0 .. SizeT - 1
  /\ NoteSize < Limit(2)
  /\ NoteSize <= (ChunkSize - HEADERLENGTH) * (Base - 1)
  /\ \A f \in Fields : FieldFits(f)

\* The channel of messages whose fields the receiver reads as they were written
\* implements the promise of a connection (MessageChannel): headers and numbers
\* mean the same on both sides however the socket splits them.
Channel == INSTANCE MessageChannel WITH
  Message <- Message, sent <- sent, delivered <- delivered
CarriesFields == Channel!Spec

Sound(b) == b.readPos <= b.writePos /\ b.writePos <= Len(b.buf)

\* No buffer on the way is read beyond what was written or written beyond its
\* size: the differences of positions the methods compare (size_t) never wrap.
PositionsAreOrdered ==
  /\ Sound(note) /\ Sound(readHeaderBuffer)
  /\ Sound(streamEvent.b) /\ Sound(blockEvent.b)
  /\ \A i \in DOMAIN writeBufferList : Sound(writeBufferList[i])
  /\ \A i \in DOMAIN eventPool : Sound(eventPool[i].b)
=============================================================================
