----------------------- MODULE ChunkedConnection_proof -----------------------
(***************************************************************************)
(* Proofs about ChunkedConnection, for every set of channels, payloads,    *)
(* chunk capacity, header width and limit.                                 *)
(***************************************************************************)
EXTENDS ChunkedConnection, Integers, SequenceTheorems, TLAPS

USE ConstantsAssumption

-----------------------------------------------------------------------------
(* Sequences and numbers. *)

\* A remainder is below its divisor and not above what is divided.
LEMMA ModBound ==
  ASSUME NEW n \in Nat, NEW m \in Nat \ {0}
  PROVE  /\ n % m \in 0 .. m - 1
         /\ n % m <= n
         /\ n < m => n % m = n
OBVIOUS

\* The type and length of a concatenation.
LEMMA ConcatType ==
  ASSUME NEW S, NEW s \in Seq(S), NEW t \in Seq(S)
  PROVE  /\ s \o t \in Seq(S)
         /\ Len(s \o t) = Len(s) + Len(t)
OBVIOUS

\* A queue that is the concatenation of two is popped at its first part as
\* long as that has an element, and then at its second.
LEMMA HeadTailConcat ==
  ASSUME NEW S, NEW s \in Seq(S), NEW t \in Seq(S)
  PROVE  /\ s \o t \in Seq(S)
         /\ Len(s \o t) = Len(s) + Len(t)
         /\ s \o t = <<>> <=> s = <<>> /\ t = <<>>
         /\ s = <<>> => s \o t = t
         /\ s # <<>> => /\ Head(s \o t) = Head(s)
                        /\ Tail(s \o t) = Tail(s) \o t
OBVIOUS

\* Moving the first element of the second queue to the end of the first
\* changes nothing in their concatenation.
LEMMA MoveKeepsConcat ==
  ASSUME NEW S, NEW s \in Seq(S), NEW t \in Seq(S), t # <<>>
  PROVE  /\ Append(s, Head(t)) \o Tail(t) = s \o t
         /\ Append(s, Head(t)) \in Seq(S)
         /\ Tail(t) \in Seq(S)
OBVIOUS

\* Queuing at the end of the second queue is queuing at the end of both.
LEMMA AppendConcat ==
  ASSUME NEW S, NEW s \in Seq(S), NEW t \in Seq(S), NEW e \in S
  PROVE  s \o Append(t, e) = Append(s \o t, e)
OBVIOUS

\* A row of k elements of a sequence, from within it.
LEMMA SubSeqFacts ==
  ASSUME NEW S, NEW s \in Seq(S), NEW from \in Nat, NEW k \in Nat,
         from + k <= Len(s)
  PROVE  /\ SubSeq(s, from + 1, from + k) \in Seq(S)
         /\ Len(SubSeq(s, from + 1, from + k)) = k
OBVIOUS

-----------------------------------------------------------------------------
(* The chunks under way. *)

\* A chunk has at least the bytes of its header.
LEMMA ChunkBytesFacts ==
  ASSUME NEW c \in ChunkType
  PROVE  /\ c.body \in Seq(Byte) /\ Len(c.body) \in Nat
         /\ c.num \in 0 .. UInt8 - 1
         /\ c.length \in 0 .. UInt16 - 1 /\ c.length <= Len(c.body)
         /\ c.channel \in Channels
         /\ ChunkBytes(c) \in Nat
         /\ ChunkBytes(c) = HEADERLENGTH + Len(c.body)
         /\ HEADERLENGTH <= ChunkBytes(c) /\ 0 < ChunkBytes(c)
BY DEF ChunkType, ChunkRecord, ChunkBytes

\* Where the receiver's current chunk is to be found.
LEMMA CurrentFacts ==
  ASSUME TypeOK
  PROVE  /\ Pipe \in Seq(ChunkType)
         /\ Pipe = <<>> <=> wire = <<>> /\ writeBufferList = <<>>
         /\ wire # <<>> => Current = Head(wire)
         /\ wire = <<>> => Pipe = writeBufferList
         /\ Pipe # <<>> => /\ Current \in ChunkType
                           /\ ChunkBytes(Current) = HEADERLENGTH + Len(Current.body)
                           /\ ChunkBytes(Current) \in Nat
                           /\ Len(Current.body) \in Nat
<1>1. wire \in Seq(ChunkType) /\ writeBufferList \in Seq(ChunkType)
  BY DEF TypeOK
<1>2. /\ Pipe \in Seq(ChunkType)
      /\ Pipe = <<>> <=> wire = <<>> /\ writeBufferList = <<>>
      /\ wire # <<>> => Current = Head(wire)
      /\ wire = <<>> => Pipe = writeBufferList
  BY <1>1, HeadTailConcat DEF Pipe, Current
<1>3. Pipe # <<>> => Current \in ChunkType
  BY <1>2 DEF Current
<1> QED
  BY <1>2, <1>3, ChunkBytesFacts

LEMMA AvailableType ==
  ASSUME TypeOK
  PROVE  Available \in Int
<1>1. inPos \in Nat /\ readPos \in Nat
  BY DEF TypeOK
<1>2. wire # <<>> => ChunkBytes(Current) \in Nat
  BY CurrentFacts
<1> QED
  BY <1>1, <1>2 DEF Available

\* Bytes that are available are bytes of the current chunk, and a chunk whose
\* last byte is available was wholly sent.
LEMMA AvailableFacts ==
  ASSUME TypeOK, SendPosition, ReceivePosition, Available > 0
  PROVE  /\ Pipe # <<>>
         /\ Available \in Nat
         /\ inPos + Available <= ChunkBytes(Current)
         /\ inPos + Available = ChunkBytes(Current) => wire # <<>>
<1>1. inPos \in Nat /\ readPos \in Nat
  BY DEF TypeOK
<1>2. CASE wire # <<>>
  BY <1>1, <1>2, CurrentFacts DEF Available
<1>3. CASE wire = <<>>
  <2>1. Available = readPos - inPos
    BY <1>3 DEF Available
  <2>2. Pipe = writeBufferList
    BY <1>3, CurrentFacts
  <2>3. writeBufferList # <<>>
    BY <1>1, <2>1 DEF SendPosition
  <2>4. readPos < ChunkBytes(Current)
    BY <2>2, <2>3 DEF SendPosition, Current
  <2> QED
    BY <1>1, <2>1, <2>2, <2>3, <2>4, CurrentFacts
<1> QED
  BY <1>2, <1>3

\* A recv() of k bytes keeps the cursors in their places and pops the current
\* chunk with its last byte.
LEMMA ConsumeFacts ==
  ASSUME TypeOK, SendPosition, ReceivePosition,
         NEW k \in Nat \ {0}, k <= Available,
         Consume(k), UNCHANGED <<writeBufferList, readPos>>
  PROVE  /\ wire' \in Seq(ChunkType) /\ inPos' \in Nat
         /\ SendPosition' /\ ReceivePosition'
         /\ k <= Remaining
         /\ IF k = Remaining THEN Pipe' = Tail(Pipe) /\ inPos' = 0
            ELSE Pipe' = Pipe /\ inPos' = inPos + k
<1>1. inPos \in Nat /\ readPos \in Nat /\ wire \in Seq(ChunkType)
      /\ writeBufferList \in Seq(ChunkType)
  BY DEF TypeOK
<1>2. /\ Pipe # <<>>
      /\ inPos + k <= ChunkBytes(Current)
      /\ inPos + k = ChunkBytes(Current) => wire # <<>>
      /\ ChunkBytes(Current) \in Nat
  <2>1. Available \in Int
    BY AvailableType
  <2>2. Available > 0
    BY <2>1
  <2>3. /\ Pipe # <<>>
        /\ inPos + Available <= ChunkBytes(Current)
        /\ inPos + Available = ChunkBytes(Current) => wire # <<>>
    BY <2>2, AvailableFacts
  <2>4. ChunkBytes(Current) \in Nat
    BY <2>3, CurrentFacts
  <2> QED
    BY <1>1, <2>1, <2>3, <2>4
<1>3. k <= Remaining /\ (k = Remaining <=> inPos + k = ChunkBytes(Current))
  BY <1>1, <1>2 DEF Remaining
<1>4. SendPosition'
  BY DEF SendPosition, ChunkBytes
<1>5. CASE inPos + k = ChunkBytes(Current)
  <2>1. wire' = Tail(wire) /\ inPos' = 0 /\ wire # <<>>
    BY <1>2, <1>5 DEF Consume
  <2>2. wire' \in Seq(ChunkType)
    BY <1>1, <2>1
  <2>3. Pipe' = Tail(Pipe)
    BY <1>1, <2>1, HeadTailConcat DEF Pipe
  <2>4. Pipe' \in Seq(ChunkType) /\ (Pipe' # <<>> => Current' \in ChunkType)
    BY <1>1, <2>2, HeadTailConcat DEF Pipe, Current
  <2>5. Pipe' # <<>> => 0 < ChunkBytes(Current')
    BY <2>4, ChunkBytesFacts
  <2>6. ReceivePosition'
    BY <1>1, <2>1, <2>5 DEF ReceivePosition, ChunkBytes
  <2> QED
    BY <1>3, <1>4, <1>5, <2>1, <2>2, <2>3, <2>6
<1>6. CASE inPos + k # ChunkBytes(Current)
  <2>1. wire' = wire /\ inPos' = inPos + k
    BY <1>6 DEF Consume
  <2>2. Pipe' = Pipe /\ ChunkBytes(Current)' = ChunkBytes(Current)
    BY <2>1 DEF Pipe, Current, ChunkBytes
  <2>3. wire = <<>> => inPos + k <= readPos
    BY <1>1 DEF Available
  <2>4. ReceivePosition'
    BY <1>1, <1>2, <1>6, <2>1, <2>2, <2>3 DEF ReceivePosition
  <2> QED
    BY <1>1, <1>3, <1>4, <1>6, <2>1, <2>2, <2>4
<1> QED
  BY <1>5, <1>6

-----------------------------------------------------------------------------
(* Types and cursors: what holds whatever the application sends. *)

FramingInv == TypeOK /\ ReadsStayInChunk

LEMMA FramingInit == Init => FramingInv
<1> SUFFICES ASSUME Init PROVE FramingInv
  OBVIOUS
<1>1. TypeOK
  <2>1. /\ DOMAIN channelWriteQueue = {}
        /\ channelWriteQueue \in [DOMAIN channelWriteQueue -> [bufs : Nat, data : Seq(Byte)]]
    BY DEF Init
  <2>2. commit \in [channel : Channels \cup {NULL}, num : Nat, block : Seq(Byte),
                    part : Seq(Byte)]
    BY DEF Init, NoCommit
  <2>3. streamEvent \in EventType /\ blockEvent \in EventType
    BY DEF Init, EventType
  <2>4. /\ writeBufferList \in Seq(ChunkType) /\ wire \in Seq(ChunkType)
        /\ sent \in Seq(Message) /\ delivered \in Seq(Message)
    BY DEF Init
  <2>5. /\ readPos \in Nat /\ inPos \in Nat /\ hdrPos \in 0 .. HEADERLENGTH - 1
        /\ blockChunkLength \in 0 .. UInt16 - 1 /\ nowChunkNum \in 0 .. UInt8 - 1
    BY DEF Init
  <2>6. /\ sndStatus \in Status /\ rcvStatus \in Status /\ link \in BOOLEAN
        /\ desync \in BOOLEAN /\ blockRefused \subseteq Channels
        /\ commit = NoCommit
    BY DEF Init, Status
  <2> QED
    BY <2>1, <2>2, <2>3, <2>4, <2>5, <2>6 DEF TypeOK
<1>2. Pipe = <<>>
  BY DEF Init, Pipe
<1>3. SendPosition /\ ReceivePosition
  BY <1>2 DEF Init, SendPosition, ReceivePosition
<1>4. StreamReadsOwnChunk /\ BlockReadsOwnChunk
  BY DEF Init, StreamReadsOwnChunk, BlockReadsOwnChunk
<1> QED
  BY <1>1, <1>3, <1>4 DEF FramingInv, ReadsStayInChunk

\* A step that touches neither the chunks under way nor the receiver.
LEMMA CursorsUnchanged ==
  ASSUME ReadsStayInChunk,
         UNCHANGED <<writeBufferList, readPos, wire, inPos, rcvStatus, desync,
                     rcvVars>>
  PROVE  ReadsStayInChunk'
BY DEF ReadsStayInChunk, SendPosition, ReceivePosition, StreamReadsOwnChunk,
       BlockReadsOwnChunk, rcvVars, Reading, Remaining, Pipe, Current,
       ChunkBytes, BlockRoom

\* The application queues a chunk.
LEMMA QueueKeepsCursors ==
  ASSUME FramingInv, NEW chunk \in ChunkType, NonBlockWrite(chunk),
         UNCHANGED <<readPos, wire, inPos, rcvStatus, desync, rcvVars>>
  PROVE  /\ writeBufferList' \in Seq(ChunkType)
         /\ Pipe' = Append(Pipe, chunk)
         /\ ReadsStayInChunk'
<1>1. /\ writeBufferList' = Append(writeBufferList, chunk)
      /\ wire' = wire /\ inPos' = inPos /\ readPos' = readPos
      /\ wire \in Seq(ChunkType) /\ writeBufferList \in Seq(ChunkType)
  BY DEF FramingInv, TypeOK, NonBlockWrite
<1>2. writeBufferList' \in Seq(ChunkType) /\ writeBufferList' # <<>>
  BY <1>1
<1>3. Pipe' = Append(Pipe, chunk) /\ Pipe \in Seq(ChunkType)
  BY <1>1, AppendConcat, CurrentFacts DEF Pipe, FramingInv
<1>4. Pipe' # <<>>
  BY <1>3
<1>5. IF Pipe = <<>> THEN Current' = chunk ELSE Current' = Current
  BY <1>3 DEF Current
<1>6. ChunkBytes(chunk) \in Nat /\ 0 < ChunkBytes(chunk)
  BY ChunkBytesFacts
<1>7. SendPosition'
  <2>1. CASE writeBufferList = <<>>
    BY <1>1, <1>6, <2>1 DEF FramingInv, ReadsStayInChunk, SendPosition, ChunkBytes
  <2>2. CASE writeBufferList # <<>>
    <3>1. Head(writeBufferList') = Head(writeBufferList)
      BY <1>1, <2>2
    <3> QED
      BY <1>1, <1>2, <2>2, <3>1 DEF FramingInv, ReadsStayInChunk, SendPosition, ChunkBytes
  <2> QED
    BY <2>1, <2>2
<1>8. ReceivePosition'
  <2>1. CASE Pipe = <<>>
    <3>1. wire = <<>> /\ writeBufferList = <<>>
      BY <2>1, CurrentFacts DEF FramingInv
    <3>2. inPos = 0 /\ readPos = 0
      BY <2>1, <3>1 DEF FramingInv, ReadsStayInChunk, SendPosition, ReceivePosition
    <3> QED
      BY <1>1, <1>4, <1>5, <1>6, <2>1, <3>2 DEF ReceivePosition, ChunkBytes
  <2>2. CASE Pipe # <<>>
    BY <1>1, <1>4, <1>5, <2>2
       DEF FramingInv, ReadsStayInChunk, ReceivePosition, ChunkBytes
  <2> QED
    BY <2>1, <2>2
<1>9. Pipe # <<>> => Remaining' = Remaining
  BY <1>1, <1>5 DEF Remaining, ChunkBytes
<1>10. StreamReadsOwnChunk' /\ BlockReadsOwnChunk'
  BY <1>1, <1>4, <1>9 DEF FramingInv, ReadsStayInChunk, StreamReadsOwnChunk,
     BlockReadsOwnChunk, Reading, rcvVars, BlockRoom
<1> QED
  BY <1>2, <1>3, <1>7, <1>8, <1>10 DEF ReadsStayInChunk

Queue == [bufs : Nat, data : Seq(Byte)]

LEMMA GetWriteQueueType ==
  ASSUME TypeOK, NEW c \in Channels
  PROVE  GetWriteQueue(c) \in Queue
BY DEF TypeOK, GetWriteQueue, Queue

LEMMA SetWriteQueueType ==
  ASSUME TypeOK, NEW c \in Channels, NEW q \in Queue, SetWriteQueue(c, q)
  PROVE  /\ DOMAIN channelWriteQueue' = DOMAIN channelWriteQueue \cup {c}
         /\ DOMAIN channelWriteQueue' \subseteq Channels
         /\ channelWriteQueue' \in
              [DOMAIN channelWriteQueue' -> [bufs : Nat, data : Seq(Byte)]]
         /\ channelWriteQueue'[c] = q
BY DEF TypeOK, SetWriteQueue, Queue

LEMMA ChunkTyped ==
  ASSUME TypeOK, NEW num \in Nat, NEW c \in Channels, NEW body \in Seq(Byte)
  PROVE  Chunk(num, c, body) \in ChunkType
<1>1. num % UInt8 \in 0 .. UInt8 - 1
  BY ModBound
<1>2. /\ Len(body) \in Nat
      /\ Len(body) % UInt16 \in 0 .. UInt16 - 1
      /\ Len(body) % UInt16 <= Len(body)
  <2>1. Len(body) \in Nat
    OBVIOUS
  <2> QED
    BY <2>1, ModBound
<1>3. /\ Len(sent) + 1 \in Nat \ {0}
      /\ commit.part \in Seq(Byte) /\ commit.num \in Nat
      /\ commit.channel \in Channels \cup {NULL}
  <2>1. /\ sent \in Seq(Message)
        /\ commit \in [channel : Channels \cup {NULL}, num : Nat,
                       block : Seq(Byte), part : Seq(Byte)]
    BY DEF TypeOK
  <2> QED
    BY <2>1
<1>4. SenderStamp \in [msg : Nat \ {0}, channel : Channels \cup {NULL},
                       left : Nat, part : Seq(Byte)]
  BY <1>3 DEF SenderStamp, Stamp
<1> QED
  BY <1>1, <1>2, <1>4 DEF Chunk, ChunkType, ChunkRecord

LEMMA BlockWriteKeepsFraming ==
  ASSUME FramingInv, NEW c \in Channels, NEW d \in BlockData, BlockWrite(c, d)
  PROVE  FramingInv'
<1> DEFINE data == GetWriteQueue(c).data \o d
<1>1. TypeOK
  BY DEF FramingInv
<1>2. data \in Seq(Byte)
  BY <1>1, GetWriteQueueType, HeadTailConcat DEF Queue
<1>3. PICK n \in 1 .. MaxBlockBytes + 1 : SetWriteQueue(c, [bufs |-> n, data |-> data])
  BY DEF BlockWrite
<1>4. [bufs |-> n, data |-> data] \in Queue
  BY <1>2 DEF Queue
<1>5. /\ DOMAIN channelWriteQueue' \subseteq Channels
      /\ channelWriteQueue' \in
           [DOMAIN channelWriteQueue' -> [bufs : Nat, data : Seq(Byte)]]
  BY <1>1, <1>3, <1>4, SetWriteQueueType
<1>6. TypeOK'
  BY <1>1, <1>5 DEF BlockWrite, TypeOK, netVars, rcvVars
<1>7. ReadsStayInChunk'
  BY CursorsUnchanged DEF BlockWrite, FramingInv, netVars
<1> QED
  BY <1>6, <1>7 DEF FramingInv

LEMMA BlockCommitKeepsFraming ==
  ASSUME FramingInv, NEW c \in Channels, BlockCommit(c)
  PROVE  FramingInv'
<1> DEFINE q == GetWriteQueue(c)
<1>1. TypeOK
  BY DEF FramingInv
<1>2. q \in Queue /\ SetWriteQueue(c, q)
  BY <1>1, GetWriteQueueType DEF BlockCommit
<1>3. /\ DOMAIN channelWriteQueue' = DOMAIN channelWriteQueue \cup {c}
      /\ DOMAIN channelWriteQueue' \subseteq Channels
      /\ channelWriteQueue' \in
           [DOMAIN channelWriteQueue' -> [bufs : Nat, data : Seq(Byte)]]
      /\ channelWriteQueue'[c] = q
  BY <1>1, <1>2, SetWriteQueueType
<1>4. commit' = IF q.bufs = 0 THEN NoCommit
                ELSE [channel |-> c, num |-> q.bufs, block |-> q.data, part |-> <<>>]
  BY DEF BlockCommit
<1>5. /\ commit' \in [channel : Channels \cup {NULL}, num : Nat,
                      block : Seq(Byte), part : Seq(Byte)]
      /\ commit' # NoCommit => commit'.channel = c /\ commit'.num = q.bufs /\ q.bufs > 0
  BY <1>2, <1>4 DEF Queue, NoCommit
<1>6. TypeOK'
  BY <1>1, <1>3, <1>5 DEF BlockCommit, TypeOK, NoCommit, netVars, rcvVars
<1>7. ReadsStayInChunk'
  BY CursorsUnchanged DEF BlockCommit, FramingInv, netVars
<1> QED
  BY <1>6, <1>7 DEF FramingInv

LEMMA CommitChunkKeepsFraming ==
  ASSUME FramingInv, CommitChunk
  PROVE  FramingInv'
<1> DEFINE c == commit.channel
           q == channelWriteQueue[c]
           n == Lesser(Capacity, Len(q.data))
           body == SubSeq(q.data, 1, n)
           rest == SubSeq(q.data, n + 1, Len(q.data))
<1>1. TypeOK
  BY DEF FramingInv
<1>2. /\ c \in Channels /\ c \in DOMAIN channelWriteQueue
      /\ q \in Queue /\ q.bufs \in Nat \ {0} /\ commit.num = q.bufs
      /\ q.data \in Seq(Byte) /\ Len(q.data) \in Nat
      /\ commit.block \in Seq(Byte) /\ commit.part \in Seq(Byte)
      /\ commit \in [channel : Channels \cup {NULL}, num : Nat,
                     block : Seq(Byte), part : Seq(Byte)]
  <2>1. /\ commit # NoCommit
        /\ DOMAIN channelWriteQueue \subseteq Channels
        /\ channelWriteQueue \in [DOMAIN channelWriteQueue -> Queue]
        /\ commit \in [channel : Channels \cup {NULL}, num : Nat,
                       block : Seq(Byte), part : Seq(Byte)]
    BY <1>1 DEF CommitChunk, TypeOK, Queue
  <2>2. c \in DOMAIN channelWriteQueue /\ commit.num = q.bufs /\ commit.num > 0
    BY <1>1, <2>1 DEF TypeOK
  <2>3. q \in Queue
    BY <2>1, <2>2
  <2> QED
    BY <2>1, <2>2, <2>3 DEF Queue
<1>3. n \in Nat /\ n <= Len(q.data)
  BY <1>2 DEF Lesser
<1>4. body \in Seq(Byte) /\ rest \in Seq(Byte)
  BY <1>2, <1>3
<1>5. Chunk(commit.num, c, body) \in ChunkType
  BY <1>1, <1>2, <1>4, ChunkTyped
<1>6. [bufs |-> q.bufs - 1, data |-> rest] \in Queue
  BY <1>2, <1>4 DEF Queue
<1>7. /\ NonBlockWrite(Chunk(commit.num, c, body))
      /\ SetWriteQueue(c, [bufs |-> q.bufs - 1, data |-> rest])
  BY DEF CommitChunk
<1>8. /\ DOMAIN channelWriteQueue' = DOMAIN channelWriteQueue \cup {c}
      /\ DOMAIN channelWriteQueue' \subseteq Channels
      /\ channelWriteQueue' \in
           [DOMAIN channelWriteQueue' -> [bufs : Nat, data : Seq(Byte)]]
      /\ channelWriteQueue'[c] = [bufs |-> q.bufs - 1, data |-> rest]
  <2> DEFINE r == [bufs |-> q.bufs - 1, data |-> rest]
  <2>1. r \in Queue /\ SetWriteQueue(c, r) /\ c \in Channels
    BY <1>2, <1>6, <1>7
  <2> HIDE DEF r, c
  <2>2. /\ DOMAIN channelWriteQueue' = DOMAIN channelWriteQueue \cup {c}
        /\ DOMAIN channelWriteQueue' \subseteq Channels
        /\ channelWriteQueue' \in
             [DOMAIN channelWriteQueue' -> [bufs : Nat, data : Seq(Byte)]]
        /\ channelWriteQueue'[c] = r
    BY <1>1, <2>1, SetWriteQueueType
  <2> QED
    BY <2>2 DEF r
<1>9. /\ writeBufferList' \in Seq(ChunkType)
      /\ ReadsStayInChunk'
  BY <1>5, <1>7, QueueKeepsCursors DEF CommitChunk, netVars
<1>10. CASE q.bufs = 1
  <2>1. commit' = NoCommit /\ sent' = Append(sent, BlockMessage(c, commit.block))
    BY <1>10 DEF CommitChunk
  <2>2. BlockMessage(c, commit.block) \in Message
    BY <1>2 DEF BlockMessage, Message
  <2>3. sent' \in Seq(Message)
    BY <1>1, <2>1, <2>2 DEF TypeOK
  <2>4. commit' \in [channel : Channels \cup {NULL}, num : Nat,
                     block : Seq(Byte), part : Seq(Byte)]
    BY <2>1 DEF NoCommit
  <2> QED
    <3> HIDE DEF q, body, rest
    <3> QED
      BY <1>1, <1>8, <1>9, <2>1, <2>3, <2>4
         DEF CommitChunk, TypeOK, FramingInv, netVars, rcvVars
<1>11. CASE q.bufs # 1
  <2>1. commit' = [commit EXCEPT !.num = @ - 1, !.part = @ \o body] /\ sent' = sent
    BY <1>11 DEF CommitChunk
  <2>2. commit.part \o body \in Seq(Byte)
    BY <1>2, <1>4, HeadTailConcat
  <2>3. /\ commit' \in [channel : Channels \cup {NULL}, num : Nat,
                        block : Seq(Byte), part : Seq(Byte)]
        /\ commit'.channel = commit.channel /\ commit'.num = commit.num - 1
    <3> HIDE DEF q, body
    <3>1. commit.num - 1 \in Nat
      BY <1>2
    <3> QED
      BY <1>2, <2>1, <2>2, <3>1
  <2>5. q.bufs - 1 > 0
    BY <1>2, <1>11
  <2> QED
    <3> HIDE DEF q, body, rest
    <3>1. /\ commit'.channel \in DOMAIN channelWriteQueue'
          /\ commit'.num = channelWriteQueue'[commit'.channel].bufs
          /\ commit'.num > 0
      BY <1>2, <1>8, <2>3, <2>5
    <3> QED
      BY <1>1, <1>8, <1>9, <2>1, <2>3, <3>1
         DEF CommitChunk, TypeOK, FramingInv, netVars, rcvVars
<1> QED
  BY <1>10, <1>11

LEMMA StreamWriteKeepsFraming ==
  ASSUME FramingInv, NEW c \in Channels, NEW d \in StreamData, StreamWrite(c, d)
  PROVE  FramingInv'
<1>1. TypeOK /\ d \in Seq(Byte)
  BY DEF FramingInv
<1>2. Chunk(0, c, d) \in ChunkType
  BY <1>1, ChunkTyped
<1>3. writeBufferList' \in Seq(ChunkType) /\ ReadsStayInChunk'
  BY <1>2, QueueKeepsCursors DEF StreamWrite, netVars
<1>4. StreamMessage(c, d) \in Message
  BY <1>1 DEF StreamMessage, Message
<1>5. sent' \in Seq(Message)
  BY <1>1, <1>4 DEF StreamWrite, TypeOK
<1> QED
  BY <1>1, <1>3, <1>5 DEF StreamWrite, TypeOK, FramingInv, sndVars, netVars, rcvVars

\* A send() leaves the bytes under way as they are.
LEMMA RunWriteKeepsPipe ==
  ASSUME FramingInv, NEW k \in Nat \ {0}, RunWrite(k)
  PROVE  /\ Pipe' = Pipe /\ inPos' = inPos
         /\ wire' \in Seq(ChunkType) /\ writeBufferList' \in Seq(ChunkType)
         /\ readPos' \in Nat
         /\ SendPosition' /\ ReceivePosition'
<1>1. /\ TypeOK /\ SendPosition /\ ReceivePosition
      /\ wire \in Seq(ChunkType) /\ writeBufferList \in Seq(ChunkType)
      /\ readPos \in Nat /\ inPos \in Nat /\ inPos' = inPos
      /\ writeBufferList # <<>>
  BY DEF FramingInv, ReadsStayInChunk, TypeOK, RunWrite
<1> DEFINE h == Head(writeBufferList)
<1>2. h \in ChunkType /\ ChunkBytes(h) \in Nat /\ 0 < ChunkBytes(h)
  BY <1>1, ChunkBytesFacts
<1>3. readPos + k <= ChunkBytes(h)
  BY DEF RunWrite
<1>4. Pipe # <<>> /\ inPos < ChunkBytes(Current)
  BY <1>1, CurrentFacts DEF ReceivePosition
<1>5. CASE readPos + k = ChunkBytes(h)
  <2>1. wire' = Append(wire, h) /\ writeBufferList' = Tail(writeBufferList) /\ readPos' = 0
    BY <1>5 DEF RunWrite
  <2>2. Pipe' = Pipe /\ wire' \in Seq(ChunkType) /\ writeBufferList' \in Seq(ChunkType)
        /\ wire' # <<>>
    <3>1. /\ Append(wire, h) \o Tail(writeBufferList) = wire \o writeBufferList
          /\ Append(wire, h) \in Seq(ChunkType)
          /\ Tail(writeBufferList) \in Seq(ChunkType)
      BY <1>1, MoveKeepsConcat
    <3>2. Append(wire, h) # <<>>
      BY <1>1
    <3> QED
      BY <2>1, <3>1, <3>2 DEF Pipe
  <2>3. writeBufferList' # <<>> => 0 < ChunkBytes(Head(writeBufferList'))
    BY <2>2, ChunkBytesFacts
  <2>4. SendPosition'
    BY <2>1, <2>3 DEF SendPosition, ChunkBytes
  <2>5. ReceivePosition'
    BY <1>1, <1>4, <2>2 DEF ReceivePosition, Current, ChunkBytes
  <2> QED
    BY <1>1, <2>1, <2>2, <2>4, <2>5
<1>6. CASE readPos + k # ChunkBytes(h)
  <2>1. wire' = wire /\ writeBufferList' = writeBufferList /\ readPos' = readPos + k
    BY <1>6 DEF RunWrite
  <2>2. Pipe' = Pipe
    BY <2>1 DEF Pipe
  <2>3. SendPosition'
    BY <1>1, <1>2, <1>3, <1>6, <2>1 DEF SendPosition, ChunkBytes
  <2>4. ReceivePosition'
    BY <1>1, <1>4, <2>1, <2>2 DEF ReceivePosition, Current, ChunkBytes
  <2> QED
    BY <1>1, <2>1, <2>2, <2>3, <2>4
<1> QED
  BY <1>5, <1>6

LEMMA RunWriteKeepsFraming ==
  ASSUME FramingInv, NEW k \in Nat \ {0}, RunWrite(k)
  PROVE  FramingInv'
<1>1. /\ Pipe' = Pipe /\ inPos' = inPos
      /\ wire' \in Seq(ChunkType) /\ writeBufferList' \in Seq(ChunkType)
      /\ readPos' \in Nat
      /\ SendPosition' /\ ReceivePosition'
  BY RunWriteKeepsPipe
<1>2. Remaining' = Remaining
  BY <1>1 DEF Remaining, Current, ChunkBytes
<1>3. StreamReadsOwnChunk' /\ BlockReadsOwnChunk'
  BY <1>1, <1>2 DEF RunWrite, FramingInv, ReadsStayInChunk, StreamReadsOwnChunk,
     BlockReadsOwnChunk, Reading, rcvVars, BlockRoom
<1>4. TypeOK'
  BY <1>1 DEF RunWrite, FramingInv, TypeOK, sndVars, rcvVars
<1> QED
  BY <1>1, <1>3, <1>4 DEF FramingInv, ReadsStayInChunk

-----------------------------------------------------------------------------
(* The receiver. *)

\* The remaining bytes of a current chunk are a number.
LEMMA RemainingFacts ==
  ASSUME TypeOK, Pipe # <<>>
  PROVE  /\ inPos \in Nat /\ ChunkBytes(Current) \in Nat
         /\ Remaining = ChunkBytes(Current) - inPos /\ Remaining \in Int
<1>1. inPos \in Nat
  BY DEF TypeOK
<1>2. ChunkBytes(Current) \in Nat
  BY CurrentFacts
<1> QED
  BY <1>1, <1>2 DEF Remaining

\* What a recv() for payload returns is payload of the current chunk.
LEMMA PayloadFacts ==
  ASSUME FramingInv, NEW k \in Nat \ {0}, Pipe # <<>>,
         inPos >= HEADERLENGTH, k <= Remaining
  PROVE  /\ Payload(k) \in Seq(Byte)
         /\ Len(Payload(k)) = k
<1> DEFINE from == inPos - HEADERLENGTH
<1>1. Current.body \in Seq(Byte) /\ Len(Current.body) \in Nat
      /\ ChunkBytes(Current) = HEADERLENGTH + Len(Current.body) /\ inPos \in Nat
  BY CurrentFacts, ChunkBytesFacts DEF FramingInv, TypeOK
<1>2. from \in Nat /\ from + k <= Len(Current.body)
  BY <1>1 DEF Remaining
<1> QED
  BY <1>1, <1>2, SubSeqFacts DEF Payload

EventRecord == [channel : Channels, size : Nat, data : Seq(Byte)]

\* An event that is there is a record, and NoEvent is not one.
LEMMA EventFacts ==
  /\ NoEvent \notin EventRecord
  /\ EventType = {NoEvent} \cup EventRecord
BY DEF NoEvent, Event, EventRecord, EventType

LEMMA StreamReadFullKeepsFraming ==
  ASSUME FramingInv, StreamReadFull
  PROVE  FramingInv'
<1>1. TypeOK /\ streamEvent \in EventRecord /\ delivered \in Seq(Message)
  BY EventFacts DEF FramingInv, TypeOK, StreamReadFull, InStreamPart
<1>2. StreamMessage(streamEvent.channel, streamEvent.data) \in Message
  BY <1>1 DEF EventRecord, StreamMessage, Message
<1>3. delivered' \in Seq(Message) /\ streamEvent' = NoEvent /\ streamEvent' \in EventType
  BY <1>1, <1>2 DEF StreamReadFull, DeliverStream, EventType
<1>4. TypeOK'
  BY <1>1, <1>3 DEF StreamReadFull, TypeOK, RunReadFrame, sndVars, netVars
<1>5. ReadsStayInChunk'
  BY <1>3 DEF StreamReadFull, FramingInv, ReadsStayInChunk, SendPosition,
     ReceivePosition, StreamReadsOwnChunk, BlockReadsOwnChunk, RunReadFrame,
     netVars, Reading, Remaining, Pipe, Current, ChunkBytes, BlockRoom
<1> QED
  BY <1>4, <1>5 DEF FramingInv

LEMMA StreamReadPartKeepsFraming ==
  ASSUME FramingInv, NEW k \in Nat \ {0}, StreamReadPart(k)
  PROVE  FramingInv'
<1> DEFINE data == streamEvent.data \o Payload(k)
           wanted == streamEvent.size - Len(streamEvent.data)
<1>1. /\ TypeOK /\ SendPosition /\ ReceivePosition
      /\ streamEvent \in EventRecord /\ streamEvent # NoEvent
      /\ delivered \in Seq(Message)
      /\ Reading /\ k <= wanted /\ k <= Available /\ Consume(k)
      /\ UNCHANGED <<writeBufferList, readPos>>
  BY EventFacts DEF FramingInv, ReadsStayInChunk, TypeOK, StreamReadPart,
     InStreamPart, RunReadFrame
<1>2. /\ streamEvent.channel \in Channels /\ streamEvent.size \in Nat
      /\ streamEvent.data \in Seq(Byte) /\ Len(streamEvent.data) \in Nat
  BY <1>1 DEF EventRecord
<1>3. /\ wanted \in Nat /\ k <= wanted /\ blockChunkLength = 0
      /\ Pipe # <<>> /\ inPos >= HEADERLENGTH /\ wanted <= Remaining
      /\ inPos \in Nat /\ Remaining \in Int /\ ChunkBytes(Current) \in Nat
      /\ Remaining = ChunkBytes(Current) - inPos
  <2>1. /\ wanted \in Int /\ wanted > 0
    BY <1>1, <1>2
  <2>2. /\ wanted \in Nat /\ k <= wanted /\ blockChunkLength = 0
        /\ Pipe # <<>> /\ inPos >= HEADERLENGTH /\ wanted <= Remaining
    BY <1>1, <2>1 DEF FramingInv, ReadsStayInChunk, StreamReadsOwnChunk
  <2> QED
    BY <1>1, <2>2, RemainingFacts
<1>4. /\ wire' \in Seq(ChunkType) /\ inPos' \in Nat
      /\ SendPosition' /\ ReceivePosition'
      /\ k <= Remaining
      /\ IF k = Remaining THEN Pipe' = Tail(Pipe) /\ inPos' = 0
         ELSE Pipe' = Pipe /\ inPos' = inPos + k
  BY <1>1, ConsumeFacts
<1>5. Payload(k) \in Seq(Byte) /\ Len(Payload(k)) = k
  BY <1>3, <1>4, PayloadFacts
<1>6. data \in Seq(Byte) /\ Len(data) = Len(streamEvent.data) + k
  BY <1>2, <1>5, ConcatType
<1>7. CASE Len(data) = streamEvent.size
  <2>1. /\ streamEvent' = NoEvent
        /\ delivered' = Append(delivered, StreamMessage(streamEvent.channel, data))
    BY <1>7 DEF StreamReadPart, DeliverStream
  <2>2. StreamMessage(streamEvent.channel, data) \in Message
    BY <1>2, <1>6 DEF StreamMessage, Message
  <2>3. delivered' \in Seq(Message) /\ streamEvent' \in EventType
    BY <1>1, <2>1, <2>2 DEF EventType
  <2>4. TypeOK'
    BY <1>1, <1>4, <2>3 DEF StreamReadPart, TypeOK, RunReadFrame, sndVars
  <2>5. StreamReadsOwnChunk' /\ BlockReadsOwnChunk'
    BY <1>1, <1>3, <2>1 DEF StreamReadPart, FramingInv, ReadsStayInChunk,
       StreamReadsOwnChunk, BlockReadsOwnChunk, Reading, BlockRoom
  <2> QED
    BY <1>4, <2>4, <2>5 DEF FramingInv, ReadsStayInChunk
<1>8. CASE Len(data) # streamEvent.size
  <2> HIDE DEF data
  <2>1. streamEvent' = [streamEvent EXCEPT !.data = data] /\ delivered' = delivered
    BY <1>8 DEF StreamReadPart, data
  <2>2. /\ streamEvent' \in EventRecord
        /\ streamEvent'.size = streamEvent.size /\ streamEvent'.data = data
    BY <1>1, <1>2, <1>6, <2>1 DEF EventRecord
  <2>3. TypeOK'
    BY <1>1, <1>4, <2>1, <2>2, EventFacts DEF StreamReadPart, TypeOK, RunReadFrame, sndVars
  <2>4. k < wanted
    BY <1>2, <1>3, <1>6, <1>8
  <2>6. /\ k # Remaining
        /\ Pipe' = Pipe /\ inPos' = inPos + k
    BY <1>3, <1>4, <2>4
  <2>7. ChunkBytes(Current)' = ChunkBytes(Current)
    BY <2>6 DEF Current, ChunkBytes
  <2>8. Remaining' = Remaining - k /\ inPos' >= HEADERLENGTH /\ Pipe' # <<>>
    BY <1>3, <2>6, <2>7 DEF Remaining
  <2>9. StreamReadsOwnChunk'
    <3>1. /\ streamEvent'.size - Len(streamEvent'.data) = wanted - k
          /\ wanted - k > 0 /\ wanted - k <= Remaining'
      <4>1. streamEvent'.size - Len(streamEvent'.data) = wanted - k
        BY <1>2, <1>6, <2>2
      <4>2. wanted - k > 0 /\ wanted - k <= Remaining'
        BY <1>3, <2>4, <2>8
      <4> QED
        BY <4>1, <4>2
    <3>2. blockChunkLength' = 0
      BY <1>3 DEF StreamReadPart
    <3> QED
      BY <1>3, <2>8, <3>1, <3>2 DEF StreamReadsOwnChunk
  <2>10. BlockReadsOwnChunk'
    BY <1>1, <1>3 DEF StreamReadPart, FramingInv, ReadsStayInChunk,
       BlockReadsOwnChunk, Reading, BlockRoom
  <2> QED
    BY <1>4, <2>3, <2>9, <2>10 DEF FramingInv, ReadsStayInChunk
<1> QED
  BY <1>7, <1>8

\* What completing a chunk's payload does to the types.
LEMMA BlockChunkCompleteType ==
  ASSUME TypeOK, blockEvent \in EventRecord, NEW data \in Seq(Byte),
         Len(data) <= blockEvent.size, BlockChunkComplete(data)
  PROVE  /\ blockEvent' \in EventType /\ delivered' \in Seq(Message)
         /\ blockChunkLength' = 0 /\ blockChunkLength' \in 0 .. UInt16 - 1
         /\ blockEvent' # NoEvent => BlockRoom' >= 0
<1>1. /\ blockEvent.channel \in Channels /\ blockEvent.size \in Nat
      /\ Len(data) \in Nat /\ delivered \in Seq(Message)
  BY DEF EventRecord, TypeOK
<1>2. CASE nowChunkNum > 1
  <2>1. blockEvent' = [blockEvent EXCEPT !.data = data] /\ delivered' = delivered
        /\ blockChunkLength' = 0
    BY <1>2 DEF BlockChunkComplete
  <2>2. blockEvent' \in EventRecord /\ blockEvent'.size = blockEvent.size
        /\ blockEvent'.data = data
    BY <2>1 DEF EventRecord
  <2>3. BlockRoom' >= 0
    BY <1>1, <2>2 DEF BlockRoom
  <2> QED
    BY <1>1, <2>1, <2>2, <2>3, EventFacts
<1>3. CASE ~(nowChunkNum > 1)
  <2>1. /\ blockEvent' = NoEvent /\ blockChunkLength' = 0
        /\ delivered' = Append(delivered, BlockMessage(blockEvent.channel, data))
    BY <1>3 DEF BlockChunkComplete
  <2>2. BlockMessage(blockEvent.channel, data) \in Message
    BY <1>1 DEF BlockMessage, Message
  <2> QED
    BY <1>1, <2>1, <2>2, EventFacts
<1> QED
  BY <1>2, <1>3

LEMMA BlockReadFullKeepsFraming ==
  ASSUME FramingInv, BlockReadFull
  PROVE  FramingInv'
<1>1. /\ TypeOK /\ blockEvent \in EventRecord /\ BlockRoom = 0
      /\ BlockChunkComplete(blockEvent.data)
      /\ UNCHANGED streamEvent /\ streamEvent = NoEvent
  BY EventFacts DEF FramingInv, TypeOK, BlockReadFull, InBlockPart
<1>2. blockEvent.data \in Seq(Byte) /\ Len(blockEvent.data) <= blockEvent.size
  BY <1>1 DEF EventRecord, BlockRoom
<1>3. /\ blockEvent' \in EventType /\ delivered' \in Seq(Message)
      /\ blockChunkLength' = 0 /\ blockChunkLength' \in 0 .. UInt16 - 1
      /\ blockEvent' # NoEvent => BlockRoom' >= 0
  BY <1>1, <1>2, BlockChunkCompleteType
<1>4. TypeOK'
  <2>1. UNCHANGED <<sndVars, writeBufferList, readPos, sndStatus, sent, rcvStatus,
                    desync, netVars, hdrPos, streamEvent, nowChunkNum>>
    BY DEF BlockReadFull, RunReadFrame
  <2> QED
    BY <1>1, <1>3, <2>1 DEF TypeOK, sndVars, netVars
<1>5. SendPosition' /\ ReceivePosition'
  BY DEF BlockReadFull, FramingInv, ReadsStayInChunk, SendPosition,
     ReceivePosition, RunReadFrame, netVars, Pipe, Current, ChunkBytes
<1>6. StreamReadsOwnChunk' /\ BlockReadsOwnChunk'
  BY <1>1, <1>3 DEF StreamReadsOwnChunk, BlockReadsOwnChunk
<1> QED
  BY <1>4, <1>5, <1>6 DEF FramingInv, ReadsStayInChunk

LEMMA BlockReadPartKeepsFraming ==
  ASSUME FramingInv, NEW k \in Nat \ {0}, BlockReadPart(k)
  PROVE  FramingInv'
<1> DEFINE readSize == Lesser(blockChunkLength, BlockRoom)
           data == blockEvent.data \o Payload(k)
<1>1. /\ TypeOK /\ SendPosition /\ ReceivePosition
      /\ blockEvent \in EventRecord /\ blockEvent # NoEvent
      /\ streamEvent = NoEvent /\ streamEvent' = streamEvent
      /\ blockChunkLength \in 0 .. UInt16 - 1
      /\ Reading /\ k <= readSize /\ k <= Available /\ Consume(k)
      /\ UNCHANGED <<writeBufferList, readPos>>
  BY EventFacts DEF FramingInv, ReadsStayInChunk, TypeOK, BlockReadPart,
     InBlockPart, RunReadFrame
<1>2. /\ blockEvent.channel \in Channels /\ blockEvent.size \in Nat
      /\ blockEvent.data \in Seq(Byte) /\ Len(blockEvent.data) \in Nat
      /\ blockChunkLength \in Nat /\ BlockRoom \in Int
  BY <1>1 DEF EventRecord, BlockRoom
<1>3. /\ readSize \in Int /\ k <= readSize
      /\ readSize <= blockChunkLength /\ readSize <= BlockRoom
  BY <1>1, <1>2 DEF Lesser
<1>4. /\ Pipe # <<>> /\ inPos >= HEADERLENGTH /\ blockChunkLength <= Remaining
      /\ inPos \in Nat /\ Remaining \in Int /\ ChunkBytes(Current) \in Nat
      /\ Remaining = ChunkBytes(Current) - inPos
  <2>1. blockChunkLength > 0
    BY <1>2, <1>3
  <2>2. Pipe # <<>> /\ inPos >= HEADERLENGTH /\ blockChunkLength <= Remaining
    BY <1>1, <2>1 DEF FramingInv, ReadsStayInChunk, BlockReadsOwnChunk
  <2> QED
    BY <1>1, <2>2, RemainingFacts
<1>5. /\ wire' \in Seq(ChunkType) /\ inPos' \in Nat
      /\ SendPosition' /\ ReceivePosition'
      /\ k <= Remaining
      /\ IF k = Remaining THEN Pipe' = Tail(Pipe) /\ inPos' = 0
         ELSE Pipe' = Pipe /\ inPos' = inPos + k
  BY <1>1, ConsumeFacts
<1>6. Payload(k) \in Seq(Byte) /\ Len(Payload(k)) = k
  BY <1>4, <1>5, PayloadFacts
<1>7. data \in Seq(Byte) /\ Len(data) = Len(blockEvent.data) + k
  BY <1>2, <1>6, ConcatType
<1>8. Len(data) <= blockEvent.size
  <2> HIDE DEF data, readSize
  <2> QED
    BY <1>2, <1>3, <1>7 DEF BlockRoom
<1>9. StreamReadsOwnChunk'
  BY <1>1 DEF StreamReadsOwnChunk
<1> HIDE DEF data
<1>10. CASE k = readSize
  <2>1. BlockChunkComplete(data)
    BY <1>10 DEF BlockReadPart, data
  <2>2. /\ blockEvent' \in EventType /\ delivered' \in Seq(Message)
        /\ blockChunkLength' = 0 /\ blockChunkLength' \in 0 .. UInt16 - 1
        /\ blockEvent' # NoEvent => BlockRoom' >= 0
    BY <1>1, <1>7, <1>8, <2>1, BlockChunkCompleteType
  <2>3. TypeOK'
    <3>1. UNCHANGED <<sndVars, writeBufferList, readPos, sndStatus, sent, rcvStatus,
                      desync, link, hdrPos, streamEvent, nowChunkNum>>
      BY DEF BlockReadPart, RunReadFrame
    <3> QED
      BY <1>1, <1>5, <2>2, <3>1 DEF TypeOK, sndVars
  <2>4. BlockReadsOwnChunk'
    BY <2>2 DEF BlockReadsOwnChunk
  <2> QED
    BY <1>5, <1>9, <2>3, <2>4 DEF FramingInv, ReadsStayInChunk
<1>11. CASE k # readSize
  <2>1. /\ blockEvent' = [blockEvent EXCEPT !.data = data]
        /\ blockChunkLength' = readSize - k /\ delivered' = delivered
    BY <1>11 DEF BlockReadPart, data
  <2>2. /\ blockEvent' \in EventRecord
        /\ blockEvent'.size = blockEvent.size /\ blockEvent'.data = data
    BY <1>1, <1>7, <2>1 DEF EventRecord
  <2> HIDE DEF readSize
  <2>3. blockChunkLength' \in 0 .. UInt16 - 1 /\ blockChunkLength' < blockChunkLength
    BY <1>1, <1>3, <2>1
  <2>4. TypeOK'
    BY <1>1, <1>5, <2>1, <2>2, <2>3, EventFacts
       DEF BlockReadPart, TypeOK, RunReadFrame, sndVars
  <2>5. k < readSize
    BY <1>3, <1>11
  <2>6. k # Remaining /\ Pipe' = Pipe /\ inPos' = inPos + k
    BY <1>2, <1>3, <1>4, <1>5, <2>5
  <2>7. ChunkBytes(Current)' = ChunkBytes(Current)
    BY <2>6 DEF Current, ChunkBytes
  <2>8. Remaining' = Remaining - k /\ inPos' >= HEADERLENGTH /\ Pipe' # <<>>
    BY <1>4, <2>6, <2>7 DEF Remaining
  <2>9. BlockRoom' >= 0
    BY <1>2, <1>7, <1>8, <2>2 DEF BlockRoom
  <2>10. blockChunkLength' <= Remaining'
    BY <1>2, <1>3, <1>4, <2>1, <2>8
  <2>11. blockEvent' # NoEvent
    BY <2>2, EventFacts
  <2>12. BlockReadsOwnChunk'
    BY <2>8, <2>9, <2>10, <2>11 DEF BlockReadsOwnChunk
  <2> QED
    BY <1>5, <1>9, <2>4, <2>12 DEF FramingInv, ReadsStayInChunk
<1> QED
  BY <1>10, <1>11

\* In the header part nothing is wanted for a stream or a block, and the bytes
\* of a header end within its chunk.
LEMMA HeaderPartFacts ==
  ASSUME FramingInv, NEW k \in Nat \ {0}, ChunkHeaderReadPart(k)
  PROVE  /\ Pipe # <<>> /\ Current \in ChunkType
         /\ streamEvent = NoEvent /\ blockChunkLength = 0
         /\ wire' \in Seq(ChunkType) /\ inPos' \in Nat
         /\ SendPosition' /\ ReceivePosition'
         /\ hdrPos + k \in Nat /\ hdrPos + k <= HEADERLENGTH
         /\ IF hdrPos + k < HEADERLENGTH \/ Len(Current.body) > 0
            THEN Pipe' = Pipe /\ inPos' = hdrPos + k
            ELSE Pipe' = Tail(Pipe) /\ inPos' = 0
<1>1. /\ TypeOK /\ SendPosition /\ ReceivePosition
      /\ hdrPos \in Nat /\ hdrPos < HEADERLENGTH /\ inPos = hdrPos
      /\ k <= HEADERLENGTH - hdrPos /\ k <= Available /\ Consume(k)
      /\ UNCHANGED <<writeBufferList, readPos>>
  <2>1. hdrPos \in 0 .. HEADERLENGTH - 1
    BY DEF FramingInv, TypeOK
  <2>2. hdrPos \in Nat /\ hdrPos < HEADERLENGTH
    BY <2>1
  <2> QED
    BY <2>2 DEF FramingInv, ReadsStayInChunk, ChunkHeaderReadPart, RunReadFrame
<1>2. streamEvent = NoEvent /\ blockChunkLength = 0
  <2>1. blockChunkLength \in Nat
    BY <1>1 DEF TypeOK
  <2> QED
    BY <2>1 DEF FramingInv, ReadsStayInChunk, BlockReadsOwnChunk,
       ChunkHeaderReadPart, InHeaderPart, InStreamPart, InBlockPart
<1>3. /\ wire' \in Seq(ChunkType) /\ inPos' \in Nat
      /\ SendPosition' /\ ReceivePosition'
      /\ k <= Remaining
      /\ IF k = Remaining THEN Pipe' = Tail(Pipe) /\ inPos' = 0
         ELSE Pipe' = Pipe /\ inPos' = inPos + k
  BY <1>1, ConsumeFacts
<1>4. Pipe # <<>>
  <2>1. Available \in Int
    BY <1>1, AvailableType
  <2> QED
    BY <1>1, <2>1, AvailableFacts
<1>5. /\ Current \in ChunkType /\ Len(Current.body) \in Nat
      /\ ChunkBytes(Current) = HEADERLENGTH + Len(Current.body)
      /\ Remaining = ChunkBytes(Current) - inPos
  BY <1>1, <1>4, CurrentFacts, RemainingFacts
<1>6. k = Remaining <=> hdrPos + k = HEADERLENGTH /\ Len(Current.body) = 0
  BY <1>1, <1>5
<1> QED
  BY <1>1, <1>2, <1>3, <1>4, <1>5, <1>6

LEMMA ChunkHeaderReadPartKeepsFraming ==
  ASSUME FramingInv, NEW k \in Nat \ {0}, ChunkHeaderReadPart(k)
  PROVE  FramingInv'
<1> DEFINE h == Current
<1>1. /\ Pipe # <<>> /\ h \in ChunkType
      /\ streamEvent = NoEvent /\ blockChunkLength = 0
      /\ wire' \in Seq(ChunkType) /\ inPos' \in Nat
      /\ SendPosition' /\ ReceivePosition'
      /\ hdrPos + k \in Nat /\ hdrPos + k <= HEADERLENGTH
      /\ IF hdrPos + k < HEADERLENGTH \/ Len(h.body) > 0
         THEN Pipe' = Pipe /\ inPos' = hdrPos + k
         ELSE Pipe' = Tail(Pipe) /\ inPos' = 0
  BY HeaderPartFacts
<1>2. /\ TypeOK /\ blockEvent \in EventType
      /\ UNCHANGED <<sndVars, writeBufferList, readPos, sndStatus, sent, desync,
                     delivered>>
  BY DEF FramingInv, TypeOK, ChunkHeaderReadPart, RunReadFrame
<1>3. /\ h.num \in 0 .. UInt8 - 1 /\ h.length \in 0 .. UInt16 - 1
      /\ h.length <= Len(h.body) /\ Len(h.body) \in Nat /\ h.channel \in Channels
      /\ ChunkBytes(h) = HEADERLENGTH + Len(h.body)
  BY <1>1, ChunkBytesFacts
<1>4. CASE hdrPos + k < HEADERLENGTH
  <2>1. /\ hdrPos' = hdrPos + k
        /\ UNCHANGED <<rcvStatus, link, streamEvent, blockEvent, blockChunkLength,
                       nowChunkNum>>
    BY <1>4 DEF ChunkHeaderReadPart
  <2>2. hdrPos' \in 0 .. HEADERLENGTH - 1
    BY <1>1, <1>4, <2>1
  <2>3. TypeOK'
    BY <1>1, <1>2, <2>1, <2>2 DEF TypeOK, sndVars
  <2>4. StreamReadsOwnChunk' /\ BlockReadsOwnChunk'
    BY <1>1, <1>2, <2>1 DEF FramingInv, ReadsStayInChunk, StreamReadsOwnChunk,
       BlockReadsOwnChunk, Reading, BlockRoom
  <2> QED
    BY <1>1, <2>3, <2>4 DEF FramingInv, ReadsStayInChunk
<1>5. CASE ~(hdrPos + k < HEADERLENGTH)
  <2>1. hdrPos' = 0 /\ ReceiveHeader(h) /\ hdrPos + k = HEADERLENGTH
    BY <1>1, <1>5 DEF ChunkHeaderReadPart
  <2>2. hdrPos' \in 0 .. HEADERLENGTH - 1
    BY <2>1
  <2>3. h.length > 0 => /\ Pipe' # <<>> /\ inPos' >= HEADERLENGTH
                        /\ h.length <= Remaining'
    <3>1. SUFFICES ASSUME h.length > 0
                   PROVE  /\ Pipe' # <<>> /\ inPos' >= HEADERLENGTH
                          /\ h.length <= Remaining'
      OBVIOUS
    <3>2. Len(h.body) > 0
      BY <1>3, <3>1
    <3>3. Pipe' = Pipe /\ inPos' = HEADERLENGTH
      BY <1>1, <2>1, <3>2
    <3>4. Remaining' = ChunkBytes(h) - HEADERLENGTH
      BY <3>3 DEF Remaining, Current, ChunkBytes
    <3> QED
      BY <1>1, <1>3, <3>3, <3>4
  <2> HIDE DEF h
  <2>4. CASE ReceiveStreamHeader(h)
    <3>1. /\ streamEvent' = Event(h.channel, h.length)
          /\ UNCHANGED <<rcvStatus, link, blockEvent, blockChunkLength, nowChunkNum>>
      BY <2>4 DEF ReceiveStreamHeader
    <3>2. /\ streamEvent' \in EventRecord
          /\ streamEvent'.size = h.length /\ streamEvent'.data = <<>>
      BY <1>3, <3>1 DEF Event, EventRecord
    <3>3. TypeOK'
      BY <1>1, <1>2, <2>2, <3>1, <3>2, EventFacts DEF TypeOK, sndVars
    <3>4. StreamReadsOwnChunk'
      BY <1>1, <1>3, <2>3, <3>1, <3>2 DEF StreamReadsOwnChunk
    <3>5. BlockReadsOwnChunk'
      BY <1>1, <1>2, <3>1 DEF FramingInv, ReadsStayInChunk, BlockReadsOwnChunk,
         Reading, BlockRoom
    <3> QED
      BY <1>1, <3>3, <3>4, <3>5 DEF FramingInv, ReadsStayInChunk
  <2>5. CASE ReceiveBlockHeader(h)
    <3>1. /\ blockEvent' = IF blockEvent # NoEvent THEN blockEvent
                           ELSE Event(h.channel, h.length * h.num)
          /\ blockChunkLength' = h.length /\ nowChunkNum' = h.num
          /\ UNCHANGED <<rcvStatus, link, streamEvent>>
      BY <2>5 DEF ReceiveBlockHeader
    <3>2. /\ blockEvent' \in EventRecord
          /\ Reading' => BlockRoom' >= 0
      <4>1. CASE blockEvent # NoEvent
        <5>1. blockEvent' = blockEvent
          BY <3>1, <4>1
        <5>2. Reading' => BlockRoom >= 0
          BY <1>2, <3>1, <4>1 DEF FramingInv, ReadsStayInChunk, BlockReadsOwnChunk,
             Reading
        <5> QED
          BY <1>2, <4>1, <5>1, <5>2, EventFacts DEF BlockRoom
      <4>2. CASE blockEvent = NoEvent
        <5>1. h.length * h.num \in Nat
          BY <1>3
        <5>2. blockEvent' = [channel |-> h.channel, size |-> h.length * h.num, data |-> <<>>]
          BY <3>1, <4>2 DEF Event
        <5>3. blockEvent' \in EventRecord
          BY <1>3, <5>1, <5>2 DEF EventRecord
        <5> QED
          BY <5>1, <5>2, <5>3 DEF BlockRoom
      <4> QED
        BY <4>1, <4>2
    <3>3. TypeOK'
      BY <1>1, <1>2, <1>3, <2>2, <3>1, <3>2, EventFacts DEF TypeOK, sndVars
    <3>4. StreamReadsOwnChunk'
      BY <1>1, <3>1 DEF StreamReadsOwnChunk
    <3>5. BlockReadsOwnChunk'
      BY <1>3, <2>3, <3>1, <3>2, EventFacts DEF BlockReadsOwnChunk
    <3> QED
      BY <1>1, <3>3, <3>4, <3>5 DEF FramingInv, ReadsStayInChunk
  <2>6. CASE RefuseBlockHeader(h)
    <3>1. /\ rcvStatus' = "STATUS_DISCONNECTED" /\ link' = FALSE
          /\ UNCHANGED <<streamEvent, blockEvent, blockChunkLength, nowChunkNum>>
      BY <2>6 DEF RefuseBlockHeader
    <3>2. TypeOK'
      BY <1>1, <1>2, <2>2, <3>1 DEF TypeOK, sndVars, Status
    <3>3. StreamReadsOwnChunk' /\ BlockReadsOwnChunk'
      BY <3>1 DEF StreamReadsOwnChunk, BlockReadsOwnChunk, Reading
    <3> QED
      BY <1>1, <3>2, <3>3 DEF FramingInv, ReadsStayInChunk
  <2> QED
    BY <2>1, <2>4, <2>5, <2>6 DEF ReceiveHeader
<1> QED
  BY <1>4, <1>5

\* The steps that end the reading.
LEMMA RunReadErrorKeepsFraming ==
  ASSUME FramingInv, RunReadError \/ LoseFraming
  PROVE  FramingInv'
<1>1. CASE RunReadError
  <2>1. streamEvent' \in EventType /\ blockEvent' \in EventType
    BY <1>1, EventFacts DEF FramingInv, TypeOK, RunReadError
  <2>2. TypeOK'
    BY <1>1, <2>1 DEF FramingInv, TypeOK, RunReadError, RunReadFrame, sndVars,
       netVars, Status
  <2>3. SendPosition' /\ ReceivePosition'
    BY <1>1 DEF RunReadError, FramingInv, ReadsStayInChunk, SendPosition,
       ReceivePosition, RunReadFrame, netVars, Pipe, Current, ChunkBytes
  <2>4. StreamReadsOwnChunk' /\ BlockReadsOwnChunk'
    BY <1>1 DEF RunReadError, StreamReadsOwnChunk, BlockReadsOwnChunk, Reading
  <2> QED
    BY <2>2, <2>3, <2>4 DEF FramingInv, ReadsStayInChunk
<1>2. CASE LoseFraming
  <2>1. TypeOK'
    BY <1>2 DEF FramingInv, TypeOK, LoseFraming, RunReadFrame, sndVars, netVars,
       rcvVars
  <2>2. SendPosition' /\ ReceivePosition'
    BY <1>2 DEF LoseFraming, FramingInv, ReadsStayInChunk, SendPosition,
       ReceivePosition, RunReadFrame, netVars, Pipe, Current, ChunkBytes
  <2>3. StreamReadsOwnChunk' /\ BlockReadsOwnChunk'
    BY <1>2 DEF LoseFraming, StreamReadsOwnChunk, BlockReadsOwnChunk, Reading
  <2> QED
    BY <2>1, <2>2, <2>3 DEF FramingInv, ReadsStayInChunk
<1> QED
  BY <1>1, <1>2

-----------------------------------------------------------------------------

LEMMA FramingNext ==
  ASSUME FramingInv, [Next]_vars
  PROVE  FramingInv'
<1>1. CASE Application
  <2>1. CASE \E c \in Channels : BlockRefused(c)
    <3>1. TypeOK'
      BY <2>1 DEF FramingInv, TypeOK, BlockRefused, netVars, rcvVars
    <3>2. ReadsStayInChunk'
      BY <2>1, CursorsUnchanged DEF FramingInv, BlockRefused, netVars
    <3> QED
      BY <3>1, <3>2 DEF FramingInv
  <2>2. CASE \E c \in Channels : \E d \in BlockData : BlockWrite(c, d)
    BY <2>2, BlockWriteKeepsFraming
  <2>3. CASE \E c \in Channels : BlockCommit(c)
    BY <2>3, BlockCommitKeepsFraming
  <2>4. CASE \E c \in Channels : \E d \in StreamData : StreamWrite(c, d)
    BY <2>4, StreamWriteKeepsFraming
  <2>5. CASE CommitChunk
    BY <2>5, CommitChunkKeepsFraming
  <2> QED
    BY <1>1, <2>1, <2>2, <2>3, <2>4, <2>5 DEF Application
<1>2. CASE \E k \in 1 .. MaxChunkBytes : RunWrite(k)
  BY <1>2, RunWriteKeepsFraming
<1>3. CASE RunWriteError
  <2>1. TypeOK'
    BY <1>3 DEF FramingInv, TypeOK, RunWriteError, sndVars, netVars, rcvVars, Status
  <2>2. ReadsStayInChunk'
    BY <1>3, CursorsUnchanged DEF FramingInv, RunWriteError, netVars
  <2> QED
    BY <2>1, <2>2 DEF FramingInv
<1>4. CASE NetworkReset
  <2>1. TypeOK'
    BY <1>4 DEF FramingInv, TypeOK, NetworkReset, sndVars, rcvVars
  <2>2. ReadsStayInChunk'
    BY <1>4, CursorsUnchanged DEF FramingInv, NetworkReset
  <2> QED
    BY <2>1, <2>2 DEF FramingInv
<1>5. CASE RunRead
  <2>1. CASE StreamReadFull
    BY <2>1, StreamReadFullKeepsFraming
  <2>2. CASE BlockReadFull
    BY <2>2, BlockReadFullKeepsFraming
  <2>3. CASE \E k \in 1 .. MaxChunkBytes : StreamReadPart(k)
    BY <2>3, StreamReadPartKeepsFraming
  <2>4. CASE \E k \in 1 .. MaxChunkBytes : BlockReadPart(k)
    BY <2>4, BlockReadPartKeepsFraming
  <2>5. CASE \E k \in 1 .. MaxChunkBytes : ChunkHeaderReadPart(k)
    BY <2>5, ChunkHeaderReadPartKeepsFraming
  <2>6. CASE RunReadError \/ LoseFraming
    BY <2>6, RunReadErrorKeepsFraming
  <2> QED
    BY <1>5, <2>1, <2>2, <2>3, <2>4, <2>5, <2>6 DEF RunRead
<1>6. CASE UNCHANGED vars
  <2>1. TypeOK'
    BY <1>6 DEF FramingInv, TypeOK, vars
  <2>2. ReadsStayInChunk'
    BY <1>6, CursorsUnchanged DEF FramingInv, vars, rcvVars
  <2> QED
    BY <2>1, <2>2 DEF FramingInv
<1> QED
  BY <1>1, <1>2, <1>3, <1>4, <1>5, <1>6 DEF Next

\* The types hold, and no recv() for payload reaches into the next chunk
\* (Connection::RunRead, StaticBuffer::ReadFromSocket), for all constants and
\* whatever the application writes.
THEOREM TypeCorrect == Spec => []TypeOK
<1>1. FramingInv => TypeOK
  BY DEF FramingInv
<1> QED
  BY <1>1, FramingInit, FramingNext, PTL DEF Spec

\* The receiver's cursors stay within the chunk whose header was read.
THEOREM ReadsAreFramed == Spec => []ReadsStayInChunk
<1>1. FramingInv => ReadsStayInChunk
  BY DEF FramingInv
<1> QED
  BY <1>1, FramingInit, FramingNext, PTL DEF Spec
-----------------------------------------------------------------------------
(* The order of the messages.  Every chunk on its way carries, as an         *)
(* auxiliary field, where the message stream was when it was queued (at).    *)
(* The chunks form a chain: what a chunk leads to is where the next one      *)
(* starts, and the last leads to where the sender is.  The receiver is       *)
(* always at a place of that chain, and its events say how far it has come.  *)
(* That is the inductive invariant; it holds for as long as all messages fit *)
(* the fields of their headers.                                              *)

\* Where the message stream is after a chunk.
After(chunk) ==
  IF chunk.num = 0 THEN [chunk.at EXCEPT !.msg = @ + 1]
  ELSE IF chunk.num = 1 THEN Stamp(chunk.at.msg + 1, NULL, 0, <<>>)
  ELSE Stamp(chunk.at.msg, chunk.channel, chunk.num - 1,
             chunk.at.part \o chunk.body)

\* The stamp of the chunk the receiver is in, and of the one behind chunk i.
Front == IF Pipe = <<>> THEN SenderStamp ELSE Pipe[1].at
Behind(i) == IF i = Len(Pipe) THEN SenderStamp ELSE Pipe[i + 1].at

\* A queue holds a block in full chunks but for the last.
Packed(q) == IF q.bufs = 0 THEN q.data = <<>> ELSE Fill(q.bufs, Len(q.data))

\* The queues are packed, and a block under way is what of it was queued with
\* what is left.
SenderInv ==
  /\ \A c \in DOMAIN channelWriteQueue : Packed(channelWriteQueue[c])
  /\ commit # NoCommit =>
       LET data == channelWriteQueue[commit.channel].data
       IN  /\ commit.block = commit.part \o data
           /\ commit.part # <<>> => data # <<>>

\* What a chunk that fits its header says of the message it belongs to.
StampFits(at) ==
  /\ at.msg <= Len(sent) + 1
  /\ IF at.left = 0 THEN at.channel = NULL /\ at.part = <<>>
     ELSE at.channel \in Channels

\* A stream chunk carries the message it is stamped with; the last chunk of a
\* block completes the message, and the others are full.
StreamChunkFits(chunk) ==
  /\ chunk.at.msg <= Len(sent)
  /\ sent[chunk.at.msg] = StreamMessage(chunk.channel, chunk.body)

BlockChunkFits(chunk) ==
  /\ chunk.at.left \in {0, chunk.num}
  /\ chunk.at.left # 0 => /\ chunk.at.channel = chunk.channel
                          /\ Len(chunk.body) <= Capacity
  /\ IF chunk.num = 1
     THEN /\ chunk.at.msg <= Len(sent)
          /\ sent[chunk.at.msg] = BlockMessage(chunk.channel, chunk.at.part \o chunk.body)
     ELSE Len(chunk.body) = Capacity

ChunkFits(chunk) ==
  /\ 0 < Len(chunk.body) /\ chunk.length = Len(chunk.body)
  /\ StampFits(chunk.at)
  /\ IF chunk.num = 0 THEN StreamChunkFits(chunk) ELSE BlockChunkFits(chunk)

\* Every chunk fits, and leads to where the one behind it starts.
ChainInv == \A i \in 1 .. Len(Pipe) : /\ ChunkFits(Pipe[i])
                                      /\ After(Pipe[i]) = Behind(i)

\* The block event of a receiver that has come as far as stamp at says.
BlockAt(at) ==
  IF at.left = 0 THEN NoEvent
  ELSE [channel |-> at.channel, size |-> Len(at.part) + at.left * Capacity,
        data |-> at.part]

\* The size it has while a chunk of the block is read.
BlockSize(chunk) ==
  IF chunk.num = 1 /\ chunk.at.left = 0 THEN Len(chunk.body)
  ELSE Len(chunk.at.part) + chunk.num * Capacity

\* What has been received of the current chunk's payload.
Got == SubSeq(Current.body, 1, inPos - HEADERLENGTH)

\* The three places RunRead can be at: in a header, in the payload of a stream
\* chunk, in the payload of a block chunk.
AtHeader ==
  /\ streamEvent = NoEvent /\ blockChunkLength = 0
  /\ inPos = hdrPos
  /\ blockEvent = BlockAt(Front)

InPayload == Pipe # <<>> /\ inPos >= HEADERLENGTH /\ hdrPos = 0

InStream ==
  /\ InPayload /\ Current.num = 0
  /\ streamEvent = [channel |-> Current.channel, size |-> Len(Current.body), data |-> Got]
  /\ blockChunkLength = 0
  /\ blockEvent = BlockAt(Current.at)

InBlock ==
  /\ InPayload /\ Current.num # 0
  /\ streamEvent = NoEvent
  /\ blockEvent = [channel |-> Current.channel, size |-> BlockSize(Current),
                   data |-> Current.at.part \o Got]
  /\ blockChunkLength = Remaining
  /\ nowChunkNum = Current.num

\* The receiver is where the chain starts, and delivered what comes before.
ReceiverInv ==
  rcvStatus = "STATUS_CONNECTED" =>
    /\ Front.msg = Len(delivered) + 1
    /\ AtHeader \/ InStream \/ InBlock

DeliveredPrefix ==
  /\ Len(delivered) <= Len(sent)
  /\ \A i \in 1 .. Len(delivered) : delivered[i] = sent[i]

OrderInv == ~desync /\ DeliveredPrefix /\ ChainInv /\ ReceiverInv

\* The inductive invariant.
IInv == FramingInv /\ SenderInv /\ (AllFit => OrderInv)
-----------------------------------------------------------------------------
(* The chain of the chunks under way. *)

LEMMA FrontFacts ==
  ASSUME FramingInv, ChainInv, Pipe # <<>>
  PROVE  /\ Current = Pipe[1] /\ Front = Current.at
         /\ ChunkFits(Current) /\ Current \in ChunkType
         /\ After(Current) = Behind(1)
<1>1. Pipe \in Seq(ChunkType)
  BY CurrentFacts DEF FramingInv
<1>2. Current = Pipe[1] /\ 1 \in 1 .. Len(Pipe) /\ Current \in ChunkType
  BY <1>1 DEF Current
<1>3. Front = Current.at
  BY <1>2 DEF Front
<1> QED
  BY <1>2, <1>3 DEF ChainInv

\* A step that leaves the bytes under way and the sender's place in the stream.
LEMMA ChainUnchanged ==
  ASSUME ChainInv, Pipe' = Pipe, sent' = sent, SenderStamp' = SenderStamp
  PROVE  ChainInv' /\ Front' = Front
<1>1. Front' = Front
  BY DEF Front
<1>2. \A i : Behind(i)' = Behind(i)
  BY DEF Behind
<1>3. \A c : ChunkFits(c)' = ChunkFits(c)
  BY DEF ChunkFits, StampFits, StreamChunkFits, BlockChunkFits
<1>4. \A c : After(c)' = After(c)
  BY DEF After
<1> QED
  BY <1>1, <1>2, <1>3, <1>4 DEF ChainInv

\* What fits goes on to fit when more messages are sent.
LEMMA ChunkFitsForEver ==
  ASSUME NEW chunk \in ChunkType, ChunkFits(chunk),
         sent \in Seq(Message), sent' \in Seq(Message),
         Len(sent) <= Len(sent'),
         \A i \in 1 .. Len(sent) : sent'[i] = sent[i]
  PROVE  ChunkFits(chunk)'
<1>1. /\ chunk.at.msg \in Nat \ {0} /\ chunk.num \in Nat
      /\ Len(sent) \in Nat /\ Len(sent') \in Nat
  BY DEF ChunkType, ChunkRecord
<1>2. StampFits(chunk.at)'
  BY <1>1 DEF ChunkFits, StampFits
<1>3. chunk.num = 0 => StreamChunkFits(chunk)'
  BY <1>1 DEF ChunkFits, StreamChunkFits
<1>4. chunk.num # 0 => BlockChunkFits(chunk)'
  BY <1>1 DEF ChunkFits, BlockChunkFits
<1> QED
  BY <1>2, <1>3, <1>4 DEF ChunkFits

\* The sender queues a chunk that says where the stream was, and goes on to
\* where the chunk leads.
LEMMA ChainGrows ==
  ASSUME FramingInv, ChainInv, NEW chunk \in ChunkType,
         Pipe' = Append(Pipe, chunk),
         chunk.at = SenderStamp, After(chunk) = SenderStamp',
         ChunkFits(chunk)', sent' \in Seq(Message), Len(sent) <= Len(sent'),
         \A i \in 1 .. Len(sent) : sent'[i] = sent[i]
  PROVE  /\ ChainInv' /\ Front' = Front
         /\ Pipe # <<>> => Pipe' # <<>> /\ Current' = Current
<1>1. Pipe \in Seq(ChunkType) /\ sent \in Seq(Message)
  BY CurrentFacts DEF FramingInv, TypeOK
<1>2. /\ Len(Pipe) \in Nat /\ Len(Pipe') = Len(Pipe) + 1 /\ Pipe' # <<>>
      /\ \A i \in 1 .. Len(Pipe) : Pipe'[i] = Pipe[i] /\ Pipe[i] \in ChunkType
      /\ Pipe'[Len(Pipe) + 1] = chunk
  BY <1>1, AppendProperties, LenProperties, ElementOfSeq
<1>3. Front' = Front
  <2>1. CASE Pipe = <<>>
    <3>1. Len(Pipe) = 0
      BY <2>1
    <3> QED
      BY <1>2, <2>1, <3>1 DEF Front
  <2>2. CASE Pipe # <<>>
    <3>1. 1 \in 1 .. Len(Pipe)
      BY <1>1, <2>2
    <3> QED
      BY <1>2, <2>2, <3>1 DEF Front
  <2> QED
    BY <2>1, <2>2
<1>4. ASSUME NEW i \in 1 .. Len(Pipe')
      PROVE  (ChunkFits(Pipe[i]) /\ After(Pipe[i]) = Behind(i))'
  <2>1. CASE i = Len(Pipe')
    <3>1. Pipe'[i] = chunk
      BY <1>2, <2>1
    <3>2. Behind(i)' = SenderStamp'
      BY <2>1 DEF Behind
    <3>3. After(Pipe[i])' = After(chunk)
      BY <3>1 DEF After
    <3>4. ChunkFits(Pipe[i])'
      BY <3>1 DEF ChunkFits, StampFits, StreamChunkFits, BlockChunkFits
    <3> QED
      BY <3>2, <3>3, <3>4
  <2>2. CASE i # Len(Pipe')
    <3>1. i \in 1 .. Len(Pipe)
      BY <1>2, <2>2
    <3> PICK c \in ChunkType : c = Pipe[i] /\ c = Pipe'[i]
      BY <1>2, <3>1
    <3>2. ChunkFits(c) /\ After(c) = Behind(i)
      BY <3>1 DEF ChainInv
    <3>3. ChunkFits(c)'
      BY <1>1, <3>1, <3>2, ChunkFitsForEver
    <3>4. Behind(i)' = Behind(i)
      <4>1. CASE i = Len(Pipe)
        <5>1. i + 1 = Len(Pipe) + 1 /\ i # Len(Pipe')
          BY <1>2, <4>1
        <5>2. Behind(i) = SenderStamp
          BY <4>1 DEF Behind
        <5>3. Behind(i)' = Pipe'[i + 1].at
          BY <5>1 DEF Behind
        <5> QED
          BY <1>2, <5>1, <5>2, <5>3
      <4>2. CASE i # Len(Pipe)
        <5>1. i + 1 \in 1 .. Len(Pipe) /\ i # Len(Pipe')
          BY <1>2, <3>1, <4>2
        <5> QED
          BY <1>2, <4>2, <5>1 DEF Behind
      <4> QED
        BY <4>1, <4>2
    <3>5. After(Pipe[i])' = After(c)
      BY DEF After
    <3>6. ChunkFits(Pipe[i])'
      BY <3>3 DEF ChunkFits, StampFits, StreamChunkFits, BlockChunkFits
    <3> QED
      BY <3>2, <3>4, <3>5, <3>6
  <2> QED
    BY <2>1, <2>2
<1>5. ChainInv'
  BY <1>4 DEF ChainInv
<1>6. Pipe # <<>> => Current' = Current
  BY <1>1, <1>2 DEF Current
<1> QED
  BY <1>2, <1>3, <1>5, <1>6

\* The receiver has taken the first chunk.
LEMMA ChainAdvances ==
  ASSUME FramingInv, ChainInv, Pipe # <<>>, Pipe' = Tail(Pipe),
         sent' = sent, SenderStamp' = SenderStamp
  PROVE  ChainInv' /\ Front' = After(Current)
<1>1. Pipe \in Seq(ChunkType)
  BY CurrentFacts DEF FramingInv
<1>2. /\ Len(Pipe) \in Nat \ {0} /\ Len(Pipe') = Len(Pipe) - 1
      /\ Len(Pipe') \in Nat
      /\ \A i \in 1 .. Len(Pipe') : Pipe'[i] = Pipe[i + 1]
      /\ Len(Pipe') = 0 <=> Pipe' = <<>>
  <2>1. Pipe' \in Seq(ChunkType) /\ Len(Pipe) \in Nat \ {0}
    BY <1>1, HeadTailProperties, EmptySeq
  <2>2. /\ Len(Pipe') = Len(Pipe) - 1
        /\ \A i \in 1 .. Len(Pipe') : Pipe'[i] = Pipe[i + 1]
    BY <1>1, HeadTailProperties
  <2>3. Len(Pipe') \in Nat /\ (Len(Pipe') = 0 <=> Pipe' = <<>>)
    BY <2>1, EmptySeq, LenProperties
  <2> QED
    BY <2>1, <2>2, <2>3
<1>3. Front' = After(Current)
  <2>1. After(Current) = Behind(1)
    BY FrontFacts
  <2>2. CASE Pipe' = <<>>
    BY <1>2, <2>1, <2>2 DEF Front, Behind
  <2>3. CASE Pipe' # <<>>
    BY <1>2, <2>1, <2>3 DEF Front, Behind
  <2> QED
    BY <2>2, <2>3
<1>4. ASSUME NEW i \in 1 .. Len(Pipe')
      PROVE  (ChunkFits(Pipe[i]) /\ After(Pipe[i]) = Behind(i))'
  <2>1. i + 1 \in 1 .. Len(Pipe)
    BY <1>2
  <2> PICK c : c = Pipe[i + 1] /\ c = Pipe'[i]
    BY <1>2
  <2>2. ChunkFits(c) /\ After(c) = Behind(i + 1)
    BY <2>1 DEF ChainInv
  <2>3. Behind(i)' = Behind(i + 1)
    <3>1. i = Len(Pipe') <=> i + 1 = Len(Pipe)
      BY <1>2
    <3>2. ASSUME i # Len(Pipe')
          PROVE  i + 1 \in 1 .. Len(Pipe')
      <4>1. Len(Pipe') \in Nat /\ i \in 1 .. Len(Pipe')
        BY <1>2
      <4> QED
        BY <3>2, <4>1
    <3> QED
      BY <1>2, <3>1, <3>2 DEF Behind
  <2>4. After(Pipe[i])' = After(c)
    BY DEF After
  <2>5. ChunkFits(Pipe[i])'
    BY <2>2 DEF ChunkFits, StampFits, StreamChunkFits, BlockChunkFits
  <2> QED
    BY <2>2, <2>3, <2>4, <2>5
<1> QED
  BY <1>3, <1>4 DEF ChainInv

\* The receiver does nothing, and what it is in is still there.
LEMMA ReceiverUnchanged ==
  ASSUME ReceiverInv, Front' = Front, inPos' = inPos, rcvStatus' = rcvStatus,
         delivered' = delivered, UNCHANGED rcvVars,
         Pipe # <<>> => Pipe' # <<>> /\ Current' = Current
  PROVE  ReceiverInv'
<1> SUFFICES ASSUME rcvStatus = "STATUS_CONNECTED"
             PROVE  ReceiverInv'
  BY DEF ReceiverInv
<1>1. Front'.msg = Len(delivered') + 1
  BY DEF ReceiverInv
<1>2. CASE AtHeader
  <2>1. AtHeader'
    BY <1>2 DEF AtHeader, rcvVars, BlockAt
  <2> QED
    BY <1>1, <2>1 DEF ReceiverInv
<1>3. CASE InStream
  <2>1. InStream'
    BY <1>3 DEF InStream, InPayload, rcvVars, BlockAt, Got
  <2> QED
    BY <1>1, <2>1 DEF ReceiverInv
<1>4. CASE InBlock
  <2>1. InBlock'
    BY <1>4 DEF InBlock, InPayload, rcvVars, BlockSize, Got, Remaining, ChunkBytes
  <2> QED
    BY <1>1, <2>1 DEF ReceiverInv
<1> QED
  BY <1>2, <1>3, <1>4 DEF ReceiverInv

-----------------------------------------------------------------------------
(* The sender. *)

\* Numbers of buffers compare as the bytes that fill them.
LEMMA ProductLess ==
  ASSUME NEW a \in Int, NEW b \in Int, NEW c \in Nat \ {0}, a * c < b * c
  PROVE  a < b
<1> SUFFICES ASSUME b <= a PROVE FALSE
  OBVIOUS
<1>1. (a - b) * c >= 0
  OBVIOUS
<1>2. (a - b) * c = a * c - b * c
  OBVIOUS
<1> QED
  BY <1>1, <1>2

\* A block that fits has fewer chunks than the header's number can tell.
LEMMA FewBuffers ==
  ASSUME NEW bufs \in Nat \ {0}, NEW n \in Nat \ {0}, Fill(bufs, n),
         n <= (UInt8 - 1) * Capacity
  PROVE  bufs < UInt8
<1>1. CASE bufs = 1
  <2>1. UInt8 # 1
    OBVIOUS
  <2> QED
    BY <1>1, <2>1
<1>2. CASE bufs > 1
  <2>1. (bufs - 1) * Capacity \in Int /\ (UInt8 - 1) * Capacity \in Int
    OBVIOUS
  <2>2. (bufs - 1) * Capacity < (UInt8 - 1) * Capacity
    BY <1>2, <2>1 DEF Fill
  <2>3. bufs - 1 < UInt8 - 1
    BY <2>2, ProductLess
  <2> QED
    BY <2>3
<1> QED
  BY <1>1, <1>2

\* The first buffer is full or the last, and the others stay as they were.
LEMMA FirstBuffer ==
  ASSUME NEW bufs \in Nat \ {0}, NEW len \in Nat, Fill(bufs, len)
  PROVE  /\ bufs = 1 => Lesser(Capacity, len) = len
         /\ bufs # 1 => /\ Lesser(Capacity, len) = Capacity
                        /\ len - Capacity \in Nat \ {0}
                        /\ Fill(bufs - 1, len - Capacity)
<1>1. CASE bufs = 1
  BY <1>1 DEF Fill, Lesser
<1>2. CASE bufs # 1
  <2>1. /\ bufs > 1 /\ len <= bufs * Capacity /\ (bufs - 1) * Capacity < len
    BY <1>2 DEF Fill
  <2>2. /\ (bufs - 1) * Capacity = bufs * Capacity - Capacity
        /\ (bufs - 1 - 1) * Capacity = (bufs - 1) * Capacity - Capacity
        /\ bufs * Capacity \in Int
    OBVIOUS
  <2>3. Capacity <= (bufs - 1) * Capacity
    BY <2>1
  <2>4. Lesser(Capacity, len) = Capacity /\ len - Capacity \in Nat \ {0}
    BY <2>1, <2>2, <2>3 DEF Lesser
  <2>5. Fill(bufs - 1, len - Capacity)
    BY <2>1, <2>2, <2>4 DEF Fill
  <2> QED
    BY <1>2, <2>4, <2>5
<1> QED
  BY <1>1, <1>2

\* What was cut off and the rest are what there was.
LEMMA CutFacts ==
  ASSUME NEW S, NEW s \in Seq(S), NEW n \in 0 .. Len(s)
  PROVE  /\ SubSeq(s, 1, n) \in Seq(S) /\ Len(SubSeq(s, 1, n)) = n
         /\ SubSeq(s, n + 1, Len(s)) \in Seq(S)
         /\ Len(SubSeq(s, n + 1, Len(s))) = Len(s) - n
         /\ SubSeq(s, 1, n) \o SubSeq(s, n + 1, Len(s)) = s
<1>1. Len(s) \in Nat /\ n \in Nat
  OBVIOUS
<1>2. /\ 1 \in 1 .. Len(s) + 1 /\ n \in 1 - 1 .. Len(s)
      /\ Len(s) \in n .. Len(s)
  BY <1>1
<1>3. SubSeq(s, 1, n) \o SubSeq(s, n + 1, Len(s)) = SubSeq(s, 1, Len(s))
  BY <1>2, ConcatAdjacentSubSeq
<1>4. SubSeq(s, 1, Len(s)) = s
  BY SubSeqFull
<1>5. \A i \in 1 .. Len(s) : s[i] \in S
  OBVIOUS
<1>6. SubSeq(s, 1, n) \in Seq(S) /\ Len(SubSeq(s, 1, n)) = n
  BY <1>1, <1>5, SubSeqProperties
<1>7. /\ SubSeq(s, n + 1, Len(s)) \in Seq(S)
      /\ Len(SubSeq(s, n + 1, Len(s))) = Len(s) - n
  BY <1>1, <1>5, SubSeqProperties
<1> QED
  BY <1>3, <1>4, <1>6, <1>7

\* The application queues a chunk, and maybe has sent a message with it.
LEMMA OrderGrows ==
  ASSUME FramingInv, OrderInv, NEW chunk \in ChunkType, NonBlockWrite(chunk),
         chunk.at = SenderStamp, After(chunk) = SenderStamp', ChunkFits(chunk)',
         sent' \in Seq(Message), Len(sent) <= Len(sent'),
         \A i \in 1 .. Len(sent) : sent'[i] = sent[i],
         UNCHANGED <<readPos, rcvStatus, desync, delivered, netVars, rcvVars>>
  PROVE  OrderInv'
<1>1. Pipe' = Append(Pipe, chunk)
  BY QueueKeepsCursors DEF netVars
<1>2. /\ ChainInv' /\ Front' = Front
      /\ Pipe # <<>> => Pipe' # <<>> /\ Current' = Current
  BY <1>1, ChainGrows DEF OrderInv
<1>3. ReceiverInv'
  BY <1>2, ReceiverUnchanged DEF OrderInv, netVars
<1>4. DeliveredPrefix'
  <2>1. delivered \in Seq(Message) /\ sent \in Seq(Message) /\ delivered' = delivered
    BY DEF FramingInv, TypeOK
  <2>2. Len(delivered) \in Nat /\ Len(sent) \in Nat /\ Len(sent') \in Nat
    BY <2>1
  <2>3. /\ Len(delivered) <= Len(sent)
        /\ \A i \in 1 .. Len(delivered) : delivered[i] = sent[i]
    BY DEF OrderInv, DeliveredPrefix
  <2>4. \A i \in 1 .. Len(delivered) : i \in 1 .. Len(sent)
    BY <2>2, <2>3
  <2> QED
    BY <2>1, <2>2, <2>3, <2>4 DEF DeliveredPrefix
<1> QED
  BY <1>2, <1>3, <1>4 DEF OrderInv

\* A step of the sender that queues nothing.
LEMMA OrderStays ==
  ASSUME OrderInv, Pipe' = Pipe, inPos' = inPos, sent' = sent,
         SenderStamp' = SenderStamp,
         UNCHANGED <<rcvStatus, desync, delivered, rcvVars>>
  PROVE  OrderInv'
<1>1. ChainInv' /\ Front' = Front
  BY ChainUnchanged DEF OrderInv
<1>2. Current' = Current
  BY DEF Current
<1>3. ReceiverInv'
  BY <1>1, <1>2, ReceiverUnchanged DEF OrderInv
<1> QED
  BY <1>1, <1>3 DEF OrderInv, DeliveredPrefix

LEMMA StreamWriteKeepsOrder ==
  ASSUME IInv, NEW c \in Channels, NEW d \in StreamData, StreamWrite(c, d)
  PROVE  /\ SenderInv'
         /\ AllFit' => AllFit
         /\ AllFit' => OrderInv'
<1> PICK chunk : chunk = Chunk(0, c, d)
  OBVIOUS
<1>1. /\ FramingInv /\ TypeOK /\ d \in Seq(Byte) /\ Len(d) \in Nat \ {0}
      /\ sent \in Seq(Message) /\ Len(sent) \in Nat
      /\ sent' = Append(sent, StreamMessage(c, d)) /\ commit' = commit
      /\ NonBlockWrite(chunk) /\ UNCHANGED sndVars
      /\ UNCHANGED <<readPos, rcvStatus, desync, delivered, netVars, rcvVars>>
  <2>1. d \in Seq(Byte) /\ Len(d) > 0
    BY DEF StreamWrite
  <2>2. Len(d) \in Nat \ {0}
    BY <2>1
  <2>3. FramingInv /\ TypeOK /\ sent \in Seq(Message) /\ Len(sent) \in Nat
    <3>1. FramingInv /\ TypeOK
      BY DEF IInv, FramingInv
    <3>2. sent \in Seq(Message)
      BY <3>1 DEF TypeOK
    <3> QED
      BY <3>1, <3>2
  <2>4. commit' = commit
    BY DEF StreamWrite, sndVars
  <2>5. /\ sent' = Append(sent, StreamMessage(c, d)) /\ NonBlockWrite(chunk)
        /\ UNCHANGED sndVars
        /\ UNCHANGED <<readPos, rcvStatus, desync, delivered, netVars, rcvVars>>
    BY DEF StreamWrite
  <2> QED
    BY <2>1, <2>2, <2>3, <2>4, <2>5
<1>2. SenderInv'
  BY <1>1 DEF IInv, SenderInv, sndVars, Packed, Fill
<1>3. StreamMessage(c, d) \in Message
  BY <1>1 DEF StreamMessage, Message
<1>4. /\ sent' \in Seq(Message) /\ Len(sent') = Len(sent) + 1
      /\ \A i \in 1 .. Len(sent) : sent'[i] = sent[i]
      /\ sent'[Len(sent) + 1] = StreamMessage(c, d)
  BY <1>1, <1>3, AppendProperties
<1>5. AllFit' => AllFit /\ Len(d) < UInt16
  <2> SUFFICES ASSUME AllFit' PROVE AllFit /\ Len(d) < UInt16
    OBVIOUS
  <2>1. \A i \in 1 .. Len(sent) + 1 : Fits(sent'[i])
    BY <1>4 DEF AllFit, Fits
  <2>2. \A i \in 1 .. Len(sent) : Fits(sent[i])
    BY <1>1, <1>4, <2>1
  <2>3. Fits(StreamMessage(c, d))
    BY <1>1, <1>4, <2>1
  <2> QED
    BY <1>1, <2>2, <2>3 DEF AllFit, Fits, StreamMessage, BlockMessage
<1>6. ASSUME AllFit' PROVE OrderInv'
  <2>1. /\ chunk \in ChunkType /\ chunk.num = 0 /\ chunk.channel = c
        /\ chunk.length = Len(d) /\ chunk.body = d /\ chunk.at = SenderStamp
    <3>1. 0 % UInt8 = 0 /\ Len(d) % UInt16 = Len(d)
      <4>1. Len(d) < UInt16 /\ 0 < UInt8
        BY <1>5, <1>6
      <4> QED
        BY <1>1, <4>1, ModBound
    <3> QED
      BY <1>1, <3>1, ChunkTyped DEF Chunk
  <2>2. StampFits(chunk.at)'
    <3>1. /\ commit.part \in Seq(Byte) /\ commit.num \in Nat
          /\ commit # NoCommit => /\ commit.channel \in DOMAIN channelWriteQueue
                                  /\ commit.num > 0
          /\ DOMAIN channelWriteQueue \subseteq Channels
      BY <1>1 DEF TypeOK
    <3>2. ASSUME commit # NoCommit
          PROVE  commit.channel \in Channels /\ commit.num # 0
      BY <3>1, <3>2
    <3>3. commit = NoCommit => commit.part = <<>>
      BY DEF NoCommit
    <3> QED
      BY <1>1, <1>4, <2>1, <3>1, <3>2, <3>3 DEF StampFits, SenderStamp, Stamp
  <2>3. /\ SenderStamp.msg = Len(sent) + 1
        /\ SenderStamp' = [SenderStamp EXCEPT !.msg = @ + 1]
    <3>1. Len(sent') + 1 = Len(sent) + 1 + 1
      BY <1>1, <1>4
    <3>2. CASE commit.part = <<>>
      BY <1>1, <3>1, <3>2 DEF SenderStamp, Stamp
    <3>3. CASE commit.part # <<>>
      BY <1>1, <3>1, <3>3 DEF SenderStamp, Stamp
    <3> QED
      BY <3>2, <3>3
  <2>4. After(chunk) = SenderStamp'
    BY <2>1, <2>3 DEF After
  <2>5. ChunkFits(chunk)'
    <3>1. chunk.at.msg = Len(sent) + 1
      BY <2>1, <2>3
    <3>2. StreamChunkFits(chunk)'
      BY <1>1, <1>4, <2>1, <3>1 DEF StreamChunkFits
    <3> QED
      BY <1>1, <2>1, <2>2, <3>2 DEF ChunkFits
  <2> QED
    BY <1>1, <1>4, <1>5, <1>6, <2>1, <2>4, <2>5, OrderGrows DEF IInv
<1> QED
  BY <1>2, <1>5, <1>6

\* A queue that is set as it should be leaves the others as they are.
LEMMA SetPacked ==
  ASSUME TypeOK, SenderInv, NEW c \in Channels, NEW q \in Queue, Packed(q),
         SetWriteQueue(c, q)
  PROVE  \A d \in DOMAIN channelWriteQueue' : Packed(channelWriteQueue'[d])
BY DEF SenderInv, SetWriteQueue

LEMMA BlockWriteKeepsOrder ==
  ASSUME IInv, NEW c \in Channels, NEW d \in BlockData, BlockWrite(c, d)
  PROVE  /\ SenderInv'
         /\ AllFit' => AllFit
         /\ AllFit' => OrderInv'
<1> DEFINE data == GetWriteQueue(c).data \o d
<1>1. TypeOK /\ SenderInv
  BY DEF IInv, FramingInv
<1>2. data \in Seq(Byte)
  BY <1>1, GetWriteQueueType, HeadTailConcat DEF Queue
<1>3. PICK n \in 1 .. MaxBlockBytes + 1 :
        Fill(n, Len(data)) /\ SetWriteQueue(c, [bufs |-> n, data |-> data])
  BY DEF BlockWrite
<1>4. /\ commit = NoCommit /\ commit' = commit
      /\ UNCHANGED <<writeBufferList, readPos, sent, rcvStatus, desync, delivered,
                     netVars, rcvVars>>
  BY DEF BlockWrite
<1>5. SenderInv'
  <2> PICK q : q = [bufs |-> n, data |-> data]
    OBVIOUS
  <2> HIDE DEF data
  <2>1. q \in Queue /\ Packed(q)
    BY <1>2, <1>3 DEF Queue, Packed
  <2>2. \A e \in DOMAIN channelWriteQueue' : Packed(channelWriteQueue'[e])
    BY <1>1, <1>3, <2>1, SetPacked
  <2> QED
    BY <1>4, <2>2 DEF SenderInv, Packed, Fill
<1>6. AllFit' = AllFit
  BY <1>4 DEF AllFit, Fits
<1>7. AllFit => OrderInv'
  <2>1. Pipe' = Pipe /\ inPos' = inPos
    BY <1>4 DEF Pipe, netVars
  <2>2. SenderStamp' = SenderStamp
    BY <1>4 DEF SenderStamp
  <2> QED
    BY <1>4, <2>1, <2>2, OrderStays DEF IInv
<1> QED
  BY <1>5, <1>6, <1>7

LEMMA BlockCommitKeepsOrder ==
  ASSUME IInv, NEW c \in Channels, BlockCommit(c)
  PROVE  /\ SenderInv'
         /\ AllFit' => AllFit
         /\ AllFit' => OrderInv'
<1> PICK q : q = GetWriteQueue(c)
  OBVIOUS
<1>1. TypeOK /\ SenderInv
  BY DEF IInv, FramingInv
<1>2. q \in Queue
  BY <1>1, GetWriteQueueType
<1>3. /\ commit = NoCommit /\ SetWriteQueue(c, q)
      /\ commit' = IF q.bufs = 0 THEN NoCommit
                   ELSE [channel |-> c, num |-> q.bufs, block |-> q.data, part |-> <<>>]
      /\ UNCHANGED <<writeBufferList, readPos, sent, rcvStatus, desync, delivered,
                     netVars, rcvVars>>
  BY DEF BlockCommit
<1>4. SenderInv'
  <2>1. Packed(q)
    BY <1>1 DEF SenderInv, GetWriteQueue, Packed
  <2>2. \A e \in DOMAIN channelWriteQueue' : Packed(channelWriteQueue'[e])
    BY <1>1, <1>2, <1>3, <2>1, SetPacked
  <2>3. ASSUME commit' # NoCommit
        PROVE  /\ commit'.block = commit'.part \o channelWriteQueue'[commit'.channel].data
               /\ commit'.part = <<>>
    <3>1. /\ commit'.channel = c /\ commit'.block = q.data /\ commit'.part = <<>>
      BY <1>3, <2>3
    <3>2. channelWriteQueue'[c] = q
      BY <1>1, <1>2, <1>3, SetWriteQueueType
    <3>3. <<>> \o q.data = q.data
      BY <1>2, ConcatEmptySeq DEF Queue
    <3> QED
      BY <3>1, <3>2, <3>3
  <2> QED
    BY <2>2, <2>3 DEF SenderInv, Packed, Fill
<1>5. AllFit' => AllFit
  BY <1>3 DEF AllFit, Fits
<1>6. AllFit => OrderInv'
  <2>1. Pipe' = Pipe /\ inPos' = inPos
    BY <1>3 DEF Pipe, netVars
  <2>2. SenderStamp' = SenderStamp
    BY <1>3 DEF SenderStamp, NoCommit
  <2> QED
    BY <1>3, <2>1, <2>2, OrderStays DEF IInv
<1> QED
  BY <1>4, <1>5, <1>6

\* A commit step that cuts the n bytes of body off queue q and leaves rest.
Cut(q, n, body, rest) ==
  /\ q = channelWriteQueue[commit.channel]
  /\ q.bufs \in Nat \ {0} /\ commit.num = q.bufs
  /\ commit.channel \in Channels
  /\ Fill(q.bufs, Len(q.data))
  /\ body = SubSeq(q.data, 1, n) /\ rest = SubSeq(q.data, n + 1, Len(q.data))
  /\ Len(body) = n /\ Len(rest) = Len(q.data) - n /\ n <= Capacity
  /\ body \o rest = q.data
  /\ IF q.bufs = 1 THEN rest = <<>>
     ELSE n = Capacity /\ Fill(q.bufs - 1, Len(rest)) /\ rest # <<>>
  /\ NonBlockWrite(Chunk(commit.num, commit.channel, body))
  /\ SetWriteQueue(commit.channel, [bufs |-> q.bufs - 1, data |-> rest])
  /\ IF q.bufs = 1
     THEN /\ commit' = NoCommit
          /\ sent' = Append(sent, BlockMessage(commit.channel, commit.block))
     ELSE /\ commit' = [commit EXCEPT !.num = @ - 1, !.part = @ \o body]
          /\ UNCHANGED sent

\* The chunk a commit queues, and what it leaves of the block.
LEMMA CommitChunkFacts ==
  ASSUME IInv, CommitChunk
  PROVE  \E q \in Queue, n \in Nat, body \in Seq(Byte), rest \in Seq(Byte) :
           Cut(q, n, body, rest)
<1> DEFINE c == commit.channel
           q == channelWriteQueue[c]
           n == Lesser(Capacity, Len(q.data))
           body == SubSeq(q.data, 1, n)
           rest == SubSeq(q.data, n + 1, Len(q.data))
<1>1. TypeOK /\ SenderInv /\ commit # NoCommit
  BY DEF IInv, FramingInv, CommitChunk
<1>2. /\ c \in Channels /\ c \in DOMAIN channelWriteQueue
      /\ q \in Queue /\ q.bufs \in Nat \ {0} /\ commit.num = q.bufs
      /\ q.data \in Seq(Byte) /\ Len(q.data) \in Nat
  <2>1. /\ DOMAIN channelWriteQueue \subseteq Channels
        /\ channelWriteQueue \in [DOMAIN channelWriteQueue -> Queue]
    BY <1>1 DEF TypeOK, Queue
  <2>2. c \in DOMAIN channelWriteQueue /\ commit.num = q.bufs /\ commit.num > 0
    BY <1>1 DEF TypeOK
  <2>3. q \in Queue
    BY <2>1, <2>2
  <2> QED
    BY <2>1, <2>2, <2>3 DEF Queue
<1>3. Fill(q.bufs, Len(q.data))
  BY <1>1, <1>2 DEF SenderInv, Packed
<1>4. n \in Nat /\ n <= Len(q.data) /\ n <= Capacity
  BY <1>2 DEF Lesser
<1>5. /\ body \in Seq(Byte) /\ Len(body) = n
      /\ rest \in Seq(Byte) /\ Len(rest) = Len(q.data) - n
      /\ body \o rest = q.data
  <2>1. n \in 0 .. Len(q.data)
    BY <1>2, <1>4
  <2> HIDE DEF n, q
  <2> QED
    BY <1>2, <2>1, CutFacts
<1>6. IF q.bufs = 1 THEN rest = <<>>
      ELSE n = Capacity /\ Fill(q.bufs - 1, Len(rest)) /\ rest # <<>>
  <2>1. /\ q.bufs = 1 => n = Len(q.data)
        /\ q.bufs # 1 => /\ n = Capacity /\ Len(q.data) - Capacity \in Nat \ {0}
                         /\ Fill(q.bufs - 1, Len(q.data) - Capacity)
    BY <1>2, <1>3, FirstBuffer
  <2>2. IF q.bufs = 1 THEN Len(rest) = 0 ELSE Len(rest) # 0
    BY <1>2, <1>5, <2>1
  <2> QED
    BY <1>5, <2>1, <2>2, EmptySeq
<1>7. /\ NonBlockWrite(Chunk(commit.num, c, body))
      /\ SetWriteQueue(c, [bufs |-> q.bufs - 1, data |-> rest])
      /\ IF q.bufs = 1
         THEN commit' = NoCommit /\ sent' = Append(sent, BlockMessage(c, commit.block))
         ELSE /\ commit' = [commit EXCEPT !.num = @ - 1, !.part = @ \o body]
              /\ UNCHANGED sent
  BY DEF CommitChunk
<1>8. Cut(q, n, body, rest)
  <2> HIDE DEF n, body, rest, q
  <2> QED
    BY <1>2, <1>3, <1>4, <1>5, <1>6, <1>7 DEF body, rest, q, Cut
<1> HIDE DEF n, body, rest, q
<1> QED
  BY <1>2, <1>4, <1>5, <1>8

\* A commit's chunk leads on to the next, and the last completes the message.
LEMMA CommitChunkKeepsOrder ==
  ASSUME IInv, CommitChunk
  PROVE  /\ SenderInv'
         /\ AllFit' => AllFit
         /\ AllFit' => OrderInv'
<1>1. PICK q \in Queue, n \in Nat, body \in Seq(Byte), rest \in Seq(Byte) :
        Cut(q, n, body, rest)
  BY CommitChunkFacts
<1>2. /\ commit.part \in Seq(Byte) /\ commit.block \in Seq(Byte)
      /\ commit.num = q.bufs /\ commit.channel \in Channels
  <2>1. TypeOK
    BY DEF IInv, FramingInv
  <2> QED
    BY <1>1, <2>1 DEF TypeOK, Cut
<1>3. PICK c \in Channels, part \in Seq(Byte), block \in Seq(Byte) :
        c = commit.channel /\ part = commit.part /\ block = commit.block
  BY <1>2
<1>4. /\ q.bufs \in Nat \ {0} /\ q = channelWriteQueue[c]
      /\ Len(body) = n /\ Len(rest) = Len(q.data) - n /\ n <= Capacity
      /\ body \o rest = q.data /\ Fill(q.bufs, Len(q.data))
      /\ q.bufs = 1 => rest = <<>>
      /\ q.bufs # 1 => n = Capacity /\ Fill(q.bufs - 1, Len(rest)) /\ rest # <<>>
  BY <1>1, <1>3 DEF Cut
<1>5. /\ NonBlockWrite(Chunk(q.bufs, c, body))
      /\ SetWriteQueue(c, [bufs |-> q.bufs - 1, data |-> rest])
  BY <1>1, <1>3 DEF Cut
<1>6. ASSUME q.bufs = 1
      PROVE  commit' = NoCommit /\ sent' = Append(sent, BlockMessage(c, block))
  BY <1>1, <1>3, <1>6 DEF Cut
<1>7. ASSUME q.bufs # 1
      PROVE  /\ commit' = [commit EXCEPT !.num = @ - 1, !.part = @ \o body]
             /\ sent' = sent
  BY <1>1, <1>3, <1>7 DEF Cut
<1>8. PICK chunk : chunk = Chunk(q.bufs, c, body)
  OBVIOUS
<1>9. /\ TypeOK /\ FramingInv /\ SenderInv /\ commit # NoCommit
  BY DEF IInv, FramingInv, CommitChunk
<1>10. UNCHANGED <<readPos, rcvStatus, desync, delivered, netVars, rcvVars>>
  BY DEF CommitChunk
<1>11. /\ sent \in Seq(Message) /\ Len(sent) \in Nat /\ q.data \in Seq(Byte)
       /\ Len(q.data) \in Nat /\ Len(part) \in Nat
  <2>1. sent \in Seq(Message)
    BY <1>9 DEF TypeOK
  <2>2. q.data \in Seq(Byte)
    BY DEF Queue
  <2> QED
    BY <2>1, <2>2
<1>12. /\ block = part \o q.data /\ block = (part \o body) \o rest
       /\ part # <<>> => q.data # <<>>
  <2>1. block = part \o q.data /\ (part # <<>> => q.data # <<>>)
    BY <1>9, <1>3, <1>4 DEF SenderInv
  <2>2. (part \o body) \o rest = part \o (body \o rest)
    BY ConcatAssociative
  <2> QED
    BY <1>4, <2>1, <2>2
<1>13. /\ part \o body \in Seq(Byte) /\ Len(part \o body) = Len(part) + n
       /\ Len(block) = Len(part) + Len(q.data)
  <2>1. part \o body \in Seq(Byte) /\ Len(part \o body) = Len(part) + Len(body)
    BY ConcatType
  <2>2. Len(part \o q.data) = Len(part) + Len(q.data)
    BY <1>11, ConcatType
  <2> QED
    BY <1>12, <1>4, <2>1, <2>2
\* The message, if it is complete.
<1>14. /\ sent' \in Seq(Message)
       /\ Len(sent') = IF q.bufs = 1 THEN Len(sent) + 1 ELSE Len(sent)
       /\ \A i \in 1 .. Len(sent) : sent'[i] = sent[i]
       /\ q.bufs = 1 => sent'[Len(sent) + 1] = BlockMessage(c, block)
  <2>1. BlockMessage(c, block) \in Message
    BY DEF BlockMessage, Message
  <2>2. CASE q.bufs = 1
    <3>1. sent' = Append(sent, BlockMessage(c, block))
      BY <1>6, <2>2
    <3> QED
      BY <1>11, <2>1, <2>2, <3>1, AppendProperties
  <2>3. CASE q.bufs # 1
    BY <1>11, <1>7, <2>3
  <2> QED
    BY <2>2, <2>3
<1>15. ASSUME q.bufs # 1
       PROVE  /\ commit'.channel = c /\ commit'.num = q.bufs - 1
              /\ commit'.part = part \o body /\ commit'.block = block
              /\ commit' # NoCommit
  <2>1. commit \in [channel : Channels \cup {NULL}, num : Nat, block : Seq(Byte),
                    part : Seq(Byte)]
    BY <1>9 DEF TypeOK
  <2>2. commit' = [commit EXCEPT !.num = @ - 1, !.part = @ \o body]
    BY <1>15, <1>7
  <2> QED
    BY <2>1, <2>2, <1>2, <1>3, <1>4 DEF NoCommit
<1>16. SenderInv'
  <2>0. PICK r : r = [bufs |-> q.bufs - 1, data |-> rest]
    OBVIOUS
  <2>1. r \in Queue /\ Packed(r)
    <3>1. q.bufs - 1 \in Nat /\ (q.bufs - 1 = 0 <=> q.bufs = 1)
      BY <1>4
    <3> QED
      BY <1>4, <2>0, <3>1 DEF Queue, Packed
  <2>2. SetWriteQueue(c, r)
    BY <1>5, <2>0
  <2>3. \A e \in DOMAIN channelWriteQueue' : Packed(channelWriteQueue'[e])
    BY <1>9, <2>1, <2>2, SetPacked
  <2>4. channelWriteQueue'[c] = r
    BY <1>9, <2>1, <2>2, SetWriteQueueType
  <2>5. ASSUME commit' # NoCommit
        PROVE  /\ commit'.block = commit'.part \o channelWriteQueue'[commit'.channel].data
               /\ channelWriteQueue'[commit'.channel].data # <<>>
    <3>1. q.bufs # 1
      BY <1>6, <2>5
    <3>2. rest # <<>> /\ r.data = rest
      BY <1>4, <2>0, <3>1
    <3> QED
      BY <1>12, <1>15, <2>4, <3>1, <3>2
  <2> QED
    BY <2>3, <2>5 DEF SenderInv, Packed, Fill
\* A block that fits before it is complete is one that fits when it is.
<1>17. AllFit' => AllFit /\ Fits(BlockMessage(c, block))
  <2> SUFFICES ASSUME AllFit' PROVE AllFit /\ Fits(BlockMessage(c, block))
    OBVIOUS
  <2>1. \A i \in 1 .. Len(sent') : Fits(sent'[i])
    BY DEF AllFit, Fits
  <2>2. ASSUME NEW i \in 1 .. Len(sent)
        PROVE  Fits(sent[i])
    <3>1. i \in 1 .. Len(sent') /\ sent'[i] = sent[i]
      BY <1>11, <1>14
    <3> QED
      BY <2>1, <3>1
  <2>3. Fits(BlockMessage(c, block))
    <3>1. CASE q.bufs = 1
      BY <1>11, <1>14, <2>1, <3>1
    <3>2. CASE q.bufs # 1
      <4>1. Fits(BlockMessage(commit'.channel, commit'.block))
        BY <1>15, <3>2 DEF AllFit, Fits, BlockMessage
      <4> QED
        BY <1>15, <3>2, <4>1
    <3> QED
      BY <3>1, <3>2
  <2> QED
    BY <2>2, <2>3, <1>3 DEF AllFit
<1>18. ASSUME AllFit' PROVE OrderInv'
  <2>1. /\ Len(block) > 0 /\ Capacity < UInt16 /\ Len(block) <= (UInt8 - 1) * Capacity
    BY <1>17, <1>18 DEF Fits, BlockMessage
  <2>2. Len(q.data) > 0 /\ n > 0
    <3>1. Len(q.data) > 0
      <4>1. CASE part = <<>>
        BY <1>11, <1>13, <2>1, <4>1, EmptySeq
      <4>2. CASE part # <<>>
        BY <1>11, <1>12, <4>2, EmptySeq
      <4> QED
        BY <4>1, <4>2
    <3>2. q.bufs = 1 => n = Len(q.data)
      BY <1>11, <1>4, EmptySeq
    <3>3. q.bufs # 1 => n > 0
      BY <1>4
    <3> QED
      BY <3>1, <3>2, <3>3
  <2>3. /\ chunk \in ChunkType /\ chunk.num = q.bufs /\ chunk.channel = c
        /\ chunk.length = n /\ chunk.body = body /\ chunk.at = SenderStamp
    <3>1. q.bufs < UInt8
      <4>1. Len(q.data) <= (UInt8 - 1) * Capacity
        <5>1. (UInt8 - 1) * Capacity \in Int
          OBVIOUS
        <5> HIDE DEF Fill
        <5> QED
          BY <1>11, <1>13, <2>1, <5>1
      <4> QED
        BY <1>11, <1>4, <2>2, <4>1, FewBuffers
    <3>2. q.bufs % UInt8 = q.bufs /\ Len(body) % UInt16 = n
      <4>1. n < UInt16
        BY <1>4, <2>1
      <4> QED
        BY <1>4, <3>1, <4>1, ModBound
    <3>3. Chunk(q.bufs, c, body) \in ChunkType
      BY <1>9, <1>4, ChunkTyped
    <3> QED
      BY <1>8, <1>4, <3>2, <3>3 DEF Chunk
  <2>4. /\ chunk.at.msg = Len(sent) + 1 /\ chunk.at.part = part
        /\ part = <<>> => chunk.at.left = 0 /\ chunk.at.channel = NULL
        /\ part # <<>> => chunk.at.left = q.bufs /\ chunk.at.channel = c
    <3>1. CASE part = <<>>
      BY <1>3, <2>3, <3>1 DEF SenderStamp, Stamp
    <3>2. CASE part # <<>>
      BY <1>2, <1>3, <2>3, <3>2 DEF SenderStamp, Stamp
    <3> QED
      BY <3>1, <3>2
  <2>5. StampFits(chunk.at)'
    BY <1>11, <1>14, <1>4, <2>4 DEF StampFits
  <2>6. BlockChunkFits(chunk)'
    <3>1. chunk.at.left \in {0, chunk.num}
      BY <2>3, <2>4
    <3>2. chunk.at.left # 0 => chunk.at.channel = chunk.channel /\ Len(chunk.body) <= Capacity
      BY <1>4, <2>3, <2>4
    <3>3. ASSUME q.bufs = 1
          PROVE  /\ chunk.at.msg <= Len(sent')
                 /\ sent'[chunk.at.msg] = BlockMessage(c, part \o body)
      <4>1. body = q.data
        BY <1>4, <3>3, ConcatEmptySeq
      <4>2. part \o body = block
        BY <1>12, <4>1
      <4>3. Len(sent') = Len(sent) + 1 /\ sent'[Len(sent) + 1] = BlockMessage(c, block)
        BY <1>14, <3>3
      <4> QED
        BY <1>11, <2>4, <4>2, <4>3
    <3>4. q.bufs # 1 => Len(body) = Capacity
      BY <1>4
    <3> QED
      BY <2>3, <2>4, <3>1, <3>2, <3>3, <3>4 DEF BlockChunkFits
  <2>7. ChunkFits(chunk)'
    BY <1>4, <2>2, <2>3, <2>5, <2>6 DEF ChunkFits
  <2>8. After(chunk) = SenderStamp'
    <3>1. CASE q.bufs = 1
      <4>1. commit'.part = <<>> /\ Len(sent') + 1 = chunk.at.msg + 1
        BY <1>11, <1>14, <1>6, <2>4, <3>1 DEF NoCommit
      <4>2. SenderStamp' = Stamp(chunk.at.msg + 1, NULL, 0, <<>>)
        BY <4>1 DEF SenderStamp
      <4> QED
        BY <2>3, <3>1, <4>2 DEF After
    <3>2. CASE q.bufs # 1
      <4>1. part \o body # <<>>
        BY <1>11, <1>13, <2>2, EmptySeq
      <4>2. SenderStamp' = Stamp(chunk.at.msg, c, q.bufs - 1, part \o body)
        BY <1>14, <1>15, <2>4, <3>2, <4>1 DEF SenderStamp
      <4>3. chunk.num # 0 /\ chunk.num # 1
        BY <1>4, <2>3, <3>2
      <4> QED
        BY <2>3, <2>4, <4>2, <4>3 DEF After
    <3> QED
      BY <3>1, <3>2
  <2>9. /\ NonBlockWrite(chunk) /\ OrderInv /\ Len(sent) <= Len(sent')
    <3>1. AllFit
      BY <1>17, <1>18
    <3>2. Len(sent) <= Len(sent')
      BY <1>11, <1>14
    <3> QED
      BY <1>5, <1>8, <3>1, <3>2 DEF IInv
  <2> QED
    BY <1>9, <1>10, <1>14, <2>3, <2>7, <2>8, <2>9, OrderGrows
<1> QED
  BY <1>16, <1>17, <1>18

\* The other steps of the sender and of the network leave the chain alone.
LEMMA SenderKeepsOrder ==
  ASSUME IInv,
         \/ \E c \in Channels : BlockRefused(c)
         \/ \E k \in 1 .. MaxChunkBytes : RunWrite(k)
         \/ RunWriteError
         \/ NetworkReset
         \/ UNCHANGED vars
  PROVE  /\ SenderInv'
         /\ AllFit' => AllFit
         /\ AllFit' => OrderInv'
<1>1. FramingInv /\ SenderInv /\ (AllFit => OrderInv)
  BY DEF IInv
<1>2. /\ UNCHANGED <<channelWriteQueue, commit, sent, rcvStatus, desync, delivered, rcvVars>>
      /\ Pipe' = Pipe /\ inPos' = inPos
  <2>1. CASE \E c \in Channels : BlockRefused(c)
    BY <2>1 DEF BlockRefused, Pipe, netVars
  <2>2. CASE \E k \in 1 .. MaxChunkBytes : RunWrite(k)
    <3>1. PICK k \in 1 .. MaxChunkBytes : RunWrite(k)
      BY <2>2
    <3>2. k \in Nat \ {0}
      OBVIOUS
    <3>3. Pipe' = Pipe /\ inPos' = inPos
      BY <1>1, <3>1, <3>2, RunWriteKeepsPipe
    <3> QED
      BY <3>1, <3>3 DEF RunWrite, sndVars
  <2>3. CASE RunWriteError
    BY <2>3 DEF RunWriteError, Pipe, netVars, sndVars
  <2>4. CASE NetworkReset
    BY <2>4 DEF NetworkReset, Pipe, sndVars
  <2>5. CASE UNCHANGED vars
    BY <2>5 DEF vars, Pipe, rcvVars
  <2> QED
    BY <2>1, <2>2, <2>3, <2>4, <2>5
<1>3. SenderInv'
  <2>1. SenderInv /\ UNCHANGED <<channelWriteQueue, commit>>
    BY <1>1, <1>2
  <2> QED
    BY <2>1 DEF SenderInv, Packed, Fill
<1>4. AllFit' = AllFit
  BY <1>2 DEF AllFit, Fits
<1>5. SenderStamp' = SenderStamp
  BY <1>2 DEF SenderStamp
<1> QED
  BY <1>1, <1>2, <1>3, <1>4, <1>5, OrderStays

-----------------------------------------------------------------------------
(* The receiver. *)

\* RunRead does not touch the sender.
LEMMA ReaderSparesSender ==
  ASSUME RunReadFrame
  PROVE  /\ sent' = sent /\ SenderStamp' = SenderStamp
         /\ SenderInv => SenderInv'
         /\ AllFit' = AllFit
<1>1. UNCHANGED <<channelWriteQueue, commit, sent>>
  BY DEF RunReadFrame, sndVars
<1> QED
  BY <1>1 DEF SenderStamp, SenderInv, Packed, Fill, AllFit, Fits

\* The first chunk of the pipe, as the receiver sees it.
LEMMA FrontChunk ==
  ASSUME FramingInv, OrderInv, Pipe # <<>>
  PROVE  /\ Front = Current.at /\ Current \in ChunkType
         /\ Current.body \in Seq(Byte) /\ Len(Current.body) \in Nat \ {0}
         /\ Current.num \in 0 .. UInt8 - 1 /\ Current.channel \in Channels
         /\ Current.length = Len(Current.body)
         /\ Current.at.msg \in Nat \ {0} /\ Current.at.left \in Nat
         /\ Current.at.part \in Seq(Byte) /\ Len(Current.at.part) \in Nat
         /\ StampFits(Current.at)
         /\ Current.num = 0 => StreamChunkFits(Current)
         /\ Current.num # 0 => BlockChunkFits(Current)
         /\ inPos \in Nat /\ Remaining = HEADERLENGTH + Len(Current.body) - inPos
         /\ Remaining \in Nat \ {0}
<1>1. Front = Current.at /\ ChunkFits(Current) /\ Current \in ChunkType
  BY FrontFacts DEF OrderInv
<1>2. TypeOK /\ ReceivePosition
  BY DEF FramingInv, ReadsStayInChunk
<1>3. Current.body \in Seq(Byte) /\ Len(Current.body) \in Nat \ {0}
  BY <1>1, ChunkBytesFacts DEF ChunkFits
<1>4. /\ Current.num \in 0 .. UInt8 - 1 /\ Current.channel \in Channels
      /\ Current.at.msg \in Nat \ {0} /\ Current.at.left \in Nat
      /\ Current.at.part \in Seq(Byte) /\ Len(Current.at.part) \in Nat
  BY <1>1 DEF ChunkType, ChunkRecord
<1>5. /\ Current.length = Len(Current.body) /\ StampFits(Current.at)
      /\ Current.num = 0 => StreamChunkFits(Current)
      /\ Current.num # 0 => BlockChunkFits(Current)
  BY <1>1 DEF ChunkFits
<1>6. inPos \in Nat /\ Remaining = HEADERLENGTH + Len(Current.body) - inPos
  BY <1>1, <1>2, RemainingFacts, ChunkBytesFacts
<1>7. Remaining \in Nat \ {0}
  BY <1>1, <1>2, <1>3, <1>6, ChunkBytesFacts DEF ReceivePosition
<1> QED
  BY <1>1, <1>3, <1>4, <1>5, <1>6, <1>7

\* What has been received of the current chunk, with the next recv().
LEMMA GotGrows ==
  ASSUME FramingInv, OrderInv, Pipe # <<>>, inPos >= HEADERLENGTH,
         NEW k \in Nat, k <= Remaining
  PROVE  /\ Got \in Seq(Byte) /\ Len(Got) = inPos - HEADERLENGTH
         /\ Payload(k) \in Seq(Byte)
         /\ Got \o Payload(k) = SubSeq(Current.body, 1, inPos + k - HEADERLENGTH)
         /\ Len(Got \o Payload(k)) = inPos + k - HEADERLENGTH
         /\ k = Remaining => Got \o Payload(k) = Current.body
<1>1. PICK body \in Seq(Byte), from \in Nat :
        /\ body = Current.body /\ from = inPos - HEADERLENGTH
        /\ Len(body) \in Nat /\ Remaining = Len(body) - from
        /\ inPos + k - HEADERLENGTH = from + k
  <2>1. /\ Current.body \in Seq(Byte) /\ Len(Current.body) \in Nat /\ inPos \in Nat
        /\ Remaining = HEADERLENGTH + Len(Current.body) - inPos
    BY FrontChunk
  <2>2. PICK body \in Seq(Byte) : body = Current.body
    BY <2>1
  <2>3. PICK from \in Nat : from = inPos - HEADERLENGTH
    BY <2>1
  <2>4. Remaining = Len(body) - from /\ inPos + k - HEADERLENGTH = from + k
    BY <2>1, <2>2, <2>3
  <2> QED
    BY <2>1, <2>2, <2>3, <2>4
<1>2. Got = SubSeq(body, 1, from) /\ Payload(k) = SubSeq(body, from + 1, from + k)
  BY <1>1 DEF Got, Payload
<1>3. from + k \in Nat /\ from + k <= Len(body)
  BY <1>1
<1>4. /\ SubSeq(body, 1, from) \in Seq(Byte) /\ Len(SubSeq(body, 1, from)) = from
      /\ SubSeq(body, from + 1, from + k) \in Seq(Byte)
      /\ Len(SubSeq(body, from + 1, from + k)) = k
      /\ Len(SubSeq(body, 1, from + k)) = from + k
  <2>1. /\ SubSeq(body, 0 + 1, 0 + from) \in Seq(Byte)
        /\ Len(SubSeq(body, 0 + 1, 0 + from)) = from
    BY <1>3, SubSeqFacts
  <2>2. /\ SubSeq(body, from + 1, from + k) \in Seq(Byte)
        /\ Len(SubSeq(body, from + 1, from + k)) = k
    BY <1>3, SubSeqFacts
  <2>3. Len(SubSeq(body, 0 + 1, 0 + (from + k))) = from + k
    BY <1>3, SubSeqFacts
  <2>4. 0 + 1 = 1 /\ 0 + from = from /\ 0 + (from + k) = from + k
    OBVIOUS
  <2> QED
    BY <2>1, <2>2, <2>3, <2>4
<1>5. SubSeq(body, 1, from) \o SubSeq(body, from + 1, from + k) = SubSeq(body, 1, from + k)
  <2>1. 1 \in 1 .. Len(body) + 1 /\ from \in 1 - 1 .. Len(body) /\ from + k \in from .. Len(body)
    BY <1>1, <1>3
  <2> QED
    BY <2>1, ConcatAdjacentSubSeq
<1>6. k = Remaining => SubSeq(body, 1, from + k) = body
  <2>1. k = Remaining => from + k = Len(body)
    BY <1>1
  <2> QED
    BY <2>1, SubSeqFull
<1> QED
  BY <1>1, <1>2, <1>4, <1>5, <1>6

\* The event pool is handed the message that is next.
LEMMA DeliverNext ==
  ASSUME FramingInv, DeliveredPrefix, Len(delivered) + 1 <= Len(sent), sent' = sent,
         delivered' = Append(delivered, sent[Len(delivered) + 1])
  PROVE  DeliveredPrefix' /\ Len(delivered') = Len(delivered) + 1
<1>1. /\ delivered \in Seq(Message) /\ sent \in Seq(Message)
  BY DEF FramingInv, TypeOK
<1>2. Len(delivered) \in Nat /\ Len(sent) \in Nat
  BY <1>1
<1>3. sent[Len(delivered) + 1] \in Message
  BY <1>1, <1>2
<1>4. /\ Len(delivered') = Len(delivered) + 1
      /\ \A i \in 1 .. Len(delivered) : delivered'[i] = delivered[i]
      /\ delivered'[Len(delivered) + 1] = sent[Len(delivered) + 1]
  BY <1>1, <1>3, AppendProperties
<1>5. ASSUME NEW i \in 1 .. Len(delivered')
      PROVE  delivered'[i] = sent'[i]
  <2>1. i \in 1 .. Len(delivered) \/ i = Len(delivered) + 1
    BY <1>2, <1>4
  <2> QED
    BY <1>4, <2>1 DEF DeliveredPrefix
<1> QED
  BY <1>4, <1>5 DEF DeliveredPrefix

LEMMA StreamReadPartKeepsOrder ==
  ASSUME FramingInv, OrderInv, NEW k \in Nat \ {0}, StreamReadPart(k)
  PROVE  OrderInv'
<1>1. /\ TypeOK /\ SendPosition /\ ReceivePosition /\ Available \in Int
      /\ Consume(k) /\ k <= Available /\ UNCHANGED <<writeBufferList, readPos>>
      /\ RunReadFrame
      /\ UNCHANGED <<rcvStatus, desync, hdrPos, blockEvent, blockChunkLength, nowChunkNum>>
      /\ streamEvent # NoEvent /\ rcvStatus = "STATUS_CONNECTED"
  BY AvailableType DEF FramingInv, ReadsStayInChunk, StreamReadPart, RunReadFrame,
     InStreamPart, Reading
<1>2. InStream /\ Front.msg = Len(delivered) + 1
  BY <1>1 DEF OrderInv, ReceiverInv, AtHeader, InBlock
<1>3. /\ Pipe # <<>> /\ inPos >= HEADERLENGTH /\ hdrPos = 0 /\ Current.num = 0
      /\ streamEvent = [channel |-> Current.channel, size |-> Len(Current.body), data |-> Got]
      /\ blockChunkLength = 0 /\ blockEvent = BlockAt(Current.at)
  BY <1>2 DEF InStream, InPayload
<1>4. /\ k <= Remaining
      /\ IF k = Remaining THEN Pipe' = Tail(Pipe) /\ inPos' = 0
         ELSE Pipe' = Pipe /\ inPos' = inPos + k
  BY <1>1, ConsumeFacts
<1>5. sent' = sent /\ SenderStamp' = SenderStamp
  BY <1>1, ReaderSparesSender
<1>6. PICK data \in Seq(Byte) :
        /\ data = Got \o Payload(k)
        /\ data = SubSeq(Current.body, 1, inPos + k - HEADERLENGTH)
        /\ Len(data) = inPos + k - HEADERLENGTH
        /\ k = Remaining => data = Current.body
  BY <1>3, <1>4, GotGrows, ConcatProperties
<1>7. /\ Len(Current.body) \in Nat /\ inPos \in Nat
      /\ Remaining = HEADERLENGTH + Len(Current.body) - inPos
      /\ Current.at.msg \in Nat /\ Front = Current.at /\ StreamChunkFits(Current)
  BY <1>3, FrontChunk
<1>8. Len(data) = Len(Current.body) <=> k = Remaining
  BY <1>6, <1>7
<1>9. IF k = Remaining THEN DeliverStream(data)
      ELSE /\ streamEvent' = [streamEvent EXCEPT !.data = data]
           /\ UNCHANGED delivered
  BY <1>3, <1>6, <1>8 DEF StreamReadPart
<1>10. CASE k = Remaining
  <2>1. ChainInv' /\ Front' = After(Current)
    BY <1>3, <1>4, <1>5, <1>10, ChainAdvances DEF OrderInv
  <2>2. /\ delivered' = Append(delivered, StreamMessage(Current.channel, Current.body))
        /\ streamEvent' = NoEvent
    BY <1>3, <1>6, <1>9, <1>10 DEF DeliverStream
  <2>3. DeliveredPrefix' /\ Len(delivered') = Len(delivered) + 1
    BY <1>2, <1>5, <1>7, <2>2, DeliverNext DEF OrderInv, StreamChunkFits
  <2>4. Front' = [Current.at EXCEPT !.msg = @ + 1]
    BY <1>3, <2>1 DEF After
  <2>5. /\ Front'.msg = Len(delivered') + 1
        /\ Front'.left = Current.at.left /\ Front'.channel = Current.at.channel
        /\ Front'.part = Current.at.part
    <3>1. Current.at \in [msg : Nat \ {0}, channel : Channels \cup {NULL},
                          left : Nat, part : Seq(Byte)]
      BY <1>3, FrontChunk DEF ChunkType, ChunkRecord
    <3> QED
      BY <1>2, <1>7, <2>3, <2>4, <3>1
  <2>6. AtHeader'
    BY <1>1, <1>3, <1>4, <1>10, <2>2, <2>5 DEF AtHeader, BlockAt, NoEvent, Event
  <2> QED
    BY <1>1, <2>1, <2>3, <2>5, <2>6 DEF OrderInv, ReceiverInv
<1>11. CASE k # Remaining
  <2>1. Pipe' = Pipe /\ inPos' = inPos + k /\ Current' = Current
    BY <1>4, <1>11 DEF Current
  <2>2. ChainInv' /\ Front' = Front
    BY <1>5, <2>1, ChainUnchanged DEF OrderInv
  <2>3. delivered' = delivered /\ streamEvent' = [streamEvent EXCEPT !.data = data]
    BY <1>9, <1>11
  <2>4. Got' = data
    <3>1. Got' = SubSeq(Current'.body, 1, inPos' - HEADERLENGTH)
      BY DEF Got
    <3>2. Current'.body = Current.body /\ inPos' - HEADERLENGTH = inPos + k - HEADERLENGTH
      <4>1. Current'.body = Current.body
        BY <2>1
      <4>2. inPos' - HEADERLENGTH = inPos + k - HEADERLENGTH
        BY <1>7, <2>1
      <4> QED
        BY <4>1, <4>2
    <3>3. data = SubSeq(Current.body, 1, inPos + k - HEADERLENGTH)
      BY <1>6
    <3> QED
      BY <3>1, <3>2, <3>3
  <2>5. InStream'
    <3>1. InPayload'
      BY <1>1, <1>3, <1>7, <2>1 DEF InPayload
    <3>2. streamEvent' = [channel |-> Current.channel, size |-> Len(Current.body),
                          data |-> Got']
      BY <1>3, <2>3, <2>4
    <3>3. blockEvent' = BlockAt(Current.at)'
      BY <1>1, <1>3, <2>1 DEF BlockAt
    <3> QED
      BY <1>1, <1>3, <2>1, <3>1, <3>2, <3>3 DEF InStream
  <2> QED
    BY <1>1, <1>2, <1>5, <2>2, <2>3, <2>5 DEF OrderInv, ReceiverInv, DeliveredPrefix
<1> QED
  BY <1>10, <1>11

\* The room in a block's buffer is never less than what is left of the chunk.
LEMMA BlockRoomFacts ==
  ASSUME FramingInv, OrderInv, InBlock
  PROVE  /\ BlockRoom \in Int /\ BlockRoom >= Remaining
         /\ Lesser(blockChunkLength, BlockRoom) = Remaining
         /\ blockEvent # NoEvent /\ blockChunkLength > 0
<1>1. /\ Pipe # <<>> /\ inPos >= HEADERLENGTH /\ Current.num # 0
      /\ blockEvent = [channel |-> Current.channel, size |-> BlockSize(Current),
                       data |-> Current.at.part \o Got]
      /\ blockChunkLength = Remaining
  BY DEF InBlock, InPayload
<1>2. PICK len \in Nat \ {0}, num \in Nat \ {0}, plen \in Nat, got \in Nat, left \in Nat :
        /\ len = Len(Current.body) /\ num = Current.num /\ plen = Len(Current.at.part)
        /\ got = Len(Got) /\ left = Current.at.left
  <2>1. Current.num \in Nat \ {0}
    BY <1>1, FrontChunk
  <2>2. Len(Got) \in Nat
    <3>1. 0 \in Nat /\ 0 <= Remaining
      BY <1>1, FrontChunk
    <3> QED
      BY <1>1, <3>1, GotGrows
  <2> QED
    BY <1>1, <2>1, <2>2, FrontChunk
<1>3. /\ Remaining = len - got /\ Remaining \in Nat \ {0}
      /\ Len(Current.at.part \o Got) = plen + got
  <2>1. 0 \in Nat /\ 0 <= Remaining
    BY <1>1, FrontChunk
  <2>2. got = inPos - HEADERLENGTH /\ Got \in Seq(Byte)
    BY <1>1, <1>2, <2>1, GotGrows
  <2>3. Remaining = len - got /\ Remaining \in Nat \ {0}
    <3>1. /\ Remaining = HEADERLENGTH + Len(Current.body) - inPos /\ inPos \in Nat
          /\ Remaining \in Nat \ {0}
      BY <1>1, FrontChunk
    <3> QED
      BY <1>2, <2>2, <3>1
  <2>4. Current.at.part \in Seq(Byte)
    BY <1>1, FrontChunk
  <2>5. Len(Current.at.part \o Got) = Len(Current.at.part) + Len(Got)
    BY <2>2, <2>4, ConcatType
  <2> QED
    BY <1>2, <2>3, <2>5
<1>4. /\ left = 0 => plen = 0
      /\ num # 1 => len = Capacity
      /\ left # 0 => len <= Capacity
  BY <1>1, <1>2, FrontChunk DEF StampFits, BlockChunkFits
<1>5. BlockSize(Current) \in Nat /\ BlockSize(Current) - plen >= len
  <2>1. CASE num = 1 /\ left = 0
    <3>1. BlockSize(Current) = len /\ plen = 0
      BY <1>2, <1>4, <2>1 DEF BlockSize
    <3> QED
      BY <3>1
  <2>2. CASE ~(num = 1 /\ left = 0)
    <3>1. BlockSize(Current) = plen + num * Capacity
      BY <1>2, <2>2 DEF BlockSize
    <3>2. len <= Capacity
      BY <1>4, <2>2
    <3>3. num * Capacity \in Nat /\ Capacity <= num * Capacity
      <4>1. num * Capacity = Capacity + (num - 1) * Capacity /\ (num - 1) * Capacity \in Nat
        OBVIOUS
      <4> QED
        BY <4>1
    <3> QED
      BY <3>1, <3>2, <3>3
  <2> QED
    BY <2>1, <2>2
<1>6. BlockRoom = BlockSize(Current) - (plen + got)
  BY <1>1, <1>3 DEF BlockRoom
<1>7. BlockRoom \in Int /\ BlockRoom >= Remaining
  BY <1>3, <1>5, <1>6
<1>8. Lesser(blockChunkLength, BlockRoom) = Remaining
  BY <1>1, <1>3, <1>7 DEF Lesser
<1>9. blockEvent # NoEvent
  <2>1. Current.channel # NULL
    BY <1>1, FrontChunk
  <2> QED
    BY <1>1, <2>1 DEF NoEvent, Event
<1> QED
  BY <1>1, <1>3, <1>7, <1>8, <1>9

LEMMA BlockReadPartKeepsOrder ==
  ASSUME FramingInv, OrderInv, NEW k \in Nat \ {0}, BlockReadPart(k)
  PROVE  OrderInv'
<1>1. /\ TypeOK /\ SendPosition /\ ReceivePosition
      /\ Consume(k) /\ k <= Available /\ UNCHANGED <<writeBufferList, readPos>>
      /\ RunReadFrame
      /\ UNCHANGED <<rcvStatus, desync, hdrPos, streamEvent, nowChunkNum>>
      /\ streamEvent = NoEvent /\ blockChunkLength > 0 /\ rcvStatus = "STATUS_CONNECTED"
  BY DEF FramingInv, ReadsStayInChunk, BlockReadPart, RunReadFrame, InBlockPart, Reading
<1>2. InBlock /\ Front.msg = Len(delivered) + 1
  <2>1. ~InStream
    <3>1. ASSUME InStream PROVE FALSE
      <4>1. blockChunkLength = 0
        BY <3>1 DEF InStream
      <4> QED
        BY <1>1, <4>1
    <3> QED
      BY <3>1
  <2>2. ~AtHeader
    <3>1. ASSUME AtHeader PROVE FALSE
      <4>1. blockChunkLength = 0
        BY <3>1 DEF AtHeader
      <4> QED
        BY <1>1, <4>1
    <3> QED
      BY <3>1
  <2> QED
    BY <1>1, <2>1, <2>2 DEF OrderInv, ReceiverInv
<1>3. /\ Pipe # <<>> /\ inPos >= HEADERLENGTH /\ hdrPos = 0 /\ Current.num # 0
      /\ blockEvent = [channel |-> Current.channel, size |-> BlockSize(Current),
                       data |-> Current.at.part \o Got]
      /\ blockChunkLength = Remaining /\ nowChunkNum = Current.num
  BY <1>2 DEF InBlock, InPayload
<1>4. /\ k <= Remaining
      /\ IF k = Remaining THEN Pipe' = Tail(Pipe) /\ inPos' = 0
         ELSE Pipe' = Pipe /\ inPos' = inPos + k
  BY <1>1, ConsumeFacts
<1>5. sent' = sent /\ SenderStamp' = SenderStamp
  BY <1>1, ReaderSparesSender
<1>6. PICK part \in Seq(Byte), row \in Seq(Byte) :
        /\ part = Current.at.part /\ row = Got \o Payload(k)
        /\ row = SubSeq(Current.body, 1, inPos + k - HEADERLENGTH)
        /\ k = Remaining => row = Current.body
        /\ blockEvent.data \o Payload(k) = part \o row
  <2>1. /\ Got \in Seq(Byte) /\ Payload(k) \in Seq(Byte)
        /\ Got \o Payload(k) = SubSeq(Current.body, 1, inPos + k - HEADERLENGTH)
        /\ k = Remaining => Got \o Payload(k) = Current.body
    BY <1>3, <1>4, GotGrows
  <2>2. Current.at.part \in Seq(Byte)
    BY <1>3, FrontChunk
  <2>3. (Current.at.part \o Got) \o Payload(k) = Current.at.part \o (Got \o Payload(k))
    <3>1. PICK p \in Seq(Byte), g \in Seq(Byte), r \in Seq(Byte) :
            p = Current.at.part /\ g = Got /\ r = Payload(k)
      BY <2>1, <2>2
    <3>2. (p \o g) \o r = p \o (g \o r)
      BY ConcatAssociative
    <3> QED
      BY <3>1, <3>2
  <2>4. Got \o Payload(k) \in Seq(Byte)
    BY <2>1, ConcatProperties
  <2> QED
    BY <1>3, <2>1, <2>2, <2>3, <2>4
<1>7. /\ Len(Current.body) \in Nat \ {0} /\ inPos \in Nat
      /\ Remaining = HEADERLENGTH + Len(Current.body) - inPos
      /\ Current.at.msg \in Nat /\ Front = Current.at /\ BlockChunkFits(Current)
      /\ Current.num \in Nat \ {0} /\ Current.channel \in Channels
      /\ Current.at.left \in Nat
  <2>1. Current.num \in Nat \ {0}
    BY <1>3, FrontChunk
  <2> QED
    BY <1>3, <2>1, FrontChunk
<1>8. IF k = Remaining THEN BlockChunkComplete(part \o row)
      ELSE /\ blockEvent' = [blockEvent EXCEPT !.data = part \o row]
           /\ blockChunkLength' = Remaining - k
           /\ UNCHANGED delivered
  BY <1>2, <1>6, BlockRoomFacts DEF BlockReadPart
<1>9. CASE k = Remaining
  <2>1. ChainInv' /\ Front' = After(Current)
    BY <1>3, <1>4, <1>5, <1>9, ChainAdvances DEF OrderInv
  <2>2. row = Current.body /\ BlockChunkComplete(part \o row) /\ inPos' = 0
    BY <1>4, <1>6, <1>8, <1>9
  <2>3. CASE Current.num = 1
    <3>1. /\ delivered' = Append(delivered, BlockMessage(Current.channel, part \o row))
          /\ blockEvent' = NoEvent /\ blockChunkLength' = 0
      BY <1>3, <2>2, <2>3 DEF BlockChunkComplete
    <3>2. /\ Current.at.msg <= Len(sent)
          /\ sent[Current.at.msg] = BlockMessage(Current.channel, part \o row)
      BY <1>6, <1>7, <2>2, <2>3 DEF BlockChunkFits
    <3>3. DeliveredPrefix' /\ Len(delivered') = Len(delivered) + 1
      BY <1>2, <1>5, <1>7, <3>1, <3>2, DeliverNext DEF OrderInv
    <3>4. Front' = Stamp(Current.at.msg + 1, NULL, 0, <<>>)
      BY <2>1, <2>3 DEF After
    <3>5. Front'.msg = Len(delivered') + 1 /\ Front'.left = 0
      BY <1>2, <1>7, <3>3, <3>4 DEF Stamp
    <3>6. AtHeader'
      BY <1>1, <1>3, <2>2, <3>1, <3>5 DEF AtHeader, BlockAt, NoEvent, Event
    <3> QED
      BY <1>1, <2>1, <3>3, <3>5, <3>6 DEF OrderInv, ReceiverInv
  <2>4. CASE Current.num # 1
    <3>1. /\ blockEvent' = [blockEvent EXCEPT !.data = part \o row]
          /\ delivered' = delivered /\ blockChunkLength' = 0
      <4>1. nowChunkNum > 1
        <5>1. nowChunkNum = Current.num /\ Current.num \in Nat \ {0}
          BY <1>3, <1>7
        <5> QED
          BY <2>4, <5>1
      <4> QED
        BY <2>2, <4>1 DEF BlockChunkComplete
    <3>2. Front' = Stamp(Current.at.msg, Current.channel, Current.num - 1, part \o row)
      BY <1>3, <1>6, <2>1, <2>2, <2>4 DEF After
    <3>3. /\ Front'.msg = Len(delivered') + 1 /\ Front'.left = Current.num - 1
          /\ Front'.channel = Current.channel /\ Front'.part = part \o row
      BY <1>2, <1>7, <3>1, <3>2 DEF Stamp
    <3>4. BlockSize(Current) = Len(part \o row) + (Current.num - 1) * Capacity
      <4>1. Len(row) = Capacity
        BY <1>3, <1>7, <2>2, <2>4 DEF BlockChunkFits
      <4>2. Len(part \o row) = Len(part) + Capacity /\ Len(part) \in Nat
        BY <4>1, ConcatType
      <4>3. BlockSize(Current) = Len(part) + Current.num * Capacity
        BY <1>6, <2>4 DEF BlockSize
      <4>4. (Current.num - 1) * Capacity = Current.num * Capacity - Capacity
        BY <1>7
      <4>5. Current.num * Capacity \in Int
        BY <1>7
      <4> QED
        BY <4>2, <4>3, <4>4, <4>5
    <3>5. blockEvent' = [channel |-> Current.channel, size |-> BlockSize(Current),
                         data |-> part \o row]
      BY <1>3, <3>1
    <3>6. Current.num - 1 # 0
      BY <1>7, <2>4
    <3>7. blockEvent' = BlockAt(Front)'
      BY <3>3, <3>4, <3>5, <3>6 DEF BlockAt
    <3>8. AtHeader'
      BY <1>1, <1>3, <2>2, <3>1, <3>7 DEF AtHeader, NoEvent, Event
    <3> QED
      BY <1>1, <1>5, <2>1, <3>1, <3>3, <3>8 DEF OrderInv, ReceiverInv, DeliveredPrefix
  <2> QED
    BY <2>3, <2>4
<1>10. CASE k # Remaining
  <2>1. Pipe' = Pipe /\ inPos' = inPos + k /\ Current' = Current
    BY <1>4, <1>10 DEF Current
  <2>2. ChainInv' /\ Front' = Front
    BY <1>5, <2>1, ChainUnchanged DEF OrderInv
  <2>3. /\ delivered' = delivered /\ blockChunkLength' = Remaining - k
        /\ blockEvent' = [blockEvent EXCEPT !.data = part \o row]
    BY <1>8, <1>10
  <2>4. Got' = row
    <3>1. Got' = SubSeq(Current'.body, 1, inPos' - HEADERLENGTH)
      BY DEF Got
    <3>2. Current'.body = Current.body /\ inPos' - HEADERLENGTH = inPos + k - HEADERLENGTH
      <4>1. Current'.body = Current.body
        BY <2>1
      <4>2. inPos' - HEADERLENGTH = inPos + k - HEADERLENGTH
        BY <1>7, <2>1
      <4> QED
        BY <4>1, <4>2
    <3>3. row = SubSeq(Current.body, 1, inPos + k - HEADERLENGTH)
      BY <1>6
    <3> QED
      BY <3>1, <3>2, <3>3
  <2>5. InBlock'
    <3>1. InPayload' /\ Current'.num # 0 /\ nowChunkNum' = Current'.num
      BY <1>1, <1>3, <1>7, <2>1 DEF InPayload
    <3>2. blockEvent' = [channel |-> Current'.channel, size |-> BlockSize(Current)',
                         data |-> Current'.at.part \o Got']
      BY <1>3, <1>6, <2>1, <2>3, <2>4 DEF BlockSize
    <3>3. Remaining' = Remaining - k
      <4>1. ChunkBytes(Current)' = ChunkBytes(Current)
        BY <2>1 DEF ChunkBytes
      <4>2. ChunkBytes(Current) = HEADERLENGTH + Len(Current.body)
        BY DEF ChunkBytes
      <4> QED
        BY <1>7, <2>1, <4>1, <4>2 DEF Remaining
    <3>4. streamEvent' = NoEvent'
      BY <1>1 DEF NoEvent, Event
    <3> QED
      BY <2>3, <3>1, <3>2, <3>3, <3>4 DEF InBlock
  <2> QED
    BY <1>1, <1>2, <1>5, <2>2, <2>3, <2>5 DEF OrderInv, ReceiverInv, DeliveredPrefix
<1> QED
  BY <1>9, <1>10

\* A full buffer and a lost framing do not happen, and a failed recv() ends
\* the reading.
LEMMA OtherReadsKeepOrder ==
  ASSUME FramingInv, OrderInv,
         StreamReadFull \/ BlockReadFull \/ LoseFraming \/ RunReadError
  PROVE  OrderInv'
<1>1. CASE StreamReadFull
  <2>1. /\ rcvStatus = "STATUS_CONNECTED" /\ streamEvent # NoEvent
        /\ Len(streamEvent.data) >= streamEvent.size
    BY <1>1 DEF StreamReadFull, Reading, InStreamPart
  <2>2. InStream
    BY <2>1 DEF OrderInv, ReceiverInv, AtHeader, InBlock
  <2>3. /\ Pipe # <<>> /\ inPos >= HEADERLENGTH
        /\ streamEvent.size = Len(Current.body) /\ streamEvent.data = Got
    BY <2>2 DEF InStream, InPayload
  <2>4. 0 \in Nat /\ 0 <= Remaining
    BY <2>3, FrontChunk
  <2>5. Len(Got) = inPos - HEADERLENGTH
    BY <2>3, <2>4, GotGrows
  <2> QED
    BY <2>1, <2>3, <2>5, FrontChunk
<1>2. CASE BlockReadFull
  <2>1. /\ rcvStatus = "STATUS_CONNECTED" /\ blockChunkLength > 0 /\ BlockRoom = 0
    BY <1>2 DEF BlockReadFull, Reading, InBlockPart
  <2>2. blockChunkLength # 0
    BY <2>1
  <2>3. InBlock
    BY <2>1, <2>2 DEF OrderInv, ReceiverInv, AtHeader, InStream
  <2>4. BlockRoom >= Remaining /\ Pipe # <<>>
    BY <2>3, BlockRoomFacts DEF InBlock, InPayload
  <2> QED
    BY <2>1, <2>4, FrontChunk
<1>3. CASE LoseFraming
  <2>1. /\ rcvStatus = "STATUS_CONNECTED" /\ streamEvent = NoEvent
        /\ ~InBlockPart /\ inPos # hdrPos
    BY <1>3 DEF LoseFraming, Reading, InHeaderPart, InStreamPart
  <2>2. ~AtHeader
    BY <2>1 DEF AtHeader
  <2>3. ~InBlock
    BY <2>1, BlockRoomFacts DEF InBlockPart
  <2>4. InStream
    BY <2>1, <2>2, <2>3 DEF OrderInv, ReceiverInv
  <2>5. streamEvent.channel = Current.channel /\ Pipe # <<>>
    BY <2>4 DEF InStream, InPayload
  <2>6. Current.channel # NULL
    BY <2>5, FrontChunk
  <2> QED
    BY <2>1, <2>5, <2>6 DEF NoEvent, Event
<1>4. CASE RunReadError
  <2>1. /\ rcvStatus' = "STATUS_DISCONNECTED" /\ RunReadFrame
        /\ UNCHANGED <<desync, delivered, netVars>>
    BY <1>4 DEF RunReadError
  <2>2. sent' = sent /\ SenderStamp' = SenderStamp /\ Pipe' = Pipe
    BY <2>1, ReaderSparesSender DEF Pipe, netVars, RunReadFrame
  <2>3. ChainInv'
    BY <2>2, ChainUnchanged DEF OrderInv
  <2> QED
    BY <2>1, <2>2, <2>3 DEF OrderInv, ReceiverInv, DeliveredPrefix
<1> QED
  BY <1>1, <1>2, <1>3, <1>4

LEMMA ChunkHeaderReadPartKeepsOrder ==
  ASSUME FramingInv, OrderInv, NEW k \in Nat \ {0}, ChunkHeaderReadPart(k)
  PROVE  OrderInv'
<1>1. /\ rcvStatus = "STATUS_CONNECTED" /\ inPos = hdrPos /\ RunReadFrame
      /\ hdrPos \in Nat /\ hdrPos < HEADERLENGTH
      /\ desync' = desync /\ delivered' = delivered
  <2>1. hdrPos \in 0 .. HEADERLENGTH - 1
    BY DEF FramingInv, TypeOK
  <2> QED
    BY <2>1 DEF ChunkHeaderReadPart, Reading
<1>2. /\ Pipe # <<>> /\ streamEvent = NoEvent /\ blockChunkLength = 0
      /\ hdrPos + k \in Nat /\ hdrPos + k <= HEADERLENGTH
      /\ Pipe' = Pipe /\ inPos' = hdrPos + k
  BY HeaderPartFacts, FrontChunk
<1>3. AtHeader /\ Front.msg = Len(delivered) + 1
  <2>1. ~(inPos >= HEADERLENGTH)
    BY <1>1
  <2> QED
    BY <1>1, <2>1 DEF OrderInv, ReceiverInv, InStream, InBlock, InPayload
<1>4. sent' = sent /\ SenderStamp' = SenderStamp
  BY <1>1, ReaderSparesSender
<1>5. ChainInv' /\ Front' = Front /\ Current' = Current
  BY <1>2, <1>4, ChainUnchanged DEF OrderInv, Current
<1>6. DeliveredPrefix' /\ ~desync'
  BY <1>1, <1>4 DEF OrderInv, DeliveredPrefix
<1>7. CASE hdrPos + k < HEADERLENGTH
  <2>1. /\ hdrPos' = hdrPos + k
        /\ UNCHANGED <<rcvStatus, streamEvent, blockEvent, blockChunkLength, nowChunkNum>>
    BY <1>7 DEF ChunkHeaderReadPart
  <2>2. AtHeader'
    BY <1>2, <1>3, <1>5, <2>1 DEF AtHeader, BlockAt, NoEvent, Event
  <2> QED
    BY <1>1, <1>3, <1>5, <1>6, <2>1, <2>2 DEF OrderInv, ReceiverInv
<1>8. CASE ~(hdrPos + k < HEADERLENGTH)
  <2>1. hdrPos' = 0 /\ ReceiveHeader(Current) /\ inPos' = HEADERLENGTH
    BY <1>2, <1>8 DEF ChunkHeaderReadPart
  <2>2. /\ Current.length = Len(Current.body) /\ Len(Current.body) \in Nat \ {0}
        /\ Current.num \in Nat /\ Current.channel \in Channels
        /\ Current.at.left \in Nat /\ Current.at.part \in Seq(Byte)
        /\ Front = Current.at /\ StampFits(Current.at)
        /\ Current.num # 0 => BlockChunkFits(Current)
    <3>1. Current.num \in Nat
      BY <1>2, FrontChunk
    <3> QED
      BY <1>2, <3>1, FrontChunk
  <2>3. Got' = <<>>
    BY <1>5, <2>1 DEF Got
  <2>4. InPayload'
    BY <1>2, <2>1 DEF InPayload
  <2>5. CASE ReceiveStreamHeader(Current)
    <3>1. /\ Current.num = 0 /\ streamEvent' = Event(Current.channel, Current.length)
          /\ UNCHANGED <<rcvStatus, blockEvent, blockChunkLength>>
      BY <2>5 DEF ReceiveStreamHeader
    <3>2. streamEvent' = [channel |-> Current'.channel, size |-> Len(Current'.body),
                          data |-> Got']
      BY <1>5, <2>2, <2>3, <3>1 DEF Event
    <3>3. blockEvent' = BlockAt(Current.at)'
      BY <1>3, <1>5, <2>2, <3>1 DEF AtHeader, BlockAt
    <3>4. InStream'
      BY <1>2, <1>5, <2>4, <3>1, <3>2, <3>3 DEF InStream
    <3> QED
      BY <1>1, <1>3, <1>5, <1>6, <3>1, <3>4 DEF OrderInv, ReceiverInv
  <2>6. CASE ReceiveBlockHeader(Current)
    <3>1. /\ Current.num > 0
          /\ blockEvent' = IF blockEvent # NoEvent THEN blockEvent
                           ELSE Event(Current.channel, Current.length * Current.num)
          /\ blockChunkLength' = Len(Current.body) /\ nowChunkNum' = Current.num
          /\ UNCHANGED <<rcvStatus, streamEvent>>
      BY <2>2, <2>6 DEF ReceiveBlockHeader
    <3>2. Current.num # 0 /\ BlockChunkFits(Current) /\ blockEvent = BlockAt(Current.at)
      BY <1>3, <2>2, <3>1 DEF AtHeader
    <3>3. blockEvent' = [channel |-> Current.channel, size |-> BlockSize(Current),
                         data |-> Current.at.part]
      <4>1. CASE Current.at.left = 0
        <5>1. Current.at.part = <<>> /\ blockEvent = NoEvent
          BY <2>2, <3>2, <4>1 DEF StampFits, BlockAt
        <5>2. blockEvent' = [channel |-> Current.channel,
                             size |-> Current.length * Current.num, data |-> <<>>]
          BY <3>1, <5>1 DEF Event
        <5>3. Current.length * Current.num = BlockSize(Current)
          <6>1. CASE Current.num = 1
            BY <2>2, <4>1, <6>1 DEF BlockSize
          <6>2. CASE Current.num # 1
            <7>1. Len(Current.body) = Capacity /\ Len(Current.at.part) = 0
              BY <3>2, <5>1, <6>2 DEF BlockChunkFits
            <7>2. BlockSize(Current) = 0 + Current.num * Capacity
              BY <6>2, <7>1 DEF BlockSize
            <7>3. Current.num * Capacity = Capacity * Current.num
              BY <2>2
            <7>4. Current.num * Capacity \in Nat
              BY <2>2
            <7> QED
              BY <2>2, <7>1, <7>2, <7>3, <7>4
          <6> QED
            BY <6>1, <6>2
        <5> QED
          BY <5>1, <5>2, <5>3
      <4>2. CASE Current.at.left # 0
        <5>1. Current.at.left = Current.num /\ Current.at.channel = Current.channel
          BY <2>2, <3>2, <4>2 DEF BlockChunkFits
        <5>2. blockEvent = [channel |-> Current.channel,
                            size |-> Len(Current.at.part) + Current.num * Capacity,
                            data |-> Current.at.part]
          BY <3>2, <4>2, <5>1 DEF BlockAt
        <5>3. blockEvent # NoEvent
          BY <2>2, <5>2 DEF NoEvent, Event
        <5>4. BlockSize(Current) = Len(Current.at.part) + Current.num * Capacity
          BY <4>2 DEF BlockSize
        <5> QED
          BY <3>1, <5>2, <5>3, <5>4
      <4> QED
        BY <4>1, <4>2
    <3>4. Current.at.part \o Got' = Current.at.part
      BY <2>2, <2>3, ConcatEmptySeq
    <3>5. blockEvent' = [channel |-> Current'.channel, size |-> BlockSize(Current)',
                         data |-> Current'.at.part \o Got']
      BY <1>5, <3>3, <3>4 DEF BlockSize
    <3>6. Remaining' = Len(Current.body)
      <4>1. Remaining' = ChunkBytes(Current') - inPos'
        BY DEF Remaining, ChunkBytes
      <4>2. ChunkBytes(Current') = HEADERLENGTH + Len(Current.body)
        BY <1>5 DEF ChunkBytes
      <4> QED
        BY <2>1, <2>2, <4>1, <4>2
    <3>7. streamEvent' = NoEvent'
      BY <1>2, <3>1 DEF NoEvent, Event
    <3>8. InBlock'
      BY <1>5, <2>4, <3>1, <3>2, <3>5, <3>6, <3>7 DEF InBlock
    <3> QED
      BY <1>1, <1>3, <1>5, <1>6, <3>1, <3>8 DEF OrderInv, ReceiverInv
  <2>7. CASE RefuseBlockHeader(Current)
    <3>1. rcvStatus' = "STATUS_DISCONNECTED"
      BY <2>7 DEF RefuseBlockHeader
    <3> QED
      BY <1>5, <1>6, <3>1 DEF OrderInv, ReceiverInv
  <2> QED
    BY <2>1, <2>5, <2>6, <2>7 DEF ReceiveHeader
<1> QED
  BY <1>7, <1>8

-----------------------------------------------------------------------------

LEMMA OrderInit == Init => IInv
<1> SUFFICES ASSUME Init PROVE IInv
  OBVIOUS
<1>1. FramingInv
  BY FramingInit
<1>2. /\ sent = <<>> /\ delivered = <<>> /\ Len(sent) = 0 /\ Len(delivered) = 0
      /\ commit = NoCommit /\ Pipe = <<>> /\ Len(Pipe) = 0 /\ ~desync
      /\ DOMAIN channelWriteQueue = {} /\ inPos = 0 /\ hdrPos = 0
      /\ streamEvent = NoEvent /\ blockEvent = NoEvent /\ blockChunkLength = 0
  BY DEF Init, Pipe
<1>3. SenderInv
  BY <1>2 DEF SenderInv
<1>4. Front = Stamp(1, NULL, 0, <<>>)
  BY <1>2 DEF Front, SenderStamp, NoCommit
<1>5. ReceiverInv
  BY <1>2, <1>4 DEF ReceiverInv, AtHeader, BlockAt, Stamp
<1>6. ChainInv /\ DeliveredPrefix
  BY <1>2 DEF ChainInv, DeliveredPrefix
<1> QED
  BY <1>1, <1>2, <1>3, <1>5, <1>6 DEF IInv, OrderInv

LEMMA OrderNext ==
  ASSUME IInv, [Next]_vars
  PROVE  IInv'
<1>1. FramingInv'
  BY FramingNext DEF IInv
<1>2. SenderInv' /\ (AllFit' => AllFit) /\ (AllFit' => OrderInv')
  <2>1. CASE \/ \E c \in Channels : BlockRefused(c)
             \/ \E k \in 1 .. MaxChunkBytes : RunWrite(k)
             \/ RunWriteError
             \/ NetworkReset
             \/ UNCHANGED vars
    BY <2>1, SenderKeepsOrder
  <2>2. CASE \E c \in Channels : \E d \in BlockData : BlockWrite(c, d)
    BY <2>2, BlockWriteKeepsOrder
  <2>3. CASE \E c \in Channels : BlockCommit(c)
    BY <2>3, BlockCommitKeepsOrder
  <2>4. CASE \E c \in Channels : \E d \in StreamData : StreamWrite(c, d)
    BY <2>4, StreamWriteKeepsOrder
  <2>5. CASE CommitChunk
    BY <2>5, CommitChunkKeepsOrder
  <2>6. CASE RunRead
    <3>1. RunReadFrame
      BY <2>6 DEF RunRead, StreamReadFull, BlockReadFull, StreamReadPart, BlockReadPart,
         ChunkHeaderReadPart, LoseFraming, RunReadError
    <3>2. SenderInv' /\ AllFit' = AllFit
      BY <3>1, ReaderSparesSender DEF IInv
    <3>3. ASSUME AllFit PROVE OrderInv'
      <4>1. FramingInv /\ OrderInv
        BY <3>3 DEF IInv
      <4>2. CASE StreamReadFull \/ BlockReadFull \/ LoseFraming \/ RunReadError
        BY <4>1, <4>2, OtherReadsKeepOrder
      <4>3. CASE \E k \in 1 .. MaxChunkBytes : StreamReadPart(k)
        BY <4>1, <4>3, StreamReadPartKeepsOrder
      <4>4. CASE \E k \in 1 .. MaxChunkBytes : BlockReadPart(k)
        BY <4>1, <4>4, BlockReadPartKeepsOrder
      <4>5. CASE \E k \in 1 .. MaxChunkBytes : ChunkHeaderReadPart(k)
        BY <4>1, <4>5, ChunkHeaderReadPartKeepsOrder
      <4> QED
        BY <2>6, <4>2, <4>3, <4>4, <4>5 DEF RunRead
    <3> QED
      BY <3>2, <3>3
  <2> QED
    BY <2>1, <2>2, <2>3, <2>4, <2>5, <2>6 DEF Next, Application
<1> QED
  BY <1>1, <1>2 DEF IInv

LEMMA Order == Spec => []IInv
BY OrderInit, OrderNext, PTL DEF Spec

\* For as long as the application queues only messages that fit the fields of
\* their headers, RunRead never takes a byte of a payload for a byte of a header.
THEOREM FramingKept == Spec => []InSync
<1>1. IInv => InSync
  BY DEF IInv, OrderInv, InSync
<1> QED
  BY <1>1, Order, PTL

\* For as long as they fit, what RunRead hands to the event pool is a prefix of
\* what StreamWrite and BlockCommit were given, in their order and unchanged,
\* for any fragments of the socket and any stream chunks within a block.
THEOREM NothingIsLostOrMixed == Spec => []DeliveredInOrder
<1>1. IInv => DeliveredInOrder
  BY DEF IInv, OrderInv, DeliveredPrefix, DeliveredInOrder
<1> QED
  BY <1>1, Order, PTL

-----------------------------------------------------------------------------
(* The channel the data plane implements. *)

\* Every step queues at most one message, or hands over at most one.
LEMMA OneMessagePerStep ==
  ASSUME IInv, [Next]_vars
  PROVE  \/ UNCHANGED <<sent, delivered>>
         \/ \E m \in Message : sent' = Append(sent, m) /\ delivered' = delivered
         \/ \E m : delivered' = Append(delivered, m) /\ sent' = sent
<1>1. CASE Application
  <2>1. CASE \E c \in Channels : BlockRefused(c)
    BY <2>1 DEF BlockRefused
  <2>2. CASE \E c \in Channels : \E d \in BlockData : BlockWrite(c, d)
    BY <2>2 DEF BlockWrite
  <2>3. CASE \E c \in Channels : BlockCommit(c)
    BY <2>3 DEF BlockCommit
  <2>4. ASSUME NEW c \in Channels, NEW d \in StreamData, StreamWrite(c, d)
        PROVE  \E m \in Message : sent' = Append(sent, m) /\ delivered' = delivered
    <3>1. StreamMessage(c, d) \in Message
      BY DEF StreamMessage, Message
    <3> QED
      BY <2>4, <3>1 DEF StreamWrite
  <2>5. CASE CommitChunk
    <3>1. commit.channel \in Channels /\ commit.block \in Seq(Byte)
      <4>1. TypeOK
        BY DEF IInv, FramingInv
      <4> QED
        BY <2>5, <4>1 DEF TypeOK, CommitChunk
    <3>2. BlockMessage(commit.channel, commit.block) \in Message
      BY <3>1 DEF BlockMessage, Message
    <3>3. /\ delivered' = delivered
          /\ \/ sent' = sent
             \/ sent' = Append(sent, BlockMessage(commit.channel, commit.block))
      BY <2>5 DEF CommitChunk
    <3> QED
      BY <3>2, <3>3
  <2> QED
    BY <1>1, <2>1, <2>2, <2>3, <2>4, <2>5 DEF Application
<1>2. CASE \E k \in 1 .. MaxChunkBytes : RunWrite(k)
  BY <1>2 DEF RunWrite
<1>3. CASE RunWriteError \/ NetworkReset
  BY <1>3 DEF RunWriteError, NetworkReset
<1>4. CASE RunRead
  <2>1. sent' = sent
    BY <1>4 DEF RunRead, StreamReadFull, BlockReadFull, StreamReadPart, BlockReadPart,
       ChunkHeaderReadPart, LoseFraming, RunReadError, RunReadFrame
  <2>2. delivered' = delivered \/ \E m : delivered' = Append(delivered, m)
    <3>1. CASE StreamReadFull
      BY <3>1 DEF StreamReadFull, DeliverStream
    <3>2. CASE BlockReadFull
      BY <3>2 DEF BlockReadFull, BlockChunkComplete
    <3>3. CASE \E k \in 1 .. MaxChunkBytes : StreamReadPart(k)
      BY <3>3 DEF StreamReadPart, DeliverStream
    <3>4. CASE \E k \in 1 .. MaxChunkBytes : BlockReadPart(k)
      BY <3>4 DEF BlockReadPart, BlockChunkComplete
    <3>5. CASE \E k \in 1 .. MaxChunkBytes : ChunkHeaderReadPart(k)
      BY <3>5 DEF ChunkHeaderReadPart
    <3>6. CASE LoseFraming \/ RunReadError
      BY <3>6 DEF LoseFraming, RunReadError
    <3> QED
      BY <1>4, <3>1, <3>2, <3>3, <3>4, <3>5, <3>6 DEF RunRead
  <2> QED
    BY <2>1, <2>2
<1>5. CASE UNCHANGED vars
  BY <1>5 DEF vars
<1> QED
  BY <1>1, <1>2, <1>3, <1>4, <1>5 DEF Next

LEMMA ChannelStep ==
  ASSUME IInv, IInv', AllFit', [Next]_vars
  PROVE  [Channel!Next]_(Channel!vars)
<1>1. sent \in Seq(Message) /\ delivered \in Seq(Message)
  BY DEF IInv, FramingInv, TypeOK
<1>2. Len(sent) \in Nat /\ Len(delivered) \in Nat
  BY <1>1
<1>3. DeliveredPrefix'
  BY DEF IInv, OrderInv
<1>4. CASE UNCHANGED <<sent, delivered>>
  BY <1>4 DEF Channel!vars
<1>5. ASSUME NEW m \in Message, sent' = Append(sent, m), delivered' = delivered
      PROVE  Channel!Accept
  <2>1. Len(sent') = Len(sent) + 1 /\ sent'[Len(sent) + 1] = m
    BY <1>1, <1>5, AppendProperties
  <2> QED
    BY <1>5, <2>1 DEF Channel!Accept
<1>6. ASSUME NEW m, delivered' = Append(delivered, m), sent' = sent
      PROVE  Channel!Deliver
  <2>1. delivered' \in Seq(Message)
    BY DEF IInv, FramingInv, TypeOK
  <2>2. Len(delivered') = Len(delivered) + 1 /\ delivered'[Len(delivered) + 1] = m
    BY <1>1, <1>6
  <2>3. Len(delivered') <= Len(sent)
    BY <1>3, <1>6 DEF DeliveredPrefix
  <2>4. m = sent[Len(delivered) + 1]
    BY <1>2, <1>3, <1>6, <2>2 DEF DeliveredPrefix
  <2> QED
    BY <1>2, <1>6, <2>2, <2>3, <2>4 DEF Channel!Deliver
<1> QED
  BY <1>4, <1>5, <1>6, OneMessagePerStep DEF Channel!Next

\* The data plane implements the channel for as long as the messages fit.
THEOREM ChannelIsImplemented == Spec /\ []AllFit => ImplementsChannel
<1>1. Init => Channel!Init
  BY DEF Init, Channel!Init
<1>2. IInv /\ IInv' /\ AllFit' /\ [Next]_vars => [Channel!Next]_(Channel!vars)
  BY ChannelStep
<1> QED
  BY <1>1, <1>2, Order, PTL DEF Spec, ImplementsChannel, Channel!Spec

\* An application that writes only what the headers can carry.
Careful ==
  /\ Capacity < UInt16 /\ MaxBlockBytes <= (UInt8 - 1) * Capacity
  /\ \A d \in BlockData : d # <<>>
  /\ \A d \in StreamData : Len(d) < UInt16

\* What it has gathered and committed is neither empty nor too long.
GatheredFits ==
  /\ \A c \in DOMAIN channelWriteQueue :
       /\ Len(channelWriteQueue[c].data) <= MaxBlockBytes
       /\ channelWriteQueue[c].bufs # 0 => channelWriteQueue[c].data # <<>>
  /\ commit # NoCommit => commit.block # <<>> /\ Len(commit.block) <= MaxBlockBytes

CarefulInv == GatheredFits /\ AllFit

LEMMA SetGathered ==
  ASSUME TypeOK, GatheredFits, NEW c \in Channels, NEW q \in Queue, SetWriteQueue(c, q),
         Len(q.data) <= MaxBlockBytes, q.bufs # 0 => q.data # <<>>
  PROVE  \A d \in DOMAIN channelWriteQueue' :
           /\ Len(channelWriteQueue'[d].data) <= MaxBlockBytes
           /\ channelWriteQueue'[d].bufs # 0 => channelWriteQueue'[d].data # <<>>
BY DEF GatheredFits, SetWriteQueue

LEMMA CommittedFits ==
  ASSUME Careful, NEW c \in Channels, NEW d \in Seq(Byte), d # <<>>, Len(d) <= MaxBlockBytes
  PROVE  Fits(BlockMessage(c, d))
<1>1. Len(d) \in Nat \ {0}
  BY EmptySeq
<1>2. (UInt8 - 1) * Capacity \in Int
  OBVIOUS
<1>3. Len(d) <= (UInt8 - 1) * Capacity
  BY <1>1, <1>2 DEF Careful
<1> QED
  BY <1>1, <1>3 DEF Careful, Fits, BlockMessage

LEMMA CarefulNext ==
  ASSUME Careful, IInv, CarefulInv, [Next]_vars
  PROVE  CarefulInv'
<1>1. TypeOK /\ GatheredFits /\ AllFit
  BY DEF IInv, FramingInv, CarefulInv
<1>2. sent \in Seq(Message) /\ Len(sent) \in Nat
  BY <1>1 DEF TypeOK
<1>3. ASSUME UNCHANGED <<channelWriteQueue, commit, sent>>
      PROVE  CarefulInv'
  BY <1>1, <1>3 DEF CarefulInv, GatheredFits, AllFit, Fits
<1>4. ASSUME NEW m \in Message, Fits(m), sent' = Append(sent, m)
      PROVE  \A i \in 1 .. Len(sent') : Fits(sent'[i])
  <2>1. /\ Len(sent') = Len(sent) + 1 /\ sent'[Len(sent) + 1] = m
        /\ \A i \in 1 .. Len(sent) : sent'[i] = sent[i]
    BY <1>2, <1>4, AppendProperties
  <2> SUFFICES ASSUME NEW i \in 1 .. Len(sent') PROVE Fits(sent'[i])
    OBVIOUS
  <2>2. CASE i \in 1 .. Len(sent)
    BY <1>1, <2>1, <2>2 DEF AllFit
  <2>3. CASE i = Len(sent) + 1
    BY <1>4, <2>1, <2>3
  <2> QED
    BY <1>2, <2>1, <2>2, <2>3
<1>5. ASSUME NEW c \in Channels, NEW d \in BlockData, BlockWrite(c, d)
      PROVE  CarefulInv'
  <2>1. PICK data \in Seq(Byte) : data = GetWriteQueue(c).data \o d
    BY <1>1, GetWriteQueueType, ConcatProperties DEF Queue
  <2>2. data # <<>>
    <3>1. d \in Seq(Byte) /\ d # <<>> /\ GetWriteQueue(c).data \in Seq(Byte)
      BY <1>1, GetWriteQueueType DEF Queue, Careful
    <3> QED
      BY <2>1, <3>1, HeadTailConcat
  <2>3. PICK n \in 1 .. MaxBlockBytes + 1 : SetWriteQueue(c, [bufs |-> n, data |-> data])
    BY <1>5, <2>1 DEF BlockWrite
  <2>4. PICK q : q = [bufs |-> n, data |-> data]
    OBVIOUS
  <2>5. q \in Queue /\ Len(q.data) <= MaxBlockBytes /\ q.data # <<>>
    BY <1>5, <2>1, <2>2, <2>4 DEF Queue, BlockWrite
  <2>6. SetWriteQueue(c, q)
    BY <2>3, <2>4
  <2>7. UNCHANGED <<commit, sent>>
    BY <1>5 DEF BlockWrite
  <2> QED
    BY <1>1, <2>5, <2>6, <2>7, SetGathered DEF CarefulInv, GatheredFits, AllFit, Fits
<1>6. ASSUME NEW c \in Channels, BlockCommit(c)
      PROVE  CarefulInv'
  <2>1. PICK q \in Queue : q = GetWriteQueue(c)
    BY <1>1, GetWriteQueueType
  <2>2. /\ SetWriteQueue(c, q) /\ sent' = sent
        /\ commit' = IF q.bufs = 0 THEN NoCommit
                     ELSE [channel |-> c, num |-> q.bufs, block |-> q.data, part |-> <<>>]
    BY <1>6, <2>1 DEF BlockCommit
  <2>3. Len(q.data) <= MaxBlockBytes /\ (q.bufs # 0 => q.data # <<>>)
    BY <1>1, <2>1 DEF GatheredFits, GetWriteQueue
  <2>4. commit' # NoCommit => /\ commit'.block = q.data /\ commit'.channel = c
                              /\ q.data # <<>> /\ q.data \in Seq(Byte)
    BY <2>2, <2>3 DEF Queue
  <2>5. GatheredFits'
    BY <1>1, <2>2, <2>3, <2>4, SetGathered DEF GatheredFits, NoCommit
  <2>6. commit' # NoCommit => Fits(BlockMessage(commit'.channel, commit'.block))
    BY <2>3, <2>4, CommittedFits
  <2>7. AllFit'
    BY <1>1, <2>2, <2>6 DEF AllFit, Fits, BlockMessage
  <2> QED
    BY <2>5, <2>7 DEF CarefulInv
<1>7. ASSUME NEW c \in Channels, NEW d \in StreamData, StreamWrite(c, d)
      PROVE  CarefulInv'
  <2>1. UNCHANGED <<channelWriteQueue, commit>> /\ sent' = Append(sent, StreamMessage(c, d))
    BY <1>7 DEF StreamWrite, sndVars
  <2>2. StreamMessage(c, d) \in Message /\ Fits(StreamMessage(c, d))
    BY <1>7 DEF StreamMessage, Message, Fits, Careful, StreamWrite
  <2>3. \A i \in 1 .. Len(sent') : Fits(sent'[i])
    BY <1>4, <2>1, <2>2
  <2>4. AllFit'
    BY <1>1, <2>1, <2>3 DEF AllFit, Fits
  <2> QED
    BY <1>1, <2>1, <2>4 DEF CarefulInv, GatheredFits, NoCommit
<1>8. ASSUME CommitChunk
      PROVE  CarefulInv'
  <2>0. PICK q \in Queue, n \in Nat, body \in Seq(Byte), rest \in Seq(Byte) :
          Cut(q, n, body, rest)
    BY <1>8, CommitChunkFacts
  <2>1. /\ q = channelWriteQueue[commit.channel] /\ commit.channel \in Channels
        /\ q.bufs \in Nat \ {0}
        /\ Len(rest) = Len(q.data) - n /\ (q.bufs # 1 => rest # <<>>)
        /\ SetWriteQueue(commit.channel, [bufs |-> q.bufs - 1, data |-> rest])
    BY <2>0 DEF Cut
  <2>2. /\ commit # NoCommit
        /\ \/ commit' = NoCommit /\ sent' = Append(sent, BlockMessage(commit.channel, commit.block))
           \/ /\ commit' = [commit EXCEPT !.num = @ - 1, !.part = @ \o body]
              /\ sent' = sent
    BY <1>8, <2>0 DEF CommitChunk, Cut
  <2>3. /\ commit \in [channel : Channels \cup {NULL}, num : Nat, block : Seq(Byte),
                       part : Seq(Byte)]
        /\ commit.channel \in DOMAIN channelWriteQueue
    BY <1>1, <2>2 DEF TypeOK
  <2>4. /\ commit.block # <<>> /\ Len(commit.block) <= MaxBlockBytes
        /\ Len(q.data) <= MaxBlockBytes /\ commit.block \in Seq(Byte)
    BY <1>1, <2>1, <2>2, <2>3 DEF GatheredFits
  <2>5. /\ Fits(BlockMessage(commit.channel, commit.block))
        /\ BlockMessage(commit.channel, commit.block) \in Message
    BY <2>1, <2>4, CommittedFits DEF BlockMessage, Message
  <2>6. PICK r : r = [bufs |-> q.bufs - 1, data |-> rest]
    OBVIOUS
  <2>7. /\ r \in Queue /\ SetWriteQueue(commit.channel, r)
        /\ Len(r.data) <= MaxBlockBytes /\ (r.bufs # 0 => r.data # <<>>)
    <3>1. Len(q.data) \in Nat
      BY DEF Queue
    <3> QED
      BY <2>1, <2>4, <2>6, <3>1 DEF Queue
  <2>8. \A d \in DOMAIN channelWriteQueue' :
          /\ Len(channelWriteQueue'[d].data) <= MaxBlockBytes
          /\ channelWriteQueue'[d].bufs # 0 => channelWriteQueue'[d].data # <<>>
    BY <1>1, <2>1, <2>7, SetGathered
  <2>9. commit' # NoCommit => commit'.block = commit.block /\ commit'.channel = commit.channel
    BY <2>2, <2>3
  <2>10. \A i \in 1 .. Len(sent') : Fits(sent'[i])
    BY <1>1, <1>4, <2>2, <2>5 DEF AllFit
  <2>11. GatheredFits'
    BY <2>4, <2>8, <2>9 DEF GatheredFits, NoCommit
  <2>12. AllFit'
    BY <2>5, <2>9, <2>10 DEF AllFit, Fits, BlockMessage, NoCommit
  <2> QED
    BY <2>11, <2>12 DEF CarefulInv
<1>9. CASE Application
  <2>1. ASSUME NEW c \in Channels, BlockRefused(c) PROVE CarefulInv'
    BY <1>3, <2>1 DEF BlockRefused
  <2> QED
    BY <1>5, <1>6, <1>7, <1>8, <1>9, <2>1 DEF Application
<1>10. CASE ~Application
  <2>1. UNCHANGED <<channelWriteQueue, commit, sent>>
    BY <1>10 DEF Next, RunWrite, RunWriteError, NetworkReset, RunRead, StreamReadFull,
       BlockReadFull, StreamReadPart, BlockReadPart, ChunkHeaderReadPart, LoseFraming,
       RunReadError, RunReadFrame, sndVars, vars
  <2> QED
    BY <1>3, <2>1
<1> QED
  BY <1>9, <1>10

LEMMA CarefulAlways == Careful => (Spec => []AllFit)
<1> SUFFICES ASSUME Careful PROVE Spec => []AllFit
  OBVIOUS
<1>1. Init => CarefulInv
  BY DEF Init, CarefulInv, GatheredFits, AllFit, NoCommit
<1>2. IInv /\ CarefulInv /\ [Next]_vars => CarefulInv'
  BY CarefulNext
<1>3. CarefulInv => AllFit
  BY DEF CarefulInv
<1> QED
  BY <1>1, <1>2, <1>3, Order, PTL DEF Spec

\* An application that is careful, and only what it writes matters, has its
\* channel: ChunkedConnection implements MessageChannel.
THEOREM CarefulUsersHaveAChannel == Careful => (Spec => ImplementsChannel)
<1> SUFFICES ASSUME Careful PROVE Spec => ImplementsChannel
  OBVIOUS
<1>1. Spec => []AllFit
  BY CarefulAlways
<1> QED
  BY <1>1, ChannelIsImplemented, PTL
=============================================================================
