----------------------------- MODULE StaticBuffer -----------------------------
(***************************************************************************)
(* StaticBuffer: a block of bytes, the position to write at and the        *)
(* position to read at.  A method is an operator on such records; where    *)
(* the code changes the buffer and returns a value, the operator gives     *)
(* both: the new buffer b and the value ret.  What a socket brings (s) or  *)
(* takes (n bytes) is an argument, <<>> or 0 if the call would block.  An  *)
(* error (-1) changes no buffer; module ChunkedConnection says what is     *)
(* done about it.                                                          *)
(***************************************************************************)
EXTENDS Integers, Sequences, SequencesExt

CONSTANTS
  ByteBits,         \* bits of a byte (8)
  SizeT             \* how many values a size_t has

ASSUME BytesAssumption ==
  /\ ByteBits \in Nat \ {0}
  /\ SizeT \in Nat \ {0}

Base == 2 ^ ByteBits
Byte == 0 .. Base - 1

\* Subtraction of size_t.
Minus(m, n) == (m - n) % SizeT
Smaller(m, n) == IF m <= n THEN m ELSE n

New(bufsize) == [buf |-> [i \in 1 .. bufsize |-> 0], writePos |-> 0, readPos |-> 0]

GetBuffer(b) == SubSeq(b.buf, b.readPos + 1, Len(b.buf))
GetDataLength(b) == b.writePos
GetAvailableSize(b) == Minus(Len(b.buf), b.writePos)

\* Mutant: a buffer that is rewound to be written again forgets what is read.
ClearWrites(b) == [b EXCEPT !.writePos = 0]
Clear(b) == [b EXCEPT !.writePos = 0, !.readPos = 0]

WriteSeek(b, newPosition) ==
  IF newPosition > Len(b.buf) THEN [ret |-> FALSE, b |-> b]
  ELSE [ret |-> TRUE, b |-> [b EXCEPT !.writePos = newPosition]]

ReadSeek(b, newPosition) ==
  IF newPosition > Len(b.buf) THEN [ret |-> FALSE, b |-> b]
  ELSE [ret |-> TRUE, b |-> [b EXCEPT !.readPos = newPosition]]

\* memcpy to the write position.
Store(b, s) ==
  [b EXCEPT !.buf = [i \in 1 .. Len(@) |->
                       IF i \in b.writePos + 1 .. b.writePos + Len(s)
                       THEN s[i - b.writePos] ELSE @[i]],
            !.writePos = @ + Len(s)]

-----------------------------------------------------------------------------
(* The socket. *)

\* What recv() is asked for.
Asked(b, readSize) == Smaller(readSize, GetAvailableSize(b))

\* ret 0: all that was asked for is there; 1: not yet.
ReadFromSocket(b, readSize, s) ==
  IF b.writePos >= Len(b.buf) THEN [ret |-> 0, readSize |-> readSize, b |-> b]
  ELSE LET rest == Asked(b, readSize) - Len(s)
       IN  [ret |-> IF rest = 0 THEN 0 ELSE 1, readSize |-> rest, b |-> Store(b, s)]

Unsent(b) == SubSeq(b.buf, b.readPos + 1, b.writePos)

\* ret 0: everything was sent.
WriteToSocket(b, n) ==
  IF b.readPos >= b.writePos THEN [ret |-> 0, b |-> b]
  ELSE [ret |-> IF b.readPos + n = b.writePos THEN 0 ELSE IF n = 0 THEN 1 ELSE n,
        b |-> [b EXCEPT !.readPos = @ + n]]

-----------------------------------------------------------------------------
(* Bytes and numbers. *)

Write(b, s) ==
  IF Len(s) > GetAvailableSize(b) THEN [ret |-> FALSE, b |-> b]
  ELSE [ret |-> TRUE, b |-> Store(b, s)]

Read(b, n) ==
  IF Minus(b.writePos, b.readPos) < n THEN [ret |-> 0, data |-> <<>>, b |-> b]
  ELSE [ret |-> n, data |-> SubSeq(b.buf, b.readPos + 1, b.readPos + n),
        b |-> [b EXCEPT !.readPos = @ + n]]

\* How many values w bytes have.
Limit(w) == 2 ^ (ByteBits * w)

\* The w bytes of a number in network order; a negative one in two's complement.
Htonl(n, w) == [i \in 1 .. w |-> (n \div Limit(w - i)) % Base]
Ntohl(s) == FoldLeft(LAMBDA n, x : n * Base + x, 0, s)

\* The same w bytes as a signed number.
Signed(n, w) == IF 2 * n >= Limit(w) THEN n - Limit(w) ELSE n

PutNumber(b, n, w) == Write(b, Htonl(n, w))

GetNumber(b, w) ==
  LET r == Read(b, w)
  IN  [ret |-> IF r.ret = 0 THEN 0 ELSE Ntohl(r.data), b |-> r.b]

GetSigned(b, w) ==
  LET r == GetNumber(b, w) IN [r EXCEPT !.ret = Signed(@, w)]

WriteUint8(b, n)  == PutNumber(b, n, 1)
WriteUint16(b, n) == PutNumber(b, n, 2)
WriteUint32(b, n) == PutNumber(b, n, 4)
WriteInt8(b, n)   == PutNumber(b, n, 1)
WriteInt16(b, n)  == PutNumber(b, n, 2)
WriteInt32(b, n)  == PutNumber(b, n, 4)

ReadUint8(b)  == GetNumber(b, 1)
ReadUint16(b) == GetNumber(b, 2)
ReadUint32(b) == GetNumber(b, 4)
ReadInt8(b)   == GetSigned(b, 1)
ReadInt16(b)  == GetSigned(b, 2)
ReadInt32(b)  == GetSigned(b, 4)
=============================================================================
