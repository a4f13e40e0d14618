------------------------------ MODULE SendBuffer ------------------------------
(***************************************************************************)
(* vf_create_send_buf and vf_get_from_send_buf: a row of fields is written *)
(* to a static buffer that grows and stays, copied behind its length, and  *)
(* taken apart again by a receiver that may have only a part of it.        *)
(*                                                                         *)
(* One thread makes the calls: the static buffer allows no second.  Any    *)
(* allocation may fail.  "%i" and "%ui" differ in the type of a variable   *)
(* only, and "i" stands for both.                                          *)
(***************************************************************************)
EXTENDS Naturals, Sequences, Functions, SequencesExt

CONSTANTS
  Byte,           \* how many values a byte has: 256
  IntSize,        \* bytes of a uint32_t: 4
  IntMod,         \* how many values it has
  Htonl,          \* the bytes of each value, in network order
  FirstSize,      \* buf_siz of a new buffer: 0x1000
  SizeMod,        \* how many values a size_t has
  Message,        \* the rows of fields that are sent
  Noise,          \* what may come instead
  NULL

Bytes == 0 .. Byte - 1
Words == [1 .. IntSize -> Bytes]

Field ==
  [kind : {"i"}, value : 0 .. IntMod - 1]
    \cup [kind : {"s", "d", "f"}, value : Seq(Bytes)]

ASSUME ConstantsAssumption ==
  /\ {Byte, IntSize, IntMod} \subseteq Nat \ {0}
  /\ Htonl \in Bijection(0 .. IntMod - 1, Words)
  /\ FirstSize \in Nat \ {0} /\ SizeMod \in Nat
  /\ FirstSize < SizeMod
  /\ Message \subseteq Seq(Field)
  /\ Noise \subseteq Seq(Bytes)
  /\ NULL \notin Seq(Bytes)

VARIABLES
  pc,           \* which step of which function is next
  buf,          \* the static buffer, NULL or what its block holds
  bufSiz,       \* its size, as the code knows it
  msg,          \* the message under way
  fields,       \* its fields that are still to be written, or read
  pieces,       \* what is still to be copied of the field being written
  siz,          \* writing: bytes needed so far; reading: bufsiz, bytes left
  pp,           \* bytes that were copied, or passed
  sent,         \* what vf_create_send_buf returned
  src,          \* what vf_get_from_send_buf works on
  got           \* the fields it has found

bufVars == <<buf, bufSiz>>
readVars == <<src, got>>
vars == <<pc, buf, bufSiz, msg, fields, pieces, siz, pp, sent, src, got>>

\* A number is cut to a uint32_t; ntohl is the way back.
Encode(n) == Htonl[n % IntMod]
Decode(w) == CHOOSE n \in 0 .. IntMod - 1 : Htonl[n] = w

\* Mutant: the length counts the '\0' that is not sent.
PiecesWithNul(f) ==
  CASE f.kind = "i" -> <<Encode(f.value)>>
    [] f.kind = "f" -> <<f.value>>
    [] f.kind = "s" -> <<Encode(Len(f.value) + 1), f.value>>
    [] f.kind = "d" -> <<Encode(Len(f.value)), f.value>>

\* What is copied for a field, with one CHECK_SIZE each.
Pieces(f) ==
  CASE f.kind = "i" -> <<Encode(f.value)>>
    [] f.kind = "f" -> <<f.value>>
    [] f.kind \in {"s", "d"} -> <<Encode(Len(f.value)), f.value>>

Init ==
  /\ pc = "idle"
  /\ buf = NULL /\ bufSiz = FirstSize
  /\ msg = <<>> /\ fields = <<>> /\ pieces = <<>> /\ siz = 0 /\ pp = 0
  /\ sent = NULL /\ src = <<>> /\ got = <<>>

Fresh(n) == [k \in 1 .. n |-> 0]

\* A function returns NULL.
Fail ==
  /\ pc' = "idle"
  /\ sent' = NULL
  /\ UNCHANGED <<msg, fields, pieces, siz, pp, readVars>>

-----------------------------------------------------------------------------
(* vf_create_send_buf. *)

\* Mutant: a new buffer is taken to have the size the lost one had.
NewBufferOldSize ==
  IF buf = NULL THEN buf' = Fresh(FirstSize) /\ UNCHANGED bufSiz
  ELSE UNCHANGED bufVars

NewBuffer ==
  IF buf = NULL THEN buf' = Fresh(FirstSize) /\ bufSiz' = FirstSize
  ELSE UNCHANGED bufVars

Create(m) ==
  /\ pc \in {"idle", "sent"}
  /\ NewBuffer
  /\ msg' = m /\ fields' = m /\ pieces' = <<>>
  /\ siz' = 0 /\ pp' = 0 /\ sent' = NULL
  /\ pc' = "write"
  /\ UNCHANGED readVars

CreateNoMemory ==
  /\ pc = "idle" /\ buf = NULL
  /\ bufSiz' = FirstSize
  /\ Fail
  /\ UNCHANGED buf

NextField ==
  /\ pc = "write" /\ pieces = <<>> /\ fields # <<>>
  /\ pieces' = Pieces(Head(fields))
  /\ fields' = Tail(fields)
  /\ UNCHANGED <<pc, bufVars, msg, siz, pp, sent, readVars>>

AddSize ==
  /\ pc = "write" /\ pieces # <<>>
  /\ siz' = siz + Len(Head(pieces))
  /\ pc' = "check"
  /\ UNCHANGED <<bufVars, msg, fields, pieces, pp, sent, readVars>>

DoubleSize == (bufSiz + bufSiz) % SizeMod

TooLarge == bufSiz > DoubleSize

\* Mutant: pp is set to the start of the new block.
GrowFromStart ==
  /\ pc = "check" /\ siz > bufSiz
  /\ ~ TooLarge
  /\ buf' = [k \in 1 .. DoubleSize |-> IF k <= pp THEN buf[k] ELSE 0]
  /\ bufSiz' = DoubleSize
  /\ pp' = 0
  /\ UNCHANGED <<pc, msg, fields, pieces, siz, sent, readVars>>

\* The loop of CHECK_SIZE: realloc moves what was copied, and pp with it.
Grow ==
  /\ pc = "check" /\ siz > bufSiz
  /\ ~ TooLarge
  /\ buf' = [k \in 1 .. DoubleSize |-> IF k <= pp THEN buf[k] ELSE 0]
  /\ bufSiz' = DoubleSize
  /\ UNCHANGED <<pc, msg, fields, pieces, siz, pp, sent, readVars>>

GrowTooLarge ==
  /\ pc = "check" /\ siz > bufSiz
  /\ TooLarge
  /\ Fail
  /\ UNCHANGED bufVars

\* realloc returns NULL, and the buffer is forgotten.
GrowNoMemory ==
  /\ pc = "check" /\ siz > bufSiz
  /\ ~ TooLarge
  /\ buf' = NULL /\ bufSiz' = DoubleSize
  /\ Fail

Copy ==
  LET piece == Head(pieces)
  IN /\ pc = "check" /\ siz <= bufSiz
     /\ buf' = [k \in 1 .. Len(buf) |->
                  IF k \in pp + 1 .. pp + Len(piece) THEN piece[k - pp] ELSE buf[k]]
     /\ pp' = pp + Len(piece)
     /\ pieces' = Tail(pieces)
     /\ pc' = "write"
     /\ UNCHANGED <<bufSiz, msg, fields, siz, sent, readVars>>

Written == pc = "write" /\ pieces = <<>> /\ fields = <<>>

\* The message is returned in a block of its own, behind its length.
Finish ==
  /\ Written
  /\ sent' = Encode(siz) \o SubSeq(buf, 1, siz)
  /\ pc' = "sent"
  /\ UNCHANGED <<bufVars, msg, fields, pieces, siz, pp, readVars>>

FinishNoMemory ==
  /\ Written
  /\ Fail
  /\ UNCHANGED bufVars

-----------------------------------------------------------------------------
(* vf_get_from_send_buf, for the fields of the message. *)

Body == SubSeq(sent, IntSize + 1, Len(sent))

\* What is there behind the length: all of it, its beginning, something else.
Get ==
  /\ pc = "sent"
  /\ src' \in {SubSeq(Body, 1, n) : n \in 0 .. Len(Body)} \cup Noise
  /\ siz' = Len(src') /\ pp' = 0
  /\ fields' = msg /\ got' = <<>>
  /\ pc' = "read"
  /\ UNCHANGED <<bufVars, msg, pieces, sent>>

\* The field ends n bytes further on.  Beyond the end of the buffer anything
\* can happen.
Read(n, value) ==
  /\ IF pp + n <= Len(src)
     THEN /\ pp' = pp + n
          /\ got' = Append(got, [kind |-> Head(fields).kind, value |-> value])
          /\ fields' = Tail(fields)
          /\ UNCHANGED pc
     ELSE /\ pc' = "undefined"
          /\ UNCHANGED <<pp, got, fields>>
  /\ UNCHANGED <<bufVars, msg, pieces, sent, src>>

Reading(kinds) == pc = "read" /\ fields # <<>> /\ Head(fields).kind \in kinds

WordFits == siz >= IntSize

NextWord == SubSeq(src, pp + 1, pp + IntSize)

GetInt ==
  /\ Reading({"i"})
  /\ WordFits
  /\ siz' = siz - IntSize
  /\ Read(IntSize, Decode(NextWord))

DataFits(n) == siz - IntSize >= n

\* A string or data behind its length.
GetData ==
  LET n == Decode(NextWord)
  IN /\ Reading({"s", "d"})
     /\ WordFits /\ pp + IntSize <= Len(src)
     /\ DataFits(n)
     /\ siz' = siz - IntSize - n
     /\ Read(IntSize + n, SubSeq(src, pp + IntSize + 1, pp + IntSize + n))

\* The length itself is not there, and was not missed.
GetNoLength ==
  /\ Reading({"s", "d"})
  /\ WordFits /\ pp + IntSize > Len(src)
  /\ pc' = "undefined"
  /\ UNCHANGED <<bufVars, msg, fields, pieces, siz, pp, sent, readVars>>

\* The caller tells the length; it is neither checked nor counted.
GetFixed ==
  LET n == Len(Head(fields).value)
  IN /\ Reading({"f"})
     /\ Read(n, SubSeq(src, pp + 1, pp + n))
     /\ UNCHANGED siz

TooShort ==
  \/ Reading({"i", "s", "d"}) /\ ~ WordFits
  \/ Reading({"s", "d"}) /\ pp + IntSize <= Len(src) /\ ~ DataFits(Decode(NextWord))

GetTooShort ==
  /\ TooShort
  /\ Fail
  /\ UNCHANGED bufVars

\* There is no memory for the string or the data.
GetNoMemory ==
  /\ Reading({"s", "d"}) /\ WordFits /\ pp + IntSize <= Len(src)
  /\ Fail
  /\ UNCHANGED bufVars

Done ==
  /\ pc = "read" /\ fields = <<>>
  /\ pc' = "idle"
  /\ UNCHANGED <<bufVars, msg, fields, pieces, siz, pp, sent, readVars>>

-----------------------------------------------------------------------------

Proceed ==
  \/ NextField \/ AddSize \/ Grow \/ GrowTooLarge \/ Copy \/ Finish
  \/ GetInt \/ GetData \/ GetNoLength \/ GetFixed \/ GetTooShort \/ Done

NoMemory == CreateNoMemory \/ GrowNoMemory \/ FinishNoMemory \/ GetNoMemory

Next ==
  \/ \E m \in Message : Create(m)
  \/ Get
  \/ Proceed
  \/ NoMemory

Spec == Init /\ [][Next]_vars

-----------------------------------------------------------------------------
(* Properties. *)

\* Every variable has its type.
TypeOK ==
  /\ pc \in {"idle", "write", "check", "sent", "read", "undefined"}
  /\ buf \in Seq(Bytes) \cup {NULL}
  /\ bufSiz \in 0 .. SizeMod - 1
  /\ msg \in Seq(Field) /\ fields \in Seq(Field)
  /\ pieces \in Seq(Seq(Bytes))
  /\ siz \in Nat /\ pp \in Nat
  /\ sent \in Seq(Bytes) \cup {NULL}
  /\ src \in Seq(Bytes)
  /\ got \in Seq(Field)

\* Whatever allocation has failed, in this call or an earlier one, a piece that
\* is copied, after CHECK_SIZE, lies within the block.
CopiesFit ==
  pc = "check" /\ siz <= bufSiz =>
    buf # NULL /\ pp + Len(Head(pieces)) <= Len(buf)

\* However often the buffer grew and moved, what is returned is the length of
\* the message's pieces and then these pieces.
SentIsMessage ==
  pc = "sent" =>
    LET body == FlattenSeq(FlattenSeq([k \in 1 .. Len(msg) |-> Pieces(msg[k])]))
    IN sent = Encode(Len(body)) \o body

HasFixed == \E k \in 1 .. Len(msg) : msg[k].kind = "f"

\* The reader does not read beyond the buffer it was given, be it a part of a
\* message or anything else, unless a field has a fixed size.
ReadsStayInBuffer == pc = "undefined" => HasFixed

\* Neither function leaves its buffer: no copy after a realloc that failed, in this
\* call or an earlier one, and no read of a message that was cut short.
StaysInBuffers == CopiesFit /\ ReadsStayInBuffer

\* From the whole message the reader gets the fields that were written, unless
\* there is no memory for them; from a part of it, without fields of fixed size,
\* it gets nothing.
ReadIsWritten ==
  pc = "read" =>
    /\ src = Body => ~ TooShort
    /\ fields = <<>> =>
         /\ src = Body => got = msg
         /\ HasFixed \/ Len(src) >= Len(Body) \/ src \in Noise
=============================================================================
