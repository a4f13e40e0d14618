-------------------------------- MODULE Streams --------------------------------
(***************************************************************************)
(* Keys and data saved to a stream and loaded from it, and the numbers and *)
(* rows that tools.c appends to a buffer and takes from its front.  A      *)
(* stream is what is left to read of a row of bytes.  What is saved is     *)
(* made of the bytes an application has in its StaticBuffer (ChunkWire).   *)
(***************************************************************************)
EXTENDS ChunkWire

\* htonl of a length as a size_t of 8 bytes (little-endian host).
SizeBytes(n) == Htonl(n, 4) \o <<0, 0, 0, 0>>
SizeOf(s) == Ntohl(SubSeq(s, 1, 4))

After(s, n) == SubSeq(s, n + 1, Len(s))

\* string(p): up to the first NUL.
CString(s) ==
  LET nul == SelectInSeq(s, LAMBDA x : x = 0)
  IN  IF nul = 0 THEN s ELSE SubSeq(s, 1, nul - 1)

Data(key, data) == [key |-> key, data |-> data]

KeySave(key) == SizeBytes(Len(key)) \o key

\* Mutant: the stream is left behind the string that was made of the key.
KeyLoadString(stream) ==
  LET n   == SizeOf(stream)
      key == CString(SubSeq(After(stream, 8), 1, n))
  IN  [key |-> key, rest |-> After(stream, 8 + Len(key))]
KeyLoad(stream) ==
  LET n == SizeOf(stream)
  IN  [key |-> CString(SubSeq(After(stream, 8), 1, n)), rest |-> After(stream, 8 + n)]

DataSave(d) == KeySave(d.key) \o SizeBytes(Len(d.data)) \o d.data

DataLoad(stream) ==
  LET k == KeyLoad(stream)
      n == SizeOf(k.rest)
  IN  [data |-> Data(k.key, SubSeq(After(k.rest, 8), 1, n)), rest |-> After(k.rest, 8 + n)]

-----------------------------------------------------------------------------
(* tools.c: rows of bytes. *)

\* A buffer that grows by what is appended; now is its end.
realloc_push(buf, append) == buf \o append
realloc_push_uint32(buf, data) == realloc_push(buf, Htonl(data, 4))

\* The next siz bytes and what is left, or nothing if less is left.
pop_buf(src, siz) ==
  IF Len(src) < siz THEN [ret |-> <<>>, src |-> src]
  ELSE [ret |-> SubSeq(src, 1, siz), src |-> After(src, siz)]
pop_uint32(src) ==
  IF Len(src) < 4 THEN [ret |-> 0, src |-> src]
  ELSE [ret |-> SizeOf(src), src |-> After(src, 4)]

-----------------------------------------------------------------------------
\* See SavedIsLoaded.
GivenBack(a, b, n) ==
  LET l1 == DataLoad(DataSave(Data(a, b)) \o DataSave(Data(b, a)))
      l2 == DataLoad(l1.rest)
      p1 == pop_buf(realloc_push(realloc_push_uint32(a, n), b), Len(a))
      p2 == pop_uint32(p1.src)
  IN  /\ l1.data = Data(CString(a), b)
      /\ l2 = [data |-> Data(CString(b), a), rest |-> <<>>]
      /\ p1.ret = a /\ p2 = [ret |-> n, src |-> b]

\* What save put into a stream and the realloc_push functions into a buffer is
\* loaded and popped again, one piece after the other, however the application's
\* bytes are divided: of a key with a NUL the text before it is loaded, and nothing
\* behind it is lost.
SavedIsLoaded ==
  \A i \in 0 .. Len(Contents) :
    GivenBack(SubSeq(Contents, 1, i), SubSeq(Contents, i + 1, Len(Contents)),
              Ntohl(Contents) % Limit(4))
=============================================================================
