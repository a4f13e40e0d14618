----------------------------- MODULE Tools_proof -----------------------------
(***************************************************************************)
(* Proofs about the tools.  SendBuffer: for every size of bytes, numbers   *)
(* and buffers, the writer does not copy beyond its block and returns the  *)
(* message, and the reader does not read beyond its buffer unless a field  *)
(* has a fixed size, and gets the fields that were written.  What a fold   *)
(* over a message is worth is proved by its least counterexample.          *)
(* Datagram: for any number of clients, ports and calls, the two ends of a *)
(* handshake name each other, and no socket is left open.                  *)
(***************************************************************************)
EXTENDS SendBuffer, Datagram, Integers, SequenceTheorems, WellFoundedInduction, TLAPS

-----------------------------------------------------------------------------
(* FlattenSeq. *)

\* A nonempty set of naturals has a least element.
LEMMA LeastNumber ==
  ASSUME NEW T \in SUBSET Nat, T # {}
  PROVE  \E m \in T : \A n \in T : m <= n
<1>1. PICK m \in T : \A n \in T : ~ (<<n, m>> \in OpToRel(<, Nat))
  BY NatLessThanWellFounded, WFMin
<1>2. \A n, k \in Nat : n < k => <<n, k>> \in OpToRel(<, Nat)
  BY DEF OpToRel
<1>3. \A n \in T : n \in Nat /\ m \in Nat /\ ~ (n < m)
  BY <1>1, <1>2
<1> QED
  BY <1>3

\* The function that FlattenSeq defines by recursion is the only one of its kind.
Flattens(f, seqs, n) ==
  f = [i \in 1 .. n |-> IF i = 1 THEN seqs[i] ELSE f[i - 1] \o seqs[i]]

LEMMA FlattensValue ==
  ASSUME NEW f, NEW seqs, NEW n \in Nat, Flattens(f, seqs, n), NEW i \in 1 .. n
  PROVE  /\ i = 1 => f[i] = seqs[i]
         /\ i # 1 => f[i] = f[i - 1] \o seqs[i]
BY DEF Flattens

LEMMA FlattensExists ==
  ASSUME NEW seqs, NEW n \in Nat
  PROVE  \E f : Flattens(f, seqs, n)
<1> DEFINE missing == {k \in Nat : ~ \E f : Flattens(f, seqs, k)}
<1>1. SUFFICES ASSUME missing # {} PROVE FALSE
  OBVIOUS
<1>2. PICK m \in missing : \A k \in missing : m <= k
  BY <1>1, LeastNumber
<1>3. CASE m = 0
  <2>1. Flattens([i \in 1 .. 0 |-> seqs[i]], seqs, 0)
    BY DEF Flattens
  <2> QED
    BY <1>2, <1>3, <2>1
<1>4. CASE m # 0
  <2>1. PICK k \in Nat : m = k + 1 /\ ~ (m <= k)
    <3>1. m \in Nat /\ m - 1 \in Nat
      BY <1>2, <1>4
    <3> QED
      BY <3>1
  <2>2. PICK f : Flattens(f, seqs, k)
    BY <1>2, <2>1
  <2> DEFINE g == [i \in 1 .. m |-> IF i = 1 THEN seqs[i] ELSE f[i - 1] \o seqs[i]]
  <2>3. \A i \in 1 .. k : g[i] = f[i]
    <3> TAKE i \in 1 .. k
    <3>1. f[i] = IF i = 1 THEN seqs[i] ELSE f[i - 1] \o seqs[i]
      <4> HIDE DEF g
      <4> QED
        BY <2>2 DEF Flattens
    <3>2. i \in 1 .. m
      BY <2>1
    <3>3. g[i] = IF i = 1 THEN seqs[i] ELSE f[i - 1] \o seqs[i]
      BY <3>2
    <3> HIDE DEF g
    <3> QED
      BY <3>1, <3>3
  <2>4. \A i \in 1 .. m : i # 1 => g[i - 1] = f[i - 1]
    <3> HIDE DEF g
    <3> TAKE i \in 1 .. m
    <3>1. i # 1 => i - 1 \in 1 .. k
      BY <2>1
    <3> QED
      BY <2>3, <3>1
  <2>5. Flattens(g, seqs, m)
    BY <2>4 DEF Flattens
  <2> QED
    BY <1>2, <2>5
<1> QED
  BY <1>3, <1>4

LEMMA FlattensAgree ==
  ASSUME NEW f, NEW seqs, NEW n \in Nat, Flattens(f, seqs, n),
         NEW g, NEW other, NEW k \in Nat, Flattens(g, other, k),
         n <= k, \A i \in 1 .. n : seqs[i] = other[i]
  PROVE  \A i \in 1 .. n : f[i] = g[i]
<1> DEFINE differ == {i \in Nat : i \in 1 .. n /\ f[i] # g[i]}
<1>1. SUFFICES ASSUME differ # {} PROVE FALSE
  OBVIOUS
<1>2. PICK m \in differ : \A i \in differ : m <= i
  BY <1>1, LeastNumber
<1>3. m \in 1 .. n /\ m \in 1 .. k /\ f[m] # g[m]
  BY <1>2
<1>4. CASE m = 1
  BY <1>3, <1>4 DEF Flattens
<1>5. CASE m # 1
  <2>1. m - 1 \in Nat /\ ~ (m <= m - 1) /\ m - 1 \in 1 .. n
    BY <1>3, <1>5
  <2>2. f[m - 1] = g[m - 1]
    BY <1>2, <2>1
  <2>3. f[m] = f[m - 1] \o seqs[m] /\ g[m] = g[m - 1] \o other[m]
    BY <1>3, <1>5 DEF Flattens
  <2> QED
    BY <1>3, <2>2, <2>3
<1> QED
  BY <1>4, <1>5

LEMMA FlattenIs ==
  ASSUME NEW S, NEW seqs \in Seq(S), seqs # <<>>, NEW f, Flattens(f, seqs, Len(seqs))
  PROVE  FlattenSeq(seqs) = f[Len(seqs)]
<1> DEFINE n == Len(seqs)
           h == CHOOSE g : Flattens(g, seqs, n)
<1>1. n \in Nat /\ n # 0 /\ n \in 1 .. n
  OBVIOUS
<1>2. Flattens(h, seqs, n)
  BY FlattensExists, <1>1
<1>3. FlattenSeq(seqs) = h[n]
  BY <1>1 DEF FlattenSeq, Flattens
<1>4. h[n] = f[n]
  <2> HIDE DEF h, n
  <2> QED
    BY <1>1, <1>2, FlattensAgree DEF n
<1> QED
  BY <1>3, <1>4

LEMMA FlattensFirst ==
  ASSUME NEW f, NEW seqs, NEW k \in Nat, 1 \in 1 .. k, Flattens(f, seqs, k)
  PROVE  f[1] = seqs[1]
BY DEF Flattens

LEMMA FlattensLast ==
  ASSUME NEW f, NEW seqs, NEW k \in Nat, 1 < k, Flattens(f, seqs, k)
  PROVE  f[k] = f[k - 1] \o seqs[k]
<1>1. k \in 1 .. k /\ k # 1
  OBVIOUS
<1> QED
  BY <1>1, FlattensValue

LEMMA FlattenLonger ==
  ASSUME NEW S, NEW seqs \in Seq(S), NEW longer \in Seq(S), NEW n \in Nat, NEW k \in Nat,
         Len(seqs) = n, Len(longer) = k, k - 1 = n, 0 < n,
         \A i \in 1 .. n : seqs[i] = longer[i]
  PROVE  FlattenSeq(longer) = FlattenSeq(seqs) \o longer[k]
<1>1. n \in 1 .. n /\ n <= k /\ 1 < k
  OBVIOUS
<1>2. PICK f : Flattens(f, seqs, n)
  BY FlattensExists
<1>3. PICK g : Flattens(g, longer, k)
  BY FlattensExists
<1>4. seqs # <<>> /\ longer # <<>>
  BY <1>1
<1>5. FlattenSeq(seqs) = f[n]
  BY <1>2, <1>4, FlattenIs
<1>6. FlattenSeq(longer) = g[k]
  BY <1>3, <1>4, FlattenIs
<1>7. f[n] = g[n]
  <2>1. \A i \in 1 .. n : f[i] = g[i]
    BY <1>1, <1>2, <1>3, FlattensAgree
  <2> QED
    BY <1>1, <2>1
<1>8. g[k] = g[k - 1] \o longer[k]
  BY <1>1, <1>3, FlattensLast
<1> QED
  BY <1>5, <1>6, <1>7, <1>8

\* What FlattenSeq makes of one row more.
LEMMA FlattenAppend ==
  ASSUME NEW S, NEW seqs \in Seq(Seq(S)), NEW x \in Seq(S)
  PROVE  FlattenSeq(Append(seqs, x)) = FlattenSeq(seqs) \o x
<1>1. CASE seqs = <<>>
  <2>1. FlattenSeq(seqs) = <<>>
    BY <1>1 DEF FlattenSeq
  <2>2. Append(seqs, x) = <<x>>
    BY <1>1
  <2>3. Flattens(<<x>>, <<x>>, 1)
    BY DEF Flattens
  <2>4. FlattenSeq(<<x>>) = x
    <3>1. <<x>> \in Seq(Seq(S)) /\ <<x>> # <<>> /\ Len(<<x>>) = 1 /\ <<x>>[1] = x
      OBVIOUS
    <3> QED
      BY <2>3, <3>1, FlattenIs
  <2> QED
    BY <2>1, <2>2, <2>4
<1>2. CASE seqs # <<>>
  <2>1. /\ Len(seqs) \in Nat
        /\ Append(seqs, x) \in Seq(Seq(S))
        /\ Len(Append(seqs, x)) \in Nat /\ Len(Append(seqs, x)) - 1 = Len(seqs)
        /\ 0 < Len(seqs)
        /\ \A i \in 1 .. Len(seqs) : seqs[i] = Append(seqs, x)[i]
        /\ Append(seqs, x)[Len(Append(seqs, x))] = x
    BY <1>2
  <2> QED
    BY <2>1, FlattenLonger
<1> QED
  BY <1>1, <1>2

LEMMA FlattenType ==
  ASSUME NEW S, NEW seqs \in Seq(Seq(S))
  PROVE  FlattenSeq(seqs) \in Seq(S)
<1>1. CASE seqs = <<>>
  BY <1>1 DEF FlattenSeq
<1>2. CASE seqs # <<>>
  <2>1. PICK n \in Nat : n = Len(seqs) /\ n \in 1 .. n /\ 1 \in 1 .. n
    BY <1>2
  <2>2. PICK f : Flattens(f, seqs, n)
    BY FlattensExists
  <2>3. FlattenSeq(seqs) = f[n]
    BY <1>2, <2>1, <2>2, FlattenIs
  <2>4. \A i \in 1 .. n : seqs[i] \in Seq(S)
    BY <2>1
  <2>5. \A i \in 1 .. n : /\ i = 1 => f[i] = seqs[i]
                         /\ i # 1 => f[i] = f[i - 1] \o seqs[i]
    BY <2>2, FlattensValue
  <2> DEFINE wrong == {i \in Nat : i \in 1 .. n /\ f[i] \notin Seq(S)}
  <2>6. wrong = {}
    <3>1. SUFFICES ASSUME wrong # {} PROVE FALSE
      OBVIOUS
    <3>2. PICK j \in wrong : \A i \in wrong : j <= i
      BY <3>1, LeastNumber
    <3>3. j \in 1 .. n /\ f[j] \notin Seq(S)
      BY <3>2
    <3>4. j # 1
      <4>1. SUFFICES ASSUME j = 1 PROVE FALSE
        OBVIOUS
      <4>2. seqs[j] \in Seq(S)
        BY <2>4, <3>3
      <4>3. f[j] = seqs[j]
        BY <2>1, <2>2, <4>1, FlattensFirst
      <4> QED
        BY <3>3, <4>2, <4>3
    <3>5. j - 1 \in 1 .. n /\ j - 1 \in Nat /\ ~ (j <= j - 1)
      BY <3>3, <3>4
    <3>6. f[j - 1] \in Seq(S)
      BY <3>2, <3>5
    <3>7. f[j] = f[j - 1] \o seqs[j]
      BY <2>5, <3>3, <3>4
    <3> QED
      BY <2>4, <3>3, <3>6, <3>7
  <2> QED
    BY <2>1, <2>3, <2>6
<1> QED
  BY <1>1, <1>2

-----------------------------------------------------------------------------
(* SendBuffer: sequences and numbers. *)

LEMMA SizesAreNumbers ==
  /\ Byte \in Nat \ {0} /\ IntSize \in Nat \ {0} /\ IntMod \in Nat \ {0}
  /\ FirstSize \in Nat \ {0} /\ SizeMod \in Nat /\ FirstSize < SizeMod
BY ConstantsAssumption

USE SizesAreNumbers

LEMMA RowIsNotNull ==
  ASSUME NEW row \in Seq(Bytes)
  PROVE  row # NULL
BY ConstantsAssumption

\* A remainder is below its divisor and not above what is divided.
LEMMA ModBound ==
  ASSUME NEW n \in Nat, NEW m \in Nat \ {0}
  PROVE  /\ n % m \in 0 .. m - 1
         /\ n % m <= n
         /\ n < m => n % m = n
OBVIOUS

\* The type and length of a concatenation.
LEMMA ConcatType ==
  ASSUME NEW S, NEW list \in Seq(S), NEW other \in Seq(S)
  PROVE  /\ list \o other \in Seq(S)
         /\ Len(list \o other) = Len(list) + Len(other)
OBVIOUS

\* A row of k elements of a sequence, from within it.
LEMMA SubSeqFacts ==
  ASSUME NEW S, NEW list \in Seq(S), NEW from \in Nat, NEW k \in Nat,
         from + k <= Len(list)
  PROVE  /\ SubSeq(list, from + 1, from + k) \in Seq(S)
         /\ Len(SubSeq(list, from + 1, from + k)) = k
OBVIOUS

-----------------------------------------------------------------------------
(* SendBuffer: the inductive invariant. *)

\* The size that the code knows is that of the block; what was copied lies in
\* it, and siz counts that and, from CHECK_SIZE to the copy, the next piece.
SizesAgree ==
  /\ buf # NULL => Len(buf) = bufSiz
  /\ pc \in {"write", "check"} => buf # NULL /\ pp <= bufSiz
  /\ pc = "write" => siz = pp
  /\ pc = "check" => pieces # <<>> /\ siz = pp + Len(Head(pieces))
  /\ pc = "sent" => sent # NULL /\ Len(sent) >= IntSize

Inv == TypeOK /\ SizesAgree

\* The reader works on fields of the message; without fixed sizes, siz is what
\* is left of the buffer.
ReaderCounts ==
  pc = "read" =>
    /\ \A k \in 1 .. Len(fields) : \E j \in 1 .. Len(msg) : fields[k] = msg[j]
    /\ HasFixed \/ pp + siz = Len(src)

-----------------------------------------------------------------------------
(* SendBuffer: the representation of numbers. *)

LEMMA RowIsWord ==
  ASSUME NEW row \in Seq(Bytes)
  PROVE  Len(row) = IntSize <=> row \in Words
BY DEF Words

LEMMA WordIsRow ==
  ASSUME NEW w \in Words
  PROVE  w \in Seq(Bytes) /\ Len(w) = IntSize
BY DEF Words

LEMMA EncodeFacts ==
  ASSUME NEW n \in Nat
  PROVE  Encode(n) \in Seq(Bytes) /\ Len(Encode(n)) = IntSize
<1>1. n % IntMod \in 0 .. IntMod - 1
  BY ModBound
<1>2. Htonl \in [0 .. IntMod - 1 -> Words]
  BY ConstantsAssumption DEF Bijection, Injection
<1> QED
  BY <1>1, <1>2, WordIsRow DEF Encode

LEMMA DecodeFacts ==
  ASSUME NEW w \in Words
  PROVE  Decode(w) \in 0 .. IntMod - 1
<1>1. \E n \in 0 .. IntMod - 1 : Htonl[n] = w
  BY ConstantsAssumption DEF Bijection, Surjection
<1> QED
  BY <1>1 DEF Decode

LEMMA NextWordFacts ==
  ASSUME TypeOK, pp + IntSize <= Len(src)
  PROVE  Decode(NextWord) \in 0 .. IntMod - 1
<1>1. src \in Seq(Bytes) /\ pp \in Nat /\ IntSize \in Nat
  BY DEF TypeOK
<1>2. NextWord \in Seq(Bytes) /\ Len(NextWord) = IntSize
  BY <1>1, SubSeqFacts DEF NextWord
<1> QED
  BY <1>2, RowIsWord, DecodeFacts

LEMMA PiecesFacts ==
  ASSUME NEW f \in Field
  PROVE  Pieces(f) \in Seq(Seq(Bytes))
<1>1. CASE f.kind = "i"
  <2>1. f.value \in Nat
    BY <1>1 DEF Field
  <2> QED
    BY <1>1, <2>1, EncodeFacts DEF Pieces
<1>2. CASE f.kind = "f"
  <2>1. f.value \in Seq(Bytes)
    BY <1>2 DEF Field
  <2> QED
    BY <1>2, <2>1 DEF Pieces
<1>3. CASE f.kind \in {"s", "d"}
  <2>1. f.value \in Seq(Bytes) /\ Len(f.value) \in Nat
    BY <1>3 DEF Field
  <2>2. Encode(Len(f.value)) \in Seq(Bytes)
    BY <2>1, EncodeFacts
  <2>3. Pieces(f) = <<Encode(Len(f.value)), f.value>>
    BY <1>3 DEF Pieces
  <2> QED
    BY <2>1, <2>2, <2>3
<1> QED
  BY <1>1, <1>2, <1>3 DEF Field

-----------------------------------------------------------------------------
(* The writer. *)

LEMMA FreshFacts ==
  ASSUME NEW n \in Nat
  PROVE  Fresh(n) \in Seq(Bytes) /\ Len(Fresh(n)) = n
BY DEF Fresh, Bytes

LEMMA InitHolds == Init => Inv
BY DEF Init, Inv, TypeOK, SizesAgree

LEMMA FailKeeps ==
  ASSUME Inv, Fail,
         \/ UNCHANGED bufVars
         \/ buf' = NULL /\ bufSiz' \in 0 .. SizeMod - 1
  PROVE  Inv'
BY DEF Inv, TypeOK, SizesAgree, Fail, bufVars, readVars

LEMMA CreateKeeps ==
  ASSUME Inv, NEW m \in Message, Create(m)
  PROVE  Inv'
<1>1. /\ buf' \in Seq(Bytes) /\ Len(buf') = bufSiz'
      /\ bufSiz' \in 0 .. SizeMod - 1
  <2>1. CASE buf = NULL
    <3>1. buf' = Fresh(FirstSize) /\ bufSiz' = FirstSize
      BY <2>1 DEF Create, NewBuffer
    <3>2. FirstSize \in Nat /\ FirstSize \in 0 .. SizeMod - 1
      OBVIOUS
    <3> QED
      BY <3>1, <3>2, FreshFacts
  <2>2. CASE buf # NULL
    BY <2>2 DEF Create, NewBuffer, bufVars, Inv, TypeOK, SizesAgree
  <2> QED
    BY <2>1, <2>2
<1>2. m \in Seq(Field)
  BY ConstantsAssumption
<1>3. buf' # NULL
  BY <1>1, RowIsNotNull
<1> QED
  BY <1>1, <1>2, <1>3 DEF Create, Inv, TypeOK, SizesAgree, readVars

LEMMA NextFieldKeeps ==
  ASSUME Inv, NextField
  PROVE  Inv'
<1>1. Head(fields) \in Field /\ Tail(fields) \in Seq(Field)
  BY DEF NextField, Inv, TypeOK
<1>2. pieces' \in Seq(Seq(Bytes))
  BY <1>1, PiecesFacts DEF NextField
<1> QED
  BY <1>1, <1>2 DEF NextField, Inv, TypeOK, SizesAgree, bufVars, readVars

LEMMA AddSizeKeeps ==
  ASSUME Inv, AddSize
  PROVE  Inv'
<1>1. Len(Head(pieces)) \in Nat
  <2>1. Head(pieces) \in Seq(Bytes)
    BY DEF AddSize, Inv, TypeOK
  <2> QED
    BY <2>1
<1> QED
  BY <1>1 DEF AddSize, Inv, TypeOK, SizesAgree, bufVars, readVars

LEMMA DoubleFacts ==
  ASSUME TypeOK
  PROVE  DoubleSize \in 0 .. SizeMod - 1
<1>1. bufSiz + bufSiz \in Nat /\ SizeMod \in Nat \ {0}
  BY DEF TypeOK
<1> QED
  BY <1>1, ModBound DEF DoubleSize

LEMMA GrowKeeps ==
  ASSUME Inv, Grow
  PROVE  Inv'
<1>1. DoubleSize \in Nat /\ DoubleSize \in 0 .. SizeMod - 1
  BY DoubleFacts DEF Inv
<1>2. /\ buf \in Seq(Bytes) /\ Len(buf) = bufSiz
      /\ pp \in Nat /\ bufSiz \in Nat /\ pp <= bufSiz /\ bufSiz <= DoubleSize
  BY <1>1 DEF Inv, TypeOK, SizesAgree, Grow, TooLarge
<1>3. \A k \in 1 .. DoubleSize : (IF k <= pp THEN buf[k] ELSE 0) \in Bytes
  BY <1>1, <1>2 DEF Bytes
<1>4. buf' \in Seq(Bytes) /\ Len(buf') = DoubleSize
  BY <1>1, <1>3 DEF Grow
<1>5. buf' # NULL
  BY <1>4, RowIsNotNull
<1> QED
  BY <1>1, <1>2, <1>4, <1>5 DEF Grow, Inv, TypeOK, SizesAgree, readVars

LEMMA CopyKeeps ==
  ASSUME Inv, Copy
  PROVE  Inv'
<1> DEFINE piece == Head(pieces)
<1>1. piece \in Seq(Bytes) /\ Tail(pieces) \in Seq(Seq(Bytes))
  BY DEF Inv, TypeOK, SizesAgree, Copy
<1>2. /\ buf \in Seq(Bytes) /\ Len(buf) = bufSiz /\ bufSiz \in Nat
      /\ pp \in Nat /\ Len(piece) \in Nat /\ pp + Len(piece) <= bufSiz
  <2>1. TypeOK /\ SizesAgree /\ pc = "check" /\ siz <= bufSiz
    BY DEF Inv, Copy
  <2>2. buf \in Seq(Bytes) /\ Len(buf) = bufSiz
    BY <2>1 DEF TypeOK, SizesAgree
  <2>3. pp \in Nat /\ siz = pp + Len(piece)
    BY <2>1 DEF TypeOK, SizesAgree
  <2>4. Len(piece) \in Nat
    BY <1>1
  <2>5. bufSiz \in Nat
    BY <2>2
  <2> HIDE DEF piece
  <2> QED
    BY <2>1, <2>2, <2>3, <2>4, <2>5
<1>3. \A k \in 1 .. Len(buf) :
        (IF k \in pp + 1 .. pp + Len(piece) THEN piece[k - pp] ELSE buf[k]) \in Bytes
  <2> TAKE k \in 1 .. Len(buf)
  <2>1. CASE k \in pp + 1 .. pp + Len(piece)
    <3>1. k - pp \in 1 .. Len(piece)
      BY <1>2, <2>1
    <3> QED
      BY <1>1, <2>1, <3>1
  <2>2. CASE k \notin pp + 1 .. pp + Len(piece)
    BY <1>2, <2>2
  <2> QED
    BY <2>1, <2>2
<1>4. buf' = [k \in 1 .. Len(buf) |->
                IF k \in pp + 1 .. pp + Len(piece) THEN piece[k - pp] ELSE buf[k]]
  BY DEF Copy
<1> HIDE DEF piece
<1>5. buf' \in Seq(Bytes) /\ Len(buf') = bufSiz
  <2>1. buf' \in [1 .. bufSiz -> Bytes]
    BY <1>2, <1>3, <1>4
  <2> QED
    BY <1>2, <2>1
<1>6. buf' # NULL
  BY <1>5, RowIsNotNull
<1>7. /\ pp' = pp + Len(piece) /\ siz = pp + Len(piece)
      /\ pieces' = Tail(pieces)
  BY DEF piece, Inv, SizesAgree, Copy
<1> QED
  BY <1>1, <1>2, <1>5, <1>6, <1>7 DEF Copy, Inv, TypeOK, SizesAgree, readVars

LEMMA FinishKeeps ==
  ASSUME Inv, Finish
  PROVE  Inv'
<1>1. /\ buf \in Seq(Bytes) /\ siz \in Nat /\ siz <= Len(buf)
  BY DEF Inv, TypeOK, SizesAgree, Finish, Written
<1>2. SubSeq(buf, 1, siz) \in Seq(Bytes)
  BY <1>1, SubSeqProperties
<1>3. Encode(siz) \in Seq(Bytes) /\ Len(Encode(siz)) = IntSize
  BY <1>1, EncodeFacts
<1>4. sent' \in Seq(Bytes) /\ Len(sent') >= IntSize
  BY <1>2, <1>3, ConcatType DEF Finish
<1>5. sent' # NULL
  BY <1>4, RowIsNotNull
<1> QED
  BY <1>4, <1>5 DEF Finish, Inv, TypeOK, SizesAgree, bufVars, readVars

-----------------------------------------------------------------------------
(* The reader. *)

LEMMA BodyFacts ==
  ASSUME Inv, pc = "sent"
  PROVE  /\ Body \in Seq(Bytes)
         /\ \A n \in 0 .. Len(Body) : SubSeq(Body, 1, n) \in Seq(Bytes)
<1>1. sent \in Seq(Bytes) /\ Len(sent) >= IntSize
  BY DEF Inv, TypeOK, SizesAgree
<1>2. Body \in Seq(Bytes)
  BY <1>1, SubSeqProperties DEF Body
<1> QED
  BY <1>2, SubSeqProperties

LEMMA GetKeeps ==
  ASSUME Inv, Get
  PROVE  Inv'
<1>1. src' \in Seq(Bytes)
  BY BodyFacts, ConstantsAssumption DEF Get
<1>2. Len(src') \in Nat
  BY <1>1
<1> QED
  BY <1>1, <1>2 DEF Get, Inv, TypeOK, SizesAgree, bufVars

\* What Read leaves to its callers: the type of siz and of the value.
LEMMA ReadKeeps ==
  ASSUME Inv, NEW n \in Nat, NEW value,
         Reading({"i", "s", "d", "f"}), Read(n, value), siz' \in Nat,
         pp + n <= Len(src) => [kind |-> Head(fields).kind, value |-> value] \in Field
  PROVE  Inv'
<1>1. Tail(fields) \in Seq(Field)
  BY DEF Inv, TypeOK, Reading
<1>2. CASE pp + n <= Len(src)
  <2>1. got' \in Seq(Field)
    <3> DEFINE field == [kind |-> Head(fields).kind, value |-> value]
    <3>1. field \in Field /\ got' = Append(got, field) /\ got \in Seq(Field)
      BY <1>2 DEF Inv, TypeOK, Read
    <3> HIDE DEF field
    <3> QED
      BY <3>1
  <2>2. fields' = Tail(fields) /\ pp' = pp + n /\ pc' = "read" /\ pp' \in Nat
    BY <1>2 DEF Read, Reading, Inv, TypeOK
  <2> QED
    BY <1>1, <1>2, <2>1, <2>2 DEF Inv, TypeOK, SizesAgree, Read, Reading, bufVars
<1>3. CASE ~ (pp + n <= Len(src))
  BY <1>3 DEF Inv, TypeOK, SizesAgree, Read, Reading, bufVars
<1> QED
  BY <1>2, <1>3

LEMMA GetIntKeeps ==
  ASSUME Inv, GetInt
  PROVE  Inv'
<1>1. siz' \in Nat /\ Reading({"i", "s", "d", "f"}) /\ Head(fields).kind = "i"
  BY DEF GetInt, WordFits, Inv, TypeOK, Reading
<1>2. pp + IntSize <= Len(src) =>
        [kind |-> Head(fields).kind, value |-> Decode(NextWord)] \in Field
  BY <1>1, NextWordFacts DEF Inv, Field
<1>3. Read(IntSize, Decode(NextWord)) /\ IntSize \in Nat
  BY DEF GetInt
<1> QED
  BY <1>1, <1>2, <1>3, ReadKeeps

LEMMA GetDataKeeps ==
  ASSUME Inv, GetData
  PROVE  Inv'
<1> DEFINE n == Decode(NextWord)
           value == SubSeq(src, pp + IntSize + 1, pp + IntSize + n)
<1>1. /\ Head(fields).kind \in {"s", "d"} /\ Reading({"i", "s", "d", "f"})
      /\ pp + IntSize <= Len(src)
      /\ DataFits(n) /\ siz' = siz - IntSize - n
      /\ Read(IntSize + n, value)
  BY DEF GetData, Reading
<1>2. n \in Nat
  BY <1>1, NextWordFacts DEF Inv
<1> HIDE DEF n
<1>3. siz' \in Nat
  <2>1. siz \in Nat /\ IntSize \in Nat /\ siz - IntSize >= n
    BY <1>1 DEF DataFits, Inv, TypeOK
  <2> QED
    BY <1>1, <1>2, <2>1
<1>4. src \in Seq(Bytes) /\ pp + IntSize \in Nat /\ IntSize + n \in Nat
  BY <1>2 DEF Inv, TypeOK
<1>5. pp + (IntSize + n) <= Len(src) => value \in Seq(Bytes)
  <2> DEFINE from == pp + IntSize
  <2>1. from + n = pp + (IntSize + n)
    BY <1>2 DEF Inv, TypeOK
  <2>2. from \in Nat /\ value = SubSeq(src, from + 1, from + n)
    BY <1>4
  <2> HIDE DEF from, value
  <2> QED
    BY <1>2, <1>4, <2>1, <2>2, SubSeqFacts
<1> HIDE DEF value
<1>6. pp + (IntSize + n) <= Len(src) =>
        [kind |-> Head(fields).kind, value |-> value] \in Field
  BY <1>1, <1>5 DEF Field
<1> QED
  BY <1>1, <1>3, <1>4, <1>6, ReadKeeps

LEMMA GetFixedKeeps ==
  ASSUME Inv, GetFixed
  PROVE  Inv'
<1> DEFINE n == Len(Head(fields).value)
           value == SubSeq(src, pp + 1, pp + n)
<1>1. /\ Head(fields) \in Field /\ Head(fields).kind = "f"
      /\ Reading({"i", "s", "d", "f"}) /\ siz' = siz
      /\ Read(n, value)
  BY DEF GetFixed, Reading, Inv, TypeOK
<1>2. n \in Nat
  <2>1. Head(fields).value \in Seq(Bytes)
    BY <1>1 DEF Field
  <2> QED
    BY <2>1
<1> HIDE DEF n
<1>3. pp + n <= Len(src) => value \in Seq(Bytes)
  BY <1>2, SubSeqFacts DEF Inv, TypeOK
<1> HIDE DEF value
<1>4. pp + n <= Len(src) => [kind |-> Head(fields).kind, value |-> value] \in Field
  BY <1>1, <1>3 DEF Field
<1> QED
  BY <1>1, <1>2, <1>4, ReadKeeps DEF Inv, TypeOK

LEMMA StepKeeps ==
  ASSUME Inv, [Next]_vars
  PROVE  Inv'
<1>1. CASE UNCHANGED vars
  BY <1>1 DEF vars, Inv, TypeOK, SizesAgree
<1>2. CASE NoMemory
  <2>1. CASE CreateNoMemory
    BY <2>1, FailKeeps DEF CreateNoMemory, Inv, TypeOK, bufVars, Fail, SizesAgree, readVars
  <2>2. CASE GrowNoMemory
    BY <2>2, FailKeeps, DoubleFacts DEF GrowNoMemory, Inv
  <2>3. CASE FinishNoMemory \/ GetNoMemory
    BY <2>3, FailKeeps DEF FinishNoMemory, GetNoMemory
  <2> QED
    BY <1>2, <2>1, <2>2, <2>3 DEF NoMemory
<1>3. CASE GrowTooLarge \/ GetTooShort
  BY <1>3, FailKeeps DEF GrowTooLarge, GetTooShort
<1>4. CASE GetNoLength \/ Done
  BY <1>4 DEF GetNoLength, Done, Inv, TypeOK, SizesAgree, bufVars, readVars
<1> QED
  BY <1>1, <1>2, <1>3, <1>4, CreateKeeps, NextFieldKeeps, AddSizeKeeps, GrowKeeps,
     CopyKeeps, FinishKeeps, GetKeeps, GetIntKeeps, GetDataKeeps, GetFixedKeeps
  DEF Next, Proceed

\* The types hold, for all sizes, messages and noise; bufsiz does not become
\* negative.
THEOREM TypeCorrect == Spec => []TypeOK
<1>1. Inv => TypeOK
  BY DEF Inv
<1> QED
  BY <1>1, InitHolds, StepKeeps, PTL DEF Spec

LEMMA InvCopies == Inv => CopiesFit
BY DEF Inv, TypeOK, SizesAgree, CopiesFit

\* Whatever allocations failed, no copy reaches beyond the static buffer.
THEOREM CopiesStayInBlock == Spec => []CopiesFit
BY InitHolds, StepKeeps, InvCopies, PTL DEF Spec

-----------------------------------------------------------------------------
(* What the reader counts. *)

LEMMA NoFixedInFields ==
  ASSUME TypeOK, ReaderCounts, pc = "read", fields # <<>>, ~ HasFixed
  PROVE  Head(fields).kind # "f"
<1>1. PICK j \in 1 .. Len(msg) : fields[1] = msg[j]
  <2>1. 1 \in 1 .. Len(fields)
    BY DEF TypeOK
  <2> QED
    BY <2>1 DEF ReaderCounts
<1>2. Head(fields) = fields[1]
  BY DEF TypeOK
<1> QED
  BY <1>1, <1>2 DEF HasFixed

LEMMA TailOfFields ==
  ASSUME TypeOK, ReaderCounts, pc = "read", fields # <<>>
  PROVE  \A k \in 1 .. Len(Tail(fields)) :
           \E j \in 1 .. Len(msg) : Tail(fields)[k] = msg[j]
<1> TAKE k \in 1 .. Len(Tail(fields))
<1>1. k + 1 \in 1 .. Len(fields) /\ Tail(fields)[k] = fields[k + 1]
  BY DEF TypeOK
<1> QED
  BY <1>1 DEF ReaderCounts

\* A field that is read and counted with the same number of bytes.
LEMMA ReadCounts ==
  ASSUME Inv, ReaderCounts, NEW n \in Nat, NEW value,
         pc = "read", fields # <<>>, Read(n, value), siz' \in Nat,
         HasFixed \/ (siz' = siz - n /\ n <= siz)
  PROVE  ReaderCounts' /\ (pc' = "undefined" => HasFixed')
<1>1. msg' = msg /\ src' = src /\ HasFixed' = HasFixed
  BY DEF Read, HasFixed
<1>2. CASE pp + n <= Len(src)
  <2>1. fields' = Tail(fields) /\ pp' = pp + n /\ pc' = "read"
    BY <1>2 DEF Read
  <2>2. \A k \in 1 .. Len(fields') : \E j \in 1 .. Len(msg') : fields'[k] = msg'[j]
    BY <1>1, <2>1, TailOfFields DEF Inv
  <2>3. HasFixed \/ pp' + siz' = Len(src')
    <3>1. siz \in Nat /\ pp \in Nat /\ (HasFixed \/ pp + siz = Len(src))
      BY DEF ReaderCounts, Inv, TypeOK
    <3>2. CASE HasFixed
      BY <3>2
    <3>3. CASE ~ HasFixed
      <4>1. siz' = siz - n /\ n <= siz /\ pp + siz = Len(src)
        BY <3>1, <3>3
      <4>2. pp' = pp + n /\ Len(src') = Len(src)
        BY <1>1, <2>1
      <4> QED
        BY <3>1, <4>1, <4>2
    <3> QED
      BY <3>2, <3>3
  <2> QED
    BY <1>1, <2>1, <2>2, <2>3 DEF ReaderCounts
<1>3. CASE ~ (pp + n <= Len(src))
  <2>1. pc' = "undefined"
    BY <1>3 DEF Read
  <2>2. HasFixed
    BY <1>3 DEF ReaderCounts, Inv, TypeOK
  <2> QED
    BY <1>1, <2>1, <2>2 DEF ReaderCounts
<1> QED
  BY <1>2, <1>3

LEMMA StepCounts ==
  ASSUME Inv, Inv', ReaderCounts, ReadsStayInBuffer, [Next]_vars
  PROVE  ReaderCounts' /\ ReadsStayInBuffer'
<1>1. CASE pc' \notin {"read", "undefined"}
  BY <1>1 DEF ReaderCounts, ReadsStayInBuffer
<1>2. CASE UNCHANGED <<pc, msg, fields, siz, pp, src>>
  BY <1>2 DEF ReaderCounts, ReadsStayInBuffer, HasFixed
<1>3. CASE Get
  <2>1. pc' = "read" /\ fields' = msg /\ msg' = msg /\ pp' = 0 /\ siz' = Len(src')
    BY <1>3 DEF Get
  <2>2. Len(src') \in Nat
    BY DEF Inv, TypeOK
  <2> QED
    BY <2>1, <2>2 DEF ReaderCounts, ReadsStayInBuffer
<1>4. CASE GetInt
  <2>1. /\ pc = "read" /\ fields # <<>> /\ Read(IntSize, Decode(NextWord))
        /\ siz' = siz - IntSize /\ siz >= IntSize
    BY <1>4 DEF GetInt, Reading, WordFits
  <2>2. siz' \in Nat /\ siz \in Nat
    BY DEF Inv, TypeOK
  <2>3. IntSize <= siz
    BY <2>1, <2>2
  <2> QED
    BY <2>1, <2>2, <2>3, ReadCounts DEF ReadsStayInBuffer
<1>5. CASE GetData
  <2> DEFINE n == Decode(NextWord)
             value == SubSeq(src, pp + IntSize + 1, pp + IntSize + n)
  <2>1. /\ pc = "read" /\ fields # <<>> /\ Read(IntSize + n, value)
        /\ siz' = siz - IntSize - n /\ siz - IntSize >= n
        /\ pp + IntSize <= Len(src)
    BY <1>5 DEF GetData, Reading, DataFits
  <2>2. n \in Nat
    BY <2>1, NextWordFacts DEF Inv
  <2> HIDE DEF n, value
  <2>3. siz' \in Nat /\ siz \in Nat
    BY DEF Inv, TypeOK
  <2>4. siz' = siz - (IntSize + n) /\ IntSize + n <= siz /\ IntSize + n \in Nat
    BY <2>1, <2>2, <2>3
  <2> QED
    BY <2>1, <2>3, <2>4, ReadCounts DEF ReadsStayInBuffer
<1>6. CASE GetNoLength
  <2>1. /\ pc = "read" /\ siz >= IntSize /\ pp + IntSize > Len(src)
        /\ pc' = "undefined" /\ msg' = msg
    BY <1>6 DEF GetNoLength, Reading, WordFits
  <2>2. /\ siz \in Nat /\ pp \in Nat /\ IntSize \in Nat /\ Len(src) \in Nat
        /\ (HasFixed \/ pp + siz = Len(src))
    BY <2>1 DEF ReaderCounts, Inv, TypeOK
  <2>3. HasFixed
    BY <2>1, <2>2
  <2> QED
    BY <2>1, <2>3 DEF ReaderCounts, ReadsStayInBuffer, HasFixed
<1>7. CASE GetFixed
  <2> DEFINE n == Len(Head(fields).value)
             value == SubSeq(src, pp + 1, pp + n)
  <2>1. /\ pc = "read" /\ fields # <<>> /\ Head(fields).kind = "f"
        /\ Read(n, value)
    BY <1>7 DEF GetFixed, Reading
  <2>2. HasFixed
    <3>1. TypeOK
      BY DEF Inv
    <3>2. pc = "read" /\ fields # <<>> /\ Head(fields).kind = "f"
      BY <2>1
    <3>3. ASSUME ~ HasFixed
          PROVE  Head(fields).kind # "f"
      BY <3>1, <3>2, <3>3, NoFixedInFields
    <3> QED
      BY <3>2, <3>3
  <2>3. n \in Nat
    <3>1. Head(fields) \in Field
      <4>1. fields \in Seq(Field) /\ fields # <<>>
        BY <2>1 DEF Inv, TypeOK
      <4> QED
        BY <4>1
    <3>2. Head(fields).value \in Seq(Bytes)
      <4>1. Head(fields).kind = "f"
        BY <2>1
      <4> QED
        BY <3>1, <4>1 DEF Field
    <3> QED
      BY <3>2
  <2> HIDE DEF n, value
  <2>4. siz' \in Nat
    BY DEF Inv, TypeOK
  <2> QED
    BY <2>1, <2>2, <2>3, <2>4, ReadCounts DEF ReadsStayInBuffer
<1>8. CASE Done \/ Finish
  BY <1>8, <1>1 DEF Done, Finish
<1> QED
  BY <1>1, <1>2, <1>3, <1>4, <1>5, <1>6, <1>7, <1>8
  DEF Next, Proceed, NoMemory, CreateNoMemory, GrowNoMemory, FinishNoMemory, GetNoMemory,
      GrowTooLarge, GetTooShort, Fail, Create, NextField, AddSize, Grow, Copy, vars

LEMMA InitCounts == Init => ReaderCounts /\ ReadsStayInBuffer
BY DEF Init, ReaderCounts, ReadsStayInBuffer

\* The reader stays within any buffer it is given, for every message that has
\* no field of fixed size.
THEOREM ReadsStayInside == Spec => []ReadsStayInBuffer
BY InitHolds, StepKeeps, InitCounts, StepCounts, PTL DEF Spec

\* Neither the writer nor the reader ever touches a byte outside its buffer, for every
\* message without a field of fixed size, whatever the allocations and the input.
THEOREM BuffersAreKept == Spec => []StaysInBuffers
BY CopiesStayInBlock, ReadsStayInside, PTL DEF StaysInBuffers

-----------------------------------------------------------------------------
(* SendBuffer: what a message is written as. *)

\* The rows that are copied for the first d fields of a message, and their bytes.
RowsOf(m, d) == FlattenSeq([k \in 1 .. d |-> Pieces(m[k])])
BytesOf(m, d) == FlattenSeq(RowsOf(m, d))

\* The bytes of the rows of one field, or of those of them that are left.
Joined(rows) ==
  IF Len(rows) = 0 THEN <<>> ELSE IF Len(rows) = 1 THEN rows[1] ELSE rows[1] \o rows[2]

LEMMA OtherOrder ==
  ASSUME NEW S, NEW a \in Seq(S), NEW b \in Seq(S), NEW c \in Seq(S),
         NEW ab, ab = a \o b, NEW bc, bc = b \o c
  PROVE  ab \o c = a \o bc
<1> DEFINE left == ab \o c
           right == a \o bc
<1>1. PICK p \in Nat, q \in Nat, r \in Nat : p = Len(a) /\ q = Len(b) /\ r = Len(c)
  OBVIOUS
<1>2. /\ ab \in Seq(S) /\ Len(ab) = p + q
      /\ \A i \in 1 .. p + q : ab[i] = IF i <= p THEN a[i] ELSE b[i - p]
  BY <1>1, ConcatProperties
<1>3. /\ bc \in Seq(S) /\ Len(bc) = q + r
      /\ \A i \in 1 .. q + r : bc[i] = IF i <= q THEN b[i] ELSE c[i - q]
  BY <1>1, ConcatProperties
<1>4. PICK n \in Nat : n = p + q + r
  OBVIOUS
<1>5. /\ left \in Seq(S) /\ Len(left) = n
      /\ \A i \in 1 .. n : left[i] = IF i <= p + q THEN ab[i] ELSE c[i - (p + q)]
  BY <1>1, <1>2, <1>4, ConcatProperties
<1>6. /\ right \in Seq(S) /\ Len(right) = n
      /\ \A i \in 1 .. n : right[i] = IF i <= p THEN a[i] ELSE bc[i - p]
  BY <1>1, <1>3, <1>4, ConcatProperties
<1> HIDE DEF left, right
<1>7. \A i \in 1 .. n : left[i] = right[i]
  <2> TAKE i \in 1 .. n
  <2>1. /\ left[i] = IF i <= p + q THEN ab[i] ELSE c[i - (p + q)]
        /\ right[i] = IF i <= p THEN a[i] ELSE bc[i - p]
    BY <1>5, <1>6
  <2>2. CASE i <= p
    <3>1. i \in 1 .. p + q /\ i <= p + q
      BY <2>2
    <3>2. ab[i] = a[i]
      BY <1>2, <2>2, <3>1
    <3> QED
      BY <2>1, <2>2, <3>1, <3>2
  <2>3. CASE ~ (i <= p) /\ i <= p + q
    <3>1. PICK j \in 1 .. q + r : j = i - p /\ j <= q
      BY <2>3
    <3>2. i \in 1 .. p + q
      BY <2>3
    <3>3. ab[i] = b[j] /\ bc[j] = b[j]
      BY <1>2, <1>3, <2>3, <3>1, <3>2
    <3> QED
      BY <2>1, <2>3, <3>1, <3>3
  <2>4. CASE ~ (i <= p + q)
    <3>1. PICK j \in 1 .. q + r : j = i - p /\ ~ (j <= q) /\ j - q = i - (p + q)
      BY <1>4, <2>4
    <3>2. bc[j] = c[j - q]
      BY <1>3, <3>1
    <3>3. ~ (i <= p)
      BY <2>4
    <3> QED
      BY <2>1, <2>4, <3>1, <3>2, <3>3
  <2> QED
    BY <2>2, <2>3, <2>4
<1>8. left = right
  BY <1>5, <1>6, <1>7, SeqEqual
<1> QED
  BY <1>8 DEF left, right

LEMMA OneOrTwoRows ==
  ASSUME NEW f \in Field
  PROVE  \/ \E a \in Seq(Bytes) : Pieces(f) = <<a>>
         \/ \E a, b \in Seq(Bytes) : Pieces(f) = <<a, b>>
<1>1. CASE f.kind = "i"
  <2>1. f.value \in Nat
    BY <1>1 DEF Field
  <2> QED
    BY <1>1, <2>1, EncodeFacts DEF Pieces
<1>2. CASE f.kind = "f"
  <2>1. f.value \in Seq(Bytes)
    BY <1>2 DEF Field
  <2> QED
    BY <1>2, <2>1 DEF Pieces
<1>3. CASE f.kind \in {"s", "d"}
  <2>1. f.value \in Seq(Bytes) /\ Len(f.value) \in Nat
    BY <1>3 DEF Field
  <2>2. Encode(Len(f.value)) \in Seq(Bytes)
    BY <2>1, EncodeFacts
  <2>3. Pieces(f) = <<Encode(Len(f.value)), f.value>>
    BY <1>3 DEF Pieces
  <2> QED
    BY <2>1, <2>2, <2>3
<1> QED
  BY <1>1, <1>2, <1>3 DEF Field

LEMMA AppendBoth ==
  ASSUME NEW S, NEW rows \in Seq(S), NEW a \in S, NEW b \in S
  PROVE  rows \o <<a, b>> = Append(Append(rows, a), b)
OBVIOUS

LEMMA FlattenField ==
  ASSUME NEW rows \in Seq(Seq(Bytes)), NEW f \in Field
  PROVE  /\ Joined(Pieces(f)) \in Seq(Bytes)
         /\ FlattenSeq(rows \o Pieces(f)) = FlattenSeq(rows) \o Joined(Pieces(f))
<1>1. FlattenSeq(rows) \in Seq(Bytes)
  BY FlattenType
<1>2. ASSUME NEW a \in Seq(Bytes), Pieces(f) = <<a>>
      PROVE  /\ Joined(Pieces(f)) \in Seq(Bytes)
             /\ FlattenSeq(rows \o Pieces(f)) = FlattenSeq(rows) \o Joined(Pieces(f))
  <2>1. Joined(Pieces(f)) = a
    BY <1>2 DEF Joined
  <2>2. rows \o Pieces(f) = Append(rows, a)
    BY <1>2
  <2> QED
    BY <2>1, <2>2, FlattenAppend
<1>3. ASSUME NEW a \in Seq(Bytes), NEW b \in Seq(Bytes), Pieces(f) = <<a, b>>
      PROVE  /\ Joined(Pieces(f)) \in Seq(Bytes)
             /\ FlattenSeq(rows \o Pieces(f)) = FlattenSeq(rows) \o Joined(Pieces(f))
  <2>1. Joined(Pieces(f)) = a \o b
    BY <1>3 DEF Joined
  <2>2. Append(rows, a) \in Seq(Seq(Bytes))
    OBVIOUS
  <2>3. rows \o Pieces(f) = Append(Append(rows, a), b)
    BY <1>3, AppendBoth
  <2>4. FlattenSeq(Append(Append(rows, a), b)) = (FlattenSeq(rows) \o a) \o b
    BY <2>2, FlattenAppend
  <2>5. (FlattenSeq(rows) \o a) \o b = FlattenSeq(rows) \o (a \o b)
    <3> DEFINE first == FlattenSeq(rows)
               more == first \o a
               last == a \o b
    <3>1. first \in Seq(Bytes) /\ more = first \o a /\ last = a \o b
      BY <1>1
    <3> HIDE DEF first, more, last
    <3>2. more \o b = first \o last
      BY <3>1, OtherOrder, SMTT(30)
    <3> QED
      BY <3>2 DEF first, more, last
  <2> QED
    BY <2>1, <2>3, <2>4, <2>5, ConcatType
<1> QED
  BY <1>2, <1>3, OneOrTwoRows

LEMMA RowsType ==
  ASSUME NEW m \in Seq(Field), NEW d \in 0 .. Len(m)
  PROVE  /\ [k \in 1 .. d |-> Pieces(m[k])] \in Seq(Seq(Seq(Bytes)))
         /\ RowsOf(m, d) \in Seq(Seq(Bytes)) /\ BytesOf(m, d) \in Seq(Bytes)
<1>1. \A k \in 1 .. d : Pieces(m[k]) \in Seq(Seq(Bytes))
  BY PiecesFacts
<1>2. [k \in 1 .. d |-> Pieces(m[k])] \in Seq(Seq(Seq(Bytes)))
  BY <1>1
<1>3. RowsOf(m, d) \in Seq(Seq(Bytes))
  BY <1>2, FlattenType DEF RowsOf
<1> QED
  BY <1>2, <1>3, FlattenType DEF BytesOf

\* The bytes of nothing, and of one field more.
LEMMA NoBytes ==
  ASSUME NEW m
  PROVE  BytesOf(m, 0) = <<>>
<1>1. [k \in 1 .. 0 |-> Pieces(m[k])] = <<>>
  OBVIOUS
<1>2. FlattenSeq(<<>>) = <<>>
  BY DEF FlattenSeq
<1> QED
  BY <1>1, <1>2 DEF BytesOf, RowsOf

LEMMA NextBytes ==
  ASSUME NEW m \in Seq(Field), NEW d \in Nat, NEW e \in 1 .. Len(m), e = d + 1
  PROVE  /\ Joined(Pieces(m[e])) \in Seq(Bytes)
         /\ BytesOf(m, e) = BytesOf(m, d) \o Joined(Pieces(m[e]))
<1> DEFINE first == [k \in 1 .. d |-> Pieces(m[k])]
<1>1. first \in Seq(Seq(Seq(Bytes))) /\ RowsOf(m, d) \in Seq(Seq(Bytes))
  BY RowsType
<1>2. m[e] \in Field /\ Pieces(m[e]) \in Seq(Seq(Bytes))
  BY PiecesFacts
<1>3. [k \in 1 .. e |-> Pieces(m[k])] = Append(first, Pieces(m[e]))
  BY <1>2
<1>4. RowsOf(m, e) = RowsOf(m, d) \o Pieces(m[e])
  <2> HIDE DEF first
  <2>1. FlattenSeq(Append(first, Pieces(m[e]))) = FlattenSeq(first) \o Pieces(m[e])
    BY <1>1, <1>2, FlattenAppend
  <2> QED
    BY <1>3, <2>1 DEF RowsOf, first
<1> QED
  BY <1>1, <1>2, <1>4, FlattenField DEF BytesOf

-----------------------------------------------------------------------------
(* SendBuffer: the writer writes the message. *)

\* fields are those of the message after the first d.
RestAfter(d) ==
  /\ d + Len(fields) = Len(msg)
  /\ \A k \in 1 .. Len(fields) : fields[k] = msg[k + d]

\* What was copied and what is left of a field are the first d fields.
WritesMessage ==
  pc \in {"write", "check"} =>
    \E d \in 0 .. Len(msg) :
      /\ RestAfter(d)
      /\ Len(pieces) <= 2
      /\ SubSeq(buf, 1, pp) \o Joined(pieces) = BytesOf(msg, d)

AllBytes == BytesOf(msg, Len(msg))

MessageSent == pc \in {"sent", "read"} => sent = Encode(Len(AllBytes)) \o AllBytes

LEMMA StartFacts ==
  ASSUME NEW S, NEW list \in Seq(S), NEW k \in 0 .. Len(list)
  PROVE  /\ SubSeq(list, 1, k) \in Seq(S) /\ Len(SubSeq(list, 1, k)) = k
         /\ \A i \in 1 .. k : SubSeq(list, 1, k)[i] = list[i]
OBVIOUS

\* A sequence begins with another one.
LEMMA StartIs ==
  ASSUME NEW S, NEW list \in Seq(S), NEW first \in Seq(S), Len(first) <= Len(list),
         \A i \in 1 .. Len(first) : list[i] = first[i]
  PROVE  SubSeq(list, 1, Len(first)) = first
<1> DEFINE start == SubSeq(list, 1, Len(first))
<1>1. /\ start \in Seq(S) /\ Len(start) = Len(first)
      /\ \A i \in 1 .. Len(first) : start[i] = list[i]
  BY StartFacts
<1> HIDE DEF start
<1>2. \A i \in 1 .. Len(start) : start[i] = first[i]
  BY <1>1
<1>3. start = first
  BY <1>1, <1>2, SeqEqual
<1> QED
  BY <1>3 DEF start

LEMMA JoinedOne ==
  ASSUME NEW S, NEW a \in Seq(S)
  PROVE  /\ Head(<<a>>) = a /\ Tail(<<a>>) = <<>> /\ a \o <<>> = a
         /\ Joined(<<a>>) = a /\ Joined(<<>>) = <<>>
BY DEF Joined

LEMMA JoinedTwo ==
  ASSUME NEW S, NEW a \in Seq(S), NEW b \in Seq(S)
  PROVE  /\ Head(<<a, b>>) = a /\ Tail(<<a, b>>) = <<b>>
         /\ Joined(<<a, b>>) = a \o b
BY DEF Joined

LEMMA TwoElements ==
  ASSUME NEW S, NEW rows \in Seq(S), Len(rows) = 2
  PROVE  rows = <<rows[1], rows[2]>>
<1>1. /\ rows[1] \in S /\ rows[2] \in S
  OBVIOUS
<1>2. /\ <<rows[1], rows[2]>> \in Seq(S) /\ Len(<<rows[1], rows[2]>>) = 2
      /\ \A i \in 1 .. 2 : rows[i] = <<rows[1], rows[2]>>[i]
  BY <1>1
<1> QED
  BY <1>2, SeqEqual

LEMMA JoinedTail ==
  ASSUME NEW rows \in Seq(Seq(Bytes)), rows # <<>>, Len(rows) <= 2
  PROVE  /\ Head(rows) \in Seq(Bytes) /\ Len(Tail(rows)) <= 2
         /\ Joined(Tail(rows)) \in Seq(Bytes)
         /\ Joined(rows) = Head(rows) \o Joined(Tail(rows))
<1>1. CASE Len(rows) = 1
  <2>1. PICK a \in Seq(Bytes) : rows = <<a>>
    <3>1. rows[1] \in Seq(Bytes) /\ rows = <<rows[1]>>
      BY <1>1
    <3> QED
      BY <3>1
  <2>2. Len(<<>>) <= 2 /\ <<>> \in Seq(Bytes)
    OBVIOUS
  <2>3. /\ Head(rows) = a /\ Tail(rows) = <<>> /\ Joined(rows) = a
        /\ Joined(<<>>) = <<>> /\ a \o <<>> = a
    BY <2>1, JoinedOne
  <2> QED
    BY <2>2, <2>3
<1>2. CASE Len(rows) = 2
  <2>1. PICK a \in Seq(Bytes), b \in Seq(Bytes) : rows = <<a, b>>
    <3>1. rows[1] \in Seq(Bytes) /\ rows[2] \in Seq(Bytes)
      BY <1>2
    <3>2. rows = <<rows[1], rows[2]>>
      BY <1>2, TwoElements
    <3> QED
      BY <3>1, <3>2
  <2>2. Len(<<b>>) <= 2 /\ Joined(<<b>>) = b
    BY JoinedOne
  <2>3. Head(rows) = a /\ Tail(rows) = <<b>> /\ Joined(rows) = a \o b
    BY <2>1, JoinedTwo
  <2> QED
    BY <2>2, <2>3
<1>3. Len(rows) = 1 \/ Len(rows) = 2
  <2>1. PICK n \in Nat : n = Len(rows) /\ n # 0 /\ n <= 2
    OBVIOUS
  <2> QED
    BY <2>1
<1> QED
  BY <1>1, <1>2, <1>3

\* One field is taken from those that are left.
LEMMA RestOfTail ==
  ASSUME TypeOK, fields # <<>>, NEW d \in 0 .. Len(msg), RestAfter(d),
         fields' = Tail(fields), msg' = msg
  PROVE  \E e \in 1 .. Len(msg) :
           /\ e = d + 1 /\ RestAfter(e)' /\ Head(fields) = msg[e]
<1>1. /\ Len(fields) \in Nat \ {0} /\ Len(msg) \in Nat /\ d + Len(fields) = Len(msg)
      /\ Len(Tail(fields)) = Len(fields) - 1 /\ Head(fields) = fields[1]
  BY DEF TypeOK, RestAfter
<1>2. PICK e \in 1 .. Len(msg) : e = d + 1
  BY <1>1
<1>3. e + Len(Tail(fields)) = Len(msg)
  BY <1>1, <1>2
<1>4. \A k \in 1 .. Len(Tail(fields)) : Tail(fields)[k] = msg[k + e]
  <2> TAKE k \in 1 .. Len(Tail(fields))
  <2>1. PICK j \in 1 .. Len(fields) : j = k + 1
    BY <1>1
  <2>2. Tail(fields)[k] = fields[j]
    BY <1>1, <2>1 DEF TypeOK
  <2>3. fields[j] = msg[j + d] /\ j + d = k + e
    BY <1>2, <2>1 DEF RestAfter
  <2> QED
    BY <2>2, <2>3
<1>5. Head(fields) = msg[e]
  <2>1. 1 \in 1 .. Len(fields) /\ 1 + d = e
    BY <1>1, <1>2
  <2>2. fields[1] = msg[1 + d]
    BY <2>1 DEF RestAfter
  <2> QED
    BY <1>1, <2>1, <2>2
<1> QED
  BY <1>2, <1>3, <1>4, <1>5 DEF RestAfter

LEMMA NothingLeft ==
  ASSUME TypeOK, fields = <<>>, NEW d \in 0 .. Len(msg), RestAfter(d)
  PROVE  d = Len(msg)
BY DEF TypeOK, RestAfter

LEMMA CreateWrites ==
  ASSUME NEW m \in Message, Create(m)
  PROVE  WritesMessage'
<1>1. /\ msg' = m /\ fields' = m /\ pieces' = <<>> /\ pp' = 0 /\ m \in Seq(Field)
  BY ConstantsAssumption DEF Create
<1>2. RestAfter(0)'
  BY <1>1 DEF RestAfter
<1>3. SubSeq(buf', 1, pp') \o Joined(pieces') = <<>>
  BY <1>1 DEF Joined
<1>4. 0 \in 0 .. Len(msg') /\ Len(pieces') <= 2 /\ BytesOf(msg', 0) = <<>>
  BY <1>1, NoBytes
<1> QED
  BY <1>2, <1>3, <1>4 DEF WritesMessage

LEMMA CopiedFacts ==
  ASSUME Inv, pc \in {"write", "check"}
  PROVE  /\ buf \in Seq(Bytes) /\ pp \in Nat /\ pp <= Len(buf) /\ Len(buf) = bufSiz
         /\ SubSeq(buf, 1, pp) \in Seq(Bytes) /\ Len(SubSeq(buf, 1, pp)) = pp
<1>1. buf \in Seq(Bytes) /\ pp \in Nat /\ pp <= Len(buf) /\ Len(buf) = bufSiz
  BY DEF Inv, TypeOK, SizesAgree
<1> QED
  BY <1>1

LEMMA NextFieldWrites ==
  ASSUME Inv, WritesMessage, NextField
  PROVE  WritesMessage'
<1>1. /\ pc = "write" /\ pieces = <<>> /\ fields # <<>> /\ TypeOK
      /\ fields' = Tail(fields) /\ msg' = msg /\ pieces' = Pieces(Head(fields))
      /\ buf' = buf /\ pp' = pp
  BY DEF NextField, Inv, bufVars
<1>2. PICK d \in 0 .. Len(msg) :
        RestAfter(d) /\ SubSeq(buf, 1, pp) \o Joined(pieces) = BytesOf(msg, d)
  BY <1>1 DEF WritesMessage
<1>3. PICK e \in 1 .. Len(msg) : e = d + 1 /\ RestAfter(e)' /\ Head(fields) = msg[e]
  BY <1>1, <1>2, RestOfTail
<1>4. msg \in Seq(Field) /\ Head(fields) \in Field /\ d \in Nat /\ e \in 0 .. Len(msg)
  BY <1>1 DEF TypeOK
<1>5. SubSeq(buf, 1, pp) = BytesOf(msg, d)
  <2>1. Joined(pieces) = <<>> /\ SubSeq(buf, 1, pp) \in Seq(Bytes)
    BY <1>1, CopiedFacts DEF Joined
  <2> QED
    BY <1>2, <2>1
<1>6. BytesOf(msg, e) = BytesOf(msg, d) \o Joined(Pieces(msg[e]))
  BY <1>3, <1>4, NextBytes
<1>7. Len(pieces') <= 2
  <2>1. \A a : Len(<<a>>) <= 2
    OBVIOUS
  <2>2. \A a, b : Len(<<a, b>>) <= 2
    OBVIOUS
  <2> QED
    BY <1>1, <1>4, <2>1, <2>2, OneOrTwoRows
<1>8. SubSeq(buf', 1, pp') \o Joined(pieces') = BytesOf(msg', e)
  BY <1>1, <1>3, <1>5, <1>6
<1> QED
  BY <1>1, <1>3, <1>4, <1>7, <1>8 DEF WritesMessage

LEMMA GrowWrites ==
  ASSUME Inv, WritesMessage, Grow
  PROVE  WritesMessage'
<1>1. /\ pc = "check" /\ UNCHANGED <<pc, msg, fields, pieces, pp>>
      /\ buf' = [k \in 1 .. DoubleSize |-> IF k <= pp THEN buf[k] ELSE 0]
      /\ ~ (bufSiz > DoubleSize)
  BY DEF Grow, TooLarge
<1>2. /\ buf \in Seq(Bytes) /\ pp \in Nat /\ pp <= Len(buf) /\ Len(buf) = bufSiz
  BY <1>1, CopiedFacts
<1>3. DoubleSize \in Nat
  BY DoubleFacts DEF Inv
<1>4. pp <= DoubleSize
  BY <1>1, <1>2, <1>3
<1>5. SubSeq(buf', 1, pp') = SubSeq(buf, 1, pp)
  <2>1. buf' \in Seq(Bytes) /\ Len(buf') = DoubleSize
    <3>1. Inv' /\ pc' = "check" /\ bufSiz' = DoubleSize
      BY <1>1, GrowKeeps DEF Grow
    <3> QED
      BY <3>1 DEF Inv, TypeOK, SizesAgree
  <2> DEFINE copied == SubSeq(buf, 1, pp)
  <2>2. copied \in Seq(Bytes) /\ Len(copied) = pp /\ \A i \in 1 .. pp : copied[i] = buf[i]
    BY <1>2, StartFacts
  <2>3. \A i \in 1 .. pp : buf'[i] = buf[i]
    <3> TAKE i \in 1 .. pp
    <3>1. i \in 1 .. DoubleSize /\ i <= pp
      BY <1>2, <1>3, <1>4
    <3> QED
      BY <1>1, <3>1
  <2> HIDE DEF copied
  <2>4. \A i \in 1 .. pp : buf'[i] = copied[i]
    BY <2>2, <2>3
  <2>5. SubSeq(buf', 1, pp) = copied
    BY <1>4, <2>1, <2>2, <2>4, StartIs
  <2> QED
    BY <1>1, <2>5 DEF copied
<1> QED
  BY <1>1, <1>5 DEF WritesMessage, RestAfter

LEMMA CopyWrites ==
  ASSUME Inv, WritesMessage, Copy
  PROVE  WritesMessage'
<1> DEFINE piece == Head(pieces)
           copied == SubSeq(buf, 1, pp)
<1>1. /\ pc = "check" /\ UNCHANGED <<msg, fields>> /\ pieces' = Tail(pieces)
      /\ pp' = pp + Len(piece) /\ pieces # <<>> /\ pieces \in Seq(Seq(Bytes))
      /\ buf' = [k \in 1 .. Len(buf) |->
                   IF k \in pp + 1 .. pp + Len(piece) THEN piece[k - pp] ELSE buf[k]]
  BY DEF Copy, Inv, TypeOK, SizesAgree
<1>2. PICK d \in 0 .. Len(msg) :
        RestAfter(d) /\ Len(pieces) <= 2 /\ copied \o Joined(pieces) = BytesOf(msg, d)
  BY <1>1 DEF WritesMessage
<1>3. /\ piece \in Seq(Bytes)
      /\ Len(Tail(pieces)) <= 2 /\ Joined(Tail(pieces)) \in Seq(Bytes)
      /\ Joined(pieces) = piece \o Joined(Tail(pieces))
  BY <1>1, <1>2, JoinedTail
<1>4. /\ buf \in Seq(Bytes) /\ pp \in Nat /\ pp <= Len(buf)
      /\ copied \in Seq(Bytes) /\ Len(copied) = pp
  BY <1>1, CopiedFacts
<1>5. pp + Len(piece) <= Len(buf)
  <2>1. siz <= bufSiz /\ siz = pp + Len(piece) /\ Len(buf) = bufSiz
    BY <1>1, CopiedFacts DEF Copy, Inv, SizesAgree
  <2> QED
    BY <2>1
<1>6. SubSeq(buf', 1, pp') = copied \o piece
  <2>1. buf' \in Seq(Bytes) /\ Len(buf') = Len(buf)
    <3>1. Inv' /\ Inv /\ pc' = "write" /\ bufSiz' = bufSiz /\ pc = "check"
      BY CopyKeeps DEF Copy
    <3> QED
      BY <3>1 DEF Inv, TypeOK, SizesAgree
  <2> HIDE DEF piece
  <2>2. \A i \in 1 .. pp : copied[i] = buf[i]
    BY <1>4, StartFacts
  <2> DEFINE all == copied \o piece
  <2>3. /\ all \in Seq(Bytes) /\ Len(all) = pp + Len(piece)
        /\ \A i \in 1 .. pp + Len(piece) :
             all[i] = IF i <= pp THEN copied[i] ELSE piece[i - pp]
    BY <1>3, <1>4, ConcatProperties, SMTT(30)
  <2> HIDE DEF copied, all
  <2>4. \A i \in 1 .. pp + Len(piece) : buf'[i] = all[i]
    <3> TAKE i \in 1 .. pp + Len(piece)
    <3>1. i \in 1 .. Len(buf) /\ (i <= pp <=> i \notin pp + 1 .. pp + Len(piece))
      BY <1>3, <1>4, <1>5
    <3>2. CASE i <= pp
      <4>1. i \in 1 .. pp
        BY <1>4, <3>2
      <4> QED
        BY <1>1, <2>2, <2>3, <3>1, <3>2, <4>1
    <3>3. CASE ~ (i <= pp)
      BY <1>1, <2>3, <3>1, <3>3
    <3> QED
      BY <3>2, <3>3
  <2>5. SubSeq(buf', 1, pp + Len(piece)) = all
    BY <1>5, <2>1, <2>3, <2>4, StartIs
  <2> QED
    BY <1>1, <2>5 DEF all
<1>7. (copied \o piece) \o Joined(Tail(pieces))
        = copied \o (piece \o Joined(Tail(pieces)))
  <2> DEFINE rest == Joined(Tail(pieces))
             more == copied \o piece
             last == piece \o rest
  <2>1. /\ rest \in Seq(Bytes) /\ piece \in Seq(Bytes) /\ copied \in Seq(Bytes)
        /\ more = copied \o piece /\ last = piece \o rest
    BY <1>3, <1>4
  <2> HIDE DEF piece, copied, rest, more, last
  <2>2. more \o rest = copied \o last
    BY <2>1, OtherOrder, SMTT(30)
  <2> QED
    BY <2>2 DEF rest, more, last
<1>8. SubSeq(buf', 1, pp') \o Joined(pieces') = BytesOf(msg', d)
  <2> HIDE DEF piece, copied
  <2> QED
    BY <1>1, <1>2, <1>3, <1>6, <1>7
<1>9. RestAfter(d)' /\ d \in 0 .. Len(msg') /\ Len(pieces') <= 2
  BY <1>1, <1>2, <1>3 DEF RestAfter
<1> QED
  BY <1>8, <1>9 DEF WritesMessage

LEMMA FinishSends ==
  ASSUME Inv, WritesMessage, Finish
  PROVE  MessageSent'
<1>1. /\ pc = "write" /\ pieces = <<>> /\ fields = <<>> /\ msg' = msg
      /\ siz = pp /\ sent' = Encode(siz) \o SubSeq(buf, 1, siz)
  BY DEF Finish, Written, Inv, SizesAgree
<1>2. PICK d \in 0 .. Len(msg) :
        RestAfter(d) /\ SubSeq(buf, 1, pp) \o Joined(pieces) = BytesOf(msg, d)
  BY <1>1 DEF WritesMessage
<1>3. d = Len(msg)
  BY <1>1, <1>2, NothingLeft DEF Inv
<1>4. /\ SubSeq(buf, 1, pp) \in Seq(Bytes) /\ Len(SubSeq(buf, 1, pp)) = pp
      /\ Joined(pieces) = <<>>
  BY <1>1, CopiedFacts DEF Joined
<1>5. SubSeq(buf, 1, pp) = AllBytes
  BY <1>2, <1>3, <1>4 DEF AllBytes
<1>6. sent' = Encode(Len(AllBytes)) \o AllBytes
  BY <1>1, <1>4, <1>5
<1>7. AllBytes' = AllBytes
  BY <1>1 DEF AllBytes
<1> QED
  BY <1>6, <1>7 DEF MessageSent

LEMMA StepWrites ==
  ASSUME Inv, WritesMessage, MessageSent, [Next]_vars
  PROVE  WritesMessage' /\ MessageSent'
<1>1. CASE pc' = "idle" \/ pc' = "undefined"
  BY <1>1 DEF WritesMessage, MessageSent
<1>2. CASE UNCHANGED <<pc, buf, msg, fields, pieces, pp, sent>>
  BY <1>2 DEF WritesMessage, MessageSent, RestAfter, AllBytes
<1>3. CASE \E m \in Message : Create(m)
  BY <1>3, CreateWrites DEF Create, MessageSent
<1>4. CASE AddSize
  BY <1>4 DEF AddSize, bufVars, WritesMessage, MessageSent, RestAfter
<1>5. CASE NextField
  BY <1>5, NextFieldWrites DEF NextField, MessageSent
<1>6. CASE Grow
  BY <1>6, GrowWrites DEF Grow, MessageSent
<1>7. CASE Copy
  BY <1>7, CopyWrites DEF Copy, MessageSent
<1>8. CASE Finish
  BY <1>8, FinishSends DEF Finish, WritesMessage
<1>9. CASE Get
  BY <1>9 DEF Get, WritesMessage, MessageSent, AllBytes
<1>10. CASE GetInt \/ GetData \/ GetFixed
  BY <1>10 DEF GetInt, GetData, GetFixed, Reading, Read, WritesMessage, MessageSent,
     AllBytes
<1>11. CASE GetNoLength \/ GetTooShort \/ GrowTooLarge \/ NoMemory \/ Done
  BY <1>1, <1>11 DEF GetNoLength, GetTooShort, GrowTooLarge, NoMemory, CreateNoMemory,
     GrowNoMemory, FinishNoMemory, GetNoMemory, Done, Fail
<1>12. CASE UNCHANGED vars
  BY <1>2, <1>12 DEF vars
<1> QED
  BY <1>3, <1>4, <1>5, <1>6, <1>7, <1>8, <1>9, <1>10, <1>11, <1>12 DEF Next, Proceed

LEMMA SentFromInv == MessageSent => SentIsMessage
BY DEF MessageSent, SentIsMessage, AllBytes, BytesOf, RowsOf

\* However often the buffer grew and moved, and whatever allocations failed before:
\* what vf_create_send_buf returns is the message behind its length.
THEOREM MessageIsSent == Spec => []SentIsMessage
<1>1. Init => WritesMessage /\ MessageSent
  BY DEF Init, WritesMessage, MessageSent
<1> QED
  BY <1>1, InitHolds, StepKeeps, StepWrites, SentFromInv, PTL DEF Spec

-----------------------------------------------------------------------------
(* SendBuffer: what is a part of what. *)

LEMMA PrefixIs ==
  ASSUME NEW S, NEW first \in Seq(S), NEW list \in Seq(S)
  PROVE  IsPrefix(first, list) <=>
           /\ Len(first) <= Len(list)
           /\ \A i \in 1 .. Len(first) : list[i] = first[i]
<1> DEFINE n == Len(first)
<1>1. n \in 0 .. n /\ SubSeq(first, 1, n) = first
  OBVIOUS
<1>2. ASSUME n <= Len(list), \A i \in 1 .. n : list[i] = first[i]
      PROVE  IsPrefix(first, list)
  <2>1. SubSeq(list, 1, n) = first
    BY <1>2, StartIs
  <2> QED
    BY <1>1, <1>2, <2>1 DEF IsPrefix
<1>3. ASSUME IsPrefix(first, list)
      PROVE  n <= Len(list) /\ \A i \in 1 .. n : list[i] = first[i]
  <2>1. n <= Len(list) /\ SubSeq(list, 1, n) = first
    BY <1>1, <1>3 DEF IsPrefix
  <2>2. n \in 0 .. Len(list)
    BY <2>1
  <2>3. \A i \in 1 .. n : SubSeq(list, 1, n)[i] = list[i]
    BY <2>2, StartFacts
  <2> QED
    BY <2>1, <2>3
<1> QED
  BY <1>2, <1>3

LEMMA PrefixOfConcat ==
  ASSUME NEW S, NEW a \in Seq(S), NEW b \in Seq(S)
  PROVE  IsPrefix(a, a \o b)
<1>1. /\ a \o b \in Seq(S) /\ Len(a \o b) = Len(a) + Len(b)
      /\ Len(a) \in Nat /\ Len(b) \in Nat
      /\ \A i \in 1 .. Len(a) : (a \o b)[i] = a[i]
  BY ConcatProperties
<1>2. Len(a) <= Len(a \o b)
  BY <1>1
<1> QED
  BY <1>1, <1>2, PrefixIs

LEMMA PrefixTransitive ==
  ASSUME NEW S, NEW a \in Seq(S), NEW b \in Seq(S), NEW c \in Seq(S),
         IsPrefix(a, b), IsPrefix(b, c)
  PROVE  IsPrefix(a, c)
<1>1. /\ Len(a) <= Len(b) /\ \A i \in 1 .. Len(a) : b[i] = a[i]
  BY PrefixIs
<1>2. /\ Len(b) <= Len(c) /\ \A i \in 1 .. Len(b) : c[i] = b[i]
  BY PrefixIs
<1>3. Len(a) \in Nat /\ Len(b) \in Nat /\ Len(c) \in Nat
  OBVIOUS
<1>4. Len(a) <= Len(c) /\ \A i \in 1 .. Len(a) : i \in 1 .. Len(b)
  BY <1>1, <1>2, <1>3
<1>5. \A i \in 1 .. Len(a) : c[i] = a[i]
  BY <1>1, <1>2, <1>4
<1> QED
  BY <1>4, <1>5, PrefixIs

\* Of two prefixes of one sequence, the shorter is a prefix of the longer.
LEMMA ShorterPrefix ==
  ASSUME NEW S, NEW a \in Seq(S), NEW b \in Seq(S), NEW c \in Seq(S),
         IsPrefix(a, c), IsPrefix(b, c), Len(a) <= Len(b)
  PROVE  IsPrefix(a, b)
<1>1. \A i \in 1 .. Len(a) : c[i] = a[i]
  BY PrefixIs
<1>2. \A i \in 1 .. Len(b) : c[i] = b[i]
  BY PrefixIs
<1>3. Len(a) \in Nat /\ Len(b) \in Nat
  OBVIOUS
<1>4. \A i \in 1 .. Len(a) : i \in 1 .. Len(b)
  BY <1>3
<1>5. \A i \in 1 .. Len(a) : b[i] = a[i]
  BY <1>1, <1>2, <1>4
<1> QED
  BY <1>5, PrefixIs

\* What is read behind a, in a sequence that begins with a and b.
LEMMA PartOfPrefix ==
  ASSUME NEW S, NEW list \in Seq(S), NEW a \in Seq(S), NEW b \in Seq(S),
         IsPrefix(a \o b, list), NEW start \in Nat, NEW end \in Nat,
         start = Len(a) + 1, end = Len(a) + Len(b)
  PROVE  SubSeq(list, start, end) = b
<1>0. PICK from \in Nat, k \in Nat : from = Len(a) /\ k = Len(b)
  OBVIOUS
<1> DEFINE all == a \o b
           part == SubSeq(list, from + 1, from + k)
<1>1. /\ all \in Seq(S) /\ Len(all) = from + k
      /\ \A i \in 1 .. from + k : all[i] = IF i <= from THEN a[i] ELSE b[i - from]
  BY <1>0, ConcatProperties
<1>2. from + k <= Len(list) /\ \A i \in 1 .. from + k : list[i] = all[i]
  <2>1. IsPrefix(all, list)
    OBVIOUS
  <2> HIDE DEF all
  <2>2. Len(all) <= Len(list) /\ \A i \in 1 .. Len(all) : list[i] = all[i]
    <3>1. all \in Seq(S)
      BY <1>1
    <3> QED
      BY <2>1, <3>1, PrefixIs, SMTT(30)
  <2> QED
    BY <1>1, <2>2
<1>3. part \in Seq(S) /\ Len(part) = k /\ \A i \in 1 .. k : part[i] = list[i + from]
  <2>1. \A i \in from + 1 .. from + k : list[i] \in S
    BY <1>2
  <2>2. /\ part \in Seq(S) /\ Len(part) = k
    BY <1>2, SubSeqFacts
  <2>3. \A i \in 1 .. k : part[i] = list[i + from]
    BY <1>2
  <2> QED
    BY <2>2, <2>3
<1>4. \A i \in 1 .. k : list[i + from] = b[i]
  <2> HIDE DEF all
  <2> TAKE i \in 1 .. k
  <2>1. PICK j \in 1 .. from + k : j = i + from /\ ~ (j <= from) /\ j - from = i
    OBVIOUS
  <2>2. list[j] = all[j] /\ all[j] = b[j - from]
    BY <1>1, <1>2, <2>1
  <2> QED
    BY <2>1, <2>2
<1> HIDE DEF part
<1>5. \A i \in 1 .. k : part[i] = b[i]
  BY <1>3, <1>4
<1>6. part = b
  BY <1>0, <1>3, <1>5, SeqEqual
<1> QED
  BY <1>0, <1>6 DEF part

\* The first fields' bytes are the first bytes.
LEMMA FirstBytes ==
  ASSUME NEW m \in Seq(Field), NEW d \in 0 .. Len(m)
  PROVE  IsPrefix(BytesOf(m, d), BytesOf(m, Len(m)))
<1> DEFINE wrong ==
      {e \in Nat : e \in d .. Len(m) /\ ~ IsPrefix(BytesOf(m, d), BytesOf(m, e))}
<1>1. wrong = {}
  <2>1. SUFFICES ASSUME wrong # {} PROVE FALSE
    OBVIOUS
  <2>2. PICK e \in wrong : \A k \in wrong : e <= k
    BY <2>1, LeastNumber
  <2>3. /\ e \in Nat /\ d \in Nat /\ Len(m) \in Nat /\ d <= e /\ e <= Len(m)
        /\ ~ IsPrefix(BytesOf(m, d), BytesOf(m, e))
    BY <2>2
  <2>4. BytesOf(m, d) \in Seq(Bytes) /\ BytesOf(m, e) \in Seq(Bytes)
    BY <2>3, RowsType
  <2>5. CASE e = d
    <3>1. IsPrefix(BytesOf(m, d), BytesOf(m, d))
      BY DEF IsPrefix
    <3> QED
      BY <2>3, <2>5, <3>1
  <2>6. CASE e # d
    <3>1. PICK k \in Nat : e = k + 1 /\ k \in d .. Len(m) /\ k \in 0 .. Len(m)
                           /\ e \in 1 .. Len(m) /\ ~ (e <= k)
      <4>1. e - 1 \in Nat
        BY <2>3, <2>6
      <4> QED
        BY <2>3, <2>6, <4>1
    <3>2. IsPrefix(BytesOf(m, d), BytesOf(m, k)) /\ BytesOf(m, k) \in Seq(Bytes)
      BY <2>2, <3>1, RowsType
    <3>3. /\ Joined(Pieces(m[e])) \in Seq(Bytes)
          /\ BytesOf(m, e) = BytesOf(m, k) \o Joined(Pieces(m[e]))
      BY <3>1, NextBytes
    <3>4. IsPrefix(BytesOf(m, k), BytesOf(m, e))
      BY <3>2, <3>3, PrefixOfConcat
    <3> QED
      BY <2>3, <2>4, <3>2, <3>4, PrefixTransitive
  <2> QED
    BY <2>5, <2>6
<1>2. Len(m) \in Nat /\ Len(m) \in d .. Len(m)
  OBVIOUS
<1> QED
  BY <1>1, <1>2

\* ntohl is the way back of htonl.
LEMMA DecodeEncode ==
  ASSUME NEW n \in 0 .. IntMod - 1
  PROVE  Decode(Encode(n)) = n
<1>1. n % IntMod = n
  BY ModBound
<1>2. \A k \in 0 .. IntMod - 1 : Htonl[k] = Htonl[n] => k = n
  BY ConstantsAssumption DEF Bijection, Injection, IsInjective
<1> QED
  BY <1>1, <1>2 DEF Encode, Decode

-----------------------------------------------------------------------------
(* SendBuffer: the reader reads what was written. *)

\* The length of a string or of data is sent in 32 bits.
LengthsFit ==
  \A m \in Message : \A k \in 1 .. Len(m) :
    m[k].kind \in {"s", "d"} => Len(m[k].value) < IntMod

MessageIsKnown == msg = <<>> \/ msg \in Message

\* Of a part of the message, the first d fields were found.
ReadsMessage ==
  pc = "read" =>
    \/ src \in Noise /\ ~ IsPrefix(src, AllBytes)
    \/ /\ IsPrefix(src, AllBytes)
       /\ \E d \in 0 .. Len(msg) :
            /\ RestAfter(d)
            /\ Len(got) = d /\ \A k \in 1 .. d : got[k] = msg[k]
            /\ pp = Len(BytesOf(msg, d))
            /\ Len(src) <= pp + siz

LEMMA BehindPrefix ==
  ASSUME NEW S, NEW a \in Seq(S), NEW b \in Seq(S), NEW list, list = a \o b
  PROVE  SubSeq(list, Len(a) + 1, Len(list)) = b
<1>1. list \in Seq(S) /\ Len(list) = Len(a) + Len(b) /\ Len(a) \in Nat /\ Len(b) \in Nat
  BY ConcatType
<1>2. IsPrefix(a \o b, list)
  BY DEF IsPrefix
<1>3. Len(a) + 1 \in Nat /\ Len(list) \in Nat
  BY <1>1
<1> QED
  BY <1>1, <1>2, <1>3, PartOfPrefix

LEMMA CountsMove ==
  ASSUME NEW a \in Nat, NEW b \in Nat, NEW c \in Nat, NEW l \in Nat, NEW n \in Nat,
         l <= a + b, b <= c + n
  PROVE  l <= (a + n) + c
OBVIOUS

LEMMA BodyIsAllBytes ==
  ASSUME TypeOK, MessageSent, pc \in {"sent", "read"}
  PROVE  Body = AllBytes /\ AllBytes \in Seq(Bytes)
<1>1. AllBytes \in Seq(Bytes)
  BY RowsType DEF TypeOK, AllBytes
<1>2. /\ Encode(Len(AllBytes)) \in Seq(Bytes) /\ Len(Encode(Len(AllBytes))) = IntSize
      /\ Len(AllBytes) \in Nat
  BY <1>1, EncodeFacts
<1>3. sent = Encode(Len(AllBytes)) \o AllBytes
  BY DEF MessageSent
<1>4. SubSeq(sent, Len(Encode(Len(AllBytes))) + 1, Len(sent)) = AllBytes
  BY <1>1, <1>2, <1>3, BehindPrefix
<1> QED
  BY <1>1, <1>2, <1>4 DEF Body

\* The field that is next: it is the next of the message, and where its bytes are.
LEMMA FieldIsNext ==
  ASSUME TypeOK, fields # <<>>, NEW d \in 0 .. Len(msg), RestAfter(d),
         NEW e \in Nat, e = d + 1
  PROVE  /\ e \in 1 .. Len(msg) /\ Head(fields) = msg[e] /\ Head(fields) \in Field
         /\ BytesOf(msg, d) \in Seq(Bytes) /\ Joined(Pieces(Head(fields))) \in Seq(Bytes)
         /\ BytesOf(msg, e) = BytesOf(msg, d) \o Joined(Pieces(Head(fields)))
         /\ IsPrefix(BytesOf(msg, e), AllBytes) /\ AllBytes \in Seq(Bytes)
<1>1. /\ Len(fields) \in Nat \ {0} /\ Len(msg) \in Nat /\ d + Len(fields) = Len(msg)
      /\ Head(fields) = fields[1]
  BY DEF TypeOK, RestAfter
<1>2. e \in 1 .. Len(msg)
  BY <1>1
<1>3. Head(fields) = msg[e]
  <2>1. 1 \in 1 .. Len(fields) /\ 1 + d = e
    BY <1>1, <1>2
  <2>2. fields[1] = msg[1 + d]
    BY <2>1 DEF RestAfter
  <2> QED
    BY <1>1, <2>1, <2>2
<1>4. msg \in Seq(Field) /\ Head(fields) \in Field /\ d \in Nat /\ e \in 0 .. Len(msg)
  BY <1>1, <1>2 DEF TypeOK
<1>5. /\ Joined(Pieces(msg[e])) \in Seq(Bytes)
      /\ BytesOf(msg, e) = BytesOf(msg, d) \o Joined(Pieces(msg[e]))
  BY <1>2, <1>4, NextBytes
<1>6. BytesOf(msg, d) \in Seq(Bytes)
  BY <1>4, RowsType
<1>7. IsPrefix(BytesOf(msg, e), AllBytes)
  BY <1>4, FirstBytes DEF AllBytes
<1>8. AllBytes \in Seq(Bytes)
  BY <1>4, <1>1, RowsType DEF AllBytes
<1> QED
  BY <1>2, <1>3, <1>4, <1>5, <1>6, <1>7, <1>8

\* A field whose bytes and value were read.
LEMMA FieldIsRead ==
  ASSUME Inv, NEW d \in 0 .. Len(msg), RestAfter(d),
         pc = "read", fields # <<>>, IsPrefix(src, AllBytes),
         Len(got) = d, \A k \in 1 .. d : got[k] = msg[k],
         pp = Len(BytesOf(msg, d)), Len(src) <= pp + siz,
         NEW n \in Nat, NEW value, Read(n, value), siz' \in Nat, siz <= siz' + n,
         pp + n <= Len(src) =>
           n = Len(Joined(Pieces(Head(fields)))) /\ value = Head(fields).value
  PROVE  ReadsMessage'
<1>1. /\ msg' = msg /\ src' = src /\ AllBytes' = AllBytes
      /\ siz \in Nat /\ pp \in Nat /\ Len(src) \in Nat
  BY DEF Read, AllBytes, Inv, TypeOK
<1>2. CASE ~ (pp + n <= Len(src))
  BY <1>2 DEF Read, ReadsMessage
<1>3. CASE pp + n <= Len(src)
  <2>1. /\ pp' = pp + n /\ fields' = Tail(fields)
        /\ got' = Append(got, [kind |-> Head(fields).kind, value |-> value])
        /\ n = Len(Joined(Pieces(Head(fields)))) /\ value = Head(fields).value
    BY <1>3 DEF Read
  <2>2. PICK e \in 1 .. Len(msg) : e = d + 1 /\ RestAfter(e)' /\ Head(fields) = msg[e]
    BY <1>1, <2>1, RestOfTail DEF Inv
  <2>3. /\ Head(fields) \in Field
        /\ BytesOf(msg, d) \in Seq(Bytes) /\ Joined(Pieces(Head(fields))) \in Seq(Bytes)
        /\ BytesOf(msg, e) = BytesOf(msg, d) \o Joined(Pieces(Head(fields)))
    <3>1. TypeOK /\ e \in Nat
      BY DEF Inv
    <3> QED
      BY <2>2, <3>1, FieldIsNext
  <2>4. Len(BytesOf(msg, e)) = pp + n
    BY <2>1, <2>2, <2>3, ConcatType
  <2>5. got' = Append(got, msg[e])
    <3>1. [kind |-> Head(fields).kind, value |-> Head(fields).value] = Head(fields)
      BY <2>3 DEF Field
    <3> QED
      BY <2>1, <2>2, <3>1
  <2>6. Len(got') = e /\ \A i \in 1 .. e : got'[i] = msg[i]
    <3>1. got \in Seq(Field) /\ d \in Nat
      BY DEF Inv, TypeOK
    <3>2. Len(got') = e /\ got'[e] = msg[e]
      BY <2>2, <2>5, <3>1
    <3>3. \A i \in 1 .. d : got'[i] = got[i]
      BY <2>5, <3>1
    <3>4. \A i \in 1 .. e : i \in 1 .. d \/ i = e
      BY <2>2, <3>1
    <3> QED
      BY <3>2, <3>3, <3>4
  <2>7. Len(src) <= (pp + n) + siz'
    BY <1>1, CountsMove
  <2>8. e \in 0 .. Len(msg)
    OBVIOUS
  <2> QED
    BY <1>1, <2>1, <2>2, <2>4, <2>6, <2>7, <2>8 DEF ReadsMessage
<1> QED
  BY <1>2, <1>3

\* How much of first, word and rest a sequence holds that begins like them.
LEMMA PartsOfPrefix ==
  ASSUME NEW S, NEW all \in Seq(S), NEW list \in Seq(S), IsPrefix(list, all),
         NEW first \in Seq(S), NEW word \in Seq(S), NEW rest \in Seq(S),
         NEW both, both = word \o rest, IsPrefix(first \o both, all)
  PROVE  /\ Len(first) + Len(word) <= Len(list) => IsPrefix(first \o word, list)
         /\ Len(first) + Len(word) + Len(rest) <= Len(list) =>
              IsPrefix((first \o word) \o rest, list)
         /\ Len(first) + Len(word) + Len(rest) <= Len(all)
<1> DEFINE begin == first \o word
           whole == begin \o rest
<1>1. begin \in Seq(S) /\ Len(begin) = Len(first) + Len(word) /\ begin = first \o word
  BY ConcatType
<1> HIDE DEF begin
<1>2. whole = first \o both
  BY <1>1, OtherOrder, SMTT(30)
<1>3. whole \in Seq(S) /\ Len(whole) = Len(first) + Len(word) + Len(rest)
  BY <1>1, ConcatType
<1>4. IsPrefix(begin, whole)
  BY <1>1, PrefixOfConcat
<1> HIDE DEF whole
<1>5. IsPrefix(whole, all)
  BY <1>2
<1>6. IsPrefix(begin, all)
  BY <1>1, <1>3, <1>4, <1>5, PrefixTransitive
<1>7. Len(begin) <= Len(list) => IsPrefix(begin, list)
  BY <1>1, <1>6, ShorterPrefix
<1>8. Len(whole) <= Len(list) => IsPrefix(whole, list)
  BY <1>3, <1>5, ShorterPrefix
<1>9. Len(whole) <= Len(all)
  BY <1>3, <1>5, PrefixIs
<1>10. ASSUME Len(first) + Len(word) <= Len(list) PROVE IsPrefix(first \o word, list)
  BY <1>1, <1>7, <1>10 DEF begin
<1>11. ASSUME Len(first) + Len(word) + Len(rest) <= Len(list)
       PROVE  IsPrefix((first \o word) \o rest, list)
  BY <1>3, <1>8, <1>11 DEF begin, whole
<1> QED
  BY <1>3, <1>9, <1>10, <1>11

\* What src holds of the next field: a word and what is behind it.
LEMMA NextPart ==
  ASSUME TypeOK, fields # <<>>, NEW d \in 0 .. Len(msg), RestAfter(d),
         pp = Len(BytesOf(msg, d)), IsPrefix(src, AllBytes),
         NEW word \in Seq(Bytes), NEW rest \in Seq(Bytes),
         Joined(Pieces(Head(fields))) = word \o rest
  PROVE  /\ BytesOf(msg, d) \in Seq(Bytes)
         /\ pp + Len(word) <= Len(src) => IsPrefix(BytesOf(msg, d) \o word, src)
         /\ pp + Len(word) + Len(rest) <= Len(src) =>
              IsPrefix((BytesOf(msg, d) \o word) \o rest, src)
         /\ pp + Len(word) + Len(rest) <= Len(AllBytes)
<1> DEFINE first == BytesOf(msg, d)
           all == AllBytes
           both == Joined(Pieces(Head(fields)))
<1>1. first \in Seq(Bytes) /\ all \in Seq(Bytes) /\ IsPrefix(first \o both, all)
  <2>1. PICK e \in Nat : e = d + 1
    OBVIOUS
  <2>2. /\ BytesOf(msg, d) \in Seq(Bytes) /\ AllBytes \in Seq(Bytes)
        /\ BytesOf(msg, e) = BytesOf(msg, d) \o Joined(Pieces(Head(fields)))
        /\ IsPrefix(BytesOf(msg, e), AllBytes)
    BY <2>1, FieldIsNext
  <2> QED
    BY <2>2
<1>2. src \in Seq(Bytes) /\ IsPrefix(src, all) /\ pp = Len(first) /\ both = word \o rest
  BY DEF TypeOK
<1> HIDE DEF first, all, both
<1>3. /\ Len(first) + Len(word) <= Len(src) => IsPrefix(first \o word, src)
      /\ Len(first) + Len(word) + Len(rest) <= Len(src) =>
           IsPrefix((first \o word) \o rest, src)
      /\ Len(first) + Len(word) + Len(rest) <= Len(all)
  BY <1>1, <1>2, PartsOfPrefix
<1> QED
  BY <1>1, <1>2, <1>3 DEF first, all

\* The bytes of a field, by its kind.
LEMMA FieldBytes ==
  ASSUME NEW f \in Field
  PROVE  /\ f.kind = "i" =>
              /\ f.value \in 0 .. IntMod - 1 /\ Encode(f.value) \in Seq(Bytes)
              /\ Len(Encode(f.value)) = IntSize
              /\ Joined(Pieces(f)) = Encode(f.value)
         /\ f.kind # "i" => f.value \in Seq(Bytes) /\ Len(f.value) \in Nat
         /\ f.kind = "f" => Joined(Pieces(f)) = f.value
         /\ f.kind \in {"s", "d"} =>
              /\ Encode(Len(f.value)) \in Seq(Bytes)
              /\ Len(Encode(Len(f.value))) = IntSize
              /\ Joined(Pieces(f)) = Encode(Len(f.value)) \o f.value
<1>1. CASE f.kind = "i"
  <2>1. f.value \in 0 .. IntMod - 1 /\ f.value \in Nat
    BY <1>1 DEF Field
  <2>2. Encode(f.value) \in Seq(Bytes) /\ Len(Encode(f.value)) = IntSize
    BY <2>1, EncodeFacts
  <2>3. Pieces(f) = <<Encode(f.value)>>
    BY <1>1 DEF Pieces
  <2> QED
    BY <1>1, <2>1, <2>2, <2>3, JoinedOne
<1>2. CASE f.kind = "f"
  <2>1. f.value \in Seq(Bytes) /\ Len(f.value) \in Nat
    BY <1>2 DEF Field
  <2>2. Pieces(f) = <<f.value>>
    BY <1>2 DEF Pieces
  <2> QED
    BY <1>2, <2>1, <2>2, JoinedOne
<1>3. CASE f.kind \in {"s", "d"}
  <2>1. f.value \in Seq(Bytes) /\ Len(f.value) \in Nat
    BY <1>3 DEF Field
  <2>2. Encode(Len(f.value)) \in Seq(Bytes) /\ Len(Encode(Len(f.value))) = IntSize
    BY <2>1, EncodeFacts
  <2>3. Pieces(f) = <<Encode(Len(f.value)), f.value>>
    BY <1>3 DEF Pieces
  <2> QED
    BY <1>3, <2>1, <2>2, <2>3, JoinedTwo
<1> QED
  BY <1>1, <1>2, <1>3 DEF Field

\* Where the reader is in a message, or in a part of it.
At(d) ==
  /\ d \in 0 .. Len(msg) /\ RestAfter(d)
  /\ Len(got) = d /\ \A k \in 1 .. d : got[k] = msg[k]
  /\ pp = Len(BytesOf(msg, d))
  /\ Len(src) <= pp + siz

LEMMA NothingBehind ==
  ASSUME NEW a \in Seq(Bytes)
  PROVE  <<>> \in Seq(Bytes) /\ a = a \o <<>>
OBVIOUS

LEMMA WordOfPrefix ==
  ASSUME TypeOK, NEW first \in Seq(Bytes), NEW word \in Seq(Bytes),
         IsPrefix(first \o word, src), pp = Len(first), Len(word) = IntSize
  PROVE  NextWord = word
<1>1. src \in Seq(Bytes) /\ pp + 1 \in Nat /\ pp + IntSize \in Nat
  BY DEF TypeOK
<1> QED
  BY <1>1, PartOfPrefix DEF NextWord

\* A number, or the length of a string or of data, is decoded to what it was.
LEMMA WordIsRead ==
  ASSUME TypeOK, fields # <<>>, NEW d, At(d), IsPrefix(src, AllBytes),
         LengthsFit, MessageIsKnown, pp + IntSize <= Len(src)
  PROVE  /\ Head(fields).kind = "i" => Decode(NextWord) = Head(fields).value
         /\ Head(fields).kind \in {"s", "d"} =>
              Decode(NextWord) = Len(Head(fields).value)
<1> DEFINE f == Head(fields)
<1>1. PICK e \in Nat : e = d + 1
  BY DEF At
<1>2. e \in 1 .. Len(msg) /\ f = msg[e] /\ f \in Field
  BY <1>1, FieldIsNext DEF At
<1> HIDE DEF f
<1>3. ASSUME f.kind = "i" PROVE Decode(NextWord) = f.value
  <2>1. /\ f.value \in 0 .. IntMod - 1 /\ Encode(f.value) \in Seq(Bytes)
        /\ Len(Encode(f.value)) = IntSize /\ Joined(Pieces(f)) = Encode(f.value)
    BY <1>2, <1>3, FieldBytes
  <2>2. NextWord = Encode(f.value)
    <3>1. <<>> \in Seq(Bytes) /\ Joined(Pieces(f)) = Encode(f.value) \o <<>>
      BY <2>1, NothingBehind
    <3>2. /\ BytesOf(msg, d) \in Seq(Bytes)
          /\ IsPrefix(BytesOf(msg, d) \o Encode(f.value), src)
      BY <2>1, <3>1, NextPart DEF f, At
    <3> QED
      BY <2>1, <3>2, WordOfPrefix DEF At
  <2> QED
    BY <2>1, <2>2, DecodeEncode
<1>4. ASSUME f.kind \in {"s", "d"} PROVE Decode(NextWord) = Len(f.value)
  <2>1. /\ f.value \in Seq(Bytes) /\ Len(f.value) \in Nat
        /\ Encode(Len(f.value)) \in Seq(Bytes)
        /\ Len(Encode(Len(f.value))) = IntSize
        /\ Joined(Pieces(f)) = Encode(Len(f.value)) \o f.value
    BY <1>2, <1>4, FieldBytes
  <2>2. NextWord = Encode(Len(f.value))
    <3>1. /\ BytesOf(msg, d) \in Seq(Bytes)
          /\ IsPrefix(BytesOf(msg, d) \o Encode(Len(f.value)), src)
      BY <2>1, NextPart DEF f, At
    <3> QED
      BY <2>1, <3>1, WordOfPrefix DEF At
  <2>3. Len(f.value) \in 0 .. IntMod - 1
    <3>1. msg # <<>>
      BY <1>2
    <3>2. Len(f.value) < IntMod
      BY <1>2, <1>4, <3>1 DEF LengthsFit, MessageIsKnown
    <3> QED
      BY <2>1, <3>2
  <2> QED
    BY <2>2, <2>3, DecodeEncode
<1> QED
  BY <1>3, <1>4 DEF f

LEMMA GetIntReads ==
  ASSUME Inv, Inv', LengthsFit, MessageIsKnown, GetInt,
         NEW d, At(d), IsPrefix(src, AllBytes)
  PROVE  ReadsMessage'
<1> DEFINE f == Head(fields)
           value == Decode(NextWord)
<1>1. /\ pc = "read" /\ fields # <<>> /\ f.kind = "i" /\ siz >= IntSize
      /\ siz' = siz - IntSize /\ Read(IntSize, value)
  BY DEF GetInt, Reading, WordFits
<1>2. TypeOK /\ siz \in Nat /\ siz' \in Nat /\ IntSize \in Nat /\ siz <= siz' + IntSize
  BY <1>1 DEF Inv, TypeOK
<1>3. f \in Field
  BY <1>1, <1>2 DEF TypeOK
<1>4. ASSUME pp + IntSize <= Len(src)
      PROVE  IntSize = Len(Joined(Pieces(f))) /\ value = f.value
  BY <1>1, <1>2, <1>3, <1>4, WordIsRead, FieldBytes
<1> HIDE DEF value
<1> QED
  BY <1>1, <1>2, <1>4, FieldIsRead DEF At

LEMMA GetDataReads ==
  ASSUME Inv, Inv', LengthsFit, MessageIsKnown, GetData,
         NEW d, At(d), IsPrefix(src, AllBytes)
  PROVE  ReadsMessage'
<1> DEFINE f == Head(fields)
           n == Decode(NextWord)
           value == SubSeq(src, pp + IntSize + 1, pp + IntSize + n)
<1>1. /\ pc = "read" /\ fields # <<>> /\ f.kind \in {"s", "d"}
      /\ pp + IntSize <= Len(src) /\ siz - IntSize >= n
      /\ siz' = siz - IntSize - n /\ Read(IntSize + n, value)
  BY DEF GetData, Reading, DataFits
<1>2. TypeOK /\ siz \in Nat /\ siz' \in Nat /\ IntSize \in Nat /\ pp \in Nat
  BY DEF Inv, TypeOK
<1>3. f \in Field
  BY <1>1, <1>2 DEF TypeOK
<1>4. /\ f.value \in Seq(Bytes) /\ Len(f.value) \in Nat
      /\ Encode(Len(f.value)) \in Seq(Bytes) /\ Len(Encode(Len(f.value))) = IntSize
      /\ Joined(Pieces(f)) = Encode(Len(f.value)) \o f.value
  BY <1>1, <1>3, FieldBytes
<1>5. n = Len(f.value)
  BY <1>1, <1>2, WordIsRead
<1>6. n \in Nat
  BY <1>4, <1>5
<1>7. pp + IntSize + n <= Len(src) => value = f.value
  <2> DEFINE word == Encode(Len(f.value))
             first == BytesOf(msg, d)
  <2> HIDE DEF n
  <2>1. SUFFICES ASSUME pp + IntSize + n <= Len(src)
                 PROVE  SubSeq(src, pp + IntSize + 1, pp + IntSize + n) = f.value
    OBVIOUS
  <2>2. /\ first \in Seq(Bytes) /\ word \in Seq(Bytes)
        /\ IsPrefix((first \o word) \o f.value, src)
    BY <1>1, <1>2, <1>4, <1>5, <2>1, NextPart DEF At
  <2>3. pp = Len(first) /\ src \in Seq(Bytes)
    BY <1>2 DEF At, TypeOK
  <2> HIDE DEF word, first
  <2> DEFINE begin == first \o word
  <2>4. begin \in Seq(Bytes) /\ Len(begin) = pp + IntSize
    BY <1>4, <2>2, <2>3, ConcatType DEF word
  <2>5. IsPrefix(begin \o f.value, src)
    BY <2>2
  <2> HIDE DEF begin
  <2>6. PICK start \in Nat, end \in Nat :
          start = pp + IntSize + 1 /\ end = pp + IntSize + n
    BY <1>2, <1>6
  <2> DEFINE part == f.value
  <2>7. /\ start = Len(begin) + 1 /\ end = Len(begin) + Len(part)
        /\ IsPrefix(begin \o part, src)
        /\ part \in Seq(Bytes) /\ src \in Seq(Bytes) /\ begin \in Seq(Bytes)
    BY <1>4, <1>5, <2>3, <2>4, <2>5, <2>6
  <2> HIDE DEF part
  <2>8. SubSeq(src, start, end) = part
    BY <2>7, PartOfPrefix
  <2> QED
    BY <2>6, <2>8 DEF part
<1>8. IntSize + n = Len(Joined(Pieces(f)))
  BY <1>4, <1>5, ConcatType
<1> HIDE DEF n, value
<1>9. PICK k \in Nat : k = IntSize + n
  BY <1>2, <1>6
<1>10. siz <= siz' + k /\ (pp + k <= Len(src) => pp + IntSize + n <= Len(src))
  BY <1>1, <1>2, <1>6, <1>9
<1> QED
  BY <1>1, <1>2, <1>7, <1>8, <1>9, <1>10, FieldIsRead DEF At

LEMMA GetFixedReads ==
  ASSUME Inv, Inv', GetFixed, NEW d, At(d), IsPrefix(src, AllBytes)
  PROVE  ReadsMessage'
<1> DEFINE f == Head(fields)
           n == Len(f.value)
           value == SubSeq(src, pp + 1, pp + n)
<1>1. /\ pc = "read" /\ fields # <<>> /\ f.kind = "f" /\ siz' = siz /\ Read(n, value)
  BY DEF GetFixed, Reading
<1>2. TypeOK /\ siz' \in Nat /\ pp \in Nat
  BY DEF Inv, TypeOK
<1>3. f \in Field
  BY <1>1, <1>2 DEF TypeOK
<1>4. /\ f.value \in Seq(Bytes) /\ n \in Nat /\ Joined(Pieces(f)) = f.value
  BY <1>1, <1>3, FieldBytes
<1>5. <<>> \in Seq(Bytes) /\ f.value = f.value \o <<>>
  BY <1>4, NothingBehind
<1>6. pp + n <= Len(src) => value = f.value
  <2>1. SUFFICES ASSUME pp + n <= Len(src)
                 PROVE  SubSeq(src, pp + 1, pp + n) = f.value
    OBVIOUS
  <2>2. BytesOf(msg, d) \in Seq(Bytes) /\ IsPrefix(BytesOf(msg, d) \o f.value, src)
    BY <1>1, <1>2, <1>4, <1>5, <2>1, NextPart DEF At
  <2>3. pp = Len(BytesOf(msg, d)) /\ src \in Seq(Bytes)
    BY <1>2 DEF At, TypeOK
  <2> DEFINE first == BytesOf(msg, d)
             part == f.value
  <2>4. PICK start \in Nat, end \in Nat :
          start = Len(first) + 1 /\ end = Len(first) + Len(part)
    BY <1>2, <1>4, <2>3
  <2>5. /\ first \in Seq(Bytes) /\ src \in Seq(Bytes) /\ part \in Seq(Bytes)
        /\ IsPrefix(first \o part, src)
    BY <1>4, <2>2, <2>3
  <2> HIDE DEF first, part
  <2>6. SubSeq(src, start, end) = part
    BY <2>4, <2>5, PartOfPrefix
  <2> QED
    BY <2>3, <2>4, <2>6 DEF first, part
<1> HIDE DEF n, value
<1>7. siz <= siz' + n
  BY <1>1, <1>2, <1>4
<1>8. n = Len(Joined(Pieces(f)))
  BY <1>4 DEF n
<1> QED
  BY <1>1, <1>2, <1>4, <1>6, <1>7, <1>8, FieldIsRead DEF At


LEMMA GetReads ==
  ASSUME Inv, Inv', MessageSent, Get
  PROVE  ReadsMessage'
<1>1. /\ pc = "sent" /\ msg' = msg /\ fields' = msg /\ got' = <<>> /\ pp' = 0
      /\ siz' = Len(src') /\ pc' = "read" /\ AllBytes' = AllBytes
      /\ src' \in {SubSeq(Body, 1, n) : n \in 0 .. Len(Body)} \cup Noise
  BY DEF Get, AllBytes
<1>2. Body = AllBytes /\ AllBytes \in Seq(Bytes)
  BY <1>1, BodyIsAllBytes DEF Inv
<1>3. src' \in Seq(Bytes) /\ msg \in Seq(Field) /\ Len(src') \in Nat
  BY DEF Inv, TypeOK, Get
<1>4. src' \in Noise \/ IsPrefix(src', AllBytes)
  <2>1. SUFFICES ASSUME NEW n \in 0 .. Len(AllBytes), src' = SubSeq(AllBytes, 1, n)
                 PROVE  IsPrefix(src', AllBytes)
    BY <1>1, <1>2
  <2>2. Len(src') = n /\ \A i \in 1 .. n : src'[i] = AllBytes[i]
    BY <1>2, <2>1, StartFacts
  <2>3. Len(src') <= Len(AllBytes) /\ \A i \in 1 .. Len(src') : AllBytes[i] = src'[i]
    BY <2>2
  <2> QED
    BY <1>2, <1>3, <2>3, PrefixIs
<1>5. RestAfter(0)' /\ 0 \in 0 .. Len(msg') /\ Len(got') = 0
  BY <1>1, <1>3 DEF RestAfter
<1>6. pp' = Len(BytesOf(msg', 0)) /\ Len(src') <= pp' + siz'
  BY <1>1, <1>3, NoBytes
<1>7. \A k \in 1 .. 0 : got'[k] = msg'[k]
  OBVIOUS
<1> QED
  BY <1>1, <1>4, <1>5, <1>6, <1>7 DEF ReadsMessage

LEMMA StepReads ==
  ASSUME Inv, Inv', MessageSent, LengthsFit, MessageIsKnown, ReadsMessage, [Next]_vars
  PROVE  ReadsMessage' /\ MessageIsKnown'
<1>1. MessageIsKnown'
  <2>1. CASE \E m \in Message : Create(m)
    BY <2>1 DEF Create, MessageIsKnown
  <2>2. CASE msg' = msg
    BY <2>2 DEF MessageIsKnown
  <2> QED
    BY <2>1, <2>2 DEF Next, Proceed, NextField, AddSize, Grow, GrowTooLarge, Copy, Finish,
       GetInt, GetData, GetNoLength, GetFixed, GetTooShort, Done, NoMemory, CreateNoMemory,
       GrowNoMemory, FinishNoMemory, GetNoMemory, Fail, Read, Get, vars
<1>2. CASE pc' # "read"
  BY <1>1, <1>2 DEF ReadsMessage
<1>3. CASE UNCHANGED vars
  BY <1>1, <1>3 DEF vars, ReadsMessage, RestAfter, AllBytes
<1>4. CASE Get
  BY <1>1, <1>4, GetReads
<1>5. CASE GetInt \/ GetData \/ GetFixed
  <2>1. pc = "read" /\ msg' = msg /\ src' = src
    BY <1>5 DEF GetInt, GetData, GetFixed, Reading, Read
  <2>2. CASE src \in Noise /\ ~ IsPrefix(src, AllBytes)
    BY <1>1, <2>1, <2>2 DEF ReadsMessage, AllBytes
  <2>3. CASE ~ (src \in Noise /\ ~ IsPrefix(src, AllBytes))
    <3>1. PICK d : At(d) /\ IsPrefix(src, AllBytes)
      BY <2>1, <2>3 DEF ReadsMessage, At
    <3> QED
      BY <1>1, <1>5, <3>1, GetIntReads, GetDataReads, GetFixedReads
  <2> QED
    BY <2>2, <2>3
<1> QED
  BY <1>1, <1>2, <1>3, <1>4, <1>5 DEF Next, Proceed, Create, NextField, AddSize, Grow,
     GrowTooLarge, Copy, Finish, GetNoLength, GetTooShort, Done, NoMemory, CreateNoMemory,
     GrowNoMemory, FinishNoMemory, GetNoMemory, Fail

LEMMA RoomIsLeft ==
  ASSUME NEW p \in Nat, NEW w \in Nat, NEW r \in Nat, NEW l \in Nat, NEW left \in Nat,
         p + w + r <= l, l <= p + left
  PROVE  left >= w /\ left - w >= r /\ p + w <= l
OBVIOUS

\* From the whole message nothing is too short.
LEMMA WholeIsLongEnough ==
  ASSUME Inv, LengthsFit, MessageIsKnown, NEW d, At(d), src = AllBytes, TooShort
  PROVE  FALSE
<1> DEFINE f == Head(fields)
<1>1. TypeOK /\ fields # <<>> /\ f.kind \in {"i", "s", "d"}
  BY DEF Inv, TooShort, Reading
<1>2. f \in Field /\ siz \in Nat /\ pp \in Nat /\ src \in Seq(Bytes) /\ Len(src) \in Nat
  BY <1>1 DEF TypeOK
<1>3. IsPrefix(src, AllBytes) /\ Len(src) <= pp + siz
  BY DEF At, IsPrefix
<1>4. CASE f.kind = "i"
  <2>1. /\ Encode(f.value) \in Seq(Bytes) /\ Len(Encode(f.value)) = IntSize
        /\ Joined(Pieces(f)) = Encode(f.value)
    BY <1>2, <1>4, FieldBytes
  <2>2. <<>> \in Seq(Bytes) /\ Joined(Pieces(f)) = Encode(f.value) \o <<>> /\ Len(<<>>) = 0
    BY <2>1, NothingBehind
  <2>3. pp + IntSize + 0 <= Len(src)
    BY <1>1, <1>3, <2>1, <2>2, NextPart DEF At
  <2>4. siz >= IntSize
    BY <1>2, <1>3, <2>3
  <2> QED
    BY <1>4, <2>4 DEF TooShort, WordFits, Reading
<1>5. CASE f.kind \in {"s", "d"}
  <2>1. /\ f.value \in Seq(Bytes) /\ Len(f.value) \in Nat
        /\ Encode(Len(f.value)) \in Seq(Bytes) /\ Len(Encode(Len(f.value))) = IntSize
        /\ Joined(Pieces(f)) = Encode(Len(f.value)) \o f.value
    BY <1>2, <1>5, FieldBytes
  <2>2. pp + IntSize + Len(f.value) <= Len(src)
    BY <1>1, <1>3, <2>1, NextPart DEF At
  <2>3. siz >= IntSize /\ siz - IntSize >= Len(f.value) /\ pp + IntSize <= Len(src)
    <3>1. IntSize \in Nat
      OBVIOUS
    <3>2. PICK r \in Nat, l \in Nat : r = Len(f.value) /\ l = Len(src)
      BY <1>2, <2>1
    <3>3. pp + IntSize + r <= l /\ l <= pp + siz
      BY <1>3, <2>2, <3>2
    <3>4. siz >= IntSize /\ siz - IntSize >= r /\ pp + IntSize <= l
      BY <1>2, <3>1, <3>3, RoomIsLeft
    <3> QED
      BY <3>2, <3>4
  <2>4. Decode(NextWord) = Len(f.value)
    BY <1>1, <1>3, <1>5, <2>3, WordIsRead
  <2> QED
    BY <2>3, <2>4 DEF TooShort, WordFits, DataFits
<1> QED
  BY <1>1, <1>4, <1>5

LEMMA ReadIsRight ==
  ASSUME Inv, ReaderCounts, MessageSent, LengthsFit, MessageIsKnown, ReadsMessage
  PROVE  ReadIsWritten
<1>1. SUFFICES ASSUME pc = "read"
               PROVE  /\ src = Body => ~ TooShort
                      /\ fields = <<>> =>
                           /\ src = Body => got = msg
                           /\ HasFixed \/ Len(src) >= Len(Body) \/ src \in Noise
  BY DEF ReadIsWritten
<1>2. Body = AllBytes /\ AllBytes \in Seq(Bytes) /\ TypeOK
  BY <1>1, BodyIsAllBytes DEF Inv
<1>3. CASE src \in Noise /\ ~ IsPrefix(src, AllBytes)
  <2>1. src # AllBytes
    BY <1>3 DEF IsPrefix
  <2> QED
    BY <1>2, <1>3, <2>1
<1>4. CASE ~ (src \in Noise /\ ~ IsPrefix(src, AllBytes))
  <2>1. PICK d : At(d)
    BY <1>1, <1>4 DEF ReadsMessage, At
  <2>2. src = Body => ~ TooShort
    BY <1>2, <2>1, WholeIsLongEnough
  <2>3. ASSUME fields = <<>>
        PROVE  got = msg /\ (HasFixed \/ Len(src) >= Len(Body))
    <3>1. d = Len(msg)
      BY <1>2, <2>1, <2>3, NothingLeft DEF At
    <3>2. got \in Seq(Field) /\ msg \in Seq(Field) /\ Len(got) = Len(msg)
          /\ \A k \in 1 .. Len(got) : got[k] = msg[k]
      BY <1>2, <2>1, <3>1 DEF At, TypeOK
    <3>3. got = msg
      BY <3>2, SeqEqual
    <3>4. pp = Len(AllBytes)
      BY <2>1, <3>1 DEF At, AllBytes
    <3>5. HasFixed \/ Len(src) = pp + siz
      BY <1>1 DEF ReaderCounts
    <3>6. pp \in Nat /\ siz \in Nat
      BY <1>2 DEF TypeOK
    <3> QED
      BY <1>2, <3>3, <3>4, <3>5, <3>6
  <2> QED
    BY <2>2, <2>3
<1> QED
  BY <1>3, <1>4

\* If the lengths fit into 32 bits: the reader gets from the whole message what was
\* written, and from a part of it, without fields of fixed size, nothing.
THEOREM WhatIsWrittenIsRead == LengthsFit => (Spec => []ReadIsWritten)
<1> SUFFICES ASSUME LengthsFit PROVE Spec => []ReadIsWritten
  OBVIOUS
<1> DEFINE All == /\ Inv /\ ReaderCounts /\ ReadsStayInBuffer /\ WritesMessage /\ MessageSent
                  /\ MessageIsKnown /\ ReadsMessage
<1>1. Init => All
  BY InitHolds DEF Init, ReaderCounts, ReadsStayInBuffer, WritesMessage, MessageSent,
     MessageIsKnown, ReadsMessage
<1>2. All /\ [Next]_vars => All'
  BY StepKeeps, StepCounts, StepWrites, StepReads
<1>3. All => ReadIsWritten
  BY ReadIsRight
<1> HIDE DEF All
<1> QED
  BY <1>1, <1>2, <1>3, PTL DEF Spec

-----------------------------------------------------------------------------
(* Datagram: the inductive invariant. *)

Socket == [type : {"dgram", "stream"}, owner : Clients \cup {"server"},
           peer : Ports \cup {NONE} \cup {Addresses[i] : i \in DOMAIN Addresses}]

\* The types, and which variables hold a socket at which place.
PlacesFit ==
  /\ \A a \in DOMAIN sockets : sockets[a] \in Socket
  /\ at \in [Clients -> {"idle", "stream", "dgram", "select"}]
  /\ res \in [Clients -> Nat \ {0}]
  /\ s \in [Clients -> Ports \cup {NONE}]
  /\ \A c \in Clients : /\ at[c] = "select" => s[c] # NONE
                        /\ at[c] \in {"stream", "dgram"} => s[c] = NONE
  /\ accepting \in {"down", "recvfrom", "socket", "connect"}
  /\ new_sock \in Ports \cup {NONE}
  /\ (new_sock # NONE) = (accepting = "connect")
  /\ accepting \in {"socket", "connect"} => ss \in Ports
  /\ accepted \subseteq Ports
  /\ accepting = "down" => accepted = {}

\* No two hold the same socket.
HeldOnce ==
  /\ \A c \in Clients : s[c] # NONE =>
       /\ s[c] \notin accepted \cup {new_sock}
       /\ \A d \in Clients \ {c} : s[d] # s[c]
  /\ new_sock \notin accepted

\* A datagram comes from a socket with a port, and who is sent one at a port is
\* answered by a socket that was accepted for it.
AnswersFit ==
  \A d \in net :
    /\ d.from \in Ports
    /\ d.to \in Ports =>
         /\ d.from \in accepted
         /\ sockets[d.from] = [type |-> "dgram", owner |-> "server", peer |-> d.to]

\* The socket accept_dgram works on is one of datagrams, and the server's.
NewSocketFits ==
  new_sock # NONE => /\ sockets[new_sock].type = "dgram"
                     /\ sockets[new_sock].owner = "server"

DgramInv ==
  /\ PlacesFit /\ HeldOnce /\ AnswersFit /\ NewSocketFits
  /\ SocketsAreClosed /\ PeersAgree

-----------------------------------------------------------------------------
(* Opening, closing and connecting a socket. *)

\* Who holds which of the open sockets.
LEMMA HoldersFacts ==
  ASSUME DgramInv
  PROVE  /\ \A c \in Clients : s[c] # NONE => s[c] \in DOMAIN sockets
         /\ new_sock # NONE => new_sock \in DOMAIN sockets
         /\ accepted \subseteq DOMAIN sockets
         /\ DOMAIN sockets \subseteq Ports \cup {LISTENING}
         /\ accepting # "down" => LISTENING \in DOMAIN sockets
         /\ accepting = "down" => LISTENING \notin DOMAIN sockets
<1> DEFINE bound == IF accepting = "down" THEN {} ELSE {LISTENING}
           held == {s[c] : c \in Clients} \cup {new_sock}
<1>1. DOMAIN sockets = bound \cup accepted \cup (held \ {NONE})
  BY DEF DgramInv, SocketsAreClosed
<1>2. held \subseteq Ports \cup {NONE} /\ accepted \subseteq Ports
  BY DEF DgramInv, PlacesFit
<1>3. LISTENING \notin Ports /\ LISTENING # NONE
  BY DatagramAssumption
<1> QED
  BY <1>1, <1>2, <1>3

LEMMA OpenFacts ==
  ASSUME NEW a, NEW type, NEW owner, NEW peer, Open(a, type, owner, peer)
  PROVE  /\ DOMAIN sockets' = DOMAIN sockets \cup {a}
         /\ sockets'[a] = [type |-> type, owner |-> owner, peer |-> peer]
         /\ \A x \in DOMAIN sockets \ {a} : sockets'[x] = sockets[x]
BY DEF Open

LEMMA OpenedFits ==
  ASSUME PlacesFit, NEW a, NEW type \in {"dgram", "stream"},
         NEW owner \in Clients \cup {"server"},
         NEW peer \in Ports \cup {NONE} \cup {Addresses[i] : i \in DOMAIN Addresses},
         Open(a, type, owner, peer)
  PROVE  \A x \in DOMAIN sockets' : sockets'[x] \in Socket
<1>1. /\ DOMAIN sockets' = DOMAIN sockets \cup {a}
      /\ sockets'[a] = [type |-> type, owner |-> owner, peer |-> peer]
      /\ \A x \in DOMAIN sockets \ {a} : sockets'[x] = sockets[x]
  BY OpenFacts
<1>2. [type |-> type, owner |-> owner, peer |-> peer] \in Socket
  BY DEF Socket
<1>3. \A x \in DOMAIN sockets \ {a} : sockets'[x] \in Socket
  BY <1>1 DEF PlacesFit
<1> QED
  BY <1>1, <1>2, <1>3

LEMMA CloseFacts ==
  ASSUME NEW a, Close(a)
  PROVE  /\ DOMAIN sockets' = DOMAIN sockets \ {a}
         /\ \A x \in DOMAIN sockets \ {a} : sockets'[x] = sockets[x]
BY DEF Close

LEMMA ClosedFits ==
  ASSUME PlacesFit, NEW a, Close(a)
  PROVE  \A x \in DOMAIN sockets' : sockets'[x] \in Socket
<1>1. /\ DOMAIN sockets' = DOMAIN sockets \ {a}
      /\ \A x \in DOMAIN sockets \ {a} : sockets'[x] = sockets[x]
  BY CloseFacts
<1> QED
  BY <1>1 DEF PlacesFit

LEMMA ConnectFacts ==
  ASSUME NEW a \in DOMAIN sockets, NEW peer, sockets[a] \in Socket, Connect(a, peer)
  PROVE  /\ DOMAIN sockets' = DOMAIN sockets
         /\ sockets'[a] = [type |-> sockets[a].type, owner |-> sockets[a].owner, peer |-> peer]
         /\ \A x \in DOMAIN sockets \ {a} : sockets'[x] = sockets[x]
BY DEF Connect, Socket

\* The address that a call is at is none of the ports.
LEMMA AddressFacts ==
  ASSUME PlacesFit, NEW c \in Clients, Looping(c)
  PROVE  /\ Addresses[res[c]] \in {Addresses[i] : i \in DOMAIN Addresses}
         /\ Addresses[res[c]] \notin Ports
<1>1. res[c] \in 1 .. Len(Addresses)
  BY DatagramAssumption DEF PlacesFit, Looping
<1> QED
  BY <1>1, DatagramAssumption

\* A step that opens, closes and connects nothing.
LEMMA NoSocketKeeps ==
  ASSUME DgramInv, PlacesFit',
         UNCHANGED <<sockets, s, accepted, new_sock>>, net' \subseteq net,
         (accepting' = "down") = (accepting = "down"),
         \A c \in Clients : at'[c] = "idle" /\ s[c] # NONE => at[c] = "idle"
  PROVE  DgramInv'
<1> USE DEF DgramInv
<1>1. HeldOnce' /\ NewSocketFits'
  BY DEF HeldOnce, NewSocketFits
<1>2. AnswersFit'
  BY DEF AnswersFit
<1>3. SocketsAreClosed'
  BY DEF SocketsAreClosed
<1>4. PeersAgree'
  BY DEF PeersAgree
<1> QED
  BY <1>1, <1>2, <1>3, <1>4

\* A client closes its socket.
LEMMA ClosingKeeps ==
  ASSUME DgramInv, PlacesFit', NEW c \in Clients, s[c] # NONE,
         Close(s[c]), s' = [s EXCEPT ![c] = NONE],
         UNCHANGED serverVars, net' \subseteq net,
         \A d \in Clients \ {c} : at'[d] = at[d]
  PROVE  DgramInv'
<1> USE DEF DgramInv
<1>1. /\ s'[c] = NONE /\ \A d \in Clients \ {c} : s'[d] = s[d]
      /\ UNCHANGED <<accepted, new_sock, accepting>>
  BY DEF PlacesFit, serverVars
<1>2. /\ DOMAIN sockets' = DOMAIN sockets \ {s[c]}
      /\ \A x \in DOMAIN sockets \ {s[c]} : sockets'[x] = sockets[x]
  BY CloseFacts
<1>3. /\ s[c] \notin accepted \cup {new_sock, LISTENING}
      /\ \A d \in Clients \ {c} : s[d] # NONE => s[d] # s[c]
  BY DatagramAssumption DEF HeldOnce, PlacesFit
<1>4. HeldOnce'
  BY <1>1 DEF HeldOnce
<1>5. NewSocketFits'
  BY <1>1, <1>2, <1>3, HoldersFacts DEF NewSocketFits
<1>6. AnswersFit'
  BY <1>1, <1>2, <1>3, HoldersFacts DEF AnswersFit
<1>7. SocketsAreClosed'
  BY <1>1, <1>2, <1>3 DEF SocketsAreClosed
<1>8. PeersAgree'
  <2>1. ASSUME NEW d \in Clients, at'[d] = "idle", s'[d] # NONE
        PROVE  /\ d # c /\ at[d] = "idle" /\ s'[d] = s[d]
               /\ sockets'[s[d]] = sockets[s[d]] /\ s[d] # NONE
    BY <1>1, <1>2, <1>3, <2>1, HoldersFacts
  <2>2. \A a \in accepted : sockets'[a] = sockets[a]
    BY <1>2, <1>3, HoldersFacts
  <2> QED
    BY <1>1, <2>1, <2>2 DEF PeersAgree
<1> QED
  BY <1>4, <1>5, <1>6, <1>7, <1>8

\* A client gets a new socket.
LEMMA ClientOpensKeeps ==
  ASSUME DgramInv, PlacesFit', NEW c \in Clients, NEW p \in Free, s[c] = NONE,
         NEW type, NEW peer, Open(p, type, c, peer), s' = [s EXCEPT ![c] = p],
         UNCHANGED serverVars,
         \A d \in net' \ net : d.from \in Ports /\ d.to \notin Ports,
         \A d \in Clients \ {c} : at'[d] = at[d],
         at'[c] = "idle" => type # "dgram"
  PROVE  DgramInv'
<1> USE DEF DgramInv
<1>1. /\ s'[c] = p /\ \A d \in Clients \ {c} : s'[d] = s[d]
      /\ UNCHANGED <<accepted, new_sock, accepting>>
  BY DEF PlacesFit, serverVars
<1>2. /\ DOMAIN sockets' = DOMAIN sockets \cup {p}
      /\ sockets'[p] = [type |-> type, owner |-> c, peer |-> peer]
      /\ \A x \in DOMAIN sockets \ {p} : sockets'[x] = sockets[x]
  BY OpenFacts
<1>3. /\ p \notin DOMAIN sockets /\ p # NONE
      /\ p \notin accepted \cup {new_sock, LISTENING}
      /\ \A d \in Clients : s[d] # p
  BY HoldersFacts, DatagramAssumption DEF Free
<1>4. HeldOnce'
  BY <1>1, <1>3 DEF HeldOnce
<1>5. NewSocketFits'
  BY <1>1, <1>2, <1>3, HoldersFacts DEF NewSocketFits
<1>6. AnswersFit'
  BY <1>1, <1>2, <1>3, HoldersFacts DEF AnswersFit
<1>7. SocketsAreClosed'
  BY <1>1, <1>2, <1>3 DEF SocketsAreClosed
<1>8. PeersAgree'
  <2>1. ASSUME NEW d \in Clients, at'[d] = "idle", s'[d] # NONE, sockets'[s'[d]].type = "dgram"
        PROVE  /\ d # c /\ at[d] = "idle" /\ s'[d] = s[d]
               /\ sockets'[s[d]] = sockets[s[d]] /\ s[d] # NONE
    BY <1>1, <1>2, <1>3, <2>1, HoldersFacts
  <2>2. \A a \in accepted : sockets'[a] = sockets[a]
    BY <1>2, <1>3, HoldersFacts
  <2> QED
    BY <1>1, <2>1, <2>2 DEF PeersAgree
<1> QED
  BY <1>4, <1>5, <1>6, <1>7, <1>8

-----------------------------------------------------------------------------
(* The clients' steps. *)

LEMMA CallKeepsDgram ==
  ASSUME DgramInv, NEW c \in Clients, Call(c)
  PROVE  DgramInv'
<1>1. /\ at[c] = "idle" /\ s[c] = NONE
      /\ \/ Goto(c, "stream") \/ Goto(c, "dgram")
         \/ UNCHANGED at
      /\ UNCHANGED <<sockets, net, res, s, accepting, ss, new_sock, accepted>>
  BY DEF Call, serverVars
<1>2. PlacesFit'
  BY <1>1 DEF DgramInv, PlacesFit, Goto
<1>3. \A d \in Clients : at'[d] = "idle" /\ s[d] # NONE => at[d] = "idle"
  BY <1>1 DEF DgramInv, PlacesFit, Goto
<1> QED
  BY <1>1, <1>2, <1>3, NoSocketKeeps

LEMMA SocketFailsKeeps ==
  ASSUME DgramInv, NEW c \in Clients, SocketFails(c) \/ ReturnFailure(c)
  PROVE  DgramInv'
<1>1. /\ at[c] \in {"stream", "dgram"}
      /\ at' = at \/ at' = [at EXCEPT ![c] = "idle"]
      /\ res' = [res EXCEPT ![c] = @ + 1] \/ res' = [res EXCEPT ![c] = 1]
      /\ UNCHANGED <<sockets, net, s, accepting, ss, new_sock, accepted>>
  BY DEF SocketFails, ReturnFailure, Looping, Continue, Return, Goto, serverVars
<1>2. res' \in [Clients -> Nat \ {0}]
  BY <1>1 DEF DgramInv, PlacesFit
<1>3. at' \in [Clients -> {"idle", "stream", "dgram", "select"}]
  BY <1>1 DEF DgramInv, PlacesFit
<1>4. PlacesFit'
  BY <1>1, <1>2, <1>3 DEF DgramInv, PlacesFit
<1>5. \A d \in Clients : at'[d] = "idle" /\ s[d] # NONE => at[d] = "idle"
  BY <1>1 DEF DgramInv, PlacesFit
<1> QED
  BY <1>1, <1>4, <1>5, NoSocketKeeps

LEMMA ConnectStreamKeeps ==
  ASSUME DgramInv, NEW c \in Clients, ConnectStream(c)
  PROVE  DgramInv'
<1>1. /\ Looping(c) /\ at[c] = "stream" /\ s[c] = NONE
      /\ UNCHANGED <<net, serverVars, accepting, ss, new_sock, accepted>>
  BY DEF DgramInv, PlacesFit, ConnectStream, serverVars
<1>2. CASE /\ Continue(c)
           /\ UNCHANGED <<sockets, at, s>>
  <2>1. PlacesFit'
    BY <1>1, <1>2 DEF DgramInv, PlacesFit, Continue
  <2> QED
    BY <1>1, <1>2, <2>1, NoSocketKeeps
<1>3. ASSUME NEW p \in Free,
             Open(p, "stream", c, Addresses[res[c]]),
             s' = [s EXCEPT ![c] = p], Return(c)
      PROVE  DgramInv'
  <2>1. /\ Addresses[res[c]] \in {Addresses[i] : i \in DOMAIN Addresses}
        /\ p \in Ports /\ p # NONE
    BY <1>1, AddressFacts, DatagramAssumption DEF DgramInv, Free
  <2>2. /\ at' \in [Clients -> {"idle", "stream", "dgram", "select"}]
        /\ at'[c] = "idle" /\ \A d \in Clients \ {c} : at'[d] = at[d]
        /\ res' \in [Clients -> Nat \ {0}]
        /\ s' \in [Clients -> Ports \cup {NONE}]
        /\ s'[c] = p /\ \A d \in Clients \ {c} : s'[d] = s[d]
    BY <1>3, <2>1 DEF Return, Goto, DgramInv, PlacesFit
  <2>3. \A a \in DOMAIN sockets' : sockets'[a] \in Socket
    BY <1>3, <2>1, OpenedFits DEF DgramInv
  <2>4. \A d \in Clients : /\ at'[d] = "select" => s'[d] # NONE
                           /\ at'[d] \in {"stream", "dgram"} => s'[d] = NONE
    BY <2>2 DEF DgramInv, PlacesFit
  <2>5. PlacesFit'
    BY <1>1, <2>2, <2>3, <2>4 DEF DgramInv, PlacesFit
  <2> QED
    BY <1>1, <1>3, <2>2, <2>5, ClientOpensKeeps
<1> QED
  BY <1>2, <1>3 DEF ConnectStream

LEMMA SendSynKeeps ==
  ASSUME DgramInv, NEW c \in Clients, SendSyn(c)
  PROVE  DgramInv'
<1>1. /\ Looping(c) /\ at[c] = "dgram" /\ s[c] = NONE /\ Goto(c, "select")
      /\ UNCHANGED <<res, serverVars, accepting, ss, new_sock, accepted>>
  BY DEF DgramInv, PlacesFit, SendSyn, serverVars
<1>2. PICK p \in Free : /\ Open(p, "dgram", c, NONE)
                        /\ s' = [s EXCEPT ![c] = p]
                        /\ Send(p, Addresses[res[c]]) \/ UNCHANGED net
  BY DEF SendSyn
<1>3. /\ Addresses[res[c]] \notin Ports
      /\ p \in Ports /\ p # NONE
  BY <1>1, AddressFacts, DatagramAssumption DEF DgramInv, Free
<1>4. /\ at' \in [Clients -> {"idle", "stream", "dgram", "select"}]
      /\ at'[c] = "select" /\ \A d \in Clients \ {c} : at'[d] = at[d]
      /\ s' \in [Clients -> Ports \cup {NONE}]
      /\ s'[c] = p /\ \A d \in Clients \ {c} : s'[d] = s[d]
  BY <1>1, <1>2, <1>3 DEF Goto, DgramInv, PlacesFit
<1>5. \A a \in DOMAIN sockets' : sockets'[a] \in Socket
  BY <1>2, OpenedFits DEF DgramInv
<1>6. PlacesFit'
  BY <1>1, <1>3, <1>4, <1>5 DEF DgramInv, PlacesFit
<1>7. \A d \in net' \ net : d.from \in Ports /\ d.to \notin Ports
  BY <1>2, <1>3 DEF Send
<1> QED
  BY <1>1, <1>2, <1>4, <1>6, <1>7, ClientOpensKeeps

\* What giving up an address does to its call.
LEMMA GiveUpKeeps ==
  ASSUME DgramInv, NEW c \in Clients, at[c] = "select", GiveUp(c),
         UNCHANGED serverVars, net' \subseteq net
  PROVE  DgramInv'
<1>1. /\ Close(s[c]) /\ s' = [s EXCEPT ![c] = NONE] /\ s[c] # NONE
      /\ at' = [at EXCEPT ![c] = "dgram"] /\ res' = [res EXCEPT ![c] = @ + 1]
      /\ UNCHANGED <<accepting, ss, new_sock, accepted>>
  BY DEF GiveUp, Continue, Goto, DgramInv, PlacesFit, serverVars
<1>2. /\ at' \in [Clients -> {"idle", "stream", "dgram", "select"}]
      /\ at'[c] = "dgram" /\ \A d \in Clients \ {c} : at'[d] = at[d]
      /\ res' \in [Clients -> Nat \ {0}]
      /\ s' \in [Clients -> Ports \cup {NONE}]
      /\ s'[c] = NONE /\ \A d \in Clients \ {c} : s'[d] = s[d]
  BY <1>1 DEF DgramInv, PlacesFit
<1>3. \A a \in DOMAIN sockets' : sockets'[a] \in Socket
  BY <1>1, ClosedFits DEF DgramInv
<1>4. PlacesFit'
  BY <1>1, <1>2, <1>3 DEF DgramInv, PlacesFit
<1> QED
  BY <1>1, <1>2, <1>4, ClosingKeeps

LEMMA TimeoutKeepsDgram ==
  ASSUME DgramInv, NEW c \in Clients, Timeout(c)
  PROVE  DgramInv'
BY GiveUpKeeps DEF Timeout

\* The answer is from the socket that was accepted for this one.
LEMMA AnsweredKeeps ==
  ASSUME DgramInv, NEW c \in Clients, Answered(c)
  PROVE  DgramInv'
<1> USE DEF DgramInv
<1>1. /\ at[c] = "select" /\ s[c] # NONE /\ s[c] \in Ports
      /\ UNCHANGED <<serverVars, accepting, ss, new_sock, accepted>>
  BY DEF PlacesFit, Answered, serverVars
<1>2. PICK d \in net :
        /\ d.to = s[c]
        /\ \/ /\ Receive(d) /\ Connect(s[c], d.from) /\ Return(c) /\ UNCHANGED s
           \/ net' \in {net, net \ {d}} /\ GiveUp(c)
  BY DEF Answered
<1>3. CASE net' \in {net, net \ {d}} /\ GiveUp(c)
  BY <1>1, <1>3, GiveUpKeeps
<1>4. CASE Receive(d) /\ Connect(s[c], d.from) /\ Return(c) /\ UNCHANGED s
  <2>1. /\ d.from \in Ports /\ d.from \in accepted
        /\ sockets[d.from] = [type |-> "dgram", owner |-> "server", peer |-> s[c]]
        /\ net' \subseteq net
    BY <1>1, <1>2, <1>4 DEF AnswersFit, Receive
  <2>2. s[c] \in DOMAIN sockets /\ sockets[s[c]] \in Socket
    BY <1>1, HoldersFacts DEF PlacesFit
  <2>3. /\ DOMAIN sockets' = DOMAIN sockets
        /\ sockets'[s[c]] = [type |-> sockets[s[c]].type, owner |-> sockets[s[c]].owner, peer |-> d.from]
        /\ \A x \in DOMAIN sockets \ {s[c]} : sockets'[x] = sockets[x]
    BY <1>4, <2>2, ConnectFacts
  <2>4. /\ at' \in [Clients -> {"idle", "stream", "dgram", "select"}]
        /\ at'[c] = "idle" /\ \A e \in Clients \ {c} : at'[e] = at[e]
        /\ res' \in [Clients -> Nat \ {0}]
    BY <1>4 DEF Return, Goto, PlacesFit
  <2>5. sockets'[s[c]] \in Socket
    BY <2>1, <2>2, <2>3 DEF Socket
  <2>6. PlacesFit'
    BY <1>1, <1>4, <2>3, <2>4, <2>5 DEF PlacesFit
  <2>7. s[c] \notin accepted \cup {new_sock}
    BY <1>1 DEF HeldOnce
  <2>8. HeldOnce'
    BY <1>1, <1>4 DEF HeldOnce
  <2>9. AnswersFit'
    BY <1>1, <2>1, <2>3, <2>7, HoldersFacts DEF AnswersFit
  <2>10. NewSocketFits'
    BY <1>1, <2>3, <2>7, HoldersFacts DEF NewSocketFits
  <2>11. SocketsAreClosed'
    BY <1>1, <1>4, <2>3 DEF SocketsAreClosed
  <2>12. PeersAgree'
    <3>1. ASSUME NEW e \in Clients, at'[e] = "idle", s[e] # NONE, sockets'[s[e]].type = "dgram"
          PROVE  /\ sockets'[s[e]].peer \in accepted
                 /\ sockets'[sockets'[s[e]].peer] =
                      [type |-> "dgram", owner |-> "server", peer |-> s[e]]
      <4>1. CASE e = c
        BY <2>1, <2>3, <2>7, <4>1, HoldersFacts
      <4>2. CASE e # c
        <5>1. /\ s[e] # s[c] /\ s[e] \in DOMAIN sockets /\ at[e] = "idle"
              /\ sockets'[s[e]] = sockets[s[e]]
          BY <2>3, <2>4, <3>1, <4>2, HoldersFacts DEF HeldOnce
        <5>2. /\ sockets[s[e]].peer \in accepted
              /\ sockets[sockets[s[e]].peer] =
                   [type |-> "dgram", owner |-> "server", peer |-> s[e]]
          BY <3>1, <5>1 DEF PeersAgree
        <5> QED
          BY <2>3, <2>7, <5>1, <5>2, HoldersFacts
      <4> QED
        BY <4>1, <4>2
    <3> QED
      BY <1>1, <1>4, <3>1 DEF PeersAgree
  <2> QED
    BY <2>6, <2>8, <2>9, <2>10, <2>11, <2>12
<1> QED
  BY <1>2, <1>3, <1>4

LEMMA CloseSocketKeeps ==
  ASSUME DgramInv, NEW c \in Clients, CloseSocket(c)
  PROVE  DgramInv'
<1>1. /\ Close(s[c]) /\ s' = [s EXCEPT ![c] = NONE] /\ s[c] # NONE /\ at[c] = "idle"
      /\ UNCHANGED <<at, res, net, serverVars, accepting, ss, new_sock, accepted>>
  BY DEF CloseSocket, serverVars
<1>2. \A a \in DOMAIN sockets' : sockets'[a] \in Socket
  BY <1>1, ClosedFits DEF DgramInv
<1>3. PlacesFit'
  BY <1>1, <1>2 DEF DgramInv, PlacesFit
<1> QED
  BY <1>1, <1>3, ClosingKeeps

-----------------------------------------------------------------------------
(* The server's steps, and the network's. *)

LEMMA BindDgramKeeps ==
  ASSUME DgramInv, BindDgram
  PROVE  DgramInv'
<1> USE DEF DgramInv
<1>1. /\ accepting = "down" /\ UNCHANGED <<net, at, res, s, ss, new_sock, accepted>>
      /\ \/ Open(LISTENING, "dgram", "server", NONE) /\ accepting' = "recvfrom"
         \/ UNCHANGED sockets /\ accepting' = "down"
  BY DEF BindDgram, BindAny, clientVars
<1>2. CASE UNCHANGED sockets /\ accepting' = "down"
  <2>1. PlacesFit'
    BY <1>1, <1>2 DEF PlacesFit
  <2> QED
    BY <1>1, <1>2, <2>1, NoSocketKeeps
<1>3. CASE Open(LISTENING, "dgram", "server", NONE) /\ accepting' = "recvfrom"
  <2>1. /\ DOMAIN sockets' = DOMAIN sockets \cup {LISTENING}
        /\ sockets'[LISTENING] = [type |-> "dgram", owner |-> "server", peer |-> NONE]
        /\ \A x \in DOMAIN sockets \ {LISTENING} : sockets'[x] = sockets[x]
    BY <1>3, OpenFacts
  <2>2. LISTENING \notin DOMAIN sockets
    BY <1>1, HoldersFacts
  <2>3. PlacesFit'
    BY <1>1, <1>3, <2>1 DEF PlacesFit, Socket
  <2>4. HeldOnce' /\ NewSocketFits'
    BY <1>1, <2>1, <2>2, HoldersFacts DEF HeldOnce, NewSocketFits
  <2>5. AnswersFit'
    BY <1>1, <2>1, <2>2, HoldersFacts DEF AnswersFit
  <2>6. SocketsAreClosed'
    BY <1>1, <1>3, <2>1, <2>2 DEF SocketsAreClosed
  <2>7. PeersAgree'
    BY <1>1, <2>1, <2>2, HoldersFacts DEF PeersAgree
  <2> QED
    BY <2>3, <2>4, <2>5, <2>6, <2>7
<1> QED
  BY <1>1, <1>2, <1>3

LEMMA ReceiveSynKeeps ==
  ASSUME DgramInv, ReceiveSyn
  PROVE  DgramInv'
<1>1. /\ accepting = "recvfrom" /\ accepting' = "socket"
      /\ UNCHANGED <<sockets, at, res, s, new_sock, accepted>>
  BY DEF ReceiveSyn, clientVars
<1>2. PICK d \in net : d.to = LISTENING /\ Receive(d) /\ ss' = d.from
  BY DEF ReceiveSyn
<1>3. ss' \in Ports /\ net' \subseteq net
  BY <1>2 DEF DgramInv, AnswersFit, Receive
<1>4. PlacesFit'
  BY <1>1, <1>3 DEF DgramInv, PlacesFit
<1> QED
  BY <1>1, <1>3, <1>4, NoSocketKeeps

LEMMA NewSocketKeeps ==
  ASSUME DgramInv, NewSocket
  PROVE  DgramInv'
<1> USE DEF DgramInv
<1>1. /\ accepting = "socket" /\ accepting' = "connect" /\ new_sock = NONE
      /\ UNCHANGED <<net, at, res, s, ss, accepted>>
  BY DEF NewSocket, clientVars, PlacesFit
<1>2. PICK p \in Ports : /\ p \in Free /\ Open(p, "dgram", "server", NONE)
                         /\ new_sock' = p
  BY DEF NewSocket, BindInaddrAny
<1>3. /\ DOMAIN sockets' = DOMAIN sockets \cup {p}
      /\ sockets'[p] = [type |-> "dgram", owner |-> "server", peer |-> NONE]
      /\ \A x \in DOMAIN sockets \ {p} : sockets'[x] = sockets[x]
  BY <1>2, OpenFacts
<1>4. p # NONE /\ p \notin DOMAIN sockets
  BY <1>2, DatagramAssumption DEF Free
<1>5. p \notin accepted /\ \A c \in Clients : s[c] # p
  BY <1>4, HoldersFacts
<1>6. \A a \in DOMAIN sockets' : sockets'[a] \in Socket
  BY <1>2, OpenedFits
<1>7. PlacesFit'
  BY <1>1, <1>2, <1>4, <1>6 DEF PlacesFit
<1>8. HeldOnce' /\ NewSocketFits'
  BY <1>1, <1>2, <1>3, <1>4, <1>5 DEF HeldOnce, NewSocketFits
<1>9. AnswersFit'
  BY <1>1, <1>3, <1>4, HoldersFacts DEF AnswersFit
<1>10. SocketsAreClosed'
  BY <1>1, <1>2, <1>3, <1>4 DEF SocketsAreClosed
<1>11. PeersAgree'
  BY <1>1, <1>3, <1>4, HoldersFacts DEF PeersAgree
<1> QED
  BY <1>7, <1>8, <1>9, <1>10, <1>11

LEMMA NewSocketFailsKeeps ==
  ASSUME DgramInv, NewSocketFails
  PROVE  DgramInv'
<1>1. /\ accepting = "socket" /\ accepting' = "recvfrom"
      /\ UNCHANGED <<sockets, net, at, res, s, new_sock, accepted>>
  BY DEF NewSocketFails, clientVars
<1>2. PlacesFit'
  BY <1>1 DEF DgramInv, PlacesFit
<1> QED
  BY <1>1, <1>2, NoSocketKeeps

LEMMA SendAckKeeps ==
  ASSUME DgramInv, SendAck
  PROVE  DgramInv'
<1> USE DEF DgramInv
<1>1. /\ accepting = "connect" /\ accepting' = "recvfrom" /\ Connect(new_sock, ss)
      /\ Send(new_sock, ss) \/ UNCHANGED net
      /\ accepted' = accepted \cup {new_sock} /\ new_sock' = NONE
      /\ UNCHANGED <<at, res, s>>
  BY DEF SendAck, clientVars
<1>2. /\ new_sock # NONE /\ new_sock \in Ports /\ ss \in Ports
      /\ new_sock \in DOMAIN sockets /\ sockets[new_sock] \in Socket
      /\ sockets[new_sock].type = "dgram" /\ sockets[new_sock].owner = "server"
      /\ new_sock \notin accepted
  BY <1>1, HoldersFacts DEF PlacesFit, NewSocketFits, HeldOnce
<1>3. /\ DOMAIN sockets' = DOMAIN sockets
      /\ sockets'[new_sock] = [type |-> "dgram", owner |-> "server", peer |-> ss]
      /\ \A x \in DOMAIN sockets \ {new_sock} : sockets'[x] = sockets[x]
  BY <1>1, <1>2, ConnectFacts
<1>4. \A a \in DOMAIN sockets' : sockets'[a] \in Socket
  BY <1>2, <1>3 DEF PlacesFit, Socket
<1>5. PlacesFit'
  BY <1>1, <1>2, <1>4 DEF PlacesFit
<1>6. HeldOnce' /\ NewSocketFits'
  BY <1>1, <1>2, DatagramAssumption DEF HeldOnce, NewSocketFits, PlacesFit
<1>7. AnswersFit'
  <2>1. \A d \in net' \ net : d.from = new_sock /\ d.to = ss
    BY <1>1 DEF Send
  <2> QED
    BY <1>1, <1>2, <1>3, <2>1, HoldersFacts DEF AnswersFit
<1>8. SocketsAreClosed'
  BY <1>1, <1>2, <1>3 DEF SocketsAreClosed
<1>9. PeersAgree'
  <2>1. \A c \in Clients : s[c] # NONE => s[c] \in DOMAIN sockets \ {new_sock}
    BY HoldersFacts DEF HeldOnce
  <2> QED
    BY <1>1, <1>2, <1>3, <2>1, HoldersFacts DEF PeersAgree
<1> QED
  BY <1>5, <1>6, <1>7, <1>8, <1>9

LEMMA ConnectFailsKeeps ==
  ASSUME DgramInv, ConnectFails
  PROVE  DgramInv'
<1> USE DEF DgramInv
<1>1. /\ accepting = "connect" /\ accepting' = "recvfrom" /\ Close(new_sock)
      /\ new_sock' = NONE /\ new_sock # NONE /\ new_sock \in Ports
      /\ UNCHANGED <<net, at, res, s, accepted>>
  BY DEF ConnectFails, clientVars, PlacesFit
<1>2. /\ DOMAIN sockets' = DOMAIN sockets \ {new_sock}
      /\ \A x \in DOMAIN sockets \ {new_sock} : sockets'[x] = sockets[x]
  BY <1>1, CloseFacts
<1>3. new_sock \notin accepted /\ \A c \in Clients : s[c] # new_sock
  BY <1>1 DEF HeldOnce
<1>4. PlacesFit'
  BY <1>1, <1>2 DEF PlacesFit
<1>5. HeldOnce' /\ NewSocketFits'
  BY <1>1, DatagramAssumption DEF HeldOnce, NewSocketFits, PlacesFit
<1>6. AnswersFit'
  BY <1>1, <1>2, <1>3, HoldersFacts DEF AnswersFit
<1>7. SocketsAreClosed'
  BY <1>1, <1>2, <1>3, DatagramAssumption DEF SocketsAreClosed
<1>8. PeersAgree'
  BY <1>1, <1>2, <1>3, HoldersFacts DEF PeersAgree
<1> QED
  BY <1>4, <1>5, <1>6, <1>7, <1>8

LEMMA LoseKeeps ==
  ASSUME DgramInv, Lose
  PROVE  DgramInv'
<1>1. /\ net' \subseteq net
      /\ UNCHANGED <<sockets, at, res, s, accepting, ss, new_sock, accepted>>
  BY DEF Lose, clientVars, serverVars
<1>2. PlacesFit'
  BY <1>1 DEF DgramInv, PlacesFit
<1> QED
  BY <1>1, <1>2, NoSocketKeeps

-----------------------------------------------------------------------------
(* Datagram: the theorems. *)

LEMMA DgramInitInv == DgramInit => DgramInv
<1> SUFFICES ASSUME DgramInit PROVE DgramInv
  OBVIOUS
<1>1. PlacesFit
  BY DEF DgramInit, PlacesFit
<1>2. HeldOnce /\ AnswersFit /\ NewSocketFits
  BY DEF DgramInit, HeldOnce, AnswersFit, NewSocketFits
<1>3. SocketsAreClosed /\ PeersAgree
  BY DEF DgramInit, SocketsAreClosed, PeersAgree
<1> QED
  BY <1>1, <1>2, <1>3 DEF DgramInv

LEMMA DgramNextInv == DgramInv /\ [DgramNext]_dgramVars => DgramInv'
<1> SUFFICES ASSUME DgramInv, [DgramNext]_dgramVars PROVE DgramInv'
  OBVIOUS
<1>1. CASE UNCHANGED dgramVars
  BY <1>1 DEF dgramVars, clientVars, serverVars, DgramInv, PlacesFit, HeldOnce,
       AnswersFit, NewSocketFits, SocketsAreClosed, PeersAgree
<1>2. ASSUME NEW c \in Clients, Call(c) \/ ClientStep(c) \/ CloseSocket(c)
      PROVE  DgramInv'
  BY <1>2, CallKeepsDgram, SocketFailsKeeps, ConnectStreamKeeps, SendSynKeeps,
     TimeoutKeepsDgram, AnsweredKeeps, CloseSocketKeeps DEF ClientStep
<1>3. CASE ServerStep
  BY <1>3, BindDgramKeeps, ReceiveSynKeeps, NewSocketKeeps, NewSocketFailsKeeps,
     SendAckKeeps, ConnectFailsKeeps DEF ServerStep
<1> QED
  BY <1>1, <1>2, <1>3, LoseKeeps DEF DgramNext

\* Whatever the network loses, delays, reorders and repeats and whatever calls of
\* the system fail, a datagram socket that connect_dgram returns and the one it is
\* connected to name each other (net.c:315).
THEOREM BothEndsAgree == DgramSpec => []PeersAgree
<1>1. DgramInv => PeersAgree
  BY DEF DgramInv
<1> QED
  BY <1>1, DgramInitInv, DgramNextInv, PTL DEF DgramSpec

\* On no path out of a handshake does a socket stay open that nobody has
\* (net.c:328).
THEOREM NoSocketStaysOpen == DgramSpec => []SocketsAreClosed
<1>1. DgramInv => SocketsAreClosed
  BY DEF DgramInv
<1> QED
  BY <1>1, DgramInitInv, DgramNextInv, PTL DEF DgramSpec
==============================================================================
