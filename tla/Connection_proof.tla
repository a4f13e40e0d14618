--------------------------- MODULE Connection_proof ---------------------------
(***************************************************************************)
(* Proofs about a connection.  ChunkWire: for every size of bytes, chunks  *)
(* and buffers, however the socket splits what it carries, the positions   *)
(* of every StaticBuffer stay in order, and if the messages fit the        *)
(* numbers that describe them (WireFits), the handler reads the fields     *)
(* that the application wrote: invariant Carrying says where in the bytes  *)
(* of all messages the receiver is, and what of them each buffer holds.    *)
(* Streams: what is saved there one after the other is loaded again.       *)
(* Counters: a row of bytes is counted up like the number it is.           *)
(* ConnectionLife: of all the sockets that are opened for a connection, on *)
(* either platform and for any number of addresses, descriptors and        *)
(* resets, none is leaked, and a connection that was not lost uses its     *)
(* own.                                                                    *)
(***************************************************************************)
EXTENDS ConnectionLife, Streams, Counters, SequenceTheorems, FiniteSetTheorems,
        WellFoundedInduction, TLAPS

-----------------------------------------------------------------------------
(* Numbers. *)

\* A nonempty set of naturals has a least element.
LEMMA LeastNumber ==
  ASSUME NEW T \in SUBSET Nat, T # {}
  PROVE  \E m \in T : \A n \in T : m <= n
<1>1. PICK m \in T : \A n \in T : ~ (<<n, m>> \in OpToRel(<, Nat))
  BY NatLessThanWellFounded, WFMin
<1>2. \A n, k \in Nat : n < k => <<n, k>> \in OpToRel(<, Nat)
  BY DEF OpToRel
<1>3. \A n \in T : n \in Nat /\ m \in Nat /\ ~ (n < m)
  BY <1>1, <1>2
<1> QED
  BY <1>3

\* A power of two is the number of subsets of a set.
LEMMA PowerOfTwo ==
  ASSUME NEW k \in Nat
  PROVE  2 ^ k \in Nat \ {0}
<1>1. IsFiniteSet(1 .. k) /\ Cardinality(1 .. k) = k
  BY FS_Interval
<1>2. Cardinality(SUBSET (1 .. k)) = 2 ^ k /\ IsFiniteSet(SUBSET (1 .. k))
  BY <1>1, FS_SUBSET
<1>3. Cardinality(SUBSET (1 .. k)) \in Nat \ {0}
  BY <1>2, FS_CardinalityType, FS_EmptySet
<1> QED
  BY <1>2, <1>3

LEMMA ByteType == Base \in Nat \ {0} /\ 0 \in Byte /\ \A x \in Byte : x \in Nat
<1>1. Base \in Nat \ {0}
  BY PowerOfTwo, BytesAssumption DEF Base
<1> QED
  BY <1>1 DEF Byte

LEMMA LimitType ==
  ASSUME NEW w \in Nat
  PROVE  Limit(w) \in Nat \ {0}
<1>1. ByteBits \in Nat
  BY BytesAssumption
<1>2. \A x, y \in Nat : x * y \in Nat
  OBVIOUS
<1>3. ByteBits * w \in Nat
  BY <1>1, <1>2
<1> QED
  BY <1>3, PowerOfTwo DEF Limit

\* A number is put into bytes.
LEMMA HtonlType ==
  ASSUME NEW n \in Int, NEW w \in Nat
  PROVE  Htonl(n, w) \in Seq(Byte) /\ Len(Htonl(n, w)) = w
<1>1. ASSUME NEW i \in 1 .. w
      PROVE  (n \div Limit(w - i)) % Base \in Byte
  <2> DEFINE q == n \div Limit(w - i)
  <2>1. w - i \in Nat
    OBVIOUS
  <2>2. Limit(w - i) \in Nat \ {0}
    BY <2>1, LimitType
  <2>3. q \in Int
    BY <2>2
  <2> HIDE DEF q
  <2>4. q % Base \in Byte
    BY <2>3, ByteType DEF Byte
  <2> QED
    BY <2>4 DEF q
<1> QED
  BY <1>1 DEF Htonl

-----------------------------------------------------------------------------
(* The folds of Ntohl and of ReadFields. *)

LEMMA MaxIs ==
  ASSUME NEW n \in Nat, NEW S \in SUBSET (1 .. n), S # {}
  PROVE  Max(S) \in S /\ \A x \in S : x <= Max(S)
<1>1. \E x \in S : \A y \in S : x >= y
  <2> DEFINE T == {n - x : x \in S}
  <2>1. T \in SUBSET Nat /\ T # {}
    <3>1. \A x \in S : n - x \in Nat
      OBVIOUS
    <3> QED
      BY <3>1
  <2>2. PICK m \in T : \A k \in T : m <= k
    BY <2>1, LeastNumber
  <2>3. PICK x \in S : m = n - x
    BY <2>2
  <2>4. \A y \in S : n - x <= n - y
    BY <2>2, <2>3
  <2> QED
    BY <2>3, <2>4
<1> QED
  BY <1>1 DEF Max

\* What a fold does with one more element.
ReadStep(s, f) ==
  LET r == Get(s.b, f)
  IN  [b |-> r.b, fields |-> Append(s.fields, [f EXCEPT !.value = r.ret])]
FoldStep(kind, x, y) ==
  IF kind = "number" THEN x * Base + y
  ELSE IF kind = "carry" THEN Carry(x, y.byte, y.unit)
  ELSE IF kind = "shift" THEN (x * 2 ^ y.gap) + y.n
  ELSE ReadStep(x, y)

\* The function that a fold defines by recursion.
FoldIs(f, kind, base, s, n) ==
  f = [S \in SUBSET (1 .. n) |->
         IF S = {} THEN base ELSE LET x == Max(S) IN FoldStep(kind, f[S \ {x}], s[x])]

LEMMA FoldExists ==
  ASSUME NEW kind, NEW base, NEW s, NEW n \in Nat
  PROVE  \E f : FoldIs(f, kind, base, s, n)
<1> DEFINE missing == {k \in Nat : ~ \E f : FoldIs(f, kind, base, s, k)}
<1>1. SUFFICES ASSUME missing # {} PROVE FALSE
  OBVIOUS
<1>2. PICK m \in missing : \A k \in missing : m <= k
  BY <1>1, LeastNumber
<1>3. CASE m = 0
  <2>1. FoldIs([S \in SUBSET (1 .. 0) |-> base], kind, base, s, 0)
    <3>1. \A S \in SUBSET (1 .. 0) : S = {}
      OBVIOUS
    <3> QED
      BY <3>1 DEF FoldIs
  <2> QED
    BY <1>2, <1>3, <2>1
<1>4. CASE m # 0
  <2>1. PICK k \in Nat : m = k + 1 /\ ~ (m <= k)
    <3>1. m \in Nat /\ m - 1 \in Nat
      BY <1>2, <1>4
    <3> QED
      BY <3>1
  <2>2. PICK f : FoldIs(f, kind, base, s, k)
    BY <1>2, <2>1
  <2> DEFINE g == [S \in SUBSET (1 .. m) |->
                     IF m \in S THEN FoldStep(kind, f[S \ {m}], s[m]) ELSE f[S]]
  <2>3. ASSUME NEW S \in SUBSET (1 .. m)
        PROVE  g[S] = IF S = {} THEN base ELSE FoldStep(kind, g[S \ {Max(S)}], s[Max(S)])
    <3>1. CASE m \in S
      <4>1. Max(S) = m
        <5>1. Max(S) \in 1 .. m /\ m <= Max(S)
          BY <2>1, <3>1, MaxIs
        <5> QED
          BY <2>1, <5>1
      <4>2. S \ {m} \in SUBSET (1 .. k) /\ S \ {m} \in SUBSET (1 .. m) /\ m \notin S \ {m}
        BY <2>1
      <4>3. g[S \ {m}] = f[S \ {m}]
        BY <4>2
      <4> QED
        BY <3>1, <4>1, <4>3
    <3>2. CASE m \notin S /\ S # {}
      <4>1. S \in SUBSET (1 .. k)
        BY <2>1, <3>2
      <4>2. S \ {Max(S)} \in SUBSET (1 .. m) /\ m \notin S \ {Max(S)}
        BY <3>2
      <4>3. g[S \ {Max(S)}] = f[S \ {Max(S)}] /\ g[S] = f[S]
        BY <3>2, <4>2
      <4>4. f[S] = FoldStep(kind, f[S \ {Max(S)}], s[Max(S)])
        <5> HIDE DEF g
        <5> QED
          BY <2>2, <3>2, <4>1 DEF FoldIs
      <4> QED
        BY <3>2, <4>3, <4>4
    <3>3. CASE S = {}
      <4>1. f[{}] = base /\ g[{}] = f[{}]
        BY <2>2 DEF FoldIs
      <4> QED
        BY <3>3, <4>1
    <3> QED
      BY <3>1, <3>2, <3>3
  <2>4. FoldIs(g, kind, base, s, m)
    <3>1. g = [S \in SUBSET (1 .. m) |-> g[S]]
      OBVIOUS
    <3> HIDE DEF g
    <3> QED
      BY <2>3, <3>1 DEF FoldIs
  <2> QED
    BY <1>2, <2>4
<1> QED
  BY <1>3, <1>4

\* The fold of the first m elements.
LEMMA FoldOfFirst ==
  ASSUME NEW f, NEW kind, NEW base, NEW s, NEW n \in Nat, FoldIs(f, kind, base, s, n)
  PROVE  /\ f[1 .. 0] = base
         /\ \A m \in 1 .. n : f[1 .. m] = FoldStep(kind, f[1 .. m - 1], s[m])
<1>1. \A T \in SUBSET (1 .. n) :
        f[T] = IF T = {} THEN base ELSE FoldStep(kind, f[T \ {Max(T)}], s[Max(T)])
  BY DEF FoldIs
<1>2. ASSUME NEW m \in 1 .. n
      PROVE  f[1 .. m] = FoldStep(kind, f[1 .. m - 1], s[m])
  <2> DEFINE S == 1 .. m
  <2>1. m \in S /\ S \ {m} = 1 .. m - 1 /\ S \in SUBSET (1 .. n)
    OBVIOUS
  <2>2. Max(S) = m
    <3>1. Max(S) \in 1 .. m /\ m <= Max(S)
      BY <2>1, MaxIs
    <3> QED
      BY <3>1
  <2>3. f[S] = FoldStep(kind, f[S \ {Max(S)}], s[Max(S)])
    <3> HIDE DEF S
    <3> QED
      BY <1>1, <2>1
  <2> QED
    BY <2>1, <2>2, <2>3
<1>3. f[1 .. 0] = base
  <2>1. 1 .. 0 = {} /\ {} \in SUBSET (1 .. n)
    OBVIOUS
  <2> QED
    BY <1>1, <2>1
<1> QED
  BY <1>2, <1>3

\* The fold of Ntohl.
NumberFold(f, s, n) ==
  f = [S \in SUBSET (1 .. n) |->
         IF S = {} THEN 0 ELSE LET x == Max(S) IN f[S \ {x}] * Base + s[x]]

LEMMA NumberFoldExists ==
  ASSUME NEW s, NEW n \in Nat
  PROVE  \E f : NumberFold(f, s, n)
<1>1. PICK f : FoldIs(f, "number", 0, s, n)
  BY FoldExists
<1>2. NumberFold(f, s, n)
  BY <1>1 DEF FoldIs, FoldStep, NumberFold
<1> QED
  BY <1>2

LEMMA NumberFoldStep ==
  ASSUME NEW f, NEW s, NEW n \in Nat, NumberFold(f, s, n)
  PROVE  /\ f[1 .. 0] = 0
         /\ \A m \in 1 .. n : f[1 .. m] = f[1 .. m - 1] * Base + s[m]
<1>1. FoldIs(f, "number", 0, s, n)
  BY DEF FoldIs, FoldStep, NumberFold
<1>2. /\ f[1 .. 0] = 0
      /\ \A m \in 1 .. n : f[1 .. m] = FoldStep("number", f[1 .. m - 1], s[m])
  BY <1>1, FoldOfFirst
<1> QED
  BY <1>2 DEF FoldStep

LEMMA NumberFoldType ==
  ASSUME NEW f, NEW n \in Nat, NEW s \in [1 .. n -> Nat], NumberFold(f, s, n)
  PROVE  f[1 .. n] \in Nat
<1> DEFINE bad == {k \in Nat : k <= n /\ ~ f[1 .. k] \in Nat}
<1>1. SUFFICES ASSUME bad # {} PROVE FALSE
  <2> HIDE DEF bad
  <2>1. n \notin bad
    OBVIOUS
  <2> QED
    BY <2>1 DEF bad
<1>2. PICK m \in bad : \A k \in bad : m <= k
  BY <1>1, LeastNumber
<1>3. m \in Nat /\ m <= n /\ ~ f[1 .. m] \in Nat
  BY <1>2
<1>4. m # 0
  BY <1>3, NumberFoldStep
<1>5. PICK k \in Nat : m - 1 = k /\ ~ (m <= k) /\ k <= n
  <2>1. m - 1 \in Nat
    BY <1>3, <1>4
  <2> QED
    BY <1>3, <2>1
<1>6. f[1 .. k] \in Nat
  BY <1>2, <1>5
<1>7. m \in 1 .. n /\ s[m] \in Nat
  BY <1>3, <1>4
<1>8. f[1 .. m] = f[1 .. k] * Base + s[m]
  BY <1>5, <1>7, NumberFoldStep
<1>9. \A x, y, z \in Nat : x * y + z \in Nat
  OBVIOUS
<1> QED
  BY <1>3, <1>6, <1>7, <1>8, <1>9, ByteType

LEMMA NtohlType ==
  ASSUME NEW s \in Seq(Byte)
  PROVE  Ntohl(s) \in Nat
<1> DEFINE n == Len(s)
           h == CHOOSE f : NumberFold(f, s, n)
<1>1. n \in Nat /\ DOMAIN s = 1 .. n /\ s \in [1 .. n -> Nat]
  BY ByteType
<1>2. NumberFold(h, s, n)
  BY NumberFoldExists, <1>1
<1>3. Ntohl(s) = h[1 .. n]
  BY <1>1 DEF Ntohl, FoldLeft, MapThenFoldSet, NumberFold
<1> QED
  <2> HIDE DEF h, n
  <2> QED
    BY <1>1, <1>2, <1>3, NumberFoldType
-----------------------------------------------------------------------------
(* The methods of StaticBuffer. *)

Buffer == [buf : Seq(Byte), writePos : Nat, readPos : Nat]

\* A buffer of bytes whose positions are ordered.
Proper(b) == b \in Buffer /\ Sound(b)

\* A buffer of which nothing was read.
Unread(b) == Proper(b) /\ b.readPos = 0

\* What a method leaves of a buffer of the same size.
SameSize(b, c) == Proper(c) /\ Len(c.buf) = Len(b.buf)

LEMMA ModulusType ==
  ASSUME NEW m \in Nat
  PROVE  /\ m % SizeT \in Nat /\ m % SizeT <= m
         /\ m < SizeT => m % SizeT = m
BY BytesAssumption

LEMMA MinusType ==
  ASSUME NEW m \in Nat, NEW n \in Nat, n <= m
  PROVE  /\ Minus(m, n) \in Nat /\ Minus(m, n) <= m - n
         /\ m < SizeT => Minus(m, n) = m - n
<1>1. PICK d \in Nat : d = m - n
  OBVIOUS
<1>2. Minus(m, n) = d % SizeT /\ (m < SizeT => d < SizeT)
  BY <1>1, BytesAssumption DEF Minus
<1> QED
  BY <1>1, <1>2, ModulusType

LEMMA NewIsUnread ==
  ASSUME NEW n \in Nat
  PROVE  Unread(New(n)) /\ Len(New(n).buf) = n /\ New(n).writePos = 0
<1> DEFINE s == [i \in 1 .. n |-> 0]
<1>1. s \in Seq(Byte) /\ Len(s) = n
  <2>1. 0 \in Byte
    BY ByteType
  <2> QED
    BY <2>1
<1> HIDE DEF s
<1>2. New(n) = [buf |-> s, writePos |-> 0, readPos |-> 0]
  BY DEF New, s
<1> QED
  BY <1>1, <1>2 DEF Unread, Proper, Buffer, Sound

LEMMA ProperFacts ==
  ASSUME NEW b, Proper(b)
  PROVE  /\ b.buf \in Seq(Byte) /\ Len(b.buf) \in Nat
         /\ b.writePos \in Nat /\ b.readPos \in Nat
         /\ b.readPos <= b.writePos /\ b.writePos <= Len(b.buf)
         /\ b = [buf |-> b.buf, writePos |-> b.writePos, readPos |-> b.readPos]
BY DEF Proper, Buffer, Sound

LEMMA AvailableType ==
  ASSUME NEW b, Proper(b)
  PROVE  /\ GetAvailableSize(b) \in Nat
         /\ GetAvailableSize(b) <= Len(b.buf) - b.writePos
         /\ Len(b.buf) < SizeT => GetAvailableSize(b) = Len(b.buf) - b.writePos
BY ProperFacts, MinusType DEF GetAvailableSize

LEMMA ClearIsUnread ==
  ASSUME NEW b, Proper(b)
  PROVE  Unread(Clear(b)) /\ Len(Clear(b).buf) = Len(b.buf)
<1>1. b \in Buffer
  BY DEF Proper
<1>2. Clear(b) \in Buffer /\ Clear(b).buf = b.buf /\ Clear(b).writePos = 0 /\ Clear(b).readPos = 0
  BY <1>1 DEF Clear, Buffer
<1> QED
  BY <1>2, ProperFacts DEF Unread, Proper, Sound

LEMMA ReadSeekFront ==
  ASSUME NEW b, Proper(b)
  PROVE  Proper(ReadSeek(b, 0).b)
BY DEF ReadSeek, Proper, Buffer, Sound

LEMMA WriteSeekUnread ==
  ASSUME NEW b, Unread(b), NEW n \in Nat
  PROVE  /\ Unread(WriteSeek(b, n).b) /\ Len(WriteSeek(b, n).b.buf) = Len(b.buf)
         /\ n <= Len(b.buf) => WriteSeek(b, n).b.writePos = n
<1>1. CASE n > Len(b.buf)
  BY <1>1, ProperFacts DEF WriteSeek, Unread
<1>2. CASE ~ (n > Len(b.buf))
  <2>1. WriteSeek(b, n).b = [b EXCEPT !.writePos = n]
    BY <1>2 DEF WriteSeek
  <2>2. n <= Len(b.buf)
    BY <1>2, ProperFacts DEF Unread
  <2> QED
    BY <2>1, <2>2 DEF Unread, Proper, Buffer, Sound
<1> QED
  BY <1>1, <1>2

LEMMA StoreIsProper ==
  ASSUME NEW b, Proper(b), NEW s \in Seq(Byte), Len(s) <= Len(b.buf) - b.writePos
  PROVE  /\ SameSize(b, Store(b, s)) /\ Store(b, s).readPos = b.readPos
         /\ Store(b, s).writePos = b.writePos + Len(s)
<1> DEFINE n == Len(b.buf)
           t == [i \in 1 .. n |-> IF i \in b.writePos + 1 .. b.writePos + Len(s)
                                  THEN s[i - b.writePos] ELSE b.buf[i]]
<1>1. /\ n \in Nat /\ b.buf \in Seq(Byte) /\ b.writePos \in Nat /\ b.readPos \in Nat
      /\ b.readPos <= b.writePos /\ Len(s) \in Nat
  BY ProperFacts
<1>2. ASSUME NEW i \in 1 .. n
      PROVE  (IF i \in b.writePos + 1 .. b.writePos + Len(s)
              THEN s[i - b.writePos] ELSE b.buf[i]) \in Byte
  <2>1. CASE i \in b.writePos + 1 .. b.writePos + Len(s)
    <3>1. i - b.writePos \in 1 .. Len(s)
      BY <1>1, <2>1
    <3> QED
      BY <2>1, <3>1
  <2>2. CASE ~ (i \in b.writePos + 1 .. b.writePos + Len(s))
    BY <1>1, <2>2
  <2> QED
    BY <2>1, <2>2
<1>3. t \in Seq(Byte) /\ Len(t) = n
  <2> HIDE DEF n
  <2> QED
    BY <1>1, <1>2
<1>4. /\ Store(b, s).buf = t /\ Store(b, s).writePos = b.writePos + Len(s)
      /\ Store(b, s).readPos = b.readPos
      /\ Store(b, s) = [buf |-> t, writePos |-> b.writePos + Len(s), readPos |-> b.readPos]
  <2>1. b = [buf |-> b.buf, writePos |-> b.writePos, readPos |-> b.readPos]
    BY ProperFacts
  <2>2. Store(b, s) = [b EXCEPT !.buf = t, !.writePos = b.writePos + Len(s)]
    BY <2>1 DEF Store
  <2> HIDE DEF t
  <2> QED
    BY <2>1, <2>2
<1> HIDE DEF t
<1>5. b.writePos + Len(s) \in Nat /\ b.writePos + Len(s) <= Len(t) /\ b.readPos <= b.writePos + Len(s)
  BY <1>1, <1>3
<1> QED
  BY <1>1, <1>3, <1>4, <1>5 DEF SameSize, Proper, Buffer, Sound

LEMMA WriteIsProper ==
  ASSUME NEW b, Proper(b), NEW s \in Seq(Byte)
  PROVE  SameSize(b, Write(b, s).b) /\ Write(b, s).b.readPos = b.readPos
<1>1. CASE Len(s) > GetAvailableSize(b)
  BY <1>1 DEF Write, SameSize
<1>2. CASE ~ (Len(s) > GetAvailableSize(b))
  <2>1. Len(s) <= Len(b.buf) - b.writePos /\ Write(b, s).b = Store(b, s)
    <3>1. Len(s) \in Nat
      OBVIOUS
    <3> QED
      BY <1>2, <3>1, AvailableType, ProperFacts DEF Write
  <2> QED
    BY <2>1, StoreIsProper
<1> QED
  BY <1>1, <1>2

LEMMA PutNumberUnread ==
  ASSUME NEW b, Unread(b), NEW n \in Int, NEW w \in Nat
  PROVE  Unread(PutNumber(b, n, w).b) /\ Len(PutNumber(b, n, w).b.buf) = Len(b.buf)
BY HtonlType, WriteIsProper DEF PutNumber, Unread, SameSize

LEMMA ReadIsProper ==
  ASSUME NEW b, Proper(b), NEW n \in Nat
  PROVE  Proper(Read(b, n).b) /\ Read(b, n).data \in Seq(Byte) /\ Read(b, n).ret \in Nat
<1> DEFINE m == Minus(b.writePos, b.readPos)
<1>1. m \in Nat /\ m <= b.writePos - b.readPos
  BY ProperFacts, MinusType
<1>2. CASE m < n
  BY <1>2 DEF Read
<1>3. CASE ~ (m < n)
  <2>1. b.readPos + n \in Nat /\ b.readPos + n <= b.writePos
    BY <1>1, <1>3, ProperFacts
  <2>2. Read(b, n) = [ret |-> n, data |-> SubSeq(b.buf, b.readPos + 1, b.readPos + n),
                      b |-> [b EXCEPT !.readPos = @ + n]]
    BY <1>3 DEF Read
  <2>3. SubSeq(b.buf, b.readPos + 1, b.readPos + n) \in Seq(Byte)
    <3>1. \A i \in b.readPos + 1 .. b.readPos + n : i \in 1 .. Len(b.buf)
      BY <2>1, ProperFacts
    <3> QED
      BY <2>1, <3>1, ProperFacts, SubSeqProperties
  <2>4. Proper([b EXCEPT !.readPos = @ + n])
    BY <2>1 DEF Proper, Buffer, Sound
  <2> QED
    BY <2>2, <2>3, <2>4
<1> QED
  BY <1>2, <1>3

LEMMA GetNumberType ==
  ASSUME NEW b, Proper(b), NEW w \in Nat
  PROVE  Proper(GetNumber(b, w).b) /\ GetNumber(b, w).ret \in Nat
BY ReadIsProper, NtohlType DEF GetNumber

\* What a socket brings fits into the buffer it was asked for.
LEMMA ReadFromSocketType ==
  ASSUME NEW b, Proper(b), NEW readSize \in Nat, NEW s \in Seq(Byte),
         Len(s) <= Asked(b, readSize)
  PROVE  LET r == ReadFromSocket(b, readSize, s)
         IN  Proper(r.b) /\ r.readSize \in Nat
<1>1. CASE b.writePos >= Len(b.buf)
  BY <1>1 DEF ReadFromSocket
<1>2. CASE ~ (b.writePos >= Len(b.buf))
  <2>1. Asked(b, readSize) \in Nat /\ Asked(b, readSize) <= GetAvailableSize(b) /\ Len(s) \in Nat
    BY AvailableType DEF Asked, Smaller
  <2>2. Len(s) <= Len(b.buf) - b.writePos
    BY <2>1, AvailableType, ProperFacts
  <2>3. Proper(Store(b, s))
    BY <2>2, StoreIsProper DEF SameSize
  <2>4. Asked(b, readSize) - Len(s) \in Nat
    BY <2>1
  <2> QED
    BY <1>2, <2>3, <2>4 DEF ReadFromSocket
<1> QED
  BY <1>1, <1>2

LEMMA WriteToSocketType ==
  ASSUME NEW b, Proper(b), NEW n \in 1 .. Len(Unsent(b))
  PROVE  Proper(WriteToSocket(b, n).b) /\ Unsent(b) \in Seq(Byte)
<1>1. Unsent(b) \in Seq(Byte) /\ Len(Unsent(b)) = b.writePos - b.readPos
  <2>1. \A i \in b.readPos + 1 .. b.writePos : i \in 1 .. Len(b.buf)
    BY ProperFacts
  <2> QED
    BY <2>1, ProperFacts, SubSeqProperties DEF Unsent
<1>2. b.readPos + n \in Nat /\ b.readPos + n <= b.writePos
  BY <1>1, ProperFacts
<1>3. Proper([b EXCEPT !.readPos = @ + n])
  BY <1>2 DEF Proper, Buffer, Sound
<1> QED
  BY <1>1, <1>3 DEF WriteToSocket

-----------------------------------------------------------------------------
(* The buffers of ChunkWire. *)

ProperBuffer == {b \in Buffer : Sound(b)}

ProperEvent ==
  [type : {"EVENT_NOTHING", "EVENT_RECIVE_BLOCK", "EVENT_RECIVE_STREAM"},
   channel : Nat, b : ProperBuffer]

\* The inductive invariant: whatever the peer's bytes are, they are bytes, so that
\* the numbers of a header are natural numbers and the buffer made for them has a size.
WireInv ==
  /\ Unread(note) /\ Proper(readHeaderBuffer)
  /\ streamEvent \in ProperEvent /\ blockEvent \in ProperEvent
  /\ writeBufferList \in Seq(ProperBuffer) /\ eventPool \in Seq(ProperEvent)
  /\ wire \in Seq(Byte) /\ blockChunkLength \in Nat

LEMMA ProperSet == \A b : Proper(b) <=> b \in ProperBuffer
BY DEF Proper, ProperBuffer

LEMMA EventType ==
  ASSUME NEW b, Proper(b), NEW channel \in Nat,
         NEW type \in {"EVENT_NOTHING", "EVENT_RECIVE_BLOCK", "EVENT_RECIVE_STREAM"}
  PROVE  Event(type, channel, b) \in ProperEvent
BY ProperSet DEF Event, ProperEvent

LEMMA NoEventType == NoEvent \in ProperEvent
BY NewIsUnread, EventType DEF NoEvent, Unread

LEMMA WireInitInv == WireInit => WireInv
<1> SUFFICES ASSUME WireInit PROVE WireInv
  OBVIOUS
<1>1. Unread(note) /\ Proper(readHeaderBuffer)
  BY WireAssumption, NewIsUnread DEF WireInit, Unread
<1>2. streamEvent \in ProperEvent /\ blockEvent \in ProperEvent
  BY NoEventType DEF WireInit
<1> QED
  BY <1>1, <1>2 DEF WireInit, WireInv

\* Whatever the field, the note stays unread.
LEMMA PutUnread ==
  ASSUME NEW b, Unread(b), NEW f \in Fields
  PROVE  Unread(Put(b, f).b)
<1>1. CASE f.type \in {"uint8", "uint16", "uint32", "int8", "int16", "int32"} /\ f.value \in Int
  <2>1. \A w \in {1, 2, 4} : Unread(PutNumber(b, f.value, w).b)
    BY <1>1, PutNumberUnread
  <2> QED
    BY <1>1, <2>1
    DEF Put, WriteUint8, WriteUint16, WriteUint32, WriteInt8, WriteInt16, WriteInt32
<1>2. CASE f.type = "data" /\ f.value \in Seq(Byte)
  <2>1. Put(b, f) = Write(b, f.value)
    BY <1>2 DEF Put
  <2> QED
    BY <1>2, <2>1, WriteIsProper DEF Unread, SameSize
<1> QED
  BY <1>1, <1>2, WireAssumption

LEMMA WriteFieldInv ==
  ASSUME WireInv, NEW f \in Fields, WriteField(f)
  PROVE  WireInv'
<1>1. Unread(note')
  BY PutUnread DEF WriteField, WireInv
<1> QED
  BY <1>1 DEF WriteField, WireInv, rcvVars, Unread, Proper, Sound

LEMMA WriteHeaderUnread ==
  ASSUME NEW b, Unread(b), NEW num \in Int, NEW channel \in Int, NEW length \in Int
  PROVE  /\ Unread(WriteHeader(b, num, channel, length))
         /\ Len(WriteHeader(b, num, channel, length).buf) = Len(b.buf)
         /\ b.writePos <= HEADERLENGTH /\ HEADERLENGTH <= Len(b.buf) =>
              WriteHeader(b, num, channel, length).writePos = HEADERLENGTH
<1> DEFINE b0 == WriteSeek(b, 0).b
           b1 == PutNumber(b0, num, 1).b
           b2 == PutNumber(b1, channel, 1).b
           b3 == PutNumber(b2, length, 2).b
           at == IF b.writePos < HEADERLENGTH THEN HEADERLENGTH ELSE b.writePos
<1>1. Unread(b0) /\ Len(b0.buf) = Len(b.buf)
  BY WriteSeekUnread
<1>2. Unread(b1) /\ Len(b1.buf) = Len(b.buf)
  <2> HIDE DEF b0
  <2> QED
    BY <1>1, PutNumberUnread
<1>3. Unread(b2) /\ Len(b2.buf) = Len(b.buf)
  <2> HIDE DEF b1
  <2> QED
    BY <1>2, PutNumberUnread
<1>4. Unread(b3) /\ Len(b3.buf) = Len(b.buf)
  <2> HIDE DEF b2
  <2> QED
    BY <1>3, PutNumberUnread
<1>5. at \in Nat /\ (b.writePos <= HEADERLENGTH => at = HEADERLENGTH)
  BY WireAssumption, ProperFacts DEF Unread
<1>6. WriteHeader(b, num, channel, length) = WriteSeek(b3, at).b
  BY DEF WriteHeader, GetDataLength, WriteUint8, WriteUint16
<1> HIDE DEF b3, at
<1> QED
  BY <1>4, <1>5, <1>6, WriteSeekUnread

\* A new buffer for a chunk has room behind its header.
LEMMA NewBufferHasRoom ==
  /\ Unread(CreateNewBuffer)
  /\ GetAvailableSize(CreateNewBuffer) \in Nat \ {0}
<1>1. Unread(New(ChunkSize)) /\ Len(New(ChunkSize).buf) = ChunkSize /\ New(ChunkSize).writePos = 0
  BY WireAssumption, NewIsUnread
<1>2. /\ Unread(CreateNewBuffer) /\ Len(CreateNewBuffer.buf) = ChunkSize
      /\ CreateNewBuffer.writePos = HEADERLENGTH
  BY <1>1, WireAssumption, WriteHeaderUnread DEF CreateNewBuffer
<1> QED
  BY <1>2, WireAssumption, BytesAssumption, AvailableType DEF Unread

\* The pieces of a block are rows of bytes.
LEMMA PiecesType ==
  ASSUME NEW data \in Seq(Byte)
  PROVE  Pieces(data) \in Seq(Seq(Byte))
<1> DEFINE room == GetAvailableSize(CreateNewBuffer)
           num  == Smaller(Len(data), (Len(data) + room - 1) \div room)
           piece(i) == SubSeq(data, room * (i - 1) + 1, Smaller(room * i, Len(data)))
<1>1. room \in Nat \ {0}
  BY NewBufferHasRoom
<1>2. num \in Nat
  <2> HIDE DEF room
  <2>1. PICK n \in Nat : n = Len(data) + room - 1
    BY <1>1
  <2>2. n \div room \in Nat
    BY <1>1, <2>1
  <2> QED
    BY <2>1, <2>2 DEF Smaller
<1>3. ASSUME NEW i \in 1 .. num
      PROVE  piece(i) \in Seq(Byte)
  <2> HIDE DEF room
  <2> DEFINE from == room * (i - 1)
             to == room * i
             end == Smaller(to, Len(data))
  <2>1. from \in Nat /\ to \in Nat
    <3>1. i \in Nat /\ i - 1 \in Nat
      BY <1>2
    <3>2. \A x, y \in Nat : x * y \in Nat
      OBVIOUS
    <3> QED
      BY <1>1, <3>1, <3>2
  <2> HIDE DEF from, to, num
  <2>2. end \in Nat /\ end <= Len(data)
    BY <2>1 DEF Smaller
  <2> HIDE DEF end
  <2>3. from + 1 \in 1 .. Len(data) + 1 \/ from + 1 > end
    BY <2>1, <2>2
  <2>4. \A k \in from + 1 .. end : k \in 1 .. Len(data)
    BY <2>1, <2>2
  <2>5. SubSeq(data, from + 1, end) \in Seq(Byte)
    BY <2>1, <2>2, <2>4, SubSeqProperties
  <2> QED
    BY <2>5 DEF from, to, end
<1>4. Pieces(data) = [i \in 1 .. num |-> piece(i)]
  BY DEF Pieces
<1> HIDE DEF num, piece
<1> QED
  BY <1>2, <1>3, <1>4

LEMMA BlockBuffersType ==
  ASSUME NEW data \in Seq(Byte), NEW channel \in Nat
  PROVE  BlockBuffers(data, channel) \in Seq(ProperBuffer)
<1> DEFINE pieces == Pieces(data)
           num == Len(pieces)
           b(i) == Write(CreateNewBuffer, pieces[i]).b
           row(i) == WriteHeader(b(i), num - i + 1, channel, GetDataLength(b(i)) - HEADERLENGTH)
<1>1. pieces \in Seq(Seq(Byte)) /\ num \in Nat
  BY PiecesType
<1> HIDE DEF pieces
<1>2. ASSUME NEW i \in 1 .. num
      PROVE  row(i) \in ProperBuffer
  <2>1. pieces[i] \in Seq(Byte)
    BY <1>1
  <2>2. Unread(b(i))
    BY <2>1, NewBufferHasRoom, WriteIsProper DEF Unread, SameSize
  <2>3. num - i + 1 \in Int /\ GetDataLength(b(i)) - HEADERLENGTH \in Int
    <3> HIDE DEF b
    <3>1. b(i).writePos \in Nat
      BY <2>2, ProperFacts DEF Unread
    <3>2. num - i + 1 \in Int
      BY <1>1
    <3>3. HEADERLENGTH \in Nat
      BY WireAssumption
    <3> QED
      BY <3>1, <3>2, <3>3 DEF GetDataLength
  <2> HIDE DEF b, num
  <2>4. Unread(row(i))
    BY <2>2, <2>3, WriteHeaderUnread
  <2> QED
    BY <2>4, ProperSet DEF Unread
<1>3. BlockBuffers(data, channel) = [i \in 1 .. num |-> row(i)]
  BY DEF BlockBuffers, pieces
<1> HIDE DEF num, row
<1> QED
  BY <1>1, <1>2, <1>3 DEF num

LEMMA StreamBufferType ==
  ASSUME NEW data \in Seq(Byte), NEW channel \in Nat
  PROVE  <<StreamBuffer(data, channel)>> \in Seq(ProperBuffer)
<1> DEFINE b == WriteHeader(New(Len(data) + HEADERLENGTH), 0, channel, Len(data))
<1>1. Len(data) \in Nat /\ Len(data) + HEADERLENGTH \in Nat
  BY WireAssumption
<1>2. Unread(b)
  BY <1>1, NewIsUnread, WriteHeaderUnread
<1>3. Proper(Write(b, data).b)
  <2> HIDE DEF b
  <2> QED
    BY <1>2, WriteIsProper DEF Unread, SameSize
<1> QED
  BY <1>3, ProperSet DEF StreamBuffer

LEMMA ContentsType ==
  ASSUME Unread(note)
  PROVE  Contents \in Seq(Byte)
<1>1. /\ note.buf \in Seq(Byte) /\ note.writePos \in Nat /\ note.readPos = 0
      /\ note.writePos <= Len(note.buf)
  BY ProperFacts DEF Unread
<1>2. GetBuffer(note) = SubSeq(note.buf, 1, Len(note.buf))
  BY <1>1 DEF GetBuffer
<1>3. GetBuffer(note) \in Seq(Byte) /\ Len(GetBuffer(note)) = Len(note.buf)
  BY <1>1, <1>2, SubSeqProperties
<1> QED
  BY <1>1, <1>3, SubSeqProperties DEF Contents, GetDataLength

LEMMA SendInv ==
  ASSUME WireInv, NEW type, NEW channel, NEW buffers \in Seq(ProperBuffer),
         Send(type, channel, buffers)
  PROVE  WireInv'
<1>1. Unread(note')
  BY ClearIsUnread DEF Send, WireInv, Unread
<1>2. writeBufferList' \in Seq(ProperBuffer)
  BY ConcatProperties DEF Send, WireInv
<1> QED
  BY <1>1, <1>2 DEF Send, WireInv, rcvVars, Unread, Proper, Sound

LEMMA RunWriteInv ==
  ASSUME WireInv, writeBufferList # <<>>, NEW n \in 1 .. Len(Unsent(Head(writeBufferList))),
         RunWrite(n)
  PROVE  WireInv'
<1> DEFINE b == Head(writeBufferList)
           r == WriteToSocket(b, n)
<1>1. writeBufferList \in Seq(ProperBuffer)
  BY DEF WireInv
<1>2. Proper(b) /\ Tail(writeBufferList) \in Seq(ProperBuffer)
  BY <1>1, HeadTailProperties, ProperSet
<1>3. Proper(r.b) /\ Unsent(b) \in Seq(Byte)
  <2> HIDE DEF b
  <2> QED
    BY <1>2, WriteToSocketType DEF b
<1>4. wire' \in Seq(Byte)
  <2>1. wire' = wire \o SubSeq(Unsent(b), 1, n)
    BY DEF RunWrite
  <2> HIDE DEF b
  <2>2. n \in 1 .. Len(Unsent(b))
    BY DEF b
  <2>3. SubSeq(Unsent(b), 1, n) \in Seq(Byte)
    BY <1>3, <2>2, SubSeqProperties
  <2> QED
    BY <2>1, <2>3, ConcatProperties DEF WireInv
<1>5. writeBufferList' \in Seq(ProperBuffer)
  <2>1. writeBufferList' = IF r.ret = 0 THEN Tail(writeBufferList)
                           ELSE <<r.b>> \o Tail(writeBufferList)
    BY DEF RunWrite
  <2> HIDE DEF r
  <2>2. <<r.b>> \in Seq(ProperBuffer)
    BY <1>3, ProperSet
  <2> QED
    BY <1>2, <2>1, <2>2, ConcatProperties
<1>6. UNCHANGED <<note, readHeaderBuffer, streamEvent, blockEvent, blockChunkLength, eventPool>>
  BY DEF RunWrite, appVars, rcvVars
<1> QED
  BY <1>4, <1>5, <1>6 DEF WireInv, Unread, Proper, Sound

\* What a call of recv() brings.
LEMMA RecvType ==
  ASSUME wire \in Seq(Byte), NEW k \in 1 .. Len(wire)
  PROVE  /\ Recv(k) \in Seq(Byte) /\ Len(Recv(k)) = k
         /\ SubSeq(wire, k + 1, Len(wire)) \in Seq(Byte)
BY SubSeqProperties DEF Recv

LEMMA DeliverInv ==
  ASSUME eventPool \in Seq(ProperEvent), NEW event \in ProperEvent, NEW b, Proper(b),
         Deliver(event, b)
  PROVE  eventPool' \in Seq(ProperEvent)
<1>1. Proper(ReadSeek(b, 0).b)
  BY ReadSeekFront
<1>2. [event EXCEPT !.b = ReadSeek(b, 0).b] \in ProperEvent
  BY <1>1, ProperSet DEF ProperEvent
<1> QED
  BY <1>2, AppendProperties DEF Deliver

LEMMA StreamReadPartInv ==
  ASSUME WireInv, NEW k \in 1 .. Len(wire), StreamReadPart(k)
  PROVE  WireInv'
<1> DEFINE b == streamEvent.b
           r == ReadFromSocket(b, GetAvailableSize(b), Recv(k))
<1>1. Proper(b) /\ GetAvailableSize(b) \in Nat
  BY ProperSet, AvailableType DEF WireInv, ProperEvent
<1>2. Recv(k) \in Seq(Byte) /\ Len(Recv(k)) = k /\ wire' \in Seq(Byte)
  BY RecvType DEF WireInv, StreamReadPart, Received
<1>3. k <= Asked(b, GetAvailableSize(b))
  BY <1>1 DEF StreamReadPart, Asked, Smaller
<1>4. Proper(r.b)
  <2> HIDE DEF b
  <2> QED
    BY <1>1, <1>2, <1>3, ReadFromSocketType
<1>5. \/ Deliver(streamEvent, r.b) /\ streamEvent' = NoEvent
      \/ streamEvent' = [streamEvent EXCEPT !.b = r.b] /\ eventPool' = eventPool
  BY DEF StreamReadPart
<1>6. UNCHANGED <<note, writeBufferList, readHeaderBuffer, blockEvent, blockChunkLength>>
  BY DEF StreamReadPart, Received, appVars
<1> HIDE DEF r
<1>7. streamEvent' \in ProperEvent /\ eventPool' \in Seq(ProperEvent)
  <2>1. CASE Deliver(streamEvent, r.b) /\ streamEvent' = NoEvent
    BY <1>4, <2>1, DeliverInv, NoEventType DEF WireInv
  <2>2. CASE streamEvent' = [streamEvent EXCEPT !.b = r.b] /\ eventPool' = eventPool
    BY <1>4, <2>2, ProperSet DEF WireInv, ProperEvent
  <2> QED
    BY <1>5, <2>1, <2>2
<1> QED
  BY <1>2, <1>6, <1>7 DEF WireInv, Unread, Proper, Sound

LEMMA BlockReadPartInv ==
  ASSUME WireInv, NEW k \in 1 .. Len(wire), BlockReadPart(k)
  PROVE  WireInv'
<1> DEFINE b == blockEvent.b
           r == ReadFromSocket(b, blockChunkLength, Recv(k))
           last == r.ret = 0 /\ nowChunkNum <= 1
<1>1. Proper(b) /\ blockChunkLength \in Nat
  BY ProperSet DEF WireInv, ProperEvent
<1>2. Recv(k) \in Seq(Byte) /\ Len(Recv(k)) = k /\ wire' \in Seq(Byte)
  BY RecvType DEF WireInv, BlockReadPart, Received
<1>3. k <= Asked(b, blockChunkLength)
  BY DEF BlockReadPart
<1>4. Proper(r.b) /\ r.readSize \in Nat
  <2> HIDE DEF b
  <2> QED
    BY <1>1, <1>2, <1>3, ReadFromSocketType
<1>5. /\ blockChunkLength' = IF r.ret = 0 THEN 0 ELSE r.readSize
      /\ blockEvent' = IF last THEN NoEvent ELSE [blockEvent EXCEPT !.b = r.b]
      /\ IF last THEN Deliver(blockEvent, r.b) ELSE eventPool' = eventPool
  BY DEF BlockReadPart
<1>6. UNCHANGED <<note, writeBufferList, readHeaderBuffer, streamEvent>>
  BY DEF BlockReadPart, Received, appVars
<1> HIDE DEF r, last
<1>7. blockEvent' \in ProperEvent /\ eventPool' \in Seq(ProperEvent)
  <2>1. CASE last
    BY <1>4, <1>5, <2>1, DeliverInv, NoEventType DEF WireInv
  <2>2. CASE ~ last
    BY <1>4, <1>5, <2>2, ProperSet DEF WireInv, ProperEvent
  <2> QED
    BY <2>1, <2>2
<1>8. blockChunkLength' \in Nat
  BY <1>4, <1>5
<1> QED
  BY <1>2, <1>6, <1>7, <1>8 DEF WireInv, Unread, Proper, Sound

LEMMA StartChunkInv ==
  ASSUME WireInv, NEW num \in Nat, NEW channel \in Nat, NEW length \in Nat,
         StartChunk(num, channel, length)
  PROVE  /\ streamEvent' \in ProperEvent /\ blockEvent' \in ProperEvent
         /\ blockChunkLength' \in Nat
<1>1. length * num \in Nat
  <2>1. \A x, y \in Nat : x * y \in Nat
    OBVIOUS
  <2> QED
    BY <2>1
<1>2. /\ Event("EVENT_RECIVE_STREAM", channel, New(length)) \in ProperEvent
      /\ Event("EVENT_RECIVE_BLOCK", channel, New(length * num)) \in ProperEvent
  <2>1. \A n \in Nat : Proper(New(n))
    BY NewIsUnread DEF Unread
  <2> QED
    BY <1>1, <2>1, EventType
<1> QED
  BY <1>2 DEF StartChunk, WireInv

LEMMA ChunkHeaderReadPartInv ==
  ASSUME WireInv, NEW k \in 1 .. Len(wire), ChunkHeaderReadPart(k)
  PROVE  WireInv'
<1> DEFINE b == readHeaderBuffer
           r == ReadFromSocket(b, GetAvailableSize(b), Recv(k))
           nextChunkNum == ReadUint8(ReadSeek(r.b, 0).b)
           channel      == ReadUint8(nextChunkNum.b)
           length       == ReadUint16(channel.b)
<1>1. Proper(b) /\ GetAvailableSize(b) \in Nat
  BY AvailableType DEF WireInv
<1>2. Recv(k) \in Seq(Byte) /\ Len(Recv(k)) = k /\ wire' \in Seq(Byte)
  BY RecvType DEF WireInv, ChunkHeaderReadPart, Received
<1>3. k <= Asked(b, GetAvailableSize(b))
  BY <1>1 DEF ChunkHeaderReadPart, Asked, Smaller
<1>4. Proper(r.b)
  <2> HIDE DEF b
  <2> QED
    BY <1>1, <1>2, <1>3, ReadFromSocketType
<1>5. /\ \/ /\ StartChunk(nextChunkNum.ret, channel.ret, length.ret)
            /\ readHeaderBuffer' = Clear(length.b)
         \/ /\ readHeaderBuffer' = r.b
            /\ UNCHANGED <<streamEvent, blockEvent, blockChunkLength>>
      /\ UNCHANGED eventPool
  BY DEF ChunkHeaderReadPart
<1>6. UNCHANGED <<note, writeBufferList>>
  BY DEF ChunkHeaderReadPart, Received, appVars
<1>7. Proper(nextChunkNum.b) /\ nextChunkNum.ret \in Nat
  <2> HIDE DEF r
  <2> QED
    BY <1>4, ReadSeekFront, GetNumberType DEF ReadUint8
<1>8. Proper(channel.b) /\ channel.ret \in Nat
  <2> HIDE DEF nextChunkNum
  <2> QED
    BY <1>7, GetNumberType DEF ReadUint8
<1>9. Proper(length.b) /\ length.ret \in Nat
  <2> HIDE DEF channel
  <2> QED
    BY <1>8, GetNumberType DEF ReadUint16
<1> HIDE DEF r, nextChunkNum, channel, length
<1>10. /\ Proper(readHeaderBuffer') /\ streamEvent' \in ProperEvent /\ blockEvent' \in ProperEvent
       /\ blockChunkLength' \in Nat
  <2>1. CASE /\ StartChunk(nextChunkNum.ret, channel.ret, length.ret)
             /\ readHeaderBuffer' = Clear(length.b)
    BY <1>7, <1>8, <1>9, <2>1, StartChunkInv, ClearIsUnread DEF Unread
  <2>2. CASE /\ readHeaderBuffer' = r.b
             /\ UNCHANGED <<streamEvent, blockEvent, blockChunkLength>>
    BY <1>4, <2>2 DEF WireInv
  <2> QED
    BY <1>5, <2>1, <2>2
<1> QED
  BY <1>2, <1>5, <1>6, <1>10 DEF WireInv, Unread, Proper, Sound

LEMMA HandleInv ==
  ASSUME WireInv, Handle
  PROVE  WireInv'
<1>1. eventPool' \in Seq(ProperEvent)
  BY HeadTailProperties DEF Handle, WireInv
<1> QED
  BY <1>1 DEF Handle, WireInv, appVars, rcvVars, Unread, Proper, Sound

LEMMA WireInvariance == WireSpec => []WireInv
<1>1. WireInv /\ [WireNext]_wireVars => WireInv'
  <2> SUFFICES ASSUME WireInv, [WireNext]_wireVars PROVE WireInv'
    OBVIOUS
  <2>1. CASE \E f \in Fields : WriteField(f)
    BY <2>1, WriteFieldInv
  <2>2. CASE \E c \in Channels : StreamWrite(c) \/ BlockWriteAndCommit(c)
    <3>1. PICK c \in Channels : StreamWrite(c) \/ BlockWriteAndCommit(c)
      BY <2>2
    <3>2. c \in Nat /\ Contents \in Seq(Byte)
      BY WireAssumption, ContentsType DEF WireInv
    <3> QED
      BY <3>1, <3>2, StreamBufferType, BlockBuffersType, SendInv
      DEF StreamWrite, BlockWriteAndCommit
  <2>3. CASE /\ writeBufferList # <<>>
             /\ \E n \in 1 .. Len(Unsent(Head(writeBufferList))) : RunWrite(n)
    BY <2>3, RunWriteInv
  <2>4. CASE \E k \in 1 .. Len(wire) : \/ StreamReadPart(k)
                                       \/ BlockReadPart(k)
                                       \/ ChunkHeaderReadPart(k)
    BY <2>4, StreamReadPartInv, BlockReadPartInv, ChunkHeaderReadPartInv
  <2>5. CASE Handle
    BY <2>5, HandleInv
  <2>6. CASE UNCHANGED wireVars
    BY <2>6 DEF wireVars, WireInv, appVars, rcvVars, Unread, Proper, Sound
  <2> QED
    BY <2>1, <2>2, <2>3, <2>4, <2>5, <2>6 DEF WireNext
<1> QED
  BY <1>1, WireInitInv, PTL DEF WireSpec

\* For every size of bytes, headers, chunks, buffers and size_t, and however the socket
\* splits the bytes: no StaticBuffer on the way is read beyond what was written or
\* written beyond its size.
THEOREM BuffersAreSound == WireSpec => []PositionsAreOrdered
<1>1. WireInv => PositionsAreOrdered
  <2> SUFFICES ASSUME WireInv PROVE PositionsAreOrdered
    OBVIOUS
  <2>1. \A e \in ProperEvent : Sound(e.b)
    BY DEF ProperEvent, ProperBuffer
  <2>2. \A b \in ProperBuffer : Sound(b)
    BY DEF ProperBuffer
  <2>3. \A i \in DOMAIN writeBufferList : writeBufferList[i] \in ProperBuffer
    BY DEF WireInv
  <2>4. \A i \in DOMAIN eventPool : eventPool[i] \in ProperEvent
    BY DEF WireInv
  <2> QED
    BY <2>1, <2>2, <2>3, <2>4 DEF WireInv, PositionsAreOrdered, Unread, Proper
<1> QED
  BY <1>1, WireInvariance, PTL

LEMMA PowerStep ==
  ASSUME NEW k \in Nat
  PROVE  2 ^ 0 = 1 /\ 2 ^ (k + 1) = 2 * 2 ^ k
<1> DEFINE S == SUBSET (1 .. k)
           T == {A \cup {k + 1} : A \in S}
           f == [A \in S |-> A \cup {k + 1}]
<1>1. \A n \in Nat : /\ IsFiniteSet(1 .. n) /\ Cardinality(1 .. n) = n
                     /\ Cardinality(SUBSET (1 .. n)) = 2 ^ n /\ IsFiniteSet(SUBSET (1 .. n))
  <2>1. \A n \in Nat : IsFiniteSet(1 .. n) /\ Cardinality(1 .. n) = n
    BY FS_Interval
  <2> QED
    BY <2>1, FS_SUBSET
<1>2. 2 ^ 0 = 1
  <2>1. 1 .. 0 = {} /\ SUBSET {} = {{}}
    OBVIOUS
  <2>2. Cardinality(SUBSET (1 .. 0)) = 1
    BY <2>1, FS_Singleton
  <2> QED
    BY <1>1, <2>2
<1>3. \A A \in S : ~ (k + 1 \in A)
  OBVIOUS
<1>4. f \in Bijection(S, T)
  <2>1. f \in [S -> T] /\ \A t \in T : \E A \in S : f[A] = t
    OBVIOUS
  <2>2. ASSUME NEW A \in S, NEW B \in S, f[A] = f[B]
        PROVE  A = B
    <3>1. A \cup {k + 1} = B \cup {k + 1}
      BY <2>2
    <3> HIDE DEF S
    <3> QED
      BY <1>3, <3>1
  <2> HIDE DEF f, S, T
  <2> QED
    BY <2>1, <2>2 DEF Bijection, Injection, Surjection, IsInjective
<1>5. Cardinality(T) = Cardinality(S) /\ IsFiniteSet(T) /\ IsFiniteSet(S)
  <2> HIDE DEF f, T
  <2>1. IsFiniteSet(S)
    BY <1>1
  <2> HIDE DEF S
  <2> QED
    BY <1>4, <2>1, FS_Bijection DEF ExistsBijection
<1>6. SUBSET (1 .. k + 1) = S \cup T /\ S \cap T = {}
  <2>1. 1 .. k + 1 = (1 .. k) \cup {k + 1}
    OBVIOUS
  <2>2. ASSUME NEW B \in SUBSET ((1 .. k) \cup {k + 1})
        PROVE  B \in S \cup T
    <3>1. CASE k + 1 \in B
      <4>1. B \ {k + 1} \in S /\ B = (B \ {k + 1}) \cup {k + 1}
        BY <3>1
      <4> QED
        BY <4>1
    <3>2. CASE k + 1 \notin B
      BY <3>2
    <3> QED
      BY <3>1, <3>2
  <2>3. S \cup T \subseteq SUBSET ((1 .. k) \cup {k + 1})
    OBVIOUS
  <2>4. S \cap T = {}
    BY <1>3
  <2>5. SUBSET ((1 .. k) \cup {k + 1}) = S \cup T
    <3> HIDE DEF S, T
    <3> QED
      BY <2>2, <2>3
  <2> QED
    BY <2>1, <2>4, <2>5
<1>7. Cardinality(S) = 2 ^ k /\ Cardinality(S \cup T) = 2 ^ (k + 1)
  <2>1. k + 1 \in Nat
    OBVIOUS
  <2>2. Cardinality(SUBSET (1 .. k + 1)) = 2 ^ (k + 1)
    BY <1>1, <2>1
  <2> QED
    BY <1>1, <1>6, <2>2
<1> HIDE DEF S, T
<1>8. Cardinality(S \cup T) = Cardinality(S) + Cardinality(T) - 0
  BY <1>5, <1>6, FS_Union, FS_EmptySet
<1> QED
  BY <1>2, <1>5, <1>7, <1>8, PowerOfTwo

LEMMA PowerOfSum ==
  ASSUME NEW a \in Nat, NEW b \in Nat
  PROVE  2 ^ (a + b) = 2 ^ a * 2 ^ b
<1> DEFINE bad == {n \in Nat : ~ (2 ^ (a + n) = 2 ^ a * 2 ^ n)}
<1>1. SUFFICES ASSUME bad # {} PROVE FALSE
  OBVIOUS
<1>2. PICK m \in bad : \A n \in bad : m <= n
  BY <1>1, LeastNumber
<1>3. m # 0
  <2>1. 2 ^ 0 = 1 /\ a + 0 = a /\ 2 ^ a \in Nat
    BY PowerStep, PowerOfTwo
  <2>2. 2 ^ (a + 0) = 2 ^ a * 2 ^ 0
    BY <2>1
  <2> QED
    BY <1>2, <2>2
<1>4. PICK k \in Nat : m = k + 1 /\ ~ (m <= k)
  <2>1. m \in Nat /\ m - 1 \in Nat
    BY <1>2, <1>3
  <2> QED
    BY <2>1
<1>5. 2 ^ (a + k) = 2 ^ a * 2 ^ k
  BY <1>2, <1>4
<1>6. PICK c \in Nat : c = a + k
  OBVIOUS
<1>7. a + m = c + 1
  BY <1>4, <1>6
<1>8. 2 ^ (c + 1) = 2 * 2 ^ c /\ 2 ^ (k + 1) = 2 * 2 ^ k
  BY PowerStep
<1>9. 2 ^ a \in Nat /\ 2 ^ k \in Nat /\ 2 ^ c \in Nat
  BY PowerOfTwo
<1>10. \A x, y, z \in Nat : z = x * y => 2 * z = x * (2 * y)
  OBVIOUS
<1>11. 2 ^ c = 2 ^ a * 2 ^ k
  BY <1>5, <1>6
<1>12. 2 * 2 ^ c = 2 ^ a * (2 * 2 ^ k)
  BY <1>9, <1>10, <1>11
<1>13. 2 ^ (a + m) = 2 ^ (c + 1) /\ 2 ^ m = 2 ^ (k + 1)
  BY <1>4, <1>7
<1> QED
  BY <1>2, <1>8, <1>12, <1>13

LEMMA LimitStep ==
  ASSUME NEW w \in Nat
  PROVE  Limit(w + 1) = Limit(w) * Base
<1>1. ByteBits \in Nat /\ \A x, y \in Nat : x * y \in Nat /\ x * (y + 1) = x * y + x
  BY BytesAssumption
<1>2. PICK a \in Nat : a = ByteBits * w /\ a + ByteBits = ByteBits * (w + 1)
  BY <1>1
<1> QED
  BY <1>1, <1>2, PowerOfSum DEF Limit, Base

LEMMA LimitValues == Limit(0) = 1 /\ Limit(1) = Base /\ Limit(2) = Base * Base
<1>1. ByteBits * 0 = 0
  BY BytesAssumption
<1>2. Limit(0) = 1
  BY <1>1, PowerStep DEF Limit
<1>3. Limit(0 + 1) = Limit(0) * Base /\ Limit(1 + 1) = Limit(1) * Base
  BY LimitStep
<1> QED
  BY <1>2, <1>3, ByteType

\* Division by a positive number.
LEMMA DivisionIs ==
  ASSUME NEW x \in Int, NEW d \in Nat \ {0}
  PROVE  /\ x \div d \in Int /\ x % d \in 0 .. d - 1
         /\ x = d * (x \div d) + (x % d)
OBVIOUS

LEMMA DivisionUnique ==
  ASSUME NEW d \in Nat \ {0}, NEW q \in Int, NEW r \in 0 .. d - 1,
         NEW p \in Int, NEW s \in 0 .. d - 1, d * q + r = d * p + s
  PROVE  q = p /\ r = s
<1>1. \A x, y \in Int : d * x - d * y = d * (x - y)
  OBVIOUS
<1>2. \A z \in Int : z >= 1 => d * z >= d
  OBVIOUS
<1>3. ~ (q - p >= 1)
  BY <1>1, <1>2
<1>4. ~ (p - q >= 1)
  BY <1>1, <1>2
<1>5. q = p
  BY <1>3, <1>4
<1> QED
  BY <1>5

\* The digits of a number to a base.
LEMMA DigitsJoin ==
  ASSUME NEW x \in Int, NEW b \in Nat \ {0}, NEW l \in Nat \ {0}
  PROVE  /\ x \div (l * b) = (x \div b) \div l
         /\ x % (l * b) = ((x \div b) % l) * b + (x % b)
<1>1. PICK y \in Int, r \in 0 .. b - 1 : y = x \div b /\ r = x % b /\ x = b * y + r
  BY DivisionIs
<1>2. PICK z \in Int, s \in 0 .. l - 1 : z = y \div l /\ s = y % l /\ y = l * z + s
  BY DivisionIs
<1>3. PICK d \in Nat \ {0} : d = l * b
  <2>1. \A u, v \in Nat \ {0} : u * v \in Nat \ {0}
    OBVIOUS
  <2> QED
    BY <2>1
<1>4. PICK q \in Int, t \in 0 .. d - 1 : q = x \div d /\ t = x % d /\ x = d * q + t
  BY DivisionIs
<1>5. s * b + r \in 0 .. d - 1
  <2>1. s + 1 <= l /\ \A u, v \in Nat : u <= v => u * b <= v * b
    OBVIOUS
  <2>2. (s + 1) * b <= l * b /\ (s + 1) * b = s * b + b
    BY <2>1
  <2>3. s * b \in Nat
    OBVIOUS
  <2> QED
    BY <1>3, <2>2, <2>3
<1>6. x = d * z + (s * b + r)
  <2>1. \A u, v, w \in Int : b * (u * v + w) = (u * b) * v + w * b
    OBVIOUS
  <2>2. b * (l * z + s) = (l * b) * z + s * b
    BY <2>1
  <2>3. b * y = d * z + s * b
    BY <1>2, <1>3, <2>2
  <2>4. d * z \in Int /\ s * b \in Int /\ b * y \in Int
    OBVIOUS
  <2> QED
    BY <1>1, <2>3, <2>4
<1>7. z = q /\ s * b + r = t
  BY <1>4, <1>5, <1>6, DivisionUnique
<1> QED
  BY <1>1, <1>2, <1>3, <1>4, <1>7
\* The bytes of a number, put together again, are its value modulo the number of
\* values that many bytes have.
LEMMA NtohlOfHtonl ==
  ASSUME NEW n \in Int, NEW w \in Nat
  PROVE  Ntohl(Htonl(n, w)) = n % Limit(w)
<1> DEFINE s == Htonl(n, w)
           h == CHOOSE f : NumberFold(f, s, w)
           q(j) == n \div Limit(w - j)
           bad == {j \in Nat : j <= w /\ ~ (h[1 .. j] = q(j) % Limit(j))}
<1>1. s \in Seq(Byte) /\ Len(s) = w /\ DOMAIN s = 1 .. w
  BY HtonlType
<1>2. NumberFold(h, s, w)
  <2> HIDE DEF s
  <2> QED
    BY NumberFoldExists
<1>3. Ntohl(s) = h[1 .. w]
  <2> HIDE DEF s
  <2> QED
    BY <1>1 DEF Ntohl, FoldLeft, MapThenFoldSet, NumberFold, s
<1> HIDE DEF h
<1>4. ASSUME NEW j \in 1 .. w
      PROVE  s[j] = q(j) % Base
  BY DEF Htonl
<1> HIDE DEF s
<1>5. \A j \in 0 .. w : q(j) \in Int
  <2> TAKE j \in 0 .. w
  <2>1. w - j \in Nat
    OBVIOUS
  <2>2. Limit(w - j) \in Nat \ {0}
    BY <2>1, LimitType
  <2> QED
    BY <2>2
<1>6. bad = {}
  <2>1. SUFFICES ASSUME bad # {} PROVE FALSE
    OBVIOUS
  <2>2. PICK m \in bad : \A j \in bad : m <= j
    BY <2>1, LeastNumber
  <2>3. m \in Nat /\ m <= w /\ ~ (h[1 .. m] = q(m) % Limit(m))
    BY <2>2
  <2>4. m # 0
    <3>1. q(0) % 1 = 0
      <4>1. \A x \in Int : x % 1 = 0
        OBVIOUS
      <4> HIDE DEF q
      <4>2. q(0) \in Int
        BY <1>5
      <4> QED
        BY <4>1, <4>2
    <3>2. h[1 .. 0] = 0
      BY <1>2, NumberFoldStep
    <3> QED
      BY <2>3, <3>1, <3>2, LimitValues
  <2>5. PICK k \in Nat : m = k + 1 /\ ~ (m <= k) /\ k <= w /\ m - 1 = k
    <3>1. m - 1 \in Nat
      BY <2>3, <2>4
    <3> QED
      BY <2>3, <3>1
  <2>6. h[1 .. k] = q(k) % Limit(k)
    BY <2>2, <2>5
  <2>7. h[1 .. m] = h[1 .. k] * Base + s[m] /\ m \in 1 .. w
    <3>1. m \in 1 .. w
      BY <2>3, <2>4
    <3>2. h[1 .. m] = h[1 .. m - 1] * Base + s[m]
      BY <1>2, <3>1, NumberFoldStep
    <3> QED
      BY <2>5, <3>1, <3>2
  <2>8. PICK v \in Nat : v = w - m /\ v + 1 = w - k
    BY <2>3, <2>5
  <2>9. /\ Limit(v) \in Nat \ {0} /\ Base \in Nat \ {0} /\ Limit(k) \in Nat \ {0}
        /\ Limit(v + 1) = Limit(v) * Base
        /\ Limit(k + 1) = Limit(k) * Base
    BY LimitStep, LimitType, ByteType
  <2> DEFINE y == n \div Limit(v)
  <2>10. q(m) = y /\ y \in Int /\ q(k) = n \div (Base * Limit(v))
    <3>1. Limit(v) * Base = Base * Limit(v)
      BY <2>9
    <3> QED
      BY <2>8, <2>9, <3>1
  <2>11. n \div (Base * Limit(v)) = y \div Base
    BY <2>9, DigitsJoin
  <2> HIDE DEF y
  <2>12. y % (Limit(k) * Base) = ((y \div Base) % Limit(k)) * Base + (y % Base)
    BY <2>9, <2>10, DigitsJoin
  <2> HIDE DEF q
  <2>13. s[m] = y % Base /\ h[1 .. k] = (y \div Base) % Limit(k)
    BY <1>4, <2>6, <2>7, <2>10, <2>11
  <2>14. h[1 .. m] = y % Limit(k + 1)
    BY <2>7, <2>9, <2>12, <2>13
  <2> QED
    BY <2>3, <2>5, <2>10, <2>14
<1>7. h[1 .. w] = q(w) % Limit(w)
  <2> HIDE DEF q
  <2>1. w \notin bad
    BY <1>6
  <2> QED
    BY <2>1
<1>8. q(w) = n
  <2>1. Limit(w - w) = 1
    BY LimitValues
  <2> QED
    BY <2>1
<1> QED
  BY <1>3, <1>7, <1>8 DEF s
\* The same for a number that w bytes can hold.
LEMMA NumberOfBytes ==
  ASSUME NEW v \in Int, NEW w \in Nat
  PROVE  /\ v \in 0 .. Limit(w) - 1 => v % Limit(w) = v
         /\ -Limit(w) <= 2 * v /\ 2 * v < Limit(w) => Signed(v % Limit(w), w) = v
<1> DEFINE d == Limit(w)
<1>1. d \in Nat \ {0}
  BY LimitType
<1> HIDE DEF d
<1>2. v \in 0 .. d - 1 => v % d = v
  BY <1>1
<1>3. ASSUME -d <= 2 * v, 2 * v < d
      PROVE  v % d = IF v < 0 THEN v + d ELSE v
  <2>1. PICK q \in Int, r \in 0 .. d - 1 : r = v % d /\ v = d * q + r
    BY <1>1, DivisionIs
  <2>2. CASE v < 0
    <3>1. v + d \in 0 .. d - 1 /\ d * q + r = d * (-1) + (v + d)
      BY <1>1, <1>3, <2>1, <2>2
    <3>2. r = v + d
      BY <1>1, <2>1, <3>1, DivisionUnique
    <3> QED
      BY <2>1, <2>2, <3>2
  <2>3. CASE ~ (v < 0)
    BY <1>1, <1>2, <1>3, <2>3
  <2> QED
    BY <2>2, <2>3
<1>4. -d <= 2 * v /\ 2 * v < d => Signed(v % d, w) = v
  <2> SUFFICES ASSUME -d <= 2 * v, 2 * v < d PROVE Signed(v % d, w) = v
    OBVIOUS
  <2>1. Signed(v % d, w) = IF 2 * (v % d) >= d THEN (v % d) - d ELSE v % d
    BY DEF Signed, d
  <2>2. CASE v < 0
    <3>1. v % d = v + d
      BY <1>3, <2>2
    <3> QED
      BY <1>1, <2>1, <2>2, <3>1
  <2>3. CASE ~ (v < 0)
    <3>1. v % d = v
      BY <1>3, <2>3
    <3> QED
      BY <1>1, <2>1, <2>3, <3>1
  <2> QED
    BY <2>2, <2>3
<1> QED
  BY <1>2, <1>4 DEF d

\* The function that FlattenSeq defines by recursion is the only one of its kind.
Flattens(f, seqs, n) ==
  f = [i \in 1 .. n |-> IF i = 1 THEN seqs[i] ELSE f[i - 1] \o seqs[i]]

LEMMA FlattensValue ==
  ASSUME NEW f, NEW seqs, NEW n \in Nat, Flattens(f, seqs, n), NEW i \in 1 .. n
  PROVE  /\ i = 1 => f[i] = seqs[i]
         /\ i # 1 => f[i] = f[i - 1] \o seqs[i]
BY DEF Flattens

LEMMA FlattensExists ==
  ASSUME NEW seqs, NEW n \in Nat
  PROVE  \E f : Flattens(f, seqs, n)
<1> DEFINE missing == {k \in Nat : ~ \E f : Flattens(f, seqs, k)}
<1>1. SUFFICES ASSUME missing # {} PROVE FALSE
  OBVIOUS
<1>2. PICK m \in missing : \A k \in missing : m <= k
  BY <1>1, LeastNumber
<1>3. CASE m = 0
  <2>1. Flattens([i \in 1 .. 0 |-> seqs[i]], seqs, 0)
    BY DEF Flattens
  <2> QED
    BY <1>2, <1>3, <2>1
<1>4. CASE m # 0
  <2>1. PICK k \in Nat : m = k + 1 /\ ~ (m <= k)
    <3>1. m \in Nat /\ m - 1 \in Nat
      BY <1>2, <1>4
    <3> QED
      BY <3>1
  <2>2. PICK f : Flattens(f, seqs, k)
    BY <1>2, <2>1
  <2> DEFINE g == [i \in 1 .. m |-> IF i = 1 THEN seqs[i] ELSE f[i - 1] \o seqs[i]]
  <2>3. \A i \in 1 .. k : g[i] = f[i]
    <3> TAKE i \in 1 .. k
    <3>1. f[i] = IF i = 1 THEN seqs[i] ELSE f[i - 1] \o seqs[i]
      <4> HIDE DEF g
      <4> QED
        BY <2>2 DEF Flattens
    <3>2. i \in 1 .. m
      BY <2>1
    <3>3. g[i] = IF i = 1 THEN seqs[i] ELSE f[i - 1] \o seqs[i]
      BY <3>2
    <3> HIDE DEF g
    <3> QED
      BY <3>1, <3>3
  <2>4. \A i \in 1 .. m : i # 1 => g[i - 1] = f[i - 1]
    <3> HIDE DEF g
    <3> TAKE i \in 1 .. m
    <3>1. i # 1 => i - 1 \in 1 .. k
      BY <2>1
    <3> QED
      BY <2>3, <3>1
  <2>5. Flattens(g, seqs, m)
    BY <2>4 DEF Flattens
  <2> QED
    BY <1>2, <2>5
<1> QED
  BY <1>3, <1>4

LEMMA FlattensAgree ==
  ASSUME NEW f, NEW seqs, NEW n \in Nat, Flattens(f, seqs, n),
         NEW g, NEW other, NEW k \in Nat, Flattens(g, other, k),
         n <= k, \A i \in 1 .. n : seqs[i] = other[i]
  PROVE  \A i \in 1 .. n : f[i] = g[i]
<1> DEFINE differ == {i \in Nat : i \in 1 .. n /\ f[i] # g[i]}
<1>1. SUFFICES ASSUME differ # {} PROVE FALSE
  OBVIOUS
<1>2. PICK m \in differ : \A i \in differ : m <= i
  BY <1>1, LeastNumber
<1>3. m \in 1 .. n /\ m \in 1 .. k /\ f[m] # g[m]
  BY <1>2
<1>4. CASE m = 1
  BY <1>3, <1>4 DEF Flattens
<1>5. CASE m # 1
  <2>1. m - 1 \in Nat /\ ~ (m <= m - 1) /\ m - 1 \in 1 .. n
    BY <1>3, <1>5
  <2>2. f[m - 1] = g[m - 1]
    BY <1>2, <2>1
  <2>3. f[m] = f[m - 1] \o seqs[m] /\ g[m] = g[m - 1] \o other[m]
    BY <1>3, <1>5 DEF Flattens
  <2> QED
    BY <1>3, <2>2, <2>3
<1> QED
  BY <1>4, <1>5

LEMMA FlattenIs ==
  ASSUME NEW S, NEW seqs \in Seq(S), seqs # <<>>, NEW f, Flattens(f, seqs, Len(seqs))
  PROVE  FlattenSeq(seqs) = f[Len(seqs)]
<1> DEFINE n == Len(seqs)
           h == CHOOSE g : Flattens(g, seqs, n)
<1>1. n \in Nat /\ n # 0 /\ n \in 1 .. n
  OBVIOUS
<1>2. Flattens(h, seqs, n)
  BY FlattensExists, <1>1
<1>3. FlattenSeq(seqs) = h[n]
  BY <1>1 DEF FlattenSeq, Flattens
<1>4. h[n] = f[n]
  <2> HIDE DEF h, n
  <2> QED
    BY <1>1, <1>2, FlattensAgree DEF n
<1> QED
  BY <1>3, <1>4

LEMMA FlattensFirst ==
  ASSUME NEW f, NEW seqs, NEW k \in Nat, 1 \in 1 .. k, Flattens(f, seqs, k)
  PROVE  f[1] = seqs[1]
BY DEF Flattens

LEMMA FlattensLast ==
  ASSUME NEW f, NEW seqs, NEW k \in Nat, 1 < k, Flattens(f, seqs, k)
  PROVE  f[k] = f[k - 1] \o seqs[k]
<1>1. k \in 1 .. k /\ k # 1
  OBVIOUS
<1> QED
  BY <1>1, FlattensValue

LEMMA FlattenLonger ==
  ASSUME NEW S, NEW seqs \in Seq(S), NEW longer \in Seq(S), NEW n \in Nat, NEW k \in Nat,
         Len(seqs) = n, Len(longer) = k, k - 1 = n, 0 < n,
         \A i \in 1 .. n : seqs[i] = longer[i]
  PROVE  FlattenSeq(longer) = FlattenSeq(seqs) \o longer[k]
<1>1. n \in 1 .. n /\ n <= k /\ 1 < k
  OBVIOUS
<1>2. PICK f : Flattens(f, seqs, n)
  BY FlattensExists
<1>3. PICK g : Flattens(g, longer, k)
  BY FlattensExists
<1>4. seqs # <<>> /\ longer # <<>>
  BY <1>1
<1>5. FlattenSeq(seqs) = f[n]
  BY <1>2, <1>4, FlattenIs
<1>6. FlattenSeq(longer) = g[k]
  BY <1>3, <1>4, FlattenIs
<1>7. f[n] = g[n]
  <2>1. \A i \in 1 .. n : f[i] = g[i]
    BY <1>1, <1>2, <1>3, FlattensAgree
  <2> QED
    BY <1>1, <2>1
<1>8. g[k] = g[k - 1] \o longer[k]
  BY <1>1, <1>3, FlattensLast
<1> QED
  BY <1>5, <1>6, <1>7, <1>8

\* What FlattenSeq makes of one row more.
LEMMA FlattenAppend ==
  ASSUME NEW S, NEW seqs \in Seq(Seq(S)), NEW x \in Seq(S)
  PROVE  FlattenSeq(Append(seqs, x)) = FlattenSeq(seqs) \o x
<1>1. CASE seqs = <<>>
  <2>1. FlattenSeq(seqs) = <<>>
    BY <1>1 DEF FlattenSeq
  <2>2. Append(seqs, x) = <<x>>
    BY <1>1
  <2>3. Flattens(<<x>>, <<x>>, 1)
    BY DEF Flattens
  <2>4. FlattenSeq(<<x>>) = x
    <3>1. <<x>> \in Seq(Seq(S)) /\ <<x>> # <<>> /\ Len(<<x>>) = 1 /\ <<x>>[1] = x
      OBVIOUS
    <3> QED
      BY <2>3, <3>1, FlattenIs
  <2> QED
    BY <2>1, <2>2, <2>4
<1>2. CASE seqs # <<>>
  <2>1. /\ Len(seqs) \in Nat
        /\ Append(seqs, x) \in Seq(Seq(S))
        /\ Len(Append(seqs, x)) \in Nat /\ Len(Append(seqs, x)) - 1 = Len(seqs)
        /\ 0 < Len(seqs)
        /\ \A i \in 1 .. Len(seqs) : seqs[i] = Append(seqs, x)[i]
        /\ Append(seqs, x)[Len(Append(seqs, x))] = x
    BY <1>2
  <2> QED
    BY <2>1, FlattenLonger
<1> QED
  BY <1>1, <1>2

LEMMA FlattenType ==
  ASSUME NEW S, NEW seqs \in Seq(Seq(S))
  PROVE  FlattenSeq(seqs) \in Seq(S)
<1>1. CASE seqs = <<>>
  BY <1>1 DEF FlattenSeq
<1>2. CASE seqs # <<>>
  <2>1. PICK n \in Nat : n = Len(seqs) /\ n \in 1 .. n /\ 1 \in 1 .. n
    BY <1>2
  <2>2. PICK f : Flattens(f, seqs, n)
    BY FlattensExists
  <2>3. FlattenSeq(seqs) = f[n]
    BY <1>2, <2>1, <2>2, FlattenIs
  <2>4. \A i \in 1 .. n : seqs[i] \in Seq(S)
    BY <2>1
  <2>5. \A i \in 1 .. n : /\ i = 1 => f[i] = seqs[i]
                         /\ i # 1 => f[i] = f[i - 1] \o seqs[i]
    BY <2>2, FlattensValue
  <2> DEFINE wrong == {i \in Nat : i \in 1 .. n /\ f[i] \notin Seq(S)}
  <2>6. wrong = {}
    <3>1. SUFFICES ASSUME wrong # {} PROVE FALSE
      OBVIOUS
    <3>2. PICK j \in wrong : \A i \in wrong : j <= i
      BY <3>1, LeastNumber
    <3>3. j \in 1 .. n /\ f[j] \notin Seq(S)
      BY <3>2
    <3>4. j # 1
      <4>1. SUFFICES ASSUME j = 1 PROVE FALSE
        OBVIOUS
      <4>2. seqs[j] \in Seq(S)
        BY <2>4, <3>3
      <4>3. f[j] = seqs[j]
        BY <2>1, <2>2, <4>1, FlattensFirst
      <4> QED
        BY <3>3, <4>2, <4>3
    <3>5. j - 1 \in 1 .. n /\ j - 1 \in Nat /\ ~ (j <= j - 1)
      BY <3>3, <3>4
    <3>6. f[j - 1] \in Seq(S)
      BY <3>2, <3>5
    <3>7. f[j] = f[j - 1] \o seqs[j]
      BY <2>5, <3>3, <3>4
    <3> QED
      BY <2>4, <3>3, <3>6, <3>7
  <2> QED
    BY <2>1, <2>3, <2>6
<1> QED
  BY <1>1, <1>2

-----------------------------------------------------------------------------
(* Rows one after the other. *)

\* Rows may be joined in any order.
Joined(x, y, z) == (x \o y) \o z = x \o (y \o z)

LEMMA RowsJoin ==
  ASSUME NEW S, NEW x \in Seq(S), NEW y \in Seq(S), NEW z \in Seq(S)
  PROVE  Joined(x, y, z)
<1>1. (x \o y) \o z = x \o (y \o z)
  OBVIOUS
<1> QED
  BY <1>1 DEF Joined

JoinedLast(s, t, x) == s \o Append(t, x) = Append(s \o t, x)

LEMMA RowsJoinLast ==
  ASSUME NEW S, NEW s \in Seq(S), NEW t \in Seq(S), NEW x \in S
  PROVE  JoinedLast(s, t, x)
BY DEF JoinedLast

\* What a row made of two has.
MadeOf(r, s, t) ==
  /\ Len(r) = Len(s) + Len(t)
  /\ \A i \in 1 .. Len(s) : r[i] = s[i]
  /\ \A i \in 1 .. Len(t) : r[Len(s) + i] = t[i]

LEMMA RowsMake ==
  ASSUME NEW S, NEW s \in Seq(S), NEW t \in Seq(S)
  PROVE  s \o t \in Seq(S) /\ MadeOf(s \o t, s, t)
<1>1. s \o t \in Seq(S)
  OBVIOUS
<1>2. MadeOf(s \o t, s, t)
  BY DEF MadeOf
<1> QED
  BY <1>1, <1>2

\* What a row with an element more has.
LongerBy(r, s, x) ==
  Len(r) = Len(s) + 1 /\ (\A i \in 1 .. Len(s) : r[i] = s[i]) /\ r[Len(s) + 1] = x

LEMMA RowLonger ==
  ASSUME NEW S, NEW s \in Seq(S), NEW x \in S
  PROVE  Append(s, x) \in Seq(S) /\ LongerBy(Append(s, x), s, x)
<1>1. /\ Append(s, x) \in Seq(S) /\ Len(Append(s, x)) = Len(s) + 1
      /\ (\A i \in 1 .. Len(s) : Append(s, x)[i] = s[i]) /\ Append(s, x)[Len(s) + 1] = x
  BY AppendProperties
<1> QED
  BY <1>1 DEF LongerBy

\* The n elements of a row after the first p.
PartOf(r, row, p, n) == Len(r) = n /\ \A t \in 1 .. n : r[t] = row[p + t]

LEMMA RowPart ==
  ASSUME NEW S, NEW row \in Seq(S), NEW p \in Nat, NEW n \in Nat,
         NEW first, first = p + 1, NEW last, last = p + n, last <= Len(row)
  PROVE  SubSeq(row, first, last) \in Seq(S) /\ PartOf(SubSeq(row, first, last), row, p, n)
<1>1. first \in Nat /\ last \in Nat /\ last - first + 1 = n /\ first <= last + 1 /\ 1 <= first
  OBVIOUS
<1>2. \A k \in first .. last : k \in 1 .. Len(row)
  BY <1>1
<1>3. \A k \in first .. last : row[k] \in S
  BY <1>2
<1>4. \A t \in 1 .. n : first + t - 1 = p + t
  OBVIOUS
<1>5. /\ SubSeq(row, first, last) \in Seq(S)
      /\ Len(SubSeq(row, first, last)) = IF first <= last THEN last - first + 1 ELSE 0
      /\ \A t \in 1 .. last - first + 1 : SubSeq(row, first, last)[t] = row[first + t - 1]
  BY <1>1, <1>3, SubSeqProperties
<1>6. Len(SubSeq(row, first, last)) = n
  BY <1>1, <1>5
<1> QED
  BY <1>1, <1>4, <1>5, <1>6 DEF PartOf

LEMMA FlattenConcat ==
  ASSUME NEW S, NEW s \in Seq(Seq(S)), NEW t \in Seq(Seq(S))
  PROVE  FlattenSeq(s \o t) = FlattenSeq(s) \o FlattenSeq(t)
<1> DEFINE u(n) == SubSeq(t, 1, n)
           bad == {n \in Nat : n <= Len(t) /\ ~ (FlattenSeq(s \o u(n)) = FlattenSeq(s) \o FlattenSeq(u(n)))}
<1>1. /\ FlattenSeq(<<>>) = <<>> /\ FlattenSeq(s) \in Seq(S)
      /\ \A n \in 0 .. Len(t) : u(n) \in Seq(Seq(S)) /\ FlattenSeq(u(n)) \in Seq(S)
  <2>1. FlattenSeq(<<>>) = <<>>
    BY DEF FlattenSeq
  <2>2. \A n \in 0 .. Len(t) : u(n) \in Seq(Seq(S))
    BY SubSeqProperties
  <2> HIDE DEF u
  <2> QED
    BY <2>1, <2>2, FlattenType
<1>2. ASSUME bad # {} PROVE FALSE
  <2>1. PICK m \in bad : \A n \in bad : m <= n
    BY <1>2, LeastNumber
  <2>2. m \in Nat /\ m <= Len(t) /\ ~ (FlattenSeq(s \o u(m)) = FlattenSeq(s) \o FlattenSeq(u(m)))
    BY <2>1
  <2>3. m # 0
    <3>1. u(0) = <<>>
      BY SubSeqEmpty
    <3>2. s \o u(0) = s /\ FlattenSeq(s) \o <<>> = FlattenSeq(s)
      BY <1>1, <3>1, ConcatEmptySeq
    <3> HIDE DEF u
    <3> QED
      BY <1>1, <2>2, <3>1, <3>2
  <2>4. PICK k \in Nat : m = k + 1 /\ k <= Len(t) /\ ~ (m <= k) /\ m - 1 = k
    <3>1. m - 1 \in Nat
      BY <2>2, <2>3
    <3> QED
      BY <2>2, <3>1
  <2>5. FlattenSeq(s \o u(k)) = FlattenSeq(s) \o FlattenSeq(u(k))
    BY <2>1, <2>4
  <2>6. u(m) = Append(u(k), t[m]) /\ t[m] \in Seq(S) /\ u(k) \in Seq(Seq(S)) /\ s \o u(k) \in Seq(Seq(S))
    <3>1. m \in 1 .. Len(t) /\ k \in 0 .. Len(t)
      BY <2>2, <2>3, <2>4
    <3>2. SubSeq(t, 1, m) = SubSeq(t, 1, m - 1) \o <<t[m]>>
      BY <3>1, SubSeqRecursiveSecond
    <3>3. t[m] \in Seq(S) /\ u(k) \in Seq(Seq(S))
      BY <1>1, <3>1
    <3>4. s \o u(k) \in Seq(Seq(S))
      <4> HIDE DEF u
      <4> QED
        BY <3>3, ConcatProperties
    <3>5. Append(u(k), t[m]) = u(k) \o <<t[m]>>
      <4> HIDE DEF u
      <4> QED
        BY <3>3, AppendIsConcat
    <3> QED
      BY <2>4, <3>2, <3>3, <3>4, <3>5
  <2> HIDE DEF u
  <2>7. s \o u(m) = Append(s \o u(k), t[m])
    <3>1. PICK v \in Seq(Seq(S)), x \in Seq(S) : v = u(k) /\ x = t[m]
      BY <2>6
    <3>2. JoinedLast(s, v, x)
      BY RowsJoinLast
    <3> QED
      BY <2>6, <3>1, <3>2 DEF JoinedLast
  <2>8. /\ FlattenSeq(s \o u(m)) = FlattenSeq(s \o u(k)) \o t[m]
        /\ FlattenSeq(u(m)) = FlattenSeq(u(k)) \o t[m]
    BY <2>6, <2>7, FlattenAppend
  <2>9. FlattenSeq(s) \o (FlattenSeq(u(k)) \o t[m]) = (FlattenSeq(s) \o FlattenSeq(u(k))) \o t[m]
    <3>1. FlattenSeq(u(k)) \in Seq(S)
      BY <2>6, FlattenType
    <3>2. Joined(FlattenSeq(s), FlattenSeq(u(k)), t[m])
      BY <1>1, <2>6, <3>1, RowsJoin
    <3> QED
      BY <3>2 DEF Joined
  <2> QED
    BY <2>2, <2>5, <2>8, <2>9
<1>3. u(Len(t)) = t
  BY SubSeqFull
<1>4. FlattenSeq(s \o u(Len(t))) = FlattenSeq(s) \o FlattenSeq(u(Len(t)))
  <2> HIDE DEF u
  <2>1. bad = {}
    BY <1>2
  <2>2. \A n \in Nat : n <= Len(t) => FlattenSeq(s \o u(n)) = FlattenSeq(s) \o FlattenSeq(u(n))
    BY <2>1
  <2>3. Len(t) \in Nat /\ Len(t) <= Len(t)
    OBVIOUS
  <2> QED
    BY <2>2, <2>3
<1> QED
  BY <1>3, <1>4

LEMMA FlattenOne ==
  ASSUME NEW S, NEW x \in Seq(S)
  PROVE  FlattenSeq(<<x>>) = x
<1>1. Append(<<>>, x) = <<x>> /\ FlattenSeq(<<>>) = <<>> /\ <<>> \in Seq(Seq(S))
  BY DEF FlattenSeq
<1>2. FlattenSeq(Append(<<>>, x)) = FlattenSeq(<<>>) \o x
  BY <1>1, FlattenAppend
<1> QED
  BY <1>1, <1>2, ConcatEmptySeq

LEMMA FlattenHead ==
  ASSUME NEW S, NEW s \in Seq(Seq(S)), s # <<>>
  PROVE  FlattenSeq(s) = Head(s) \o FlattenSeq(Tail(s))
<1>1. Head(s) \in Seq(S) /\ Tail(s) \in Seq(Seq(S)) /\ <<Head(s)>> \in Seq(Seq(S))
  BY HeadTailProperties
<1>2. s = <<Head(s)>> \o Tail(s)
  OBVIOUS
<1>3. FlattenSeq(<<Head(s)>> \o Tail(s)) = FlattenSeq(<<Head(s)>>) \o FlattenSeq(Tail(s))
  BY <1>1, FlattenConcat
<1>4. FlattenSeq(<<Head(s)>>) = Head(s)
  BY <1>1, FlattenOne
<1> QED
  BY <1>2, <1>3, <1>4

\* The bytes of the first i rows.
Upto(rows, i) == FlattenSeq(SubSeq(rows, 1, i))

LEMMA UptoStep ==
  ASSUME NEW S, NEW rows \in Seq(Seq(S)), NEW i \in 1 .. Len(rows)
  PROVE  /\ Upto(rows, 0) = <<>> /\ Upto(rows, Len(rows)) = FlattenSeq(rows)
         /\ Upto(rows, i - 1) \in Seq(S) /\ Upto(rows, i) \in Seq(S)
         /\ Len(Upto(rows, i)) = Len(Upto(rows, i - 1)) + Len(rows[i])
         /\ Upto(rows, i) = Upto(rows, i - 1) \o rows[i]
<1>1. SubSeq(rows, 1, 0) = <<>> /\ SubSeq(rows, 1, Len(rows)) = rows
  BY SubSeqEmpty, SubSeqFull
<1>2. Upto(rows, 0) = <<>> /\ Upto(rows, Len(rows)) = FlattenSeq(rows)
  <2>1. FlattenSeq(<<>>) = <<>>
    BY DEF FlattenSeq
  <2> QED
    BY <1>1, <2>1 DEF Upto
<1>3. SubSeq(rows, 1, i) = SubSeq(rows, 1, i - 1) \o <<rows[i]>>
  BY SubSeqRecursiveSecond
<1> DEFINE u == SubSeq(rows, 1, i - 1)
<1>4. u \in Seq(Seq(S)) /\ rows[i] \in Seq(S)
  BY SubSeqProperties
<1> HIDE DEF u
<1>5. FlattenSeq(u \o <<rows[i]>>) = FlattenSeq(u) \o rows[i] /\ FlattenSeq(u) \in Seq(S)
  <2>1. <<rows[i]>> \in Seq(Seq(S))
    BY <1>4
  <2>2. FlattenSeq(u \o <<rows[i]>>) = FlattenSeq(u) \o FlattenSeq(<<rows[i]>>)
    BY <1>4, <2>1, FlattenConcat
  <2>3. FlattenSeq(<<rows[i]>>) = rows[i]
    BY <1>4, FlattenOne
  <2> QED
    BY <1>4, <2>2, <2>3, FlattenType
<1>6. Upto(rows, i - 1) = FlattenSeq(u) /\ Upto(rows, i) = FlattenSeq(u) \o rows[i]
  BY <1>3, <1>5 DEF Upto, u
<1>7. /\ FlattenSeq(u) \o rows[i] \in Seq(S)
      /\ Len(FlattenSeq(u) \o rows[i]) = Len(FlattenSeq(u)) + Len(rows[i])
  BY <1>4, <1>5, ConcatProperties
<1> QED
  BY <1>2, <1>5, <1>6, <1>7

\* Where a row is found among all the bytes.
LEMMA RowIsAt ==
  ASSUME NEW S, NEW rows \in Seq(Seq(S)), NEW i \in 1 .. Len(rows)
  PROVE  LET a == Len(Upto(rows, i - 1))
         IN  /\ a \in Nat /\ a + Len(rows[i]) <= Len(FlattenSeq(rows))
             /\ \A x \in 1 .. Len(rows[i]) : FlattenSeq(rows)[a + x] = rows[i][x]
<1> DEFINE r == SubSeq(rows, i + 1, Len(rows))
           p == Upto(rows, i - 1)
           q == FlattenSeq(r)
           c == rows[i]
           t == FlattenSeq(rows)
<1>1. SubSeq(rows, 1, i) \o r = rows
  <2>1. SubSeq(rows, 1, Len(rows)) = rows
    BY SubSeqFull
  <2>2. 1 \in 1 .. Len(rows) + 1 /\ i \in 1 - 1 .. Len(rows) /\ Len(rows) \in i .. Len(rows)
    OBVIOUS
  <2>3. SubSeq(rows, 1, i) \o SubSeq(rows, i + 1, Len(rows)) = SubSeq(rows, 1, Len(rows))
    BY <2>2, ConcatAdjacentSubSeq
  <2> QED
    BY <2>1, <2>3, Zenon
<1>2. SubSeq(rows, 1, i) \in Seq(Seq(S)) /\ r \in Seq(Seq(S)) /\ c \in Seq(S)
  <2>1. \A x \in 1 .. i : rows[x] \in Seq(S)
    OBVIOUS
  <2>2. \A x \in i + 1 .. Len(rows) : rows[x] \in Seq(S)
    OBVIOUS
  <2> QED
    BY <2>1, <2>2, SubSeqProperties
<1>3. p \in Seq(S) /\ Upto(rows, i) = p \o c
  BY UptoStep
<1>4. q \in Seq(S) /\ t = (p \o c) \o q
  <2> HIDE DEF r
  <2>1. FlattenSeq(SubSeq(rows, 1, i) \o r) = FlattenSeq(SubSeq(rows, 1, i)) \o q
    BY <1>2, FlattenConcat
  <2>2. FlattenSeq(SubSeq(rows, 1, i)) = p \o c
    BY <1>3 DEF Upto
  <2> QED
    BY <1>1, <1>2, <2>1, <2>2, FlattenType
<1> HIDE DEF p, q, c, t
<1>5. PICK d \in Seq(S) : d = p \o c /\ MadeOf(d, p, c)
  BY <1>2, <1>3, RowsMake
<1>6. t \in Seq(S) /\ MadeOf(t, d, q)
  BY <1>4, <1>5, RowsMake
<1>7. PICK lp, lc, lq \in Nat : lp = Len(p) /\ lc = Len(c) /\ lq = Len(q)
  BY <1>2, <1>3, <1>4, LenProperties
<1>8. Len(d) = lp + lc /\ Len(t) = (lp + lc) + lq
  BY <1>5, <1>6, <1>7 DEF MadeOf
<1>9. ASSUME NEW x \in 1 .. lc
      PROVE  t[lp + x] = c[x]
  <2>1. PICK y \in 1 .. lp + lc : y = lp + x
    <3>1. lp + x \in 1 .. lp + lc
      OBVIOUS
    <3> QED
      BY <3>1
  <2>2. t[y] = d[y]
    BY <1>6, <1>8 DEF MadeOf
  <2>3. d[y] = c[x]
    BY <1>5, <1>7, <2>1 DEF MadeOf
  <2> QED
    BY <2>1, <2>2, <2>3
<1>10. lp \in Nat /\ lp + lc <= Len(t)
  BY <1>8
<1> QED
  BY <1>7, <1>9, <1>10, Zenon DEF p, c, t

LEMMA UptoAppend ==
  ASSUME NEW S, NEW rows \in Seq(Seq(S)), NEW x \in Seq(S), NEW i \in 0 .. Len(rows)
  PROVE  Upto(Append(rows, x), i) = Upto(rows, i)
<1>1. PICK longer \in Seq(Seq(S)) : longer = Append(rows, x) /\ LongerBy(longer, rows, x)
  BY RowLonger
<1>2. i \in Nat /\ i <= Len(rows) /\ i <= Len(longer) /\ 1 = 0 + 1 /\ i = 0 + i
  BY <1>1 DEF LongerBy
<1>3. PICK u \in Seq(Seq(S)) : u = SubSeq(rows, 1, i) /\ PartOf(u, rows, 0, i)
  BY <1>2, RowPart
<1>4. PICK v \in Seq(Seq(S)) : v = SubSeq(longer, 1, i) /\ PartOf(v, longer, 0, i)
  BY <1>2, RowPart
<1>5. \A k \in 1 .. i : 0 + k = k /\ longer[k] = rows[k]
  BY <1>1 DEF LongerBy
<1>6. Len(u) = Len(v) /\ \A k \in 1 .. Len(u) : u[k] = v[k]
  BY <1>3, <1>4, <1>5 DEF PartOf
<1>7. u = v
  BY <1>6, SeqEqual
<1> QED
  BY <1>1, <1>3, <1>4, <1>7 DEF Upto

\* Everything written to a buffer is this row.
Holds(b, row) ==
  /\ b.writePos = Len(row)
  /\ \A x \in 1 .. Len(row) : b.buf[x] = row[x]

LEMMA StoreBytes ==
  ASSUME NEW b, Proper(b), NEW s \in Seq(Byte), Len(s) <= Len(b.buf) - b.writePos
  PROVE  \A x \in 1 .. Len(b.buf) :
           Store(b, s).buf[x] = IF x \in b.writePos + 1 .. b.writePos + Len(s)
                                THEN s[x - b.writePos] ELSE b.buf[x]
<1>1. b = [buf |-> b.buf, writePos |-> b.writePos, readPos |-> b.readPos]
  BY ProperFacts
<1>2. Store(b, s).buf = [i \in 1 .. Len(b.buf) |->
                           IF i \in b.writePos + 1 .. b.writePos + Len(s)
                           THEN s[i - b.writePos] ELSE b.buf[i]]
  BY <1>1 DEF Store
<1> QED
  BY <1>2

LEMMA StoreHolds ==
  ASSUME NEW b, Proper(b), NEW s \in Seq(Byte), Len(s) <= Len(b.buf) - b.writePos,
         NEW row \in Seq(Byte), Holds(b, row)
  PROVE  Holds(Store(b, s), row \o s)
<1>1. /\ Len(row) \in Nat /\ Len(s) \in Nat /\ b.writePos = Len(row) /\ Len(b.buf) \in Nat
      /\ Store(b, s).writePos = b.writePos + Len(s)
  <2>1. Len(row) \in Nat /\ Len(s) \in Nat /\ b.writePos = Len(row) /\ Len(b.buf) \in Nat
    BY ProperFacts DEF Holds
  <2>2. Store(b, s).writePos = b.writePos + Len(s)
    BY StoreIsProper
  <2> QED
    BY <2>1, <2>2
<1>2. /\ Len(row \o s) = Len(row) + Len(s)
      /\ \A i \in 1 .. Len(row) + Len(s) :
           (row \o s)[i] = IF i <= Len(row) THEN row[i] ELSE s[i - Len(row)]
  BY ConcatProperties
<1> DEFINE r == row \o s
           c == Store(b, s)
<1> HIDE DEF r, c
<1>3. ASSUME NEW x \in 1 .. Len(row) + Len(s)
      PROVE  c.buf[x] = r[x]
  <2>1. x \in 1 .. Len(b.buf)
    BY <1>1
  <2>2. c.buf[x] = IF x \in b.writePos + 1 .. b.writePos + Len(s) THEN s[x - b.writePos] ELSE b.buf[x]
    BY <2>1, StoreBytes DEF c
  <2>3. r[x] = IF x <= Len(row) THEN row[x] ELSE s[x - Len(row)]
    BY <1>2 DEF r
  <2>4. CASE x <= Len(row)
    BY <1>1, <2>2, <2>3, <2>4 DEF Holds
  <2>5. CASE ~ (x <= Len(row))
    BY <1>1, <2>2, <2>3, <2>5
  <2> QED
    BY <2>4, <2>5
<1> QED
  BY <1>1, <1>2, <1>3 DEF Holds, r, c

LEMMA WriteSucceeds ==
  ASSUME NEW b, Proper(b), Len(b.buf) < SizeT, NEW s \in Seq(Byte)
  PROVE  /\ Write(b, s).ret <=> Len(s) <= Len(b.buf) - b.writePos
         /\ Len(s) <= Len(b.buf) - b.writePos => Write(b, s).b = Store(b, s)
BY AvailableType, ProperFacts DEF Write

\* What is in a buffer after a number is put into it.
NumberPut(b, c, n, w) ==
  /\ Unread(c) /\ Len(c.buf) = Len(b.buf) /\ c.writePos = b.writePos + w
  /\ \A x \in 1 .. Len(b.buf) :
       c.buf[x] = IF x \in b.writePos + 1 .. b.writePos + w
                  THEN Htonl(n, w)[x - b.writePos] ELSE b.buf[x]

LEMMA PutNumberBytes ==
  ASSUME NEW b, Unread(b), Len(b.buf) < SizeT, NEW n \in Int, NEW w \in Nat,
         b.writePos + w <= Len(b.buf)
  PROVE  NumberPut(b, PutNumber(b, n, w).b, n, w)
<1> DEFINE s == Htonl(n, w)
<1>1. s \in Seq(Byte) /\ Len(s) = w
  BY HtonlType
<1> HIDE DEF s
<1>2. Proper(b) /\ b.writePos \in Nat /\ Len(b.buf) \in Nat /\ b.readPos = 0
  BY ProperFacts DEF Unread
<1>3. Len(s) <= Len(b.buf) - b.writePos
  BY <1>1, <1>2
<1>4. Write(b, s).b = Store(b, s)
  BY <1>1, <1>2, <1>3, WriteSucceeds
<1>5. SameSize(b, Store(b, s)) /\ Store(b, s).readPos = 0 /\ Store(b, s).writePos = b.writePos + w
  BY <1>1, <1>2, <1>3, StoreIsProper
<1>6. \A x \in 1 .. Len(b.buf) :
        Store(b, s).buf[x] = IF x \in b.writePos + 1 .. b.writePos + Len(s)
                             THEN s[x - b.writePos] ELSE b.buf[x]
  BY <1>1, <1>2, <1>3, StoreBytes
<1>7. PutNumber(b, n, w).b = Store(b, s)
  BY <1>4 DEF PutNumber, s
<1> QED
  BY <1>1, <1>5, <1>6, <1>7 DEF NumberPut, Unread, SameSize, s

\* A row of bytes that begins with this header.
HeaderIs(s, num, channel, length) ==
  /\ s[1] = Htonl(num, 1)[1] /\ s[2] = Htonl(channel, 1)[1]
  /\ s[3] = Htonl(length, 2)[1] /\ s[4] = Htonl(length, 2)[2]

LEMMA WriteHeaderBytes ==
  ASSUME NEW b, Unread(b), Len(b.buf) < SizeT, 4 <= HEADERLENGTH, HEADERLENGTH <= Len(b.buf),
         NEW num \in Int, NEW channel \in Int, NEW length \in Int
  PROVE  LET c == WriteHeader(b, num, channel, length)
         IN  /\ Unread(c) /\ Len(c.buf) = Len(b.buf)
             /\ c.writePos = IF b.writePos < HEADERLENGTH THEN HEADERLENGTH ELSE b.writePos
             /\ HeaderIs(c.buf, num, channel, length)
             /\ \A x \in 5 .. Len(b.buf) : c.buf[x] = b.buf[x]
<1> DEFINE n == Len(b.buf)
           b0 == WriteSeek(b, 0).b
           b1 == PutNumber(b0, num, 1).b
           b2 == PutNumber(b1, channel, 1).b
           b3 == PutNumber(b2, length, 2).b
           at == IF b.writePos < HEADERLENGTH THEN HEADERLENGTH ELSE b.writePos
<1>0. n \in Nat /\ 4 <= n /\ n < SizeT
  BY WireAssumption, ProperFacts DEF Unread
<1>1. Unread(b0) /\ Len(b0.buf) = n /\ b0.writePos = 0 /\ b0.buf = b.buf
  <2>1. b0 = [b EXCEPT !.writePos = 0]
    BY <1>0 DEF WriteSeek
  <2>2. b = [buf |-> b.buf, writePos |-> b.writePos, readPos |-> b.readPos]
    BY ProperFacts DEF Unread
  <2>3. b0.buf = b.buf /\ b0.writePos = 0
    BY <2>1, <2>2
  <2> QED
    BY <2>3, WriteSeekUnread
<1> HIDE DEF b0
<1>2. /\ Unread(b1) /\ Len(b1.buf) = n /\ b1.writePos = 1
      /\ \A x \in 1 .. n : b1.buf[x] = IF x = 1 THEN Htonl(num, 1)[1] ELSE b.buf[x]
  <2>1. NumberPut(b0, b1, num, 1)
    BY <1>0, <1>1, PutNumberBytes
  <2> HIDE DEF b1
  <2>2. \A x \in 1 .. n : b1.buf[x] = IF x = 1 THEN Htonl(num, 1)[1] ELSE b.buf[x]
    <3>1. \A x \in 1 .. n : x \in 0 + 1 .. 0 + 1 <=> x = 1
      BY <1>0
    <3> QED
      BY <1>0, <1>1, <2>1, <3>1 DEF NumberPut
  <2> QED
    BY <1>1, <2>1, <2>2 DEF NumberPut
<1> HIDE DEF b1
<1>3. /\ Unread(b2) /\ Len(b2.buf) = n /\ b2.writePos = 2
      /\ \A x \in 1 .. n : b2.buf[x] = IF x = 2 THEN Htonl(channel, 1)[1] ELSE b1.buf[x]
  <2>1. b1.writePos + 1 <= Len(b1.buf)
    BY <1>0, <1>2
  <2>2. NumberPut(b1, b2, channel, 1)
    <3>1. Len(b1.buf) < SizeT /\ Unread(b1)
      BY <1>0, <1>2
    <3> QED
      BY <2>1, <3>1, PutNumberBytes
  <2> HIDE DEF b2
  <2> QED
    BY <1>0, <1>2, <2>2 DEF NumberPut
<1> HIDE DEF b2
<1>4. /\ Unread(b3) /\ Len(b3.buf) = n /\ b3.writePos = 4
      /\ \A x \in 1 .. n : b3.buf[x] = IF x \in 3 .. 4 THEN Htonl(length, 2)[x - 2] ELSE b2.buf[x]
  <2>1. b2.writePos + 2 <= Len(b2.buf)
    BY <1>0, <1>3
  <2>2. NumberPut(b2, b3, length, 2)
    <3>1. Len(b2.buf) < SizeT /\ Unread(b2)
      BY <1>0, <1>3
    <3> QED
      BY <2>1, <3>1, PutNumberBytes
  <2> HIDE DEF b3
  <2> QED
    BY <1>0, <1>3, <2>2 DEF NumberPut
<1>5. at \in Nat /\ at <= n
  BY <1>0, WireAssumption, ProperFacts DEF Unread
<1> HIDE DEF b3
<1>6. WriteHeader(b, num, channel, length) = WriteSeek(b3, at).b
  BY DEF WriteHeader, GetDataLength, WriteUint8, WriteUint16, b0, b1, b2, b3
<1>7. HeaderIs(b3.buf, num, channel, length) /\ \A x \in 5 .. n : b3.buf[x] = b.buf[x]
  <2>1. b3.buf[3] = Htonl(length, 2)[1] /\ b3.buf[4] = Htonl(length, 2)[2]
    BY <1>0, <1>4
  <2>2. b3.buf[1] = Htonl(num, 1)[1] /\ b3.buf[2] = Htonl(channel, 1)[1]
    <3>1. 1 \in 1 .. n /\ 2 \in 1 .. n /\ 1 \notin 3 .. 4 /\ 2 \notin 3 .. 4
      BY <1>0
    <3>2. b3.buf[1] = b2.buf[1] /\ b3.buf[2] = b2.buf[2]
      BY <1>4, <3>1
    <3>3. b2.buf[1] = b1.buf[1] /\ b2.buf[2] = Htonl(channel, 1)[1] /\ b1.buf[1] = Htonl(num, 1)[1]
      BY <1>2, <1>3, <3>1
    <3> QED
      BY <3>2, <3>3
  <2>3. \A x \in 5 .. n : b3.buf[x] = b.buf[x]
    BY <1>0, <1>2, <1>3, <1>4
  <2> QED
    BY <2>1, <2>2, <2>3 DEF HeaderIs
<1> HIDE DEF at
<1>8. /\ Unread(WriteSeek(b3, at).b) /\ Len(WriteSeek(b3, at).b.buf) = n
      /\ WriteSeek(b3, at).b.writePos = at /\ WriteSeek(b3, at).b.buf = b3.buf
  <2>1. WriteSeek(b3, at).b = [b3 EXCEPT !.writePos = at]
    BY <1>4, <1>5, <1>0 DEF WriteSeek
  <2>2. b3 = [buf |-> b3.buf, writePos |-> b3.writePos, readPos |-> b3.readPos]
    BY <1>4, ProperFacts DEF Unread
  <2>3. WriteSeek(b3, at).b.buf = b3.buf
    BY <2>1, <2>2
  <2> QED
    BY <1>4, <1>5, <2>3, WriteSeekUnread
<1> QED
  BY <1>6, <1>7, <1>8 DEF at

-----------------------------------------------------------------------------
(* Reading. *)

Advanced(b, n) == [b EXCEPT !.readPos = b.readPos + n]

LEMMA ReadSucceeds ==
  ASSUME NEW b, Proper(b), Len(b.buf) < SizeT, NEW n \in Nat, b.readPos + n <= b.writePos
  PROVE  /\ Read(b, n).ret = n /\ Read(b, n).b = Advanced(b, n)
         /\ Read(b, n).data = SubSeq(b.buf, b.readPos + 1, b.readPos + n)
         /\ Proper(Advanced(b, n)) /\ Advanced(b, n).buf = b.buf
         /\ Advanced(b, n).readPos = b.readPos + n /\ Advanced(b, n).writePos = b.writePos
<1>1. Minus(b.writePos, b.readPos) = b.writePos - b.readPos
  BY ProperFacts, MinusType, BytesAssumption
<1> DEFINE c == Advanced(b, n)
           d == SubSeq(b.buf, b.readPos + 1, b.readPos + n)
<1>2. Read(b, n) = [ret |-> n, data |-> d, b |-> c]
  BY <1>1, ProperFacts DEF Read, Advanced
<1>3. /\ Proper(Advanced(b, n)) /\ Advanced(b, n).buf = b.buf
      /\ Advanced(b, n).readPos = b.readPos + n /\ Advanced(b, n).writePos = b.writePos
  <2>1. b.readPos + n \in Nat
    BY ProperFacts
  <2> QED
    BY <2>1, ProperFacts DEF Proper, Buffer, Sound, Advanced
<1> HIDE DEF c, d
<1>4. Read(b, n).ret = n /\ Read(b, n).b = c /\ Read(b, n).data = d
  BY <1>2
<1> QED
  BY <1>3, <1>4 DEF c, d

\* A number read where it was written.
LEMMA GetNumberIs ==
  ASSUME NEW b, Proper(b), Len(b.buf) < SizeT, NEW w \in Nat \ {0}, NEW n \in Int,
         b.readPos + w <= b.writePos,
         \A t \in 1 .. w : b.buf[b.readPos + t] = Htonl(n, w)[t]
  PROVE  GetNumber(b, w).ret = n % Limit(w) /\ GetNumber(b, w).b = Advanced(b, w)
<1> DEFINE s == SubSeq(b.buf, b.readPos + 1, b.readPos + w)
           u == Htonl(n, w)
<1>1. u \in Seq(Byte) /\ Len(u) = w
  BY HtonlType
<1>2. s = u
  <2>1. PICK row \in Seq(Byte), p \in Nat : row = b.buf /\ p = b.readPos /\ p + w <= Len(row)
    BY ProperFacts
  <2>2. s \in Seq(Byte) /\ PartOf(s, row, p, w)
    BY <2>1, RowPart
  <2> HIDE DEF s, u
  <2>3. \A t \in 1 .. w : s[t] = u[t]
    BY <2>1, <2>2 DEF PartOf, u
  <2> QED
    BY <1>1, <2>2, <2>3, SeqEqual DEF PartOf
<1>3. Read(b, w).ret = w /\ Read(b, w).b = Advanced(b, w) /\ Read(b, w).data = s
  BY ReadSucceeds
<1> HIDE DEF s
<1>4. GetNumber(b, w).ret = Ntohl(s) /\ GetNumber(b, w).b = Advanced(b, w)
  BY <1>3 DEF GetNumber
<1> QED
  BY <1>2, <1>4, NtohlOfHtonl

LEMMA UnsentOfUnread ==
  ASSUME NEW b, Unread(b)
  PROVE  /\ Unsent(b) \in Seq(Byte) /\ Len(Unsent(b)) = b.writePos
         /\ \A x \in 1 .. b.writePos : Unsent(b)[x] = b.buf[x]
<1>1. /\ b.buf \in Seq(Byte) /\ Len(b.buf) \in Nat /\ b.writePos \in Nat /\ b.readPos = 0
      /\ b.writePos <= Len(b.buf)
  BY ProperFacts DEF Unread
<1>2. Unsent(b) = SubSeq(b.buf, 1, b.writePos) /\ \A i \in 1 .. b.writePos : b.buf[i] \in Byte
  BY <1>1 DEF Unsent
<1> QED
  BY <1>1, <1>2, SubSeqProperties

\* A chunk: a header, and the l bytes of the data that follow the first ones.
ChunkIs(c, num, channel, data, from, l) ==
  /\ c \in Seq(Byte) /\ Len(c) = HEADERLENGTH + l /\ HeaderIs(c, num, channel, l)
  /\ \A t \in 1 .. l : c[HEADERLENGTH + t] = data[from + t]

LEMMA ChunkOfBuffer ==
  ASSUME 4 <= HEADERLENGTH, NEW b, Unread(b), NEW num, NEW channel, NEW data, NEW from, NEW l \in Nat,
         HeaderIs(b.buf, num, channel, l), b.writePos = HEADERLENGTH + l,
         \A t \in 1 .. l : b.buf[HEADERLENGTH + t] = data[from + t]
  PROVE  ChunkIs(Unsent(b), num, channel, data, from, l)
<1> DEFINE c == Unsent(b)
<1>1. HEADERLENGTH \in Nat
  BY WireAssumption
<1>2. /\ c \in Seq(Byte) /\ Len(c) = HEADERLENGTH + l
      /\ \A x \in 1 .. HEADERLENGTH + l : c[x] = b.buf[x]
  BY UnsentOfUnread
<1> HIDE DEF c
<1>3. HeaderIs(c, num, channel, l)
  <2>1. \A x \in 1 .. 4 : c[x] = b.buf[x]
    BY <1>1, <1>2
  <2> QED
    BY <2>1 DEF HeaderIs
<1>4. \A t \in 1 .. l : c[HEADERLENGTH + t] = data[from + t]
  <2> TAKE t \in 1 .. l
  <2>1. HEADERLENGTH + t \in 1 .. HEADERLENGTH + l
    BY <1>1
  <2> QED
    BY <1>2, <2>1
<1> QED
  BY <1>2, <1>3, <1>4 DEF ChunkIs, c

\* The rows of what is to be sent.
Unsents(buffers) == [i \in 1 .. Len(buffers) |-> Unsent(buffers[i])]

LEMMA StreamChunk ==
  ASSUME WireFits, NEW data \in Seq(Byte), Len(data) <= NoteSize, NEW channel \in Nat
  PROVE  /\ Unread(StreamBuffer(data, channel))
         /\ ChunkIs(Unsent(StreamBuffer(data, channel)), 0, channel, data, 0, Len(data))
<1> DEFINE l == Len(data)
           b0 == New(l + HEADERLENGTH)
           b1 == WriteHeader(b0, 0, channel, l)
           b2 == Write(b1, data).b
<1>1. /\ l \in Nat /\ HEADERLENGTH \in Nat /\ 4 <= HEADERLENGTH /\ l + HEADERLENGTH \in Nat
      /\ l + HEADERLENGTH < SizeT
  BY WireAssumption, BytesAssumption DEF WireFits
<1>2. Unread(b0) /\ Len(b0.buf) = l + HEADERLENGTH /\ b0.writePos = 0
  BY <1>1, NewIsUnread
<1> HIDE DEF b0, l
<1>3. /\ Unread(b1) /\ Len(b1.buf) = l + HEADERLENGTH /\ b1.writePos = HEADERLENGTH
      /\ HeaderIs(b1.buf, 0, channel, l)
  <2>1. Len(b0.buf) < SizeT /\ HEADERLENGTH <= Len(b0.buf) /\ b0.writePos < HEADERLENGTH
    BY <1>1, <1>2
  <2>2. channel \in Int /\ 0 \in Int /\ l \in Int
    BY <1>1
  <2> QED
    BY <1>1, <1>2, <2>1, <2>2, WriteHeaderBytes
<1> HIDE DEF b1
<1>4. Len(data) <= Len(b1.buf) - b1.writePos /\ Proper(b1) /\ Len(b1.buf) < SizeT
  BY <1>1, <1>3 DEF l, Unread
<1>5. b2 = Store(b1, data)
  BY <1>4, WriteSucceeds
<1>6. /\ Unread(b2) /\ b2.writePos = HEADERLENGTH + l
      /\ \A x \in 1 .. Len(b1.buf) :
           b2.buf[x] = IF x \in b1.writePos + 1 .. b1.writePos + Len(data)
                       THEN data[x - b1.writePos] ELSE b1.buf[x]
  <2>1. SameSize(b1, Store(b1, data)) /\ Store(b1, data).readPos = b1.readPos
        /\ Store(b1, data).writePos = b1.writePos + Len(data)
    BY <1>4, StoreIsProper
  <2>2. \A x \in 1 .. Len(b1.buf) :
           Store(b1, data).buf[x] = IF x \in b1.writePos + 1 .. b1.writePos + Len(data)
                       THEN data[x - b1.writePos] ELSE b1.buf[x]
    BY <1>4, StoreBytes
  <2> HIDE DEF b2
  <2> QED
    BY <1>3, <1>5, <2>1, <2>2 DEF Unread, SameSize, l
<1> HIDE DEF b2
<1>7. HeaderIs(b2.buf, 0, channel, l)
  <2>1. \A x \in 1 .. 4 : b2.buf[x] = b1.buf[x]
    <3> TAKE x \in 1 .. 4
    <3>1. x \in 1 .. Len(b1.buf) /\ ~ (x \in b1.writePos + 1 .. b1.writePos + Len(data))
      BY <1>1, <1>3
    <3> QED
      BY <1>6, <3>1
  <2> QED
    BY <1>3, <2>1 DEF HeaderIs
<1>8. \A t \in 1 .. l : b2.buf[HEADERLENGTH + t] = data[0 + t]
  <2> TAKE t \in 1 .. l
  <2>1. PICK x \in 1 .. Len(b1.buf) : x = HEADERLENGTH + t /\ x - HEADERLENGTH = t
    BY <1>1, <1>3
  <2>2. x \in b1.writePos + 1 .. b1.writePos + Len(data)
    BY <1>1, <1>3, <2>1 DEF l
  <2>3. b2.buf[x] = data[x - b1.writePos]
    BY <1>6, <2>2
  <2> QED
    BY <1>3, <2>1, <2>3
<1>9. ChunkIs(Unsent(b2), 0, channel, data, 0, l)
  BY <1>1, <1>6, <1>7, <1>8, ChunkOfBuffer
<1>10. StreamBuffer(data, channel) = b2
  BY DEF StreamBuffer, b2, b1, b0, l
<1> QED
  BY <1>6, <1>9, <1>10 DEF l

\* The same where the data is written before the header.
LEMMA BlockChunk ==
  ASSUME WireFits, NEW data \in Seq(Byte), Len(data) <= ChunkSize - HEADERLENGTH,
         NEW num \in Int, NEW channel \in Nat
  PROVE  LET b == Write(CreateNewBuffer, data).b
             c == WriteHeader(b, num, channel, GetDataLength(b) - HEADERLENGTH)
         IN  Unread(c) /\ ChunkIs(Unsent(c), num, channel, data, 0, Len(data))
<1> DEFINE l == Len(data)
           b0 == CreateNewBuffer
           b1 == Write(b0, data).b
           b2 == WriteHeader(b1, num, channel, l)
<1>1. /\ l \in Nat /\ HEADERLENGTH \in Nat /\ 4 <= HEADERLENGTH /\ ChunkSize \in Nat
      /\ ChunkSize < SizeT /\ HEADERLENGTH < ChunkSize /\ l <= ChunkSize - HEADERLENGTH
  BY WireAssumption DEF WireFits
<1>2. Unread(b0) /\ Len(b0.buf) = ChunkSize /\ b0.writePos = HEADERLENGTH
  <2>1. Unread(New(ChunkSize)) /\ Len(New(ChunkSize).buf) = ChunkSize /\ New(ChunkSize).writePos = 0
    BY WireAssumption, NewIsUnread
  <2> QED
    BY <2>1, WireAssumption, WriteHeaderUnread DEF CreateNewBuffer
<1> HIDE DEF b0, l
<1>3. Len(data) <= Len(b0.buf) - b0.writePos /\ Proper(b0) /\ Len(b0.buf) < SizeT
  BY <1>1, <1>2 DEF l, Unread
<1>4. b1 = Store(b0, data)
  BY <1>3, WriteSucceeds
<1>5. /\ Unread(b1) /\ b1.writePos = HEADERLENGTH + l /\ Len(b1.buf) = ChunkSize
      /\ \A x \in 1 .. ChunkSize :
           b1.buf[x] = IF x \in b0.writePos + 1 .. b0.writePos + Len(data)
                       THEN data[x - b0.writePos] ELSE b0.buf[x]
  <2>1. SameSize(b0, Store(b0, data)) /\ Store(b0, data).readPos = b0.readPos
        /\ Store(b0, data).writePos = b0.writePos + Len(data)
    BY <1>3, StoreIsProper
  <2>2. \A x \in 1 .. Len(b0.buf) :
           Store(b0, data).buf[x] = IF x \in b0.writePos + 1 .. b0.writePos + Len(data)
                       THEN data[x - b0.writePos] ELSE b0.buf[x]
    BY <1>3, StoreBytes
  <2> HIDE DEF b1
  <2> QED
    BY <1>2, <1>4, <2>1, <2>2 DEF Unread, SameSize, l
<1> HIDE DEF b1
<1>6. /\ Unread(b2) /\ b2.writePos = HEADERLENGTH + l /\ HeaderIs(b2.buf, num, channel, l)
      /\ \A x \in 5 .. ChunkSize : b2.buf[x] = b1.buf[x]
  <2>1. Len(b1.buf) < SizeT /\ HEADERLENGTH <= Len(b1.buf) /\ ~ (b1.writePos < HEADERLENGTH)
    BY <1>1, <1>5
  <2>2. channel \in Int /\ l \in Int
    BY <1>1
  <2> QED
    BY <1>1, <1>5, <2>1, <2>2, WriteHeaderBytes
<1> HIDE DEF b2
<1>7. \A t \in 1 .. l : b2.buf[HEADERLENGTH + t] = data[0 + t]
  <2> TAKE t \in 1 .. l
  <2>1. PICK x \in 5 .. ChunkSize : x = HEADERLENGTH + t /\ x - HEADERLENGTH = t
    BY <1>1
  <2>2. x \in b0.writePos + 1 .. b0.writePos + Len(data) /\ x \in 1 .. ChunkSize
    BY <1>1, <1>2, <2>1 DEF l
  <2>3. b1.buf[x] = data[x - b0.writePos]
    BY <1>5, <2>2
  <2> QED
    BY <1>2, <1>6, <2>1, <2>3
<1>8. ChunkIs(Unsent(b2), num, channel, data, 0, l)
  BY <1>1, <1>6, <1>7, ChunkOfBuffer
<1>9. GetDataLength(b1) - HEADERLENGTH = l
  BY <1>1, <1>5 DEF GetDataLength
<1> QED
  BY <1>6, <1>8, <1>9 DEF b2, b1, b0, l

\* How many rooms are needed.
LEMMA RoomsNeeded ==
  ASSUME NEW l \in Nat \ {0}, NEW room \in Nat \ {0}
  PROVE  LET q == (l + room - 1) \div room
         IN  /\ q \in 1 .. l /\ l <= room * q
             /\ \A j \in 1 .. q : room * (j - 1) \in Nat /\ room * (j - 1) < l
                                  /\ room * j = room * (j - 1) + room
<1>1. PICK x \in Nat : x = l + room - 1
  OBVIOUS
<1>2. PICK q \in Int, r \in 0 .. room - 1 : q = x \div room /\ x = room * q + r
  BY DivisionIs
<1>3. \A y, z \in Int : /\ y <= z => room * y <= room * z
                        /\ y >= 0 => room * y >= y /\ room * y >= 0
                        /\ room * (y - 1) = room * y - room
  OBVIOUS
<1>4. room * q \in Int /\ l <= room * q /\ room * q - room < l
  BY <1>1, <1>2
<1>5. q >= 1
  <2>1. q <= 0 => room * q <= room * 0
    BY <1>3
  <2> QED
    BY <1>4, <2>1
<1>6. q - 1 < l
  <2>1. q - 1 >= 0 => room * (q - 1) >= q - 1
    BY <1>3
  <2>2. room * (q - 1) = room * q - room
    BY <1>3
  <2> QED
    BY <1>4, <1>5, <2>1, <2>2
<1>7. ASSUME NEW j \in 1 .. q
      PROVE  room * (j - 1) \in Nat /\ room * (j - 1) < l /\ room * j = room * (j - 1) + room
  <2>1. j \in Int /\ j - 1 >= 0 /\ j <= q
    OBVIOUS
  <2>2. /\ room * j <= room * q /\ room * (j - 1) = room * j - room
        /\ room * (j - 1) >= 0 /\ room * j \in Int
    BY <1>3, <2>1
  <2> QED
    BY <1>4, <2>2
<1> QED
  BY <1>1, <1>2, <1>4, <1>5, <1>6, <1>7

\* One of the n pieces that the data is split into.
PieceIs(p, data, n, j, from, l) ==
  /\ p \in Seq(Byte) /\ Len(p) = l /\ l \in 1 .. ChunkSize - HEADERLENGTH
  /\ from = (ChunkSize - HEADERLENGTH) * (j - 1) /\ from \in Nat
  /\ \A t \in 1 .. l : p[t] = data[from + t]
  /\ j < n => l = ChunkSize - HEADERLENGTH /\ (ChunkSize - HEADERLENGTH) * j = from + l
  /\ j = n => from + l = Len(data)
  /\ from + l <= Len(data)

LEMMA PiecesAre ==
  ASSUME NEW data \in Seq(Byte), data # <<>>
  PROVE  LET n == Len(Pieces(data))
         IN  /\ n \in Nat /\ 1 <= n /\ Pieces(data) \in Seq(Seq(Byte))
             /\ (ChunkSize - HEADERLENGTH) * (n - 1) < Len(data)
             /\ Len(data) <= (ChunkSize - HEADERLENGTH) * n
             /\ \A j \in 1 .. n :
                  \E from, l : PieceIs(Pieces(data)[j], data, n, j, from, l)
<1> DEFINE room == ChunkSize - HEADERLENGTH
           size == Len(data)
           n == (size + room - 1) \div room
           piece(i) == SubSeq(data, room * (i - 1) + 1, Smaller(room * i, size))
<1>1. GetAvailableSize(CreateNewBuffer) = room /\ room \in Nat \ {0}
  <2>1. Unread(New(ChunkSize)) /\ Len(New(ChunkSize).buf) = ChunkSize /\ New(ChunkSize).writePos = 0
    BY WireAssumption, NewIsUnread
  <2>2. /\ Unread(CreateNewBuffer) /\ Len(CreateNewBuffer.buf) = ChunkSize
        /\ CreateNewBuffer.writePos = HEADERLENGTH
    BY <2>1, WireAssumption, WriteHeaderUnread DEF CreateNewBuffer
  <2> QED
    BY <2>2, WireAssumption, BytesAssumption, AvailableType DEF Unread
<1>2. size \in Nat \ {0}
  BY EmptySeq
<1> HIDE DEF room, size
<1>3. /\ n \in 1 .. size /\ size <= room * n
      /\ \A j \in 1 .. n : /\ room * (j - 1) \in Nat /\ room * (j - 1) < size
                           /\ room * j = room * (j - 1) + room
  BY <1>1, <1>2, RoomsNeeded
<1>4. Smaller(size, n) = n
  BY <1>2, <1>3 DEF Smaller
<1>5. Pieces(data) = [i \in 1 .. n |-> piece(i)]
  <2>1. Pieces(data) = [i \in 1 .. Smaller(size, n) |-> piece(i)]
    BY <1>1 DEF Pieces, size
  <2> QED
    BY <1>4, <2>1
<1> HIDE DEF n
<1>6. ASSUME NEW j \in 1 .. n
      PROVE  \E from, l : PieceIs(piece(j), data, n, j, from, l)
  <2>1. PICK from \in Nat : from = room * (j - 1) /\ from < size /\ room * j = from + room
    BY <1>3
  <2>2. PICK l \in Nat : from + l = Smaller(room * j, size) /\ l \in 1 .. room /\ from + l <= size
                         /\ (from + room <= size => l = room) /\ (size <= from + room => from + l = size)
    <3> DEFINE l == Smaller(room * j, size) - from
    <3>1. /\ l \in Nat /\ from + l = Smaller(room * j, size) /\ l \in 1 .. room /\ from + l <= size
          /\ (from + room <= size => l = room) /\ (size <= from + room => from + l = size)
      BY <1>1, <1>2, <2>1 DEF Smaller
    <3> QED
      BY <3>1
  <2>3. piece(j) \in Seq(Byte) /\ Len(piece(j)) = l /\ \A t \in 1 .. l : piece(j)[t] = data[from + t]
    <3> DEFINE m == from + 1
               k == from + l
    <3>1. piece(j) = SubSeq(data, m, k)
      BY <2>1, <2>2
    <3>2. /\ m \in Nat /\ k \in Nat /\ m <= k /\ k - m + 1 = l
          /\ \A i \in m .. k : i \in 1 .. Len(data)
          /\ \A t \in 1 .. l : m + t - 1 = from + t
      <4>1. size = Len(data) /\ size \in Nat /\ from \in Nat /\ l \in Nat /\ l >= 1 /\ from + l <= size
        BY <1>2, <2>1, <2>2 DEF size
      <4>2. m \in Nat /\ k \in Nat /\ m <= k /\ k - m + 1 = l
        BY <4>1
      <4>3. \A i \in m .. k : i \in 1 .. size
        BY <4>1
      <4>4. \A t \in 1 .. l : m + t - 1 = from + t
        BY <4>1
      <4> QED
        BY <4>1, <4>2, <4>3, <4>4
    <3> HIDE DEF m, k, piece
    <3>3. /\ SubSeq(data, m, k) \in Seq(Byte) /\ Len(SubSeq(data, m, k)) = l
          /\ \A t \in 1 .. l : SubSeq(data, m, k)[t] = data[m + t - 1]
      BY <3>2, SubSeqProperties
    <3> QED
      BY <3>1, <3>2, <3>3
  <2> HIDE DEF piece
  <2>4. j < n => room * j < size
    <3>1. SUFFICES ASSUME j < n PROVE room * j < size
      OBVIOUS
    <3>2. PICK k \in 1 .. n : k = j + 1 /\ k - 1 = j
      BY <1>3, <3>1
    <3>3. room * (k - 1) < size
      BY <1>3
    <3> QED
      BY <3>2, <3>3
  <2>5. j = n => size <= from + room
    BY <1>3, <2>1
  <2>6. /\ l \in 1 .. room /\ from = room * (j - 1)
        /\ j < n => l = room /\ room * j = from + l
        /\ j = n => from + l = Len(data)
        /\ from + l <= Len(data)
    BY <1>1, <2>1, <2>2, <2>4, <2>5 DEF size
  <2>7. PieceIs(piece(j), data, n, j, from, l)
    BY <2>1, <2>3, <2>6 DEF PieceIs, room
  <2> QED
    BY <2>7
<1>7. Pieces(data) \in Seq(Seq(Byte)) /\ Len(Pieces(data)) = n /\ \A j \in 1 .. n : Pieces(data)[j] = piece(j)
  <2>1. n \in Nat
    BY <1>2, <1>3
  <2> HIDE DEF piece
  <2> QED
    BY <1>5, <2>1, PiecesType
<1> HIDE DEF piece
<1>8. room * (n - 1) < size /\ n \in Nat /\ 1 <= n
  <2>1. n \in 1 .. n
    BY <1>2, <1>3
  <2> QED
    BY <1>2, <1>3, <2>1
<1> QED
  BY <1>3, <1>6, <1>7, <1>8 DEF room, size

\* The buffers that are sent of a message.
BuffersOf(type, channel, data) ==
  IF type = "EVENT_RECIVE_STREAM" THEN <<StreamBuffer(data, channel)>>
  ELSE BlockBuffers(data, channel)
ChunksOf(type, channel, data) == Unsents(BuffersOf(type, channel, data))

\* The j-th of n chunks: the l bytes after the first ones, which the chunks before it have.
ChunkAt(c, type, channel, data, n, j, from, l) ==
  /\ ChunkIs(c, IF type = "EVENT_RECIVE_STREAM" THEN 0 ELSE n - j + 1, channel, data, from, l)
  /\ l \in Nat /\ 1 <= l /\ from \in Nat /\ from + l <= Len(data)
  /\ from = (ChunkSize - HEADERLENGTH) * (j - 1)
  /\ j < n => (ChunkSize - HEADERLENGTH) * j = from + l
  /\ j = n => from + l = Len(data)
  /\ j = 1 => from = 0 /\ Len(data) <= l * n

LEMMA StreamChunks ==
  ASSUME WireFits, NEW data \in Seq(Byte), data # <<>>, Len(data) <= NoteSize, NEW channel \in Nat
  PROVE  LET bs == <<StreamBuffer(data, channel)>>
         IN  /\ bs \in Seq(ProperBuffer) /\ Len(bs) = 1 /\ Unread(bs[1])
             /\ ChunkAt(Unsent(bs[1]), "EVENT_RECIVE_STREAM", channel, data, 1, 1, 0, Len(data))
<1>1. /\ Unread(StreamBuffer(data, channel))
      /\ ChunkIs(Unsent(StreamBuffer(data, channel)), 0, channel, data, 0, Len(data))
  BY StreamChunk
<1>2. StreamBuffer(data, channel) \in ProperBuffer
  BY <1>1, ProperSet DEF Unread
<1>3. Len(data) \in Nat /\ 1 <= Len(data)
  BY EmptySeq
<1>4. (ChunkSize - HEADERLENGTH) * (1 - 1) = 0 /\ Len(data) * 1 = Len(data)
  BY WireAssumption, <1>3
<1> QED
  BY <1>1, <1>2, <1>3, <1>4 DEF ChunkAt

LEMMA BlockChunks ==
  ASSUME WireFits, NEW data \in Seq(Byte), data # <<>>, Len(data) <= NoteSize, NEW channel \in Nat
  PROVE  LET bs == BlockBuffers(data, channel)
             n == Len(bs)
         IN  /\ bs \in Seq(ProperBuffer) /\ n \in 1 .. Base - 1
             /\ \A j \in 1 .. n :
                  /\ Unread(bs[j])
                  /\ \E from, l : ChunkAt(Unsent(bs[j]), "EVENT_RECIVE_BLOCK", channel, data, n, j, from, l)
<1> DEFINE pieces == Pieces(data)
           n == Len(pieces)
           b(i) == Write(CreateNewBuffer, pieces[i]).b
           row(i) == WriteHeader(b(i), n - i + 1, channel, GetDataLength(b(i)) - HEADERLENGTH)
           room == ChunkSize - HEADERLENGTH
<1>1. /\ n \in Nat /\ 1 <= n /\ pieces \in Seq(Seq(Byte))
      /\ room * (n - 1) < Len(data) /\ Len(data) <= room * n
      /\ \A j \in 1 .. n : \E from, l : PieceIs(pieces[j], data, n, j, from, l)
  BY PiecesAre
<1>2. BlockBuffers(data, channel) = [i \in 1 .. n |-> row(i)]
  BY DEF BlockBuffers
<1> HIDE DEF pieces, n
<1>3. n \in 1 .. Base - 1
  <2>1. room \in Nat /\ Base \in Nat \ {0} /\ NoteSize <= room * (Base - 1) /\ NoteSize \in Nat /\ Len(data) \in Nat
    BY WireAssumption, ByteType DEF WireFits
  <2> HIDE DEF room
  <2>2. \A x, y \in Nat : x <= y => room * x <= room * y
    BY <2>1
  <2>3. n - 1 \in Nat /\ Base - 1 \in Nat
    BY <1>1, <2>1
  <2>4. ~ (Base - 1 <= n - 1)
    <3>1. room * (n - 1) \in Nat /\ room * (Base - 1) \in Nat
      BY <2>1, <2>3
    <3>2. ~ (room * (Base - 1) <= room * (n - 1))
      BY <1>1, <2>1, <3>1 DEF room
    <3> QED
      BY <2>2, <2>3, <3>2
  <2> QED
    BY <1>1, <2>1, <2>3, <2>4
<1>4. ASSUME NEW j \in 1 .. n
      PROVE  Unread(row(j)) /\ \E from, l : ChunkAt(Unsent(row(j)), "EVENT_RECIVE_BLOCK", channel, data, n, j, from, l)
  <2>1. PICK from, l : PieceIs(pieces[j], data, n, j, from, l)
    BY <1>1
  <2>2. /\ pieces[j] \in Seq(Byte) /\ Len(pieces[j]) = l /\ l \in 1 .. room
        /\ \A t \in 1 .. l : pieces[j][t] = data[from + t]
    BY <2>1 DEF PieceIs
  <2>3. n - j + 1 \in Int /\ l \in Nat /\ from \in Nat
    BY <1>1, <2>1 DEF PieceIs
  <2> DEFINE p == pieces[j]
             num == n - j + 1
  <2>4. /\ Unread(row(j)) /\ ChunkIs(Unsent(row(j)), num, channel, p, 0, l)
    <3>1. p \in Seq(Byte) /\ Len(p) <= ChunkSize - HEADERLENGTH /\ num \in Int /\ Len(p) = l
      BY <2>2, <2>3
    <3> HIDE DEF p, num
    <3>2. LET c == Write(CreateNewBuffer, p).b
              d == WriteHeader(c, num, channel, GetDataLength(c) - HEADERLENGTH)
          IN  Unread(d) /\ ChunkIs(Unsent(d), num, channel, p, 0, Len(p))
      BY <3>1, BlockChunk
    <3> QED
      BY <3>1, <3>2 DEF p, num
  <2>5. ChunkIs(Unsent(row(j)), num, channel, data, from, l)
    <3> HIDE DEF row, num
    <3>1. \A t \in 1 .. l : 0 + t = t
      BY <2>3
    <3> QED
      BY <2>2, <2>4, <3>1 DEF ChunkIs
  <2> HIDE DEF row
  <2>6. j = 1 => from = 0 /\ Len(data) <= l * n
    <3>1. SUFFICES ASSUME j = 1 PROVE from = 0 /\ Len(data) <= l * n
      OBVIOUS
    <3>2. room * (1 - 1) = 0
      BY WireAssumption
    <3>3. from = 0
      BY <2>1, <3>1, <3>2 DEF PieceIs
    <3>4. CASE j < n
      <4>1. l = room
        BY <2>1, <3>4 DEF PieceIs
      <4> QED
        BY <1>1, <3>3, <4>1
    <3>5. CASE j = n
      <4>1. from + l = Len(data) /\ l * n = l
        BY <2>1, <2>3, <3>1, <3>5 DEF PieceIs
      <4> QED
        BY <2>3, <3>3, <4>1
    <3> QED
      BY <1>1, <3>4, <3>5
  <2>7. ChunkAt(Unsent(row(j)), "EVENT_RECIVE_BLOCK", channel, data, n, j, from, l)
    <3>1. /\ l \in Nat /\ 1 <= l /\ from \in Nat /\ from + l <= Len(data) /\ from = room * (j - 1)
          /\ j < n => room * j = from + l
          /\ j = n => from + l = Len(data)
      BY <2>1, <2>3 DEF PieceIs
    <3> QED
      BY <2>5, <2>6, <3>1 DEF ChunkAt
  <2> QED
    BY <2>4, <2>7
<1>5. Len([i \in 1 .. n |-> row(i)]) = n /\ \A j \in 1 .. n : [i \in 1 .. n |-> row(i)][j] = row(j)
  <2> HIDE DEF row
  <2> QED
    BY <1>1
<1> HIDE DEF row
<1> QED
  BY <1>2, <1>3, <1>4, <1>5, BlockBuffersType

LEMMA MessageChunks ==
  ASSUME WireFits, NEW data \in Seq(Byte), data # <<>>, Len(data) <= NoteSize, NEW channel \in Nat,
         NEW type \in {"EVENT_RECIVE_BLOCK", "EVENT_RECIVE_STREAM"}
  PROVE  LET cs == ChunksOf(type, channel, data)
             n == Len(cs)
         IN  /\ BuffersOf(type, channel, data) \in Seq(ProperBuffer)
             /\ cs \in Seq(Seq(Byte)) /\ n \in 1 .. Base - 1
             /\ type = "EVENT_RECIVE_STREAM" => n = 1
             /\ \A j \in 1 .. n : \E from, l : ChunkAt(cs[j], type, channel, data, n, j, from, l)
<1> DEFINE bs == BuffersOf(type, channel, data)
           n == Len(bs)
           cs == Unsents(bs)
<1>1. /\ bs \in Seq(ProperBuffer) /\ n \in 1 .. Base - 1
      /\ type = "EVENT_RECIVE_STREAM" => n = 1
      /\ \A j \in 1 .. n : /\ Unread(bs[j])
                           /\ \E from, l : ChunkAt(Unsent(bs[j]), type, channel, data, n, j, from, l)
  <2>1. CASE type = "EVENT_RECIVE_STREAM"
    <3>1. bs = <<StreamBuffer(data, channel)>>
      BY <2>1 DEF BuffersOf
    <3>2. /\ bs \in Seq(ProperBuffer) /\ Len(bs) = 1 /\ Unread(bs[1])
          /\ ChunkAt(Unsent(bs[1]), "EVENT_RECIVE_STREAM", channel, data, 1, 1, 0, Len(data))
      BY <3>1, StreamChunks
    <3> HIDE DEF bs
    <3>3. 1 \in 1 .. Base - 1
      <4>1. Base # 1
        <5>1. PICK k \in Nat : ByteBits = k + 1
          <6>1. ByteBits - 1 \in Nat
            BY BytesAssumption
          <6> QED
            BY <6>1, BytesAssumption
        <5>2. 2 ^ (k + 1) = 2 * 2 ^ k /\ 2 ^ k \in Nat
          BY PowerStep, PowerOfTwo
        <5> QED
          BY <5>1, <5>2 DEF Base
      <4> QED
        BY <4>1, ByteType
    <3> QED
      BY <2>1, <3>2, <3>3
  <2>2. CASE type = "EVENT_RECIVE_BLOCK"
    <3>1. bs = BlockBuffers(data, channel)
      BY <2>2 DEF BuffersOf
    <3> QED
      BY <2>2, <3>1, BlockChunks
  <2> QED
    BY <2>1, <2>2
<1> HIDE DEF bs
<1>2. cs = [i \in 1 .. n |-> Unsent(bs[i])]
  BY DEF Unsents
<1>3. \A j \in 1 .. n : Unsent(bs[j]) \in Seq(Byte)
  BY <1>1, UnsentOfUnread
<1>4. cs \in Seq(Seq(Byte)) /\ Len(cs) = n /\ \A j \in 1 .. n : cs[j] = Unsent(bs[j])
  <2>1. n \in Nat
    BY <1>1, ByteType
  <2> HIDE DEF n
  <2> QED
    BY <1>2, <1>3, <2>1
<1> HIDE DEF cs
<1> QED
  BY <1>1, <1>4 DEF ChunksOf, cs, bs

\* The bytes of a field and of a message.
Width(f) ==
  IF f.type \in {"uint8", "int8"} THEN 1 ELSE IF f.type \in {"uint16", "int16"} THEN 2 ELSE 4
FieldRow(f) == IF f.type = "data" THEN f.value ELSE Htonl(f.value, Width(f))
FieldRows(fs) == [k \in 1 .. Len(fs) |-> FieldRow(fs[k])]
Row(fs) == FlattenSeq(FieldRows(fs))

LEMMA FieldRowType ==
  ASSUME WireFits, NEW f \in Fields
  PROVE  FieldRow(f) \in Seq(Byte) /\ Len(FieldRow(f)) \in Nat \ {0}
<1>1. Width(f) \in {1, 2, 4}
  BY DEF Width
<1>2. CASE f.type = "data"
  <2>1. f.value \in Seq(Byte) /\ f.value # <<>>
    BY <1>2, WireAssumption DEF WireFits, FieldFits
  <2> QED
    BY <1>2, <2>1, EmptySeq DEF FieldRow
<1>3. CASE f.type # "data"
  <2>1. f.value \in Int
    BY <1>3, WireAssumption
  <2>2. Width(f) \in Nat \ {0}
    BY <1>1
  <2> HIDE DEF Width
  <2> QED
    BY <1>3, <2>1, <2>2, HtonlType DEF FieldRow
<1> QED
  BY <1>2, <1>3

LEMMA FieldRowsType ==
  ASSUME WireFits, NEW fs \in Seq(Fields)
  PROVE  /\ FieldRows(fs) \in Seq(Seq(Byte)) /\ Row(fs) \in Seq(Byte)
         /\ Len(FieldRows(fs)) = Len(fs)
         /\ \A k \in 1 .. Len(fs) : FieldRows(fs)[k] = FieldRow(fs[k])
<1>1. \A k \in 1 .. Len(fs) : FieldRow(fs[k]) \in Seq(Byte)
  BY FieldRowType
<1>2. /\ FieldRows(fs) \in Seq(Seq(Byte)) /\ Len(FieldRows(fs)) = Len(fs)
      /\ \A k \in 1 .. Len(fs) : FieldRows(fs)[k] = FieldRow(fs[k])
  BY <1>1 DEF FieldRows
<1> QED
  BY <1>2, FlattenType DEF Row

LEMMA PutIs ==
  ASSUME WireFits, NEW b, NEW f \in Fields
  PROVE  Put(b, f) = Write(b, FieldRow(f))
<1>1. CASE f.type = "data"
  BY <1>1 DEF Put, FieldRow
<1>2. CASE f.type # "data"
  <2>1. f.type \in {"uint8", "uint16", "uint32", "int8", "int16", "int32"}
    BY <1>2, WireAssumption
  <2> QED
    BY <2>1 DEF Put, FieldRow, Width, PutNumber,
       WriteUint8, WriteUint16, WriteUint32, WriteInt8, WriteInt16, WriteInt32
<1> QED
  BY <1>1, <1>2

\* The row of a message with one field more.
LEMMA RowAppend ==
  ASSUME WireFits, NEW fs \in Seq(Fields), NEW f \in Fields
  PROVE  Row(Append(fs, f)) = Row(fs) \o FieldRow(f) /\ Append(fs, f) \in Seq(Fields)
<1>1. Append(fs, f) \in Seq(Fields)
  OBVIOUS
<1>2. FieldRow(f) \in Seq(Byte) /\ FieldRows(fs) \in Seq(Seq(Byte)) /\ Len(FieldRows(fs)) = Len(fs)
  BY FieldRowType, FieldRowsType
<1> DEFINE s == FieldRows(Append(fs, f))
           t == Append(FieldRows(fs), FieldRow(f))
<1>3. /\ s \in Seq(Seq(Byte)) /\ Len(s) = Len(fs) + 1
      /\ \A k \in 1 .. Len(fs) + 1 : s[k] = FieldRow(Append(fs, f)[k])
  <2> DEFINE g == Append(fs, f)
  <2>1. g \in Seq(Fields) /\ Len(g) = Len(fs) + 1
    OBVIOUS
  <2> HIDE DEF g
  <2>2. /\ FieldRows(g) \in Seq(Seq(Byte)) /\ Len(FieldRows(g)) = Len(g)
        /\ \A k \in 1 .. Len(g) : FieldRows(g)[k] = FieldRow(g[k])
    BY <2>1, FieldRowsType
  <2> QED
    BY <2>1, <2>2 DEF g
<1>4. t \in Seq(Seq(Byte)) /\ Len(t) = Len(fs) + 1
      /\ (\A k \in 1 .. Len(fs) : t[k] = FieldRows(fs)[k]) /\ t[Len(fs) + 1] = FieldRow(f)
  <2>1. t \in Seq(Seq(Byte)) /\ LongerBy(t, FieldRows(fs), FieldRow(f))
    BY <1>2, RowLonger
  <2> HIDE DEF t
  <2> QED
    BY <1>2, <2>1 DEF LongerBy
<1> HIDE DEF s, t
<1>5. \A k \in 1 .. Len(fs) + 1 : s[k] = t[k]
  <2> TAKE k \in 1 .. Len(fs) + 1
  <2>1. CASE k = Len(fs) + 1
    <3>1. Append(fs, f)[k] = f
      BY <2>1
    <3> QED
      BY <1>3, <1>4, <2>1, <3>1
  <2>2. CASE k \in 1 .. Len(fs)
    <3>1. Append(fs, f)[k] = fs[k]
      BY <2>2
    <3>2. s[k] = FieldRow(fs[k])
      BY <1>3, <3>1
    <3>3. FieldRows(fs)[k] = FieldRow(fs[k])
      BY <2>2, FieldRowsType
    <3> QED
      BY <1>4, <2>2, <3>2, <3>3
  <2> QED
    BY <2>1, <2>2
<1>6. s = t
  BY <1>3, <1>4, <1>5, SeqEqual
<1>7. FlattenSeq(t) = FlattenSeq(FieldRows(fs)) \o FieldRow(f)
  BY <1>2, FlattenAppend DEF t
<1> QED
  BY <1>1, <1>6, <1>7 DEF Row, s

-----------------------------------------------------------------------------

\* A field read where it was written.
LEMMA GetIs ==
  ASSUME WireFits, NEW b, Proper(b), Len(b.buf) < SizeT, NEW f \in Fields,
         b.readPos + Len(FieldRow(f)) <= b.writePos,
         \A t \in 1 .. Len(FieldRow(f)) : b.buf[b.readPos + t] = FieldRow(f)[t]
  PROVE  Get(b, f).ret = f.value /\ Get(b, f).b = Advanced(b, Len(FieldRow(f)))
<1>1. CASE f.type = "data"
  <2>1. PICK s \in Seq(Byte) : s = f.value /\ s = FieldRow(f) /\ s # <<>>
    BY <1>1, WireAssumption DEF WireFits, FieldFits, FieldRow
  <2>2. Len(s) \in Nat /\ 1 <= Len(s)
    BY <2>1, EmptySeq
  <2> DEFINE d == SubSeq(b.buf, b.readPos + 1, b.readPos + Len(s))
  <2>3. d = s
    <3>1. PICK row \in Seq(Byte), p \in Nat, n \in Nat :
            row = b.buf /\ p = b.readPos /\ n = Len(s) /\ p + n <= Len(row)
      BY <2>1, <2>2, ProperFacts
    <3>2. d \in Seq(Byte) /\ PartOf(d, row, p, n)
      BY <3>1, RowPart
    <3> HIDE DEF d
    <3>3. Len(d) = Len(s) /\ \A t \in 1 .. Len(d) : d[t] = s[t]
      BY <2>1, <3>1, <3>2 DEF PartOf
    <3> QED
      BY <2>1, <3>2, <3>3, SeqEqual
  <2>4. /\ Read(b, Len(s)).b = Advanced(b, Len(s)) /\ Read(b, Len(s)).data = d
    BY <2>1, <2>2, ReadSucceeds
  <2> HIDE DEF d
  <2> DEFINE r == Read(b, Len(s))
  <2>5. Get(b, f) = [ret |-> r.data, b |-> r.b]
    BY <1>1, <2>1 DEF Get
  <2> HIDE DEF r
  <2>6. r.data = s /\ r.b = Advanced(b, Len(s))
    BY <2>3, <2>4 DEF r
  <2>7. Get(b, f).ret = s /\ Get(b, f).b = Advanced(b, Len(s))
    BY <2>5, <2>6
  <2> QED
    BY <2>1, <2>7
<1>2. CASE f.type # "data"
  <2>1. /\ f.type \in {"uint8", "uint16", "uint32", "int8", "int16", "int32"} /\ f.value \in Int
    BY <1>2, WireAssumption
  <2>2. PICK w \in {1, 2, 4} : w = Width(f)
    BY DEF Width
  <2>3. FieldRow(f) = Htonl(f.value, w) /\ Len(FieldRow(f)) = w /\ w \in Nat \ {0}
    <3>1. w \in Nat \ {0}
      OBVIOUS
    <3>2. FieldRow(f) = Htonl(f.value, w)
      BY <1>2, <2>2 DEF FieldRow
    <3> QED
      BY <2>1, <3>1, <3>2, HtonlType
  <2>4. GetNumber(b, w).ret = f.value % Limit(w) /\ GetNumber(b, w).b = Advanced(b, w)
    <3>1. /\ b.readPos + w <= b.writePos
          /\ \A t \in 1 .. w : b.buf[b.readPos + t] = Htonl(f.value, w)[t]
      BY <2>3
    <3> QED
      BY <2>1, <2>3, <3>1, GetNumberIs
  <2>5. CASE f.type \in {"uint8", "uint16", "uint32"}
    <3>1. f.value \in 0 .. Limit(w) - 1
      BY <2>2, <2>5 DEF WireFits, FieldFits, Width
    <3>2. f.value % Limit(w) = f.value
      BY <2>1, <2>3, <3>1, NumberOfBytes
    <3>3. Get(b, f) = GetNumber(b, w)
      BY <2>2, <2>5 DEF Get, ReadUint8, ReadUint16, ReadUint32, Width
    <3> QED
      BY <2>3, <2>4, <3>2, <3>3
  <2>6. CASE f.type \in {"int8", "int16", "int32"}
    <3>1. -Limit(w) <= 2 * f.value /\ 2 * f.value < Limit(w)
      BY <2>2, <2>6 DEF WireFits, FieldFits, Width
    <3>2. Signed(f.value % Limit(w), w) = f.value
      BY <2>1, <2>3, <3>1, NumberOfBytes
    <3>3. Get(b, f) = GetSigned(b, w)
      BY <2>2, <2>6 DEF Get, ReadInt8, ReadInt16, ReadInt32, Width
    <3>4. GetNumber(b, w) = [ret |-> GetNumber(b, w).ret, b |-> GetNumber(b, w).b]
      BY DEF GetNumber
    <3>5. GetSigned(b, w).ret = Signed(GetNumber(b, w).ret, w) /\ GetSigned(b, w).b = GetNumber(b, w).b
      <4> DEFINE r == GetNumber(b, w)
      <4>1. GetSigned(b, w) = [r EXCEPT !.ret = Signed(r.ret, w)]
        BY DEF GetSigned
      <4> HIDE DEF r
      <4>2. r = [ret |-> r.ret, b |-> r.b]
        BY <3>4 DEF r
      <4> QED
        BY <4>1, <4>2 DEF r
    <3> QED
      BY <2>3, <2>4, <3>2, <3>3, <3>5
  <2> QED
    BY <2>1, <2>5, <2>6
<1> QED
  BY <1>1, <1>2

\* The fold of ReadFields.
FieldFold(g, b, fs, n) ==
  g = [S \in SUBSET (1 .. n) |->
         IF S = {} THEN [b |-> b, fields |-> <<>>]
         ELSE LET x == Max(S) IN ReadStep(g[S \ {x}], fs[x])]

LEMMA FieldFoldSteps ==
  ASSUME NEW b, NEW fs, NEW n \in Nat, DOMAIN fs = 1 .. n
  PROVE  \E g : /\ ReadFields(b, fs) = g[1 .. n].fields
                /\ g[1 .. 0] = [b |-> b, fields |-> <<>>]
                /\ \A m \in 1 .. n : g[1 .. m] = ReadStep(g[1 .. m - 1], fs[m])
<1> DEFINE base == [b |-> b, fields |-> <<>>]
           h == CHOOSE g : FieldFold(g, b, fs, n)
<1>1. PICK f : FoldIs(f, "fields", base, fs, n)
  BY FoldExists
<1>2. FieldFold(f, b, fs, n)
  BY <1>1 DEF FoldIs, FoldStep, FieldFold
<1>3. FieldFold(h, b, fs, n)
  BY <1>2
<1>4. FoldIs(h, "fields", base, fs, n)
  <2> HIDE DEF h
  <2> QED
    BY <1>3 DEF FoldIs, FoldStep, FieldFold
<1>5. ReadFields(b, fs) = h[1 .. n].fields
  BY DEF ReadFields, FoldLeft, MapThenFoldSet, FieldFold, ReadStep
<1> HIDE DEF h, base
<1>6. /\ h[1 .. 0] = base
      /\ \A m \in 1 .. n : h[1 .. m] = FoldStep("fields", h[1 .. m - 1], fs[m])
  BY <1>4, FoldOfFirst
<1>7. h[1 .. 0] = base /\ \A m \in 1 .. n : h[1 .. m] = ReadStep(h[1 .. m - 1], fs[m])
  BY <1>6 DEF FoldStep
<1> QED
  BY <1>5, <1>7 DEF base

LEMMA SameField ==
  ASSUME NEW f \in Fields
  PROVE  [f EXCEPT !.value = f.value] = f
<1>1. CASE f \in [type : {"uint8", "uint16", "uint32", "int8", "int16", "int32"}, value : Int]
  BY <1>1
<1>2. CASE f \in [type : {"data"}, value : Seq(Byte)]
  BY <1>2
<1> QED
  BY <1>1, <1>2, WireAssumption

\* The same buffer, read up to a position.
ReadTo(c, b, p) ==
  Proper(c) /\ c.buf = b.buf /\ c.writePos = b.writePos /\ c.readPos = p

LEMMA ReadFieldsIs ==
  ASSUME WireFits, NEW b, Unread(b), Len(b.buf) < SizeT, NEW fs \in Seq(Fields),
         Holds(b, Row(fs))
  PROVE  ReadFields(b, fs) = fs
<1> DEFINE n == Len(fs)
           rows == FieldRows(fs)
           pos(m) == Len(Upto(rows, m))
<1>1. n \in Nat /\ DOMAIN fs = 1 .. n
  OBVIOUS
<1>2. PICK g : /\ ReadFields(b, fs) = g[1 .. n].fields
               /\ g[1 .. 0] = [b |-> b, fields |-> <<>>]
               /\ \A m \in 1 .. n : g[1 .. m] = ReadStep(g[1 .. m - 1], fs[m])
  BY <1>1, FieldFoldSteps
<1>3. /\ rows \in Seq(Seq(Byte)) /\ Len(rows) = n /\ Row(fs) = FlattenSeq(rows)
      /\ \A m \in 1 .. n : rows[m] = FieldRow(fs[m])
  BY FieldRowsType DEF Row
<1> HIDE DEF n, rows
<1> DEFINE good(m) == ReadTo(g[1 .. m].b, b, pos(m)) /\ g[1 .. m].fields = SubSeq(fs, 1, m)
           bad == {m \in Nat : m <= n /\ ~ good(m)}
<1>4. good(0)
  <2>1. g[1 .. 0].b = b /\ g[1 .. 0].fields = <<>>
    BY <1>2
  <2>2. SubSeq(fs, 1, 0) = <<>>
    BY SubSeqEmpty
  <2>3. Upto(rows, 0) = <<>>
    <3>1. SubSeq(rows, 1, 0) = <<>>
      BY SubSeqEmpty
    <3> QED
      BY <3>1 DEF Upto, FlattenSeq
  <2>4. pos(0) = 0
    BY <2>3
  <2> HIDE DEF pos
  <2> QED
    BY <2>1, <2>2, <2>4 DEF Unread, ReadTo
<1>5. ASSUME NEW m \in 1 .. n, good(m - 1)
      PROVE  good(m)
  <2> DEFINE c == g[1 .. m - 1].b
             f == fs[m]
             r == FieldRow(f)
             p == pos(m - 1)
  <2>1. f \in Fields /\ r = rows[m]
    BY <1>1, <1>3 DEF n
  <2>2. r \in Seq(Byte) /\ Len(r) \in Nat
    BY <2>1, FieldRowType
  <2>3. /\ p \in Nat /\ p + Len(r) <= Len(Row(fs))
        /\ \A t \in 1 .. Len(r) : Row(fs)[p + t] = r[t]
        /\ pos(m) = p + Len(r)
    <3>1. m \in 1 .. Len(rows)
      BY <1>3
    <3> HIDE DEF r
    <3>2. /\ p \in Nat /\ p + Len(rows[m]) <= Len(FlattenSeq(rows))
          /\ \A t \in 1 .. Len(rows[m]) : FlattenSeq(rows)[p + t] = rows[m][t]
      BY <1>3, <3>1, RowIsAt
    <3>3. pos(m) = p + Len(rows[m])
      BY <1>3, <3>1, UptoStep
    <3> QED
      BY <1>3, <2>1, <3>2, <3>3
  <2> HIDE DEF r, pos, p, c, f
  <2>4. ReadTo(c, b, p)
    BY <1>5 DEF c, p
  <2>5. \A t \in 1 .. Len(r) : c.buf[p + t] = r[t]
    <3> TAKE t \in 1 .. Len(r)
    <3>1. p + t \in 1 .. Len(Row(fs))
      BY <2>2, <2>3
    <3> QED
      BY <2>3, <2>4, <3>1 DEF Holds, ReadTo
  <2>6. Len(c.buf) < SizeT /\ Proper(c) /\ c.readPos + Len(r) <= c.writePos /\ c.readPos = p
    BY <2>3, <2>4 DEF ReadTo, Holds
  <2>7. Get(c, f).ret = f.value /\ Get(c, f).b = Advanced(c, Len(r))
    BY <2>1, <2>5, <2>6, GetIs DEF r
  <2>8. /\ Proper(Advanced(c, Len(r))) /\ Advanced(c, Len(r)).buf = c.buf
        /\ Advanced(c, Len(r)).readPos = p + Len(r) /\ Advanced(c, Len(r)).writePos = c.writePos
    BY <2>2, <2>6, ReadSucceeds
  <2>9. ReadTo(Advanced(c, Len(r)), b, pos(m))
    BY <2>3, <2>4, <2>8 DEF ReadTo
  <2>10. g[1 .. m].b = Advanced(c, Len(r)) /\ g[1 .. m].fields = Append(SubSeq(fs, 1, m - 1), f)
    <3>1. g[1 .. m] = ReadStep(g[1 .. m - 1], f)
      BY <1>2 DEF f
    <3> DEFINE x == Get(c, f)
    <3> HIDE DEF x
    <3>2. g[1 .. m] = [b |-> x.b, fields |-> Append(g[1 .. m - 1].fields, [f EXCEPT !.value = x.ret])]
      BY <3>1 DEF ReadStep, c, x
    <3>3. x.b = Advanced(c, Len(r)) /\ [f EXCEPT !.value = x.ret] = f
      BY <2>1, <2>7, SameField DEF x
    <3>4. g[1 .. m].b = x.b /\ g[1 .. m].fields = Append(g[1 .. m - 1].fields, [f EXCEPT !.value = x.ret])
      BY <3>2
    <3>5. g[1 .. m - 1].fields = SubSeq(fs, 1, m - 1)
      BY <1>5
    <3> QED
      BY <3>3, <3>4, <3>5
  <2>11. Append(SubSeq(fs, 1, m - 1), f) = SubSeq(fs, 1, m)
    <3>1. SubSeq(fs, 1, m) = SubSeq(fs, 1, m - 1) \o <<fs[m]>>
      BY SubSeqRecursiveSecond DEF n
    <3>2. SubSeq(fs, 1, m - 1) \in Seq(Fields)
      <4>1. \A i \in 1 .. m - 1 : fs[i] \in Fields
        BY DEF n
      <4> QED
        BY <4>1, SubSeqProperties
    <3> QED
      BY <2>1, <3>1, <3>2, AppendIsConcat DEF f
  <2> QED
    BY <2>9, <2>10, <2>11
<1> HIDE DEF good
<1>6. bad = {}
  <2>1. SUFFICES ASSUME bad # {} PROVE FALSE
    OBVIOUS
  <2>2. PICK m \in bad : \A k \in bad : m <= k
    BY <2>1, LeastNumber
  <2>3. m \in 1 .. n /\ m - 1 \in Nat /\ m - 1 \notin bad /\ ~ good(m)
    <3>1. m \in Nat /\ m <= n /\ m # 0
      BY <1>4, <2>2
    <3> QED
      BY <2>2, <3>1
  <2>4. good(m - 1)
    <3>1. m - 1 <= n
      BY <1>1, <2>3 DEF n
    <3> QED
      BY <2>3, <3>1
  <2> QED
    BY <1>5, <2>3, <2>4
<1>7. good(n)
  <2>1. n \in Nat /\ n \notin bad
    BY <1>1, <1>6 DEF n
  <2> QED
    BY <2>1
<1>8. SubSeq(fs, 1, n) = fs
  BY SubSeqFull DEF n
<1> QED
  BY <1>2, <1>7, <1>8 DEF good

\* The chunks and the bytes of a message, and of messages one after the other.
Chunks(m) == ChunksOf(m.type, m.channel, Row(m.fields))
Encodings(ms) == [k \in 1 .. Len(ms) |-> FlattenSeq(Chunks(ms[k]))]
AllBytes(ms) == FlattenSeq(Encodings(ms))

\* Where the i-th message begins, and where the j-th chunk of a message does.
MessageStart(ms, i) == Len(Upto(Encodings(ms), i - 1))
ChunkStart(m, j) == Len(Upto(Chunks(m), j - 1))

ChunkBegin(ms, i, j) == MessageStart(ms, i) + ChunkStart(ms[i], j)

ProperMessage ==
  {m \in Message : Row(m.fields) # <<>> /\ Len(Row(m.fields)) <= NoteSize}

IsChunk(m, j, from, l) ==
  /\ j \in 1 .. Len(Chunks(m))
  /\ ChunkAt(Chunks(m)[j], m.type, m.channel, Row(m.fields), Len(Chunks(m)), j, from, l)

LEMMA ChunksType ==
  ASSUME WireFits, NEW m \in ProperMessage
  PROVE  /\ Chunks(m) \in Seq(Seq(Byte)) /\ Len(Chunks(m)) \in 1 .. Base - 1
         /\ m.type = "EVENT_RECIVE_STREAM" => Len(Chunks(m)) = 1
         /\ \A j \in 1 .. Len(Chunks(m)) : \E from, l : IsChunk(m, j, from, l)
         /\ BuffersOf(m.type, m.channel, Row(m.fields)) \in Seq(ProperBuffer)
         /\ Row(m.fields) \in Seq(Byte)
         /\ FlattenSeq(Chunks(m)) \in Seq(Byte)
<1>1. /\ m.fields \in Seq(Fields) /\ m.channel \in Nat /\ m.channel \in Channels
      /\ m.type \in {"EVENT_RECIVE_BLOCK", "EVENT_RECIVE_STREAM"}
      /\ Row(m.fields) # <<>> /\ Len(Row(m.fields)) <= NoteSize
  BY WireAssumption DEF ProperMessage, Message
<1>2. Row(m.fields) \in Seq(Byte)
  BY <1>1, FieldRowsType
<1> DEFINE type == m.type
           channel == m.channel
           data == Row(m.fields)
           cs == ChunksOf(type, channel, data)
<1>3. /\ BuffersOf(type, channel, data) \in Seq(ProperBuffer)
      /\ cs \in Seq(Seq(Byte)) /\ Len(cs) \in 1 .. Base - 1
      /\ type = "EVENT_RECIVE_STREAM" => Len(cs) = 1
      /\ \A j \in 1 .. Len(cs) : \E from, l : ChunkAt(cs[j], type, channel, data, Len(cs), j, from, l)
  <2> HIDE DEF type, channel, data
  <2> QED
    BY <1>1, <1>2, MessageChunks DEF type, channel, data
<1>4. Chunks(m) = cs
  BY DEF Chunks
<1> HIDE DEF cs
<1>5. FlattenSeq(cs) \in Seq(Byte)
  BY <1>3, FlattenType
<1> QED
  BY <1>2, <1>3, <1>4, <1>5 DEF IsChunk

LEMMA EncodingsType ==
  ASSUME WireFits, NEW ms \in Seq(ProperMessage)
  PROVE  /\ Encodings(ms) \in Seq(Seq(Byte)) /\ Len(Encodings(ms)) = Len(ms)
         /\ AllBytes(ms) \in Seq(Byte)
         /\ \A i \in 1 .. Len(ms) : Encodings(ms)[i] = FlattenSeq(Chunks(ms[i]))
         /\ MessageStart(ms, Len(ms) + 1) = Len(AllBytes(ms))
<1>1. \A k \in 1 .. Len(ms) : FlattenSeq(Chunks(ms[k])) \in Seq(Byte)
  BY ChunksType
<1>2. /\ Encodings(ms) \in Seq(Seq(Byte)) /\ Len(Encodings(ms)) = Len(ms)
      /\ \A i \in 1 .. Len(ms) : Encodings(ms)[i] = FlattenSeq(Chunks(ms[i]))
  BY <1>1 DEF Encodings
<1>3. AllBytes(ms) \in Seq(Byte)
  BY <1>2, FlattenType DEF AllBytes
<1>4. MessageStart(ms, Len(ms) + 1) = Len(AllBytes(ms))
  <2> DEFINE e == Encodings(ms)
             n == Len(ms)
  <2>1. e \in Seq(Seq(Byte)) /\ Len(e) = n /\ n \in Nat
    BY <1>2
  <2>2. MessageStart(ms, n + 1) = Len(Upto(e, n + 1 - 1)) /\ AllBytes(ms) = FlattenSeq(e)
    BY DEF MessageStart, AllBytes
  <2> HIDE DEF e, n
  <2>3. Upto(e, Len(e)) = FlattenSeq(e)
    BY <2>1, SubSeqFull DEF Upto
  <2>4. n + 1 - 1 = n
    BY <2>1
  <2>5. MessageStart(ms, n + 1) = Len(AllBytes(ms))
    BY <2>1, <2>2, <2>3, <2>4
  <2> QED
    BY <2>5 DEF n
<1> QED
  BY <1>2, <1>3, <1>4

\* Where a chunk is found among all the bytes.
ChunkFound(ms, i, j, l) ==
  LET start == ChunkBegin(ms, i, j)
      end   == start + HEADERLENGTH + l
      c     == Chunks(ms[i])[j]
  IN  /\ start \in Nat /\ end <= Len(AllBytes(ms))
      /\ \A x \in 1 .. HEADERLENGTH + l : AllBytes(ms)[start + x] = c[x]
      /\ j = 1 => start = MessageStart(ms, i)
      /\ j < Len(Chunks(ms[i])) => end = ChunkBegin(ms, i, j + 1)
      /\ j = Len(Chunks(ms[i])) => end = MessageStart(ms, i + 1)

LEMMA ChunkIsAt ==
  ASSUME WireFits, NEW ms \in Seq(ProperMessage), NEW i \in 1 .. Len(ms),
         NEW j, NEW from, NEW l, IsChunk(ms[i], j, from, l)
  PROVE  ChunkFound(ms, i, j, l)
<1> DEFINE m == ms[i]
           cs == Chunks(m)
           c == cs[j]
           u == FlattenSeq(cs)
           a == MessageStart(ms, i)
           b == ChunkStart(m, j)
           all == AllBytes(ms)
           n == Len(cs)
<1>1. m \in ProperMessage
  OBVIOUS
<1>2. cs \in Seq(Seq(Byte)) /\ u \in Seq(Byte) /\ n \in Nat
  <2> HIDE DEF m
  <2>1. Chunks(m) \in Seq(Seq(Byte)) /\ FlattenSeq(Chunks(m)) \in Seq(Byte)
    BY <1>1, ChunksType
  <2> QED
    BY <2>1
<1>3. j \in 1 .. n /\ c \in Seq(Byte) /\ Len(c) = HEADERLENGTH + l /\ l \in Nat /\ HEADERLENGTH \in Nat
  BY WireAssumption DEF IsChunk, ChunkAt, ChunkIs
<1>4. /\ Encodings(ms) \in Seq(Seq(Byte)) /\ Len(Encodings(ms)) = Len(ms)
      /\ Encodings(ms)[i] = u /\ all = FlattenSeq(Encodings(ms))
  BY EncodingsType DEF AllBytes
<1>5. /\ a \in Nat /\ a + Len(u) <= Len(all) /\ \A x \in 1 .. Len(u) : all[a + x] = u[x]
      /\ MessageStart(ms, i + 1) = a + Len(u)
  <2> DEFINE e == Encodings(ms)
  <2>1. e \in Seq(Seq(Byte)) /\ i \in 1 .. Len(e) /\ e[i] = u /\ all = FlattenSeq(e)
    BY <1>4
  <2> HIDE DEF e, u, all
  <2>2. /\ Len(Upto(e, i - 1)) \in Nat /\ Len(Upto(e, i - 1)) + Len(e[i]) <= Len(FlattenSeq(e))
        /\ \A x \in 1 .. Len(e[i]) : FlattenSeq(e)[Len(Upto(e, i - 1)) + x] = e[i][x]
    BY <2>1, RowIsAt
  <2>3. Len(Upto(e, i)) = Len(Upto(e, i - 1)) + Len(e[i])
    BY <2>1, UptoStep
  <2>4. i + 1 - 1 = i
    OBVIOUS
  <2> QED
    BY <2>1, <2>2, <2>3, <2>4 DEF MessageStart, e
<1> HIDE DEF a, all
<1>6. /\ b \in Nat /\ b + Len(c) <= Len(u) /\ \A x \in 1 .. Len(c) : u[b + x] = c[x]
      /\ ChunkStart(m, j + 1) = b + Len(c)
      /\ j = n => b + Len(c) = Len(u)
      /\ j = 1 => b = 0
  <2> HIDE DEF m, cs, u, c
  <2>1. /\ Len(Upto(cs, j - 1)) \in Nat /\ Len(Upto(cs, j - 1)) + Len(cs[j]) <= Len(FlattenSeq(cs))
        /\ \A x \in 1 .. Len(cs[j]) : FlattenSeq(cs)[Len(Upto(cs, j - 1)) + x] = cs[j][x]
    BY <1>2, <1>3, RowIsAt
  <2>2. /\ Len(Upto(cs, j)) = Len(Upto(cs, j - 1)) + Len(cs[j])
        /\ Upto(cs, n) = FlattenSeq(cs) /\ Upto(cs, 0) = <<>>
    BY <1>2, <1>3, UptoStep
  <2>3. j + 1 - 1 = j /\ 1 - 1 = 0
    BY <1>3
  <2>9. \A k \in Int : ChunkStart(m, k) = Len(Upto(cs, k - 1))
    BY DEF ChunkStart, cs
  <2>4. b = Len(Upto(cs, j - 1)) /\ ChunkStart(m, j + 1) = Len(Upto(cs, j))
    <3>1. b = ChunkStart(m, j)
      BY DEF b
    <3> HIDE DEF b
    <3>2. j \in Int /\ j + 1 \in Int
      BY <1>3
    <3>3. ChunkStart(m, j + 1) = Len(Upto(cs, j))
      <4>1. PICK k \in Int : k = j + 1 /\ k - 1 = j
        BY <3>2
      <4>2. ChunkStart(m, k) = Len(Upto(cs, k - 1))
        BY <2>9
      <4> QED
        BY <4>1, <4>2
    <3> QED
      BY <3>1, <3>2, <3>3, <2>9
  <2>8. c = cs[j] /\ u = FlattenSeq(cs)
    BY DEF c, u
  <2> HIDE DEF b, n
  <2>5. j = n => b + Len(c) = Len(u)
    BY <2>2, <2>4, <2>8
  <2>6. j = 1 => b = 0
    BY <2>2, <2>3, <2>4
  <2>7. ChunkStart(m, j + 1) = b + Len(c)
    BY <2>2, <2>3, <2>4, <2>8
  <2> QED
    BY <2>1, <2>4, <2>5, <2>6, <2>7, <2>8
<1> HIDE DEF b, u, c, n
<1> HIDE DEF m, cs
<1>16. Len(u) \in Nat /\ Len(all) \in Nat
  <2>1. all \in Seq(Byte)
    BY EncodingsType DEF all
  <2> QED
    BY <1>2, <2>1
<1>21. a \in Nat /\ b \in Nat /\ HEADERLENGTH \in Nat /\ Len(c) \in Nat
  BY <1>3, <1>5, <1>6
<1>17. PICK y, z, h, lu, la, lc \in Nat :
         y = a /\ z = b /\ h = HEADERLENGTH /\ lu = Len(u) /\ la = Len(all) /\ lc = Len(c)
  BY <1>16, <1>21, Zenon
<1>18. lc = h + l /\ l \in Nat /\ y + lu <= la /\ z + lc <= lu
  BY <1>3, <1>5, <1>6, <1>17
<1>7. ASSUME NEW x \in 1 .. lc
      PROVE  all[(a + b) + x] = c[x]
  <2>1. z + x \in 1 .. lu /\ y + (z + x) = (y + z) + x
    BY <1>18
  <2>2. all[y + (z + x)] = u[z + x]
    BY <1>5, <1>17, <2>1
  <2>3. u[z + x] = c[x]
    BY <1>6, <1>17
  <2> QED
    BY <1>17, <2>1, <2>2, <2>3
<1>8. a + b \in Nat /\ (a + b) + HEADERLENGTH + l <= Len(all)
  <2>1. y + z \in Nat /\ (y + z) + h + l <= la
    BY <1>18
  <2> QED
    BY <1>17, <2>1
<1>11. j = 1 => a + b = a
  BY <1>6, <1>17
<1>19. (y + z) + h + l = y + (z + lc) /\ lc = h + l
  BY <1>18
<1>20. (a + b) + HEADERLENGTH + l = a + (b + Len(c)) /\ Len(c) = HEADERLENGTH + l
  BY <1>17, <1>19
<1>12. (a + b) + HEADERLENGTH + l = a + ChunkStart(m, j + 1)
  BY <1>6, <1>20
<1>13. j = n => (a + b) + HEADERLENGTH + l = MessageStart(ms, i + 1)
  BY <1>5, <1>6, <1>20
<1>14. \A x \in 1 .. HEADERLENGTH + l : all[(a + b) + x] = c[x]
  BY <1>7, <1>17, <1>20
<1> DEFINE start == a + b
<1>15. /\ start \in Nat /\ start + HEADERLENGTH + l <= Len(all)
       /\ \A x \in 1 .. HEADERLENGTH + l : all[start + x] = c[x]
       /\ j = 1 => start = a
       /\ j < n => start + HEADERLENGTH + l = a + ChunkStart(m, j + 1)
       /\ j = n => start + HEADERLENGTH + l = MessageStart(ms, i + 1)
  BY <1>8, <1>11, <1>12, <1>13, <1>14
<1> HIDE DEF start
<1> QED
  BY <1>15 DEF a, b, c, all, n, start, m, cs, ChunkFound, ChunkBegin

-----------------------------------------------------------------------------
(* What the buffers, the wire and the receiver hold of the messages sent. *)

\* The bytes between the sender's buffers and the receiver are those of all messages
\* from the byte after the p-th on.
Pipe(w, buffers) == w \o FlattenSeq(Unsents(buffers))
PipeAt(ms, w, buffers, p) ==
  LET pipe == Pipe(w, buffers)
  IN  /\ p + Len(pipe) = Len(AllBytes(ms))
      /\ \A x \in 1 .. Len(pipe) : pipe[x] = AllBytes(ms)[p + x]

\* The first q bytes of a row are in a buffer.
Filled(b, row, q) ==
  /\ b.writePos = q
  /\ \A x \in 1 .. q : b.buf[x] = row[x]

\* A header that begins at start is read up to the p-th byte.
HeaderAt(h, ms, start, p) ==
  /\ h.writePos < HEADERLENGTH /\ p = start + h.writePos
  /\ \A x \in 1 .. h.writePos : h.buf[x] = AllBytes(ms)[start + x]

\* The event a message is gathered in, and the event of a message that is there.
EventFor(ev, m) ==
  /\ ev \in ProperEvent /\ ev.type = m.type /\ ev.channel = m.channel
  /\ Unread(ev.b) /\ Len(ev.b.buf) < SizeT
  /\ Len(Row(m.fields)) <= Len(ev.b.buf)
  /\ m.type = "EVENT_RECIVE_STREAM" => Len(ev.b.buf) = Len(Row(m.fields))
EventOf(ev, m) ==
  /\ ev \in ProperEvent /\ ev.type = m.type /\ ev.channel = m.channel
  /\ Unread(ev.b) /\ Len(ev.b.buf) < SizeT
  /\ Holds(ev.b, Row(m.fields))

\* Of the j-th chunk of the i-th message, o bytes are read; the payload before them is there.
Payload(b, ms, i, j, from, l, o, p) ==
  /\ IsChunk(ms[i], j, from, l) /\ o \in 0 .. l - 1
  /\ p = ChunkBegin(ms, i, j) + HEADERLENGTH + o
  /\ Filled(b, Row(ms[i].fields), from + o)

AtMessage(h, se, be, ms, i, p) ==
  se = NoEvent /\ be = NoEvent /\ HeaderAt(h, ms, MessageStart(ms, i), p)
InStream(h, se, be, ms, i, p) ==
  /\ i \in 1 .. Len(ms) /\ ms[i].type = "EVENT_RECIVE_STREAM"
  /\ h.writePos = 0 /\ be = NoEvent /\ EventFor(se, ms[i])
  /\ \E from, l, o \in 0 .. NoteSize : Payload(se.b, ms, i, 1, from, l, o, p)
InBlock(h, se, be, cl, nn, ms, i, p) ==
  /\ i \in 1 .. Len(ms) /\ ms[i].type = "EVENT_RECIVE_BLOCK"
  /\ h.writePos = 0 /\ se = NoEvent /\ EventFor(be, ms[i])
  /\ \E j \in 1 .. Len(Chunks(ms[i])) : \E from, l, o \in 0 .. NoteSize :
       /\ Payload(be.b, ms, i, j, from, l, o, p)
       /\ cl = l - o /\ nn = Len(Chunks(ms[i])) - j + 1
AtChunk(h, se, be, cl, ms, i, p) ==
  /\ i \in 1 .. Len(ms) /\ ms[i].type = "EVENT_RECIVE_BLOCK"
  /\ se = NoEvent /\ EventFor(be, ms[i]) /\ cl = 0
  /\ \E j \in 2 .. Len(Chunks(ms[i])) : \E from, l \in 0 .. NoteSize :
       /\ IsChunk(ms[i], j, from, l) /\ Filled(be.b, Row(ms[i].fields), from)
       /\ HeaderAt(h, ms, ChunkBegin(ms, i, j), p)

\* The receiver is at the i-th message, of all bytes at the p-th.
ReceiverAt(h, se, be, cl, nn, ms, i, p) ==
  /\ Unread(h) /\ Len(h.buf) = HEADERLENGTH
  /\ \/ AtMessage(h, se, be, ms, i, p)
     \/ InStream(h, se, be, ms, i, p)
     \/ InBlock(h, se, be, cl, nn, ms, i, p)
     \/ AtChunk(h, se, be, cl, ms, i, p)

\* The application's buffer has the fields of the next message.
NoteHas(b, fs) ==
  /\ fs \in Seq(Fields) /\ Unread(b) /\ Len(b.buf) = NoteSize /\ Holds(b, Row(fs))

\* The pool has the messages after the first d.
PoolHas(pool, ms, d) ==
  /\ d + Len(pool) <= Len(ms)
  /\ \A k \in 1 .. Len(pool) : EventOf(pool[k], ms[d + k])

\* The inductive invariant of the refinement.
Carrying ==
  /\ sent \in Seq(ProperMessage) /\ NoteHas(note, fields)
  /\ delivered \in Seq(Message) /\ PoolHas(eventPool, sent, Len(delivered))
  /\ \E p \in 0 .. Len(AllBytes(sent)) :
       /\ PipeAt(sent, wire, writeBufferList, p)
       /\ ReceiverAt(readHeaderBuffer, streamEvent, blockEvent, blockChunkLength, nowChunkNum,
                     sent, Len(delivered) + Len(eventPool) + 1, p)

LEMMA UnsentsType ==
  ASSUME NEW buffers \in Seq(ProperBuffer)
  PROVE  Unsents(buffers) \in Seq(Seq(Byte)) /\ Len(Unsents(buffers)) = Len(buffers)
<1>1. \A i \in 1 .. Len(buffers) : Unsent(buffers[i]) \in Seq(Byte)
  <2> TAKE i \in 1 .. Len(buffers)
  <2>1. Proper(buffers[i])
    BY ProperSet
  <2>2. PICK b : b = buffers[i] /\ Proper(b)
    BY <2>1
  <2>3. \A k \in b.readPos + 1 .. b.writePos : k \in 1 .. Len(b.buf)
    BY <2>2, ProperFacts
  <2>4. SubSeq(b.buf, b.readPos + 1, b.writePos) \in Seq(Byte)
    BY <2>2, <2>3, ProperFacts, SubSeqProperties
  <2> QED
    BY <2>2, <2>4 DEF Unsent
<1> QED
  BY <1>1 DEF Unsents

LEMMA UnsentsConcat ==
  ASSUME NEW buffers \in Seq(ProperBuffer), NEW new \in Seq(ProperBuffer)
  PROVE  Unsents(buffers \o new) = Unsents(buffers) \o Unsents(new)
<1> DEFINE s == Unsents(buffers)
           t == Unsents(new)
<1>0. s \in Seq(Seq(Byte)) /\ t \in Seq(Seq(Byte)) /\ Len(s) = Len(buffers) /\ Len(t) = Len(new)
  BY UnsentsType
<1>1. /\ buffers \o new \in Seq(ProperBuffer) /\ Len(buffers \o new) = Len(buffers) + Len(new)
      /\ \A i \in 1 .. Len(buffers) + Len(new) :
           (buffers \o new)[i] = IF i <= Len(buffers) THEN buffers[i] ELSE new[i - Len(buffers)]
  BY ConcatProperties
<1>2. PICK v : v = buffers \o new
  OBVIOUS
<1>3. Unsents(v) = [i \in 1 .. Len(buffers) + Len(new) |-> Unsent(v[i])]
  BY <1>1, <1>2 DEF Unsents
<1>4. \A i \in 1 .. Len(buffers) + Len(new) :
        Unsent(v[i]) = IF i <= Len(buffers) THEN s[i] ELSE t[i - Len(buffers)]
  <2> TAKE i \in 1 .. Len(buffers) + Len(new)
  <2>1. CASE i <= Len(buffers)
    BY <2>1, <1>1, <1>2 DEF Unsents
  <2>2. CASE i > Len(buffers)
    <3>1. PICK x \in 1 .. Len(new) : x = i - Len(buffers)
      <4>1. Len(buffers) \in Nat /\ Len(new) \in Nat
        BY LenProperties
      <4>2. i - Len(buffers) \in 1 .. Len(new)
        BY <4>1, <2>2
      <4> QED
        BY <4>2
    <3>2. t[x] = Unsent(new[x])
      BY DEF Unsents
    <3>3. v[i] = new[x]
      BY <1>1, <1>2, <2>2, <3>1
    <3> QED
      BY <3>1, <3>2, <3>3, <2>2
  <2> QED
    BY <2>1, <2>2
<1> HIDE DEF s, t
<1>5. /\ s \o t \in Seq(Seq(Byte)) /\ Len(s \o t) = Len(buffers) + Len(new)
      /\ \A i \in 1 .. Len(buffers) + Len(new) :
           (s \o t)[i] = IF i <= Len(buffers) THEN s[i] ELSE t[i - Len(buffers)]
  <2>1. /\ s \o t \in Seq(Seq(Byte)) /\ Len(s \o t) = Len(s) + Len(t)
        /\ \A i \in 1 .. Len(s) + Len(t) :
             (s \o t)[i] = IF i <= Len(s) THEN s[i] ELSE t[i - Len(s)]
    BY <1>0, ConcatProperties
  <2> QED
    BY <2>1, <1>0
<1>6. PICK f \in Seq(Seq(Byte)) : f = s \o t
  BY <1>5
<1>7. PICK g \in Seq(Seq(Byte)) : g = Unsents(v) /\ Len(g) = Len(buffers) + Len(new)
  BY <1>1, <1>2, UnsentsType
<1>8. Len(f) = Len(g) /\ \A i \in 1 .. Len(f) : f[i] = g[i]
  <2>1. Len(f) = Len(buffers) + Len(new)
    BY <1>5, <1>6
  <2>2. \A i \in 1 .. Len(buffers) + Len(new) : g[i] = Unsent(v[i])
    BY <1>3, <1>7
  <2> QED
    BY <2>1, <2>2, <1>4, <1>5, <1>6, <1>7
<1>9. f = g
  BY <1>8, SeqEqual
<1> QED
  BY <1>2, <1>6, <1>7, <1>9 DEF s, t

LEMMA PipeType ==
  ASSUME NEW w \in Seq(Byte), NEW buffers \in Seq(ProperBuffer)
  PROVE  Pipe(w, buffers) \in Seq(Byte) /\ FlattenSeq(Unsents(buffers)) \in Seq(Byte)
<1>1. FlattenSeq(Unsents(buffers)) \in Seq(Byte)
  BY UnsentsType, FlattenType
<1> QED
  BY <1>1, ConcatProperties DEF Pipe

\* A message more, and the bytes of all are as many more.
LEMMA BytesGrow ==
  ASSUME WireFits, NEW ms \in Seq(ProperMessage), NEW m \in ProperMessage
  PROVE  /\ Encodings(Append(ms, m)) = Append(Encodings(ms), FlattenSeq(Chunks(m)))
         /\ AllBytes(Append(ms, m)) = AllBytes(ms) \o FlattenSeq(Chunks(m))
<1> DEFINE u == FlattenSeq(Chunks(m))
<1>0. u \in Seq(Byte)
  BY ChunksType
<1> DEFINE e == Encodings(ms)
<1>1. e \in Seq(Seq(Byte)) /\ Len(e) = Len(ms)
  BY EncodingsType
<1>2. Encodings(Append(ms, m)) = Append(e, u)
  <2>1. Append(ms, m) \in Seq(ProperMessage) /\ Len(Append(ms, m)) = Len(ms) + 1
    BY AppendProperties
  <2>2. /\ Encodings(Append(ms, m)) \in Seq(Seq(Byte))
        /\ Len(Encodings(Append(ms, m))) = Len(ms) + 1
        /\ \A i \in 1 .. Len(ms) + 1 :
             Encodings(Append(ms, m))[i] = FlattenSeq(Chunks(Append(ms, m)[i]))
    BY <2>1, EncodingsType
  <2>3. /\ \A i \in 1 .. Len(ms) : Append(ms, m)[i] = ms[i]
        /\ Append(ms, m)[Len(ms) + 1] = m
    BY AppendProperties
  <2>4. \A i \in 1 .. Len(ms) : e[i] = FlattenSeq(Chunks(ms[i]))
    BY EncodingsType
  <2>5. PICK f \in Seq(Seq(Byte)) : f = Encodings(Append(ms, m))
    BY <2>2
  <2> HIDE DEF e, u
  <2>6. f[Len(ms) + 1] = u /\ \A i \in 1 .. Len(ms) : f[i] = e[i]
    <3>1. Len(ms) + 1 \in 1 .. Len(ms) + 1 /\ \A i \in 1 .. Len(ms) : i \in 1 .. Len(ms) + 1
      OBVIOUS
    <3>2. f[Len(ms) + 1] = FlattenSeq(Chunks(m))
      BY <2>2, <2>3, <2>5, <3>1
    <3>3. \A i \in 1 .. Len(ms) : f[i] = e[i]
      BY <2>2, <2>3, <2>4, <2>5, <3>1
    <3> QED
      BY <3>2, <3>3 DEF u
  <2>7. /\ Append(e, u) \in Seq(Seq(Byte)) /\ Len(Append(e, u)) = Len(ms) + 1
        /\ \A i \in 1 .. Len(ms) : Append(e, u)[i] = e[i]
        /\ Append(e, u)[Len(ms) + 1] = u
    <3>1. /\ Append(e, u) \in Seq(Seq(Byte)) /\ Len(Append(e, u)) = Len(e) + 1
          /\ \A i \in 1 .. Len(e) : Append(e, u)[i] = e[i]
          /\ Append(e, u)[Len(e) + 1] = u
      <4>1. PICK x \in Seq(Byte), g \in Seq(Seq(Byte)) : x = u /\ g = e
        BY <1>0, <1>1
      <4>2. /\ Append(g, x) \in Seq(Seq(Byte)) /\ Len(Append(g, x)) = Len(g) + 1
            /\ \A i \in 1 .. Len(g) : Append(g, x)[i] = g[i]
            /\ Append(g, x)[Len(g) + 1] = x
        BY AppendProperties
      <4> QED
        BY <4>1, <4>2
    <3> QED
      BY <3>1, <1>1
  <2>8. PICK g \in Seq(Seq(Byte)) : g = Append(e, u)
    BY <2>7
  <2>9. Len(f) = Len(ms) + 1 /\ Len(g) = Len(ms) + 1
    BY <2>2, <2>5, <2>7, <2>8
  <2>10. \A i \in 1 .. Len(f) : f[i] = g[i]
    <3> TAKE i \in 1 .. Len(f)
    <3>1. i \in 1 .. Len(ms) \/ i = Len(ms) + 1
      BY <2>9
    <3> QED
      BY <3>1, <2>6, <2>7, <2>8
  <2>11. f = g
    BY <2>9, <2>10
  <2> QED
    BY <2>5, <2>8, <2>11
<1> HIDE DEF e, u
<1>3. FlattenSeq(Append(e, u)) = FlattenSeq(e) \o u
  BY <1>0, <1>1, FlattenAppend
<1> QED
  BY <1>2, <1>3 DEF AllBytes, e, u

\* A message's chunks join the bytes at their end.
LEMMA PipeGrows ==
  ASSUME WireFits, NEW ms \in Seq(ProperMessage), NEW m \in ProperMessage,
         NEW w \in Seq(Byte), NEW buffers \in Seq(ProperBuffer), NEW new \in Seq(ProperBuffer),
         FlattenSeq(Unsents(new)) = FlattenSeq(Chunks(m)), NEW p \in Nat,
         PipeAt(ms, w, buffers, p)
  PROVE  PipeAt(Append(ms, m), w, buffers \o new, p)
<1> DEFINE u == FlattenSeq(Unsents(new))
           all == AllBytes(ms)
           pipe == Pipe(w, buffers)
<1>1. u \in Seq(Byte) /\ all \in Seq(Byte) /\ pipe \in Seq(Byte)
  BY PipeType, EncodingsType
<1>2. AllBytes(Append(ms, m)) = all \o u
  BY BytesGrow
<1>3. Pipe(w, buffers \o new) = pipe \o u
  <2> DEFINE s == Unsents(buffers)
             t == Unsents(new)
  <2>1. s \in Seq(Seq(Byte)) /\ t \in Seq(Seq(Byte)) /\ Len(s) = Len(buffers) /\ Len(t) = Len(new)
    BY UnsentsType
  <2>2. Unsents(buffers \o new) = s \o t
    BY UnsentsConcat
  <2> HIDE DEF s, t
  <2>3. FlattenSeq(s \o t) = FlattenSeq(s) \o FlattenSeq(t)
    BY <2>1, FlattenConcat
  <2>4. FlattenSeq(s) \in Seq(Byte) /\ FlattenSeq(t) \in Seq(Byte)
    BY <2>1, FlattenType
  <2>5. w \o (FlattenSeq(s) \o FlattenSeq(t)) = (w \o FlattenSeq(s)) \o FlattenSeq(t)
    <3>1. PICK x \in Seq(Byte), y \in Seq(Byte) : x = FlattenSeq(s) /\ y = FlattenSeq(t)
      BY <2>4
    <3>2. Joined(w, x, y)
      BY RowsJoin
    <3> QED
      BY <3>1, <3>2 DEF Joined
  <2> QED
    BY <2>2, <2>3, <2>5 DEF Pipe, s, t
<1> HIDE DEF u, all, pipe
<1>4. p + Len(pipe) = Len(all) /\ \A x \in 1 .. Len(pipe) : pipe[x] = all[p + x]
  BY DEF PipeAt, pipe, all
<1>5. PICK a \in Seq(Byte), b \in Seq(Byte), c \in Seq(Byte) : a = all /\ b = pipe /\ c = u
  BY <1>1
<1>8. PICK la, lb, lc \in Nat : la = Len(a) /\ lb = Len(b) /\ lc = Len(c)
  BY LenProperties
<1>9. MadeOf(b \o c, b, c) /\ MadeOf(a \o c, a, c)
  BY RowsMake
<1>10. Len(b \o c) = lb + lc /\ Len(a \o c) = la + lc /\ p + lb = la
  BY <1>4, <1>5, <1>8, <1>9 DEF MadeOf
<1>6. p + Len(b \o c) = Len(a \o c)
  <2>1. p + (lb + lc) = la + lc
    BY <1>10
  <2> QED
    BY <2>1, <1>10
<1>7. ASSUME NEW x \in 1 .. lb + lc
      PROVE  (b \o c)[x] = (a \o c)[p + x]
  <2>1. CASE x <= lb
    <3>1. x \in 1 .. lb /\ p + x \in 1 .. la
      BY <2>1, <1>10
    <3>2. (b \o c)[x] = b[x] /\ (a \o c)[p + x] = a[p + x]
      BY <3>1, <1>8, <1>9 DEF MadeOf
    <3> QED
      BY <3>1, <3>2, <1>4, <1>5, <1>8
  <2>2. CASE x > lb
    <3>1. PICK z \in 1 .. lc : lb + z = x /\ la + z = p + x
      <4>1. x - lb \in 1 .. lc /\ lb + (x - lb) = x /\ la + (x - lb) = p + x
        BY <2>2, <1>10
      <4> QED
        BY <4>1
    <3>2. (b \o c)[lb + z] = c[z] /\ (a \o c)[la + z] = c[z]
      BY <1>8, <1>9 DEF MadeOf
    <3> QED
      BY <3>1, <3>2
  <2>3. x <= lb \/ x > lb
    BY <1>10
  <2> QED
    BY <2>1, <2>2, <2>3
<1> QED
  BY <1>2, <1>3, <1>5, <1>6, <1>7, <1>10 DEF PipeAt

\* What is said of the messages so far stays true of them.
LEMMA BytesStay ==
  ASSUME WireFits, NEW ms \in Seq(ProperMessage), NEW m \in ProperMessage
  PROVE  /\ Append(ms, m) \in Seq(ProperMessage)
         /\ Len(Append(ms, m)) = Len(ms) + 1
         /\ \A i \in 1 .. Len(ms) : Append(ms, m)[i] = ms[i]
         /\ Len(AllBytes(ms)) <= Len(AllBytes(Append(ms, m)))
         /\ \A x \in 1 .. Len(AllBytes(ms)) : AllBytes(Append(ms, m))[x] = AllBytes(ms)[x]
         /\ \A i \in 1 .. Len(ms) + 1 : MessageStart(Append(ms, m), i) = MessageStart(ms, i)
<1>1. /\ Append(ms, m) \in Seq(ProperMessage)
      /\ Len(Append(ms, m)) = Len(ms) + 1
      /\ \A i \in 1 .. Len(ms) : Append(ms, m)[i] = ms[i]
  BY AppendProperties
<1>2. PICK u \in Seq(Byte), a \in Seq(Byte) : u = FlattenSeq(Chunks(m)) /\ a = AllBytes(ms)
  BY ChunksType, EncodingsType
<1>3. AllBytes(Append(ms, m)) = a \o u
  BY <1>2, BytesGrow
<1>4. MadeOf(a \o u, a, u) /\ Len(a) \in Nat /\ Len(u) \in Nat
  BY RowsMake, LenProperties
<1>5. Len(a) <= Len(a \o u) /\ \A x \in 1 .. Len(a) : (a \o u)[x] = a[x]
  BY <1>4 DEF MadeOf
<1>6. ASSUME NEW i \in 1 .. Len(ms) + 1
      PROVE  MessageStart(Append(ms, m), i) = MessageStart(ms, i)
  <2>1. PICK e \in Seq(Seq(Byte)) : e = Encodings(ms) /\ Len(e) = Len(ms)
    BY EncodingsType
  <2>2. PICK k \in 0 .. Len(e) : k = i - 1
    <3>1. i - 1 \in 0 .. Len(e)
      BY <2>1
    <3> QED
      BY <3>1
  <2>3. Upto(Append(e, u), k) = Upto(e, k)
    BY UptoAppend
  <2>4. Encodings(Append(ms, m)) = Append(e, u)
    BY <1>2, <2>1, BytesGrow
  <2> QED
    BY <2>1, <2>2, <2>3, <2>4 DEF MessageStart
<1>7. /\ Len(AllBytes(ms)) <= Len(AllBytes(Append(ms, m)))
      /\ \A x \in 1 .. Len(AllBytes(ms)) : AllBytes(Append(ms, m))[x] = AllBytes(ms)[x]
  BY <1>2, <1>3, <1>5
<1> QED
  BY <1>1, <1>6, <1>7

\* The first k bytes of the wire are the next bytes; behind them the pipe goes on.
LEMMA PipeRead ==
  ASSUME NEW ms, NEW w \in Seq(Byte), NEW buffers \in Seq(ProperBuffer), NEW p \in Nat,
         PipeAt(ms, w, buffers, p), AllBytes(ms) \in Seq(Byte), NEW k \in 1 .. Len(w)
  PROVE  /\ PipeAt(ms, SubSeq(w, k + 1, Len(w)), buffers, p + k)
         /\ p + k <= Len(AllBytes(ms))
         /\ \A t \in 1 .. k : SubSeq(w, 1, k)[t] = AllBytes(ms)[p + t]
<1>1. PICK u \in Seq(Byte), a \in Seq(Byte) : u = FlattenSeq(Unsents(buffers)) /\ a = AllBytes(ms)
  BY PipeType
<1>2. /\ p + Len(w \o u) = Len(a)
      /\ \A x \in 1 .. Len(w \o u) : (w \o u)[x] = a[p + x]
  BY <1>1 DEF PipeAt, Pipe
<1>15. MadeOf(w \o u, w, u)
  BY RowsMake
<1>16. Len(w) \in Nat /\ Len(u) \in Nat /\ Len(a) \in Nat
  BY LenProperties
<1>3. /\ Len(w \o u) = Len(w) + Len(u) /\ Len(w) \in Nat /\ Len(u) \in Nat /\ Len(a) \in Nat
      /\ \A x \in 1 .. Len(w) : (w \o u)[x] = w[x]
  BY <1>15, <1>16 DEF MadeOf
<1>4. PICK lw, lu, la \in Nat : lw = Len(w) /\ lu = Len(u) /\ la = Len(a)
  BY <1>3
<1>5. p + (lw + lu) = la /\ k \in 1 .. lw
  BY <1>2, <1>3, <1>4
<1>6. p + k <= la
  BY <1>5
<1>7. SubSeq(w, 1, k) \in Seq(Byte) /\ \A t \in 1 .. k : SubSeq(w, 1, k)[t] = w[t]
  <2>1. 0 \in Nat /\ k \in Nat /\ 1 = 0 + 1 /\ k = 0 + k /\ k <= Len(w)
    BY <1>4, <1>5
  <2>2. SubSeq(w, 1, k) \in Seq(Byte) /\ PartOf(SubSeq(w, 1, k), w, 0, k)
    BY <2>1, RowPart
  <2> QED
    BY <2>2 DEF PartOf
<1>8. ASSUME NEW t \in 1 .. k
      PROVE  SubSeq(w, 1, k)[t] = a[p + t]
  <2>1. t \in 1 .. Len(w) /\ t \in 1 .. Len(w \o u)
    BY <1>3
  <2> QED
    BY <1>2, <1>3, <1>7, <2>1
<1>14. PICK d \in Nat : d = lw - k /\ lw = k + d
  <2>1. lw - k \in Nat /\ lw = k + (lw - k)
    BY <1>5
  <2> QED
    BY <2>1
<1>9. PICK v \in Seq(Byte) : v = SubSeq(w, k + 1, Len(w)) /\ Len(v) = d
                             /\ \A t \in 1 .. d : v[t] = w[k + t]
  <2>5. k \in Nat /\ k + 1 \in Nat /\ lw <= lw
    BY <1>5
  <2>1. PICK first, last \in Nat : /\ first = k + 1 /\ last = Len(w) /\ last = k + d
                                   /\ last <= Len(w)
    BY <2>5, <1>4, <1>14, Zenon
  <2>2. SubSeq(w, first, last) \in Seq(Byte) /\ PartOf(SubSeq(w, first, last), w, k, d)
    BY <2>1, <2>5, RowPart
  <2>3. PICK r \in Seq(Byte) : r = SubSeq(w, k + 1, Len(w)) /\ PartOf(r, w, k, d)
    BY <2>1, <2>2
  <2> QED
    BY <2>3 DEF PartOf
<1>17. MadeOf(v \o u, v, u)
  BY RowsMake
<1>10. /\ Len(v \o u) = Len(v) + Len(u)
       /\ \A x \in 1 .. Len(v) : (v \o u)[x] = v[x]
       /\ \A x \in 1 .. Len(u) : (v \o u)[Len(v) + x] = u[x]
       /\ \A x \in 1 .. Len(u) : (w \o u)[Len(w) + x] = u[x]
  BY <1>15, <1>17 DEF MadeOf
<1>11. (p + k) + Len(v \o u) = la
  <2>1. (p + k) + (d + lu) = la
    BY <1>5, <1>14
  <2> QED
    BY <2>1, <1>4, <1>9, <1>10
<1>12. ASSUME NEW x \in 1 .. Len(v \o u)
       PROVE  (v \o u)[x] = a[(p + k) + x]
  <2>1. PICK y \in Nat : y = x
    BY <1>3, <1>9, <1>10
  <2>2. y \in 1 .. d + lu
    BY <2>1, <1>4, <1>9, <1>10
  <2>3. (w \o u)[k + y] = a[p + (k + y)]
    <3>1. k + y \in 1 .. lw + lu
      BY <1>5, <1>14, <2>2
    <3> QED
      BY <3>1, <1>2, <1>3, <1>4
  <2>4. p + (k + y) = (p + k) + y
    BY <2>1
  <2>5. (v \o u)[y] = (w \o u)[k + y]
    <3>1. CASE y <= d
      <4>3. y \in 1 .. d
        BY <3>1, <2>2
      <4>1. y \in 1 .. Len(v) /\ y \in 1 .. d
        BY <4>3, <1>9
      <4>2. k + y \in 1 .. Len(w)
        <5>1. k + y \in 1 .. lw
          BY <3>1, <2>1, <2>2, <1>5, <1>14
        <5> QED
          BY <5>1, <1>4
      <4> QED
        BY <4>1, <4>2, <1>3, <1>9, <1>10
    <3>2. CASE d < y
      <4>1. PICK z \in 1 .. lu : z = y - d
        <5>1. y - d \in 1 .. lu
          BY <3>2, <2>2, <1>14, <1>5
        <5> QED
          BY <5>1
      <4>2. Len(v) + z = y
        <5>1. d + z = y
          BY <4>1, <2>1, <1>14
        <5> QED
          BY <5>1, <1>9
      <4>3. Len(w) + z = k + y
        BY <4>1, <1>4, <1>5, <1>14
      <4>4. z \in 1 .. Len(u)
        BY <1>4
      <4>5. (v \o u)[Len(v) + z] = u[z] /\ (w \o u)[Len(w) + z] = u[z]
        BY <4>4, <1>10
      <4> QED
        BY <4>2, <4>3, <4>5
    <3>3. y <= d \/ d < y
      BY <2>1, <1>14
    <3> QED
      BY <3>1, <3>2, <3>3
  <2> QED
    BY <2>1, <2>3, <2>4, <2>5
<1>13. PipeAt(ms, v, buffers, p + k)
  BY <1>1, <1>4, <1>11, <1>12 DEF PipeAt, Pipe
<1> QED
  BY <1>1, <1>4, <1>6, <1>8, <1>9, <1>13

\* Rows of bytes may be joined in any order.
FourJoin(w, x, y, z) == (w \o x) \o (y \o z) = w \o ((x \o y) \o z)

LEMMA BytesJoinFour ==
  ASSUME NEW w \in Seq(Byte), NEW x \in Seq(Byte), NEW y \in Seq(Byte), NEW z \in Seq(Byte)
  PROVE  FourJoin(w, x, y, z)
<1>1. PICK g \in Seq(Byte) : g = y \o z
  BY ConcatProperties
<1>2. Joined(w, x, g) /\ Joined(x, y, z)
  BY RowsJoin
<1> QED
  BY <1>1, <1>2 DEF FourJoin, Joined

\* The elements of a row after the first p, up to the q-th.
LEMMA SubSeqIs ==
  ASSUME NEW row \in Seq(Byte), NEW p \in Nat, NEW n \in Nat, NEW q, q = p + n, q <= Len(row)
  PROVE  SubSeq(row, p + 1, q) \in Seq(Byte) /\ PartOf(SubSeq(row, p + 1, q), row, p, n)
<1>1. PICK first : first = p + 1
  OBVIOUS
<1>2. SubSeq(row, first, q) \in Seq(Byte) /\ PartOf(SubSeq(row, first, q), row, p, n)
  BY <1>1, RowPart
<1> QED
  BY <1>1, <1>2

\* A row is its first n elements and the rest.
LEMMA SplitRow ==
  ASSUME NEW u \in Seq(Byte), NEW n \in 1 .. Len(u)
  PROVE  /\ SubSeq(u, 1, n) \in Seq(Byte) /\ SubSeq(u, n + 1, Len(u)) \in Seq(Byte)
         /\ SubSeq(u, 1, n) \o SubSeq(u, n + 1, Len(u)) = u
<1>1. PICK l \in Nat : l = Len(u)
  BY LenProperties
<1>2. PICK m \in Nat : l = n + m
  <2>1. l - n \in Nat /\ l = n + (l - n)
    BY <1>1
  <2> QED
    BY <2>1
<1>3. PICK a \in Seq(Byte) : a = SubSeq(u, 1, n) /\ PartOf(a, u, 0, n)
  <2>1. 0 \in Nat /\ n \in Nat /\ 1 = 0 + 1 /\ n = 0 + n /\ n <= Len(u)
    BY <1>1
  <2>2. SubSeq(u, 1, n) \in Seq(Byte) /\ PartOf(SubSeq(u, 1, n), u, 0, n)
    BY <2>1, RowPart
  <2> QED
    BY <2>2
<1>4. PICK b \in Seq(Byte) : b = SubSeq(u, n + 1, Len(u)) /\ PartOf(b, u, n, m)
  <2>1. n \in Nat /\ l <= l
    BY <1>1
  <2>2. SubSeq(u, n + 1, l) \in Seq(Byte) /\ PartOf(SubSeq(u, n + 1, l), u, n, m)
    BY <2>1, <1>1, <1>2, SubSeqIs
  <2> QED
    BY <2>2, <1>1
<1>5. PICK c \in Seq(Byte) : c = a \o b /\ MadeOf(c, a, b)
  BY RowsMake
<1>6. /\ Len(a) = n /\ Len(b) = m /\ Len(c) = n + m
      /\ \A t \in 1 .. n : c[t] = u[t]
      /\ \A t \in 1 .. m : c[n + t] = u[n + t]
  <2>1. /\ Len(a) = n /\ Len(b) = m
        /\ \A t \in 1 .. n : a[t] = u[0 + t]
        /\ \A t \in 1 .. m : b[t] = u[n + t]
    BY <1>3, <1>4 DEF PartOf
  <2>2. \A t \in 1 .. n : 0 + t = t
    OBVIOUS
  <2> QED
    BY <2>1, <2>2, <1>5 DEF MadeOf
<1>7. ASSUME NEW y \in 1 .. n + m
      PROVE  c[y] = u[y]
  <2>1. y <= n \/ n < y
    OBVIOUS
  <2>2. CASE y <= n
    <3>1. y \in 1 .. n
      BY <2>2
    <3> QED
      BY <3>1, <1>6
  <2>3. CASE n < y
    <3>1. PICK z \in 1 .. m : n + z = y
      <4>1. y - n \in 1 .. m /\ n + (y - n) = y
        BY <2>3
      <4> QED
        BY <4>1
    <3> QED
      BY <3>1, <1>6
  <2> QED
    BY <2>1, <2>2, <2>3
<1>8. c = u
  BY <1>1, <1>2, <1>6, <1>7, SeqEqual
<1> QED
  BY <1>3, <1>4, <1>5, <1>8

\* What a send() leaves of a buffer.
LEMMA UnsentAfter ==
  ASSUME NEW b, Proper(b), NEW n \in 1 .. Len(Unsent(b))
  PROVE  LET r == WriteToSocket(b, n)
         IN  /\ Proper(r.b) /\ Unsent(b) \in Seq(Byte)
             /\ Unsent(r.b) = SubSeq(Unsent(b), n + 1, Len(Unsent(b)))
             /\ r.ret = 0 <=> n = Len(Unsent(b))
<1> DEFINE u == Unsent(b)
           c == [b EXCEPT !.readPos = @ + n]
<1>1. /\ b.buf \in Seq(Byte) /\ b.readPos \in Nat /\ b.writePos \in Nat /\ Len(b.buf) \in Nat
      /\ b.readPos <= b.writePos /\ b.writePos <= Len(b.buf)
  BY ProperFacts
<1>2. PICK row \in Seq(Byte), p, q \in Nat : row = b.buf /\ p = b.readPos /\ q = b.writePos
  BY <1>1
<1>3. PICK d \in Nat : d = q - p /\ q = p + d
  <2>1. q - p \in Nat /\ q = p + (q - p)
    BY <1>1, <1>2
  <2> QED
    BY <2>1
<1>4. /\ u = SubSeq(row, p + 1, q) /\ u \in Seq(Byte) /\ Len(u) = d
      /\ \A t \in 1 .. d : u[t] = row[p + t]
  <2>1. SubSeq(row, p + 1, q) \in Seq(Byte) /\ PartOf(SubSeq(row, p + 1, q), row, p, d)
    BY <1>1, <1>2, <1>3, SubSeqIs
  <2>2. u = SubSeq(row, p + 1, q)
    BY <1>2 DEF Unsent
  <2> HIDE DEF u
  <2>3. u \in Seq(Byte) /\ PartOf(u, row, p, d)
    BY <2>1, <2>2
  <2> QED
    BY <2>2, <2>3 DEF PartOf
<1>5. n \in 1 .. d
  BY <1>4
<1>6. Proper(WriteToSocket(b, n).b)
  BY WriteToSocketType
<1>7. ~ (b.readPos >= b.writePos)
  BY <1>1, <1>2, <1>3, <1>5
<1>8. /\ WriteToSocket(b, n).b = c
      /\ WriteToSocket(b, n).ret = IF b.readPos + n = b.writePos THEN 0 ELSE IF n = 0 THEN 1 ELSE n
  BY <1>7 DEF WriteToSocket
<1>9. WriteToSocket(b, n).ret = 0 <=> n = Len(u)
  <2>1. b.readPos + n = b.writePos <=> n = d
    <3>1. p + n = p + d <=> n = d
      BY <1>5
    <3> QED
      BY <3>1, <1>2, <1>3
  <2>2. n # 0
    BY <1>5
  <2> QED
    BY <1>4, <1>8, <2>1, <2>2
<1>10. c.buf = row /\ c.writePos = q /\ c.readPos = p + n
  BY <1>2, ProperFacts
<1>11. Unsent(c) = SubSeq(row, (p + n) + 1, q)
  BY <1>10 DEF Unsent
<1>12. SubSeq(row, (p + n) + 1, q) = SubSeq(u, n + 1, Len(u))
  <2>1. PICK e \in Nat : d = n + e
    <3>1. d - n \in Nat /\ d = n + (d - n)
      BY <1>5
    <3> QED
      BY <3>1
  <2> HIDE DEF u
  <2>2. PICK f \in Seq(Byte) : f = SubSeq(u, n + 1, Len(u)) /\ PartOf(f, u, n, e)
    <3>1. n \in Nat /\ d <= d
      BY <1>5
    <3>2. SubSeq(u, n + 1, d) \in Seq(Byte) /\ PartOf(SubSeq(u, n + 1, d), u, n, e)
      BY <3>1, <1>4, <2>1, SubSeqIs
    <3> QED
      BY <3>2, <1>4
  <2>3. PICK s \in Nat : s = p + n /\ q = s + e
    <3>1. p + n \in Nat /\ q = (p + n) + e
      BY <1>3, <1>5, <2>1
    <3> QED
      BY <3>1
  <2>4. PICK g \in Seq(Byte) : g = SubSeq(row, s + 1, q) /\ PartOf(g, row, s, e)
    <3>1. SubSeq(row, s + 1, q) \in Seq(Byte) /\ PartOf(SubSeq(row, s + 1, q), row, s, e)
      BY <1>1, <1>2, <2>3, SubSeqIs
    <3> QED
      BY <3>1
  <2>5. ASSUME NEW t \in 1 .. e PROVE f[t] = g[t]
    <3>1. n + t \in 1 .. d
      BY <1>5, <2>1
    <3>2. u[n + t] = row[p + (n + t)]
      BY <3>1, <1>4
    <3>3. p + (n + t) = s + t
      BY <1>5, <2>3
    <3>4. f[t] = u[n + t] /\ g[t] = row[s + t]
      BY <2>2, <2>4 DEF PartOf
    <3> QED
      BY <3>2, <3>3, <3>4
  <2>6. f = g
    <3>1. Len(f) = e /\ Len(g) = e
      BY <2>2, <2>4 DEF PartOf
    <3> QED
      BY <3>1, <2>5, SeqEqual
  <2> QED
    BY <2>2, <2>3, <2>4, <2>6
<1> HIDE DEF u, c
<1> QED
  BY <1>4, <1>6, <1>8, <1>9, <1>11, <1>12 DEF u

LEMMA UnsentFirst ==
  ASSUME NEW b \in ProperBuffer, NEW rest \in Seq(ProperBuffer)
  PROVE  FlattenSeq(Unsents(<<b>> \o rest)) = Unsent(b) \o FlattenSeq(Unsents(rest))
<1>1. <<b>> \in Seq(ProperBuffer) /\ Len(<<b>>) = 1 /\ <<b>>[1] = b
  OBVIOUS
<1>2. Unsents(<<b>>) = <<Unsent(b)>>
  BY <1>1 DEF Unsents
<1>3. PICK u \in Seq(Byte) : u = Unsent(b)
  <2>1. Unsents(<<b>>) \in Seq(Seq(Byte)) /\ Len(Unsents(<<b>>)) = 1
    BY <1>1, UnsentsType
  <2>2. Unsents(<<b>>)[1] \in Seq(Byte) /\ Unsents(<<b>>)[1] = Unsent(b)
    BY <2>1, <1>1, <1>2
  <2> QED
    BY <2>2
<1>4. PICK t \in Seq(Seq(Byte)) : t = Unsents(rest)
  BY UnsentsType
<1>5. Unsents(<<b>> \o rest) = <<u>> \o t
  BY <1>1, <1>2, <1>3, <1>4, UnsentsConcat
<1>6. <<u>> \in Seq(Seq(Byte))
  OBVIOUS
<1>7. FlattenSeq(<<u>> \o t) = FlattenSeq(<<u>>) \o FlattenSeq(t)
  BY <1>6, FlattenConcat
<1>8. FlattenSeq(<<u>>) = u
  BY FlattenOne
<1> QED
  BY <1>3, <1>4, <1>5, <1>7, <1>8

\* A send() moves bytes from the first buffer to the wire, and the pipe is the same.
LEMMA PipeWritten ==
  ASSUME NEW w \in Seq(Byte), NEW buffers \in Seq(ProperBuffer), buffers # <<>>,
         NEW n \in 1 .. Len(Unsent(Head(buffers)))
  PROVE  LET b == Head(buffers)
             r == WriteToSocket(b, n)
         IN  Pipe(w \o SubSeq(Unsent(b), 1, n),
                  IF r.ret = 0 THEN Tail(buffers) ELSE <<r.b>> \o Tail(buffers))
               = Pipe(w, buffers)
<1>1. PICK b \in ProperBuffer, rest \in Seq(ProperBuffer) :
        b = Head(buffers) /\ rest = Tail(buffers)
  BY HeadTailProperties
<1>2. buffers = <<b>> \o rest
  BY <1>1
<1>3. Proper(b) /\ n \in 1 .. Len(Unsent(b))
  BY <1>1, ProperSet
<1> DEFINE r == WriteToSocket(b, n)
<1>4. /\ Proper(r.b) /\ Unsent(b) \in Seq(Byte)
      /\ Unsent(r.b) = SubSeq(Unsent(b), n + 1, Len(Unsent(b)))
      /\ r.ret = 0 <=> n = Len(Unsent(b))
  BY <1>3, UnsentAfter
<1> HIDE DEF r
<1>5. PICK u \in Seq(Byte), f \in Seq(Byte) : u = Unsent(b) /\ f = FlattenSeq(Unsents(rest))
  BY <1>4, PipeType
<1>6. PICK x \in Seq(Byte), y \in Seq(Byte) :
        x = SubSeq(u, 1, n) /\ y = SubSeq(u, n + 1, Len(u)) /\ x \o y = u
  <2>1. n \in 1 .. Len(u)
    BY <1>3, <1>5
  <2>2. /\ SubSeq(u, 1, n) \in Seq(Byte) /\ SubSeq(u, n + 1, Len(u)) \in Seq(Byte)
        /\ SubSeq(u, 1, n) \o SubSeq(u, n + 1, Len(u)) = u
    BY <2>1, SplitRow
  <2> QED
    BY <2>2
<1>7. Pipe(w, buffers) = w \o (u \o f)
  BY <1>2, <1>5, UnsentFirst DEF Pipe
<1>8. CASE r.ret = 0
  <2>1. n = Len(u)
    BY <1>4, <1>5, <1>8
  <2>2. x = u
    BY <2>1, <1>6, SubSeqFull
  <2>3. Pipe(w \o x, rest) = (w \o x) \o f
    BY <1>5 DEF Pipe
  <2>4. (w \o x) \o f = w \o (x \o f)
    <3>1. Joined(w, x, f)
      BY RowsJoin
    <3> QED
      BY <3>1 DEF Joined
  <2> QED
    BY <1>1, <1>5, <1>6, <1>7, <1>8, <2>2, <2>3, <2>4 DEF r
<1>9. CASE r.ret # 0
  <2>1. r.b \in ProperBuffer /\ y = Unsent(r.b)
    BY <1>4, <1>5, <1>6, ProperSet, Zenon
  <2>2. FlattenSeq(Unsents(<<r.b>> \o rest)) = y \o f
    BY <2>1, <1>5, UnsentFirst
  <2>3. Pipe(w \o x, <<r.b>> \o rest) = (w \o x) \o (y \o f)
    BY <2>2 DEF Pipe
  <2>4. (w \o x) \o (y \o f) = w \o ((x \o y) \o f)
    <3>1. FourJoin(w, x, y, f)
      BY BytesJoinFour
    <3> QED
      BY <3>1 DEF FourJoin
  <2> QED
    BY <1>1, <1>5, <1>6, <1>7, <1>9, <2>3, <2>4 DEF r
<1> QED
  BY <1>8, <1>9

-----------------------------------------------------------------------------
(* Reading into a buffer. *)

\* A recv() of bytes that follow those of the row in a buffer.
LEMMA FillMore ==
  ASSUME NEW b, Proper(b), NEW s \in Seq(Byte), Len(s) <= Len(b.buf) - b.writePos,
         NEW row, NEW q \in Nat, Filled(b, row, q), \A t \in 1 .. Len(s) : s[t] = row[q + t]
  PROVE  Filled(Store(b, s), row, q + Len(s))
<1> DEFINE c == Store(b, s)
<1>1. /\ Proper(c) /\ Len(c.buf) = Len(b.buf) /\ c.writePos = q + Len(s)
      /\ \A x \in 1 .. Len(b.buf) :
           c.buf[x] = IF x \in q + 1 .. q + Len(s) THEN s[x - q] ELSE b.buf[x]
  BY StoreIsProper, StoreBytes DEF Filled, SameSize
<1> HIDE DEF c
<1>2. PICK n, k \in Nat : n = Len(b.buf) /\ k = Len(s)
  BY ProperFacts, LenProperties
<1>3. b.writePos = q /\ q + k <= n
  BY <1>2 DEF Filled
<1>4. ASSUME NEW x \in 1 .. q + k
      PROVE  c.buf[x] = row[x]
  <2>1. x \in 1 .. n /\ (x <= q \/ q < x)
    BY <1>3
  <2>2. CASE x <= q
    <3>1. x \in 1 .. q /\ x \notin q + 1 .. q + k
      BY <2>2
    <3> QED
      BY <3>1, <2>1, <1>1, <1>2 DEF Filled
  <2>3. CASE q < x
    <3>1. PICK t \in 1 .. k : t = x - q /\ q + t = x
      <4>1. x - q \in 1 .. k /\ q + (x - q) = x
        BY <2>3
      <4> QED
        BY <4>1
    <3>2. x \in q + 1 .. q + k
      BY <2>3
    <3>3. c.buf[x] = s[t]
      BY <3>1, <3>2, <2>1, <1>1, <1>2
    <3> QED
      BY <3>1, <3>3, <1>2
  <2> QED
    BY <2>1, <2>2, <2>3
<1> QED
  BY <1>1, <1>2, <1>4 DEF Filled, c

\* What ReadFromSocket makes of the bytes that recv() brought.
Fetches(b, readSize, s) ==
  LET r == ReadFromSocket(b, readSize, s)
  IN  /\ r.b = Store(b, s)
      /\ r.ret = 0 <=> Len(s) = readSize
      /\ r.readSize = readSize - Len(s)

LEMMA SocketRead ==
  ASSUME NEW b, Proper(b), Len(b.buf) < SizeT, NEW readSize \in Nat \ {0},
         readSize <= Len(b.buf) - b.writePos, NEW s \in Seq(Byte), Len(s) <= readSize
  PROVE  Fetches(b, readSize, s)
<1>1. GetAvailableSize(b) = Len(b.buf) - b.writePos /\ Len(b.buf) \in Nat /\ b.writePos \in Nat
  BY AvailableType, ProperFacts
<1>2. Asked(b, readSize) = readSize
  BY <1>1 DEF Asked, Smaller
<1>3. ~ (b.writePos >= Len(b.buf))
  BY <1>1
<1>4. ReadFromSocket(b, readSize, s) =
        [ret |-> IF readSize - Len(s) = 0 THEN 0 ELSE 1, readSize |-> readSize - Len(s), b |-> Store(b, s)]
  BY <1>2, <1>3 DEF ReadFromSocket
<1>5. PICK k \in Nat : k = Len(s)
  BY LenProperties
<1>6. readSize - k = 0 <=> k = readSize
  OBVIOUS
<1> QED
  BY <1>4, <1>5, <1>6 DEF Fetches

-----------------------------------------------------------------------------
(* Headers. *)

\* What a recv() of bytes of a header does to the header's buffer.
HeaderGoesOn(h, ms, start, s) ==
  LET c == Store(h, s)
  IN  /\ Unread(c) /\ Len(c.buf) = HEADERLENGTH /\ c.writePos = h.writePos + Len(s)
      /\ \A x \in 1 .. c.writePos : c.buf[x] = AllBytes(ms)[start + x]

\* What the receiver reads out of a whole header.
HeaderSays(c, num, channel, l) ==
  LET n  == ReadUint8(ReadSeek(c, 0).b)
      ch == ReadUint8(n.b)
      le == ReadUint16(ch.b)
  IN  /\ n.ret = num /\ ch.ret = channel /\ le.ret = l
      /\ Unread(Clear(le.b)) /\ Len(Clear(le.b).buf) = HEADERLENGTH
      /\ Clear(le.b).writePos = 0

LEMMA HeaderMore ==
  ASSUME NEW h, Unread(h), Len(h.buf) = HEADERLENGTH, NEW ms, NEW start \in Nat, NEW p,
         HeaderAt(h, ms, start, p), NEW s \in Seq(Byte), Len(s) <= HEADERLENGTH - h.writePos,
         \A t \in 1 .. Len(s) : s[t] = AllBytes(ms)[p + t]
  PROVE  HeaderGoesOn(h, ms, start, s)
<1> DEFINE c == Store(h, s)
<1>1. /\ Proper(h) /\ h.readPos = 0 /\ HEADERLENGTH \in Nat /\ h.writePos \in Nat
      /\ h.writePos < HEADERLENGTH /\ p = start + h.writePos
      /\ \A x \in 1 .. h.writePos : h.buf[x] = AllBytes(ms)[start + x]
  BY WireAssumption, ProperFacts DEF Unread, HeaderAt
<1>2. PICK q, k \in Nat : q = h.writePos /\ k = Len(s)
  BY <1>1, LenProperties
<1>3. q + k <= HEADERLENGTH
  BY <1>1, <1>2
<1>4. PICK row : row = [x \in 1 .. HEADERLENGTH |-> AllBytes(ms)[start + x]]
  OBVIOUS
<1>5. Filled(h, row, q)
  <2>1. \A x \in 1 .. q : x \in 1 .. HEADERLENGTH
    BY <1>1, <1>3
  <2> QED
    BY <2>1, <1>1, <1>2, <1>4 DEF Filled
<1>6. \A t \in 1 .. Len(s) : s[t] = row[q + t]
  <2> TAKE t \in 1 .. Len(s)
  <2>1. PICK n, y \in Nat : n = HEADERLENGTH /\ y = start
    BY <1>1
  <2>2. p = y + q /\ t \in 1 .. k /\ q + k <= n
    BY <1>1, <1>2, <1>3, <2>1
  <2>3. q + t \in 1 .. n /\ y + (q + t) = p + t
    BY <2>2
  <2>4. q + t \in 1 .. HEADERLENGTH /\ start + (q + t) = p + t
    BY <2>1, <2>3
  <2> QED
    BY <2>4, <1>4
<1>7. Filled(c, row, q + k)
  <2>1. Len(s) <= Len(h.buf) - h.writePos
    OBVIOUS
  <2> QED
    BY <2>1, <1>1, <1>2, <1>5, <1>6, FillMore
<1>8. Unread(c) /\ Len(c.buf) = HEADERLENGTH
  BY <1>1, StoreIsProper DEF Unread, SameSize
<1> HIDE DEF c
<1>9. c.writePos = q + k /\ \A x \in 1 .. q + k : c.buf[x] = AllBytes(ms)[start + x]
  <2>1. \A x \in 1 .. q + k : x \in 1 .. HEADERLENGTH
    BY <1>1, <1>3
  <2> QED
    BY <2>1, <1>4, <1>7 DEF Filled
<1> QED
  BY <1>2, <1>8, <1>9 DEF c, HeaderGoesOn

\* The numbers that the receiver reads out of a header are those the sender put in.
LEMMA HeaderRead ==
  ASSUME WireFits, NEW c, Unread(c), Len(c.buf) = HEADERLENGTH, c.writePos = HEADERLENGTH,
         NEW num \in 0 .. Base - 1, NEW channel \in Byte, NEW l \in Nat, l < Limit(2),
         HeaderIs(c.buf, num, channel, l)
  PROVE  HeaderSays(c, num, channel, l)
<1> DEFINE n  == ReadUint8(ReadSeek(c, 0).b)
           ch == ReadUint8(n.b)
           le == ReadUint16(ch.b)
           c1 == Advanced(c, 1)
           c2 == Advanced(c1, 1)
           c3 == Advanced(c2, 2)
<1>1. /\ Proper(c) /\ c.readPos = 0 /\ HEADERLENGTH \in Nat /\ 4 <= HEADERLENGTH
      /\ Len(c.buf) < SizeT
      /\ NoteSize \in Nat /\ SizeT \in Nat
  <2>1. NoteSize + HEADERLENGTH < SizeT /\ NoteSize \in Nat /\ HEADERLENGTH \in Nat
    BY WireAssumption DEF WireFits
  <2>2. Len(c.buf) < SizeT
    BY <2>1, BytesAssumption
  <2> QED
    BY <2>1, <2>2, BytesAssumption DEF WireFits, Unread
<1>2. ReadSeek(c, 0).b = c
  <2>1. ~ (0 > Len(c.buf))
    BY <1>1
  <2>2. [c EXCEPT !.readPos = 0] = c
    BY <1>1, ProperFacts
  <2> QED
    BY <2>1, <2>2 DEF ReadSeek
<1>3. Limit(1) = Base /\ Base \in Nat /\ channel \in 0 .. Base - 1
  BY LimitValues, ByteType DEF Byte
<1>4. /\ num % Limit(1) = num /\ channel % Limit(1) = channel /\ l % Limit(2) = l
      /\ num \in Int /\ channel \in Int /\ l \in Int
  <2>1. /\ num \in 0 .. Limit(1) - 1 /\ channel \in 0 .. Limit(1) - 1 /\ l \in 0 .. Limit(2) - 1
        /\ num \in Int /\ channel \in Int /\ l \in Int
    <3>1. Limit(2) \in Nat /\ num \in 0 .. Base - 1
      BY LimitType
    <3>2. \A x, y \in Nat : x < y => x \in 0 .. y - 1
      OBVIOUS
    <3>3. l \in 0 .. Limit(2) - 1
      BY <3>1, <3>2
    <3>4. num \in Int /\ channel \in Int
      BY <1>3, <3>1
    <3> QED
      BY <1>3, <3>1, <3>3, <3>4
  <2> QED
    BY <2>1, NumberOfBytes
<1>5. n.ret = num /\ n.b = c1
  <2>1. \A t \in 1 .. 1 : c.buf[c.readPos + t] = Htonl(num, 1)[t]
    BY <1>1 DEF HeaderIs
  <2>2. c.readPos + 1 <= c.writePos
    BY <1>1
  <2>3. GetNumber(c, 1).ret = num % Limit(1) /\ GetNumber(c, 1).b = c1
    BY <2>1, <2>2, <1>1, <1>4, GetNumberIs
  <2> QED
    BY <2>3, <1>2, <1>4 DEF ReadUint8
<1>6. /\ Proper(c1) /\ c1.buf = c.buf /\ c1.readPos = 1 /\ c1.writePos = HEADERLENGTH
  <2>1. c.readPos + 1 <= c.writePos
    BY <1>1
  <2> QED
    BY <2>1, <1>1, ReadSucceeds
<1> HIDE DEF n, c1
<1>7. ch.ret = channel /\ ch.b = c2
  <2>1. \A t \in 1 .. 1 : c1.buf[c1.readPos + t] = Htonl(channel, 1)[t]
    BY <1>6 DEF HeaderIs
  <2>2. c1.readPos + 1 <= c1.writePos /\ Len(c1.buf) < SizeT
    BY <1>1, <1>6
  <2>3. GetNumber(c1, 1).ret = channel % Limit(1) /\ GetNumber(c1, 1).b = c2
    BY <2>1, <2>2, <1>6, <1>4, GetNumberIs
  <2> QED
    BY <2>3, <1>5, <1>4 DEF ReadUint8
<1>8. /\ Proper(c2) /\ c2.buf = c.buf /\ c2.readPos = 2 /\ c2.writePos = HEADERLENGTH
  <2>1. c1.readPos + 1 <= c1.writePos /\ Len(c1.buf) < SizeT
    BY <1>1, <1>6
  <2> QED
    BY <2>1, <1>6, ReadSucceeds
<1> HIDE DEF ch, c2
<1>9. le.ret = l /\ le.b = c3
  <2>1. \A t \in 1 .. 2 : c2.buf[c2.readPos + t] = Htonl(l, 2)[t]
    <3> TAKE t \in 1 .. 2
    <3>1. t = 1 \/ t = 2
      OBVIOUS
    <3> QED
      BY <3>1, <1>8 DEF HeaderIs
  <2>2. c2.readPos + 2 <= c2.writePos /\ Len(c2.buf) < SizeT
    BY <1>1, <1>8
  <2>3. GetNumber(c2, 2).ret = l % Limit(2) /\ GetNumber(c2, 2).b = c3
    <3>1. PICK w \in Nat \ {0}, k \in Int : w = 2 /\ k = l
      BY <1>4
    <3>2. c2.readPos + w <= c2.writePos /\ \A t \in 1 .. w : c2.buf[c2.readPos + t] = Htonl(k, w)[t]
      BY <2>1, <2>2, <3>1
    <3>3. GetNumber(c2, w).ret = k % Limit(w) /\ GetNumber(c2, w).b = Advanced(c2, w)
      BY <3>2, <2>2, <1>8, GetNumberIs
    <3> QED
      BY <3>1, <3>3
  <2> QED
    BY <2>3, <1>7, <1>4 DEF ReadUint16
<1>10. Proper(c3) /\ c3.buf = c.buf
  <2>1. c2.readPos + 2 <= c2.writePos /\ Len(c2.buf) < SizeT
    BY <1>1, <1>8
  <2> QED
    BY <2>1, <1>8, ReadSucceeds
<1> HIDE DEF le, c3
<1>11. /\ Unread(Clear(le.b)) /\ Len(Clear(le.b).buf) = HEADERLENGTH /\ Clear(le.b).writePos = 0
  <2>1. Unread(Clear(c3)) /\ Len(Clear(c3).buf) = Len(c3.buf)
    BY <1>10, ClearIsUnread
  <2>2. Clear(c3).writePos = 0
    BY <1>10, ProperFacts DEF Clear
  <2> QED
    BY <2>1, <2>2, <1>9, <1>10
<1> QED
  BY <1>5, <1>7, <1>9, <1>11 DEF n, ch, le, HeaderSays

-----------------------------------------------------------------------------
(* Chunks. *)

ChunkNumber(m, j) == IF m.type = "EVENT_RECIVE_STREAM" THEN 0 ELSE Len(Chunks(m)) - j + 1

LEMMA ChunkFacts ==
  ASSUME WireFits, NEW m \in ProperMessage, NEW j, NEW from, NEW l, IsChunk(m, j, from, l)
  PROVE  LET row == Row(m.fields)
             c == Chunks(m)[j]
             n == Len(Chunks(m))
         IN  /\ row \in Seq(Byte) /\ Len(row) \in 1 .. NoteSize /\ NoteSize \in Nat
             /\ n \in 1 .. Base - 1 /\ j \in 1 .. n
             /\ from \in 0 .. NoteSize /\ l \in 1 .. NoteSize /\ from + l <= Len(row)
             /\ c \in Seq(Byte) /\ Len(c) = HEADERLENGTH + l
             /\ \A t \in 1 .. l : c[HEADERLENGTH + t] = row[from + t]
             /\ j = n => from + l = Len(row)
             /\ j = 1 => from = 0 /\ Len(row) <= l * n
             /\ m.type = "EVENT_RECIVE_STREAM" => n = 1 /\ j = 1 /\ from = 0 /\ l = Len(row)
<1> DEFINE row == Row(m.fields)
           c == Chunks(m)[j]
           n == Len(Chunks(m))
<1>1. /\ row \in Seq(Byte) /\ n \in 1 .. Base - 1
      /\ m.type = "EVENT_RECIVE_STREAM" => n = 1
  BY ChunksType
<1>2. row # <<>> /\ Len(row) <= NoteSize /\ NoteSize \in Nat
  BY WireAssumption DEF ProperMessage
<1>3. j \in 1 .. n
  BY DEF IsChunk
<1>4. ChunkAt(c, m.type, m.channel, row, n, j, from, l)
  BY DEF IsChunk
<1> HIDE DEF row, c, n
<1>5. /\ c \in Seq(Byte) /\ Len(c) = HEADERLENGTH + l
      /\ \A t \in 1 .. l : c[HEADERLENGTH + t] = row[from + t]
      /\ l \in Nat /\ 1 <= l /\ from \in Nat /\ from + l <= Len(row)
      /\ j = n => from + l = Len(row)
      /\ j = 1 => from = 0 /\ Len(row) <= l * n
  BY <1>4 DEF ChunkAt, ChunkIs
<1>6. Len(row) \in 1 .. NoteSize
  <2>1. Len(row) \in Nat /\ Len(row) # 0
    BY <1>1, <1>2
  <2> QED
    BY <2>1, <1>2
<1>7. from \in 0 .. NoteSize /\ l \in 1 .. NoteSize
  BY <1>2, <1>5, <1>6
<1>8. m.type = "EVENT_RECIVE_STREAM" => n = 1 /\ j = 1 /\ from = 0 /\ l = Len(row)
  BY <1>1, <1>3, <1>5, <1>6
<1> QED
  BY <1>1, <1>2, <1>3, <1>5, <1>6, <1>7, <1>8 DEF row, c, n

LEMMA ChunkHeader ==
  ASSUME WireFits, NEW m \in ProperMessage, NEW j, NEW from, NEW l, IsChunk(m, j, from, l)
  PROVE  /\ ChunkNumber(m, j) \in 0 .. Base - 1 /\ m.channel \in Byte
         /\ l \in Nat /\ l < Limit(2)
         /\ HeaderIs(Chunks(m)[j], ChunkNumber(m, j), m.channel, l)
<1>1. /\ Len(Chunks(m)) \in 1 .. Base - 1 /\ j \in 1 .. Len(Chunks(m))
      /\ l \in 1 .. NoteSize /\ NoteSize \in Nat
  BY ChunkFacts
<1>2. NoteSize < Limit(2) /\ Limit(2) \in Nat /\ Base \in Nat
  BY LimitType, ByteType DEF WireFits
<1>3. ChunkNumber(m, j) \in 0 .. Base - 1
  <2>1. PICK n, b \in Nat : n = Len(Chunks(m)) /\ b = Base /\ n \in 1 .. b - 1 /\ j \in 1 .. n
    BY <1>1, <1>2
  <2>2. n - j + 1 \in 0 .. b - 1 /\ 0 \in 0 .. b - 1
    BY <2>1
  <2> QED
    BY <2>1, <2>2 DEF ChunkNumber
<1>4. m.channel \in Byte
  BY DEF ProperMessage, Message, WireFits
<1>5. l < Limit(2)
  BY <1>1, <1>2
<1>6. HeaderIs(Chunks(m)[j], ChunkNumber(m, j), m.channel, l)
  BY DEF IsChunk, ChunkAt, ChunkIs, ChunkNumber
<1> QED
  BY <1>1, <1>3, <1>4, <1>5, <1>6

\* The next chunk goes on where this one ends.
LEMMA NextChunk ==
  ASSUME WireFits, NEW m \in ProperMessage, NEW j, NEW from, NEW l, IsChunk(m, j, from, l),
         j < Len(Chunks(m))
  PROVE  \E k : IsChunk(m, j + 1, from + l, k)
<1>1. j \in 1 .. Len(Chunks(m)) /\ Len(Chunks(m)) \in Nat
  BY ChunkFacts
<1>2. PICK i \in 1 .. Len(Chunks(m)) : i = j + 1 /\ i - 1 = j
  <2>1. j + 1 \in 1 .. Len(Chunks(m)) /\ (j + 1) - 1 = j
    BY <1>1
  <2> QED
    BY <2>1
<1>3. PICK f, k : IsChunk(m, i, f, k)
  BY ChunksType
<1>4. f = (ChunkSize - HEADERLENGTH) * (i - 1)
  BY <1>3 DEF IsChunk, ChunkAt
<1>5. (ChunkSize - HEADERLENGTH) * j = from + l
  BY DEF IsChunk, ChunkAt
<1>6. f = from + l
  BY <1>2, <1>4, <1>5
<1> QED
  BY <1>2, <1>3, <1>6

-----------------------------------------------------------------------------
(* Events. *)

LEMMA EventFacts ==
  ASSUME NEW m \in ProperMessage, NEW ev, EventFor(ev, m)
  PROVE  ev # NoEvent /\ ev.type # "EVENT_NOTHING"
BY DEF EventFor, NoEvent, Event, ProperMessage, Message

LEMMA EventWith ==
  ASSUME NEW m \in ProperMessage, NEW ev, EventFor(ev, m),
         NEW c, Unread(c), Len(c.buf) = Len(ev.b.buf)
  PROVE  EventFor([ev EXCEPT !.b = c], m)
<1>1. ev \in ProperEvent /\ c \in ProperBuffer
  BY ProperSet DEF EventFor, Unread
<1>2. [ev EXCEPT !.b = c] = [type |-> ev.type, channel |-> ev.channel, b |-> c]
  BY <1>1 DEF ProperEvent
<1>3. PICK e : e = [ev EXCEPT !.b = c]
  OBVIOUS
<1>4. e \in ProperEvent /\ e.type = ev.type /\ e.channel = ev.channel /\ e.b = c
  BY <1>1, <1>2, <1>3 DEF ProperEvent
<1> QED
  BY <1>3, <1>4 DEF EventFor

\* An event that has all the message's bytes is that of the message.
LEMMA EventIsWhole ==
  ASSUME NEW m \in ProperMessage, NEW ev, EventFor(ev, m), NEW c, Unread(c), Len(c.buf) = Len(ev.b.buf),
         Filled(c, Row(m.fields), Len(Row(m.fields)))
  PROVE  EventOf([ev EXCEPT !.b = ReadSeek(c, 0).b], m)
<1>1. Proper(c) /\ c.readPos = 0 /\ Len(c.buf) \in Nat
  BY ProperFacts DEF Unread
<1>2. ReadSeek(c, 0).b = c
  <2>1. ~ (0 > Len(c.buf))
    BY <1>1
  <2>2. [c EXCEPT !.readPos = 0] = c
    BY <1>1, ProperFacts
  <2> QED
    BY <2>1, <2>2 DEF ReadSeek
<1>3. PICK e : e = [ev EXCEPT !.b = c]
  OBVIOUS
<1>4. EventFor(e, m) /\ e.b = c
  <2>1. EventFor(e, m)
    BY <1>3, EventWith
  <2>2. e.b = c
    BY <1>3 DEF EventFor, ProperEvent
  <2> QED
    BY <2>1, <2>2
<1>5. Holds(c, Row(m.fields))
  BY DEF Filled, Holds
<1> QED
  BY <1>2, <1>3, <1>4, <1>5 DEF EventFor, EventOf

LEMMA PoolGrows ==
  ASSUME NEW pool \in Seq(ProperEvent), NEW ms \in Seq(ProperMessage), NEW d \in Nat,
         PoolHas(pool, ms, d), NEW i \in 1 .. Len(ms), i = d + Len(pool) + 1,
         NEW ev, EventOf(ev, ms[i])
  PROVE  PoolHas(Append(pool, ev), ms, d)
<1>1. ev \in ProperEvent
  BY DEF EventOf
<1>2. PICK n \in Nat : n = Len(pool)
  BY LenProperties
<1>3. /\ Len(Append(pool, ev)) = n + 1
      /\ \A k \in 1 .. n : Append(pool, ev)[k] = pool[k]
      /\ Append(pool, ev)[n + 1] = ev
  BY <1>1, <1>2, AppendProperties
<1>4. d + (n + 1) <= Len(ms) /\ i = d + (n + 1)
  BY <1>2
<1>5. ASSUME NEW k \in 1 .. n + 1
      PROVE  EventOf(Append(pool, ev)[k], ms[d + k])
  <2>1. k \in 1 .. n \/ k = n + 1
    OBVIOUS
  <2>2. CASE k \in 1 .. n
    BY <2>2, <1>2, <1>3 DEF PoolHas
  <2>3. CASE k = n + 1
    BY <2>3, <1>3, <1>4
  <2> QED
    BY <2>1, <2>2, <2>3
<1> QED
  BY <1>3, <1>4, <1>5 DEF PoolHas

\* What a recv() of bytes of a chunk's payload does to the event's buffer.
PayloadGoesOn(ms, i, ev, j, from, l, o, p, s) ==
  LET c == Store(ev.b, s)
  IN  /\ Unread(c) /\ Len(c.buf) = Len(ev.b.buf)
      /\ l - o \in Nat \ {0} /\ l - o <= Len(ev.b.buf) - ev.b.writePos
      /\ Len(s) # l - o => Payload(c, ms, i, j, from, l, o + Len(s), p + Len(s))
      /\ Len(s) = l - o =>
           /\ Filled(c, Row(ms[i].fields), from + l)
           /\ p + Len(s) = ChunkBegin(ms, i, j) + HEADERLENGTH + l

LEMMA PayloadMore ==
  ASSUME WireFits, NEW ms \in Seq(ProperMessage), NEW i \in 1 .. Len(ms), NEW ev, EventFor(ev, ms[i]),
         NEW j, NEW from, NEW l, NEW o, NEW p \in Nat, Payload(ev.b, ms, i, j, from, l, o, p),
         NEW s \in Seq(Byte), 1 <= Len(s), Len(s) <= l - o,
         \A t \in 1 .. Len(s) : s[t] = AllBytes(ms)[p + t]
  PROVE  PayloadGoesOn(ms, i, ev, j, from, l, o, p, s)
<1> DEFINE m == ms[i]
           b == ev.b
           c == Store(b, s)
           row == Row(m.fields)
           at == ChunkBegin(ms, i, j)
<1>1. m \in ProperMessage
  OBVIOUS
<1>2. /\ Unread(b) /\ Len(row) <= Len(b.buf) /\ Len(b.buf) \in Nat /\ b.writePos \in Nat /\ Proper(b)
  BY ProperFacts DEF EventFor, Unread
<1>3. /\ IsChunk(m, j, from, l) /\ o \in 0 .. l - 1
      /\ p = at + HEADERLENGTH + o /\ Filled(b, row, from + o)
  BY DEF Payload
<1>4. /\ from \in Nat /\ l \in Nat /\ from + l <= Len(row) /\ Len(row) \in Nat
      /\ \A t \in 1 .. l : Chunks(m)[j][HEADERLENGTH + t] = row[from + t]
  <2> HIDE DEF m
  <2>1. /\ from \in 0 .. NoteSize /\ l \in 1 .. NoteSize /\ from + l <= Len(row)
        /\ Len(row) \in 1 .. NoteSize /\ NoteSize \in Nat
        /\ \A t \in 1 .. l : Chunks(m)[j][HEADERLENGTH + t] = row[from + t]
    BY <1>1, <1>3, ChunkFacts
  <2> QED
    BY <2>1
<1>5. /\ at \in Nat /\ HEADERLENGTH \in Nat
      /\ \A x \in 1 .. HEADERLENGTH + l : AllBytes(ms)[at + x] = Chunks(m)[j][x]
  <2>1. IsChunk(ms[i], j, from, l)
    BY <1>3
  <2>2. ChunkFound(ms, i, j, l)
    BY <2>1, ChunkIsAt
  <2> QED
    BY <2>2, WireAssumption DEF ChunkFound
<1> HIDE DEF at, m, row
<1>6. PICK k, q \in Nat : k = Len(s) /\ q = from + o
  <2>1. Len(s) \in Nat /\ from + o \in Nat
    BY <1>3, <1>4, LenProperties
  <2> QED
    BY <2>1
<1>15. at + HEADERLENGTH \in Nat /\ o \in Nat /\ HEADERLENGTH \in Nat /\ at \in Nat
  BY <1>3, <1>4, <1>5
<1>16. PICK h, x, v, y, z, f, lr, lb \in Nat :
         /\ h = at + HEADERLENGTH /\ x = HEADERLENGTH /\ v = at /\ y = o /\ z = l /\ f = from
         /\ lr = Len(row) /\ lb = Len(b.buf)
  BY <1>2, <1>4, <1>15, Zenon
<1>17. /\ h = v + x /\ p = h + y /\ q = f + y /\ f + z <= lr /\ lr <= lb
       /\ y \in 0 .. z - 1 /\ 1 <= k /\ k <= z - y
  <2>1. h = v + x /\ p = h + y /\ q = f + y
    BY <1>3, <1>6, <1>16
  <2>2. f + z <= lr /\ lr <= lb
    BY <1>2, <1>4, <1>16
  <2>3. y \in 0 .. z - 1 /\ 1 <= k /\ k <= z - y
    BY <1>3, <1>6, <1>16
  <2> QED
    BY <2>1, <2>2, <2>3
<1>7. ASSUME NEW t \in 1 .. k
      PROVE  s[t] = row[q + t]
  <2>1. /\ y + t \in 1 .. z /\ x + (y + t) \in 1 .. x + z
        /\ v + (x + (y + t)) = p + t /\ f + (y + t) = q + t
    BY <1>17
  <2>2. s[t] = AllBytes(ms)[p + t]
    BY <1>6
  <2>3. AllBytes(ms)[v + (x + (y + t))] = Chunks(m)[j][x + (y + t)]
    BY <1>5, <1>16, <2>1
  <2>4. Chunks(m)[j][x + (y + t)] = row[f + (y + t)]
    BY <1>4, <1>16, <2>1
  <2> QED
    BY <2>1, <2>2, <2>3, <2>4
<1>18. b.writePos = q
  BY <1>3, <1>6 DEF Filled
<1>19. q + k <= f + z /\ z - y \in Nat \ {0} /\ z - y <= lb - q /\ k <= lb - q
  BY <1>17
<1>8. l - o \in Nat \ {0} /\ l - o <= Len(b.buf) - b.writePos
  BY <1>16, <1>18, <1>19
<1>9. Len(s) <= Len(b.buf) - b.writePos
  BY <1>6, <1>16, <1>18, <1>19
<1>10. Unread(c) /\ Len(c.buf) = Len(b.buf)
  BY <1>2, <1>9, StoreIsProper DEF Unread, SameSize
<1>11. Filled(c, row, q + k)
  BY <1>2, <1>3, <1>6, <1>7, <1>9, FillMore
<1> HIDE DEF c
<1>12. q + k = from + (o + k)
  <2>1. q + k = f + (y + k)
    BY <1>17
  <2> QED
    BY <2>1, <1>16
<1>13. CASE k # l - o
  <2>3. k # z - y
    BY <1>13, <1>16
  <2>1. y + k \in 0 .. z - 1 /\ p + k = h + (y + k)
    BY <2>3, <1>17
  <2>2. o + k \in 0 .. l - 1 /\ p + k = at + HEADERLENGTH + (o + k)
    BY <2>1, <1>16
  <2> QED
    BY <2>2, <1>3, <1>6, <1>8, <1>10, <1>11, <1>12, <1>13 DEF Payload, PayloadGoesOn, b, c, at, m, row
<1>14. CASE k = l - o
  <2>3. k = z - y
    BY <1>14, <1>16
  <2>1. f + (y + k) = f + z /\ p + k = h + z
    BY <2>3, <1>17
  <2>2. q + k = from + l /\ p + k = at + HEADERLENGTH + l
    BY <2>1, <1>12, <1>16
  <2> QED
    BY <2>2, <1>6, <1>8, <1>10, <1>11, <1>14 DEF PayloadGoesOn, b, c, at, m, row
<1> QED
  BY <1>13, <1>14

-----------------------------------------------------------------------------
(* The receiver, when a message more is sent. *)

LEMMA HeaderStays ==
  ASSUME WireFits, NEW ms \in Seq(ProperMessage), NEW m \in ProperMessage,
         NEW h, Unread(h), NEW start \in Nat, NEW p \in 0 .. Len(AllBytes(ms)), HeaderAt(h, ms, start, p)
  PROVE  HeaderAt(h, Append(ms, m), start, p)
<1>1. h.writePos \in Nat /\ p = start + h.writePos
  BY ProperFacts DEF Unread, HeaderAt
<1>2. Len(AllBytes(ms)) \in Nat
  BY EncodingsType, LenProperties
<1>3. \A x \in 1 .. h.writePos : AllBytes(Append(ms, m))[start + x] = AllBytes(ms)[start + x]
  <2> TAKE x \in 1 .. h.writePos
  <2>1. PICK y \in 1 .. Len(AllBytes(ms)) : y = start + x
    <3>1. start + x \in 1 .. Len(AllBytes(ms))
      BY <1>1, <1>2
    <3> QED
      BY <3>1
  <2>2. AllBytes(Append(ms, m))[y] = AllBytes(ms)[y]
    BY BytesStay
  <2> QED
    BY <2>1, <2>2
<1> QED
  BY <1>3 DEF HeaderAt

LEMMA StartType ==
  ASSUME WireFits, NEW ms \in Seq(ProperMessage), NEW i \in 1 .. Len(ms) + 1
  PROVE  MessageStart(ms, i) \in Nat
<1>1. PICK e \in Seq(Seq(Byte)) : e = Encodings(ms) /\ Len(e) = Len(ms)
  BY EncodingsType
<1>2. CASE i = Len(ms) + 1
  BY <1>2, EncodingsType, LenProperties
<1>3. CASE i \in 1 .. Len(ms)
  <2>1. i \in 1 .. Len(e)
    BY <1>1, <1>3
  <2>2. Upto(e, i - 1) \in Seq(Byte)
    BY <2>1, UptoStep
  <2> QED
    BY <2>2, <1>1, LenProperties DEF MessageStart
<1>4. i = Len(ms) + 1 \/ i \in 1 .. Len(ms)
  OBVIOUS
<1> QED
  BY <1>2, <1>3, <1>4

LEMMA ReceiverStays ==
  ASSUME WireFits, NEW ms \in Seq(ProperMessage), NEW m \in ProperMessage,
         NEW h, NEW se, NEW be, NEW cl, NEW nn, NEW i \in 1 .. Len(ms) + 1,
         NEW p \in 0 .. Len(AllBytes(ms)), ReceiverAt(h, se, be, cl, nn, ms, i, p)
  PROVE  ReceiverAt(h, se, be, cl, nn, Append(ms, m), i, p)
<1>1. Unread(h) /\ Len(h.buf) = HEADERLENGTH
  BY DEF ReceiverAt
<1>2. PICK as \in Seq(ProperMessage) :
        /\ as = Append(ms, m) /\ Len(as) = Len(ms) + 1
        /\ \A k \in 1 .. Len(ms) : as[k] = ms[k]
        /\ \A k \in 1 .. Len(ms) + 1 : MessageStart(as, k) = MessageStart(ms, k)
  BY BytesStay
<1>3. \A k \in 1 .. Len(ms) : \A j : ChunkBegin(as, k, j) = ChunkBegin(ms, k, j)
  <2>1. \A k \in 1 .. Len(ms) : k \in 1 .. Len(ms) + 1
    OBVIOUS
  <2> QED
    BY <2>1, <1>2 DEF ChunkBegin
<1>4. \A start \in Nat : HeaderAt(h, ms, start, p) => HeaderAt(h, as, start, p)
  BY <1>1, <1>2, HeaderStays
<1>5. \A k \in 1 .. Len(ms) : k \in 1 .. Len(as)
  BY <1>2
<1>6. \A k \in 1 .. Len(ms) : \A b, j, from, l, o :
        Payload(b, ms, k, j, from, l, o, p) => Payload(b, as, k, j, from, l, o, p)
  BY <1>2, <1>3 DEF Payload
<1>7. CASE AtMessage(h, se, be, ms, i, p)
  <2>1. HeaderAt(h, ms, MessageStart(ms, i), p) /\ se = NoEvent /\ be = NoEvent
    BY <1>7 DEF AtMessage
  <2>2. h.writePos \in Nat /\ p = MessageStart(ms, i) + h.writePos
    BY <2>1, <1>1, ProperFacts DEF HeaderAt, Unread
  <2>3. MessageStart(ms, i) \in Nat
    BY StartType
  <2>4. HeaderAt(h, as, MessageStart(as, i), p)
    BY <2>1, <2>3, <1>2, <1>4
  <2> QED
    BY <2>1, <2>4, <1>1, <1>2 DEF AtMessage, ReceiverAt
<1>8. CASE InStream(h, se, be, ms, i, p)
  <2>1. i \in 1 .. Len(ms) /\ i \in 1 .. Len(as) /\ as[i] = ms[i]
    BY <1>8, <1>2, <1>5 DEF InStream
  <2>2. \E from, l, o \in 0 .. NoteSize : Payload(se.b, as, i, 1, from, l, o, p)
    BY <1>8, <2>1, <1>6 DEF InStream
  <2>3. InStream(h, se, be, as, i, p)
    BY <1>8, <2>1, <2>2 DEF InStream
  <2> QED
    BY <2>3, <1>1, <1>2 DEF ReceiverAt
<1>9. CASE InBlock(h, se, be, cl, nn, ms, i, p)
  <2>1. i \in 1 .. Len(ms) /\ i \in 1 .. Len(as) /\ as[i] = ms[i]
    BY <1>9, <1>2, <1>5 DEF InBlock
  <2>2. PICK j \in 1 .. Len(Chunks(ms[i])), from \in 0 .. NoteSize, l \in 0 .. NoteSize, o \in 0 .. NoteSize :
          Payload(be.b, ms, i, j, from, l, o, p) /\ cl = l - o /\ nn = Len(Chunks(ms[i])) - j + 1
    BY <1>9 DEF InBlock
  <2>3. Payload(be.b, as, i, j, from, l, o, p)
    BY <2>1, <2>2, <1>6
  <2>4. InBlock(h, se, be, cl, nn, as, i, p)
    BY <1>9, <2>1, <2>2, <2>3 DEF InBlock
  <2> QED
    BY <2>4, <1>1, <1>2 DEF ReceiverAt
<1>10. CASE AtChunk(h, se, be, cl, ms, i, p)
  <2>1. i \in 1 .. Len(ms) /\ i \in 1 .. Len(as) /\ as[i] = ms[i]
    BY <1>10, <1>2, <1>5 DEF AtChunk
  <2>2. PICK j \in 2 .. Len(Chunks(ms[i])), from \in 0 .. NoteSize, l \in 0 .. NoteSize :
          /\ IsChunk(ms[i], j, from, l) /\ Filled(be.b, Row(ms[i].fields), from)
          /\ HeaderAt(h, ms, ChunkBegin(ms, i, j), p)
    BY <1>10 DEF AtChunk
  <2>3. ChunkBegin(ms, i, j) \in Nat
    BY <2>1, <2>2, ChunkIsAt DEF ChunkFound
  <2>4. HeaderAt(h, as, ChunkBegin(as, i, j), p)
    BY <2>1, <2>2, <2>3, <1>3, <1>4
  <2>5. AtChunk(h, se, be, cl, as, i, p)
    BY <1>10, <2>1, <2>2, <2>4 DEF AtChunk
  <2> QED
    BY <2>5, <1>1, <1>2 DEF ReceiverAt
<1> QED
  BY <1>7, <1>8, <1>9, <1>10 DEF ReceiverAt

-----------------------------------------------------------------------------
(* The steps of the sender. *)

LEMMA RowOfNone == FieldRows(<<>>) = <<>> /\ Row(<<>>) = <<>>
<1>1. FieldRows(<<>>) = <<>>
  BY DEF FieldRows
<1>2. FlattenSeq(<<>>) = <<>>
  BY DEF FlattenSeq
<1> QED
  BY <1>1, <1>2 DEF Row

LEMMA RowOfSome ==
  ASSUME WireFits, NEW fs \in Seq(Fields), fs # <<>>
  PROVE  Row(fs) # <<>>
<1>1. PICK rows \in Seq(Seq(Byte)) :
        /\ rows = FieldRows(fs) /\ Len(rows) = Len(fs)
        /\ \A k \in 1 .. Len(fs) : rows[k] = FieldRow(fs[k])
  BY FieldRowsType
<1>2. 1 \in 1 .. Len(rows) /\ 1 \in 1 .. Len(fs) /\ fs[1] \in Fields
  BY <1>1
<1>3. Len(rows[1]) \in Nat \ {0}
  BY <1>1, <1>2, FieldRowType
<1>4. Len(Upto(rows, 1 - 1)) \in Nat /\ Len(Upto(rows, 1 - 1)) + Len(rows[1]) <= Len(FlattenSeq(rows))
  BY <1>2, RowIsAt
<1>5. Len(<<>>) = 0
  OBVIOUS
<1> QED
  BY <1>1, <1>3, <1>4, <1>5 DEF Row

\* What the application gives to a write are the bytes of its fields.
LEMMA ContentsAre ==
  ASSUME WireFits, NoteHas(note, fields)
  PROVE  Contents = Row(fields) /\ Len(Row(fields)) <= NoteSize
<1>1. /\ Proper(note) /\ note.readPos = 0 /\ Len(note.buf) = NoteSize /\ Holds(note, Row(fields))
      /\ Row(fields) \in Seq(Byte)
  BY FieldRowsType DEF NoteHas, Unread
<1>2. PICK buf \in Seq(Byte), n \in Nat :
        buf = note.buf /\ n = note.writePos /\ n <= Len(buf) /\ n = Len(Row(fields))
        /\ \A x \in 1 .. n : buf[x] = Row(fields)[x]
  BY <1>1, ProperFacts DEF Holds
<1>3. GetBuffer(note) = SubSeq(buf, 1, Len(buf))
  BY <1>1, <1>2 DEF GetBuffer
<1>4. Contents = SubSeq(buf, 1, n)
  BY <1>2, <1>3, SubSeqFull DEF Contents, GetDataLength
<1>5. /\ SubSeq(buf, 1, n) \in Seq(Byte) /\ Len(SubSeq(buf, 1, n)) = n
      /\ \A x \in 1 .. n : SubSeq(buf, 1, n)[x] = buf[x]
  <2>1. 0 \in Nat /\ n = 0 + n /\ 1 = 0 + 1 /\ \A x \in 1 .. n : 0 + x = x
    OBVIOUS
  <2>2. SubSeq(buf, 1, n) \in Seq(Byte) /\ PartOf(SubSeq(buf, 1, n), buf, 0, n)
    BY <1>2, <2>1, RowPart
  <2> QED
    BY <2>1, <2>2 DEF PartOf
<1>6. PICK r \in Seq(Byte) : r = Row(fields)
  BY <1>1
<1>7. SubSeq(buf, 1, n) = r
  BY <1>2, <1>5, <1>6, SeqEqual
<1> QED
  BY <1>1, <1>2, <1>4, <1>6, <1>7

LEMMA SendCarries ==
  ASSUME WireFits, WireInv, Carrying, NEW channel \in Channels,
         NEW type \in {"EVENT_RECIVE_BLOCK", "EVENT_RECIVE_STREAM"},
         NEW buffers, buffers = BuffersOf(type, channel, Contents), Send(type, channel, buffers)
  PROVE  Carrying' /\ Channel!Accept
<1> DEFINE m == [type |-> type, channel |-> channel, fields |-> fields]
<1>1. /\ sent \in Seq(ProperMessage) /\ NoteHas(note, fields) /\ delivered \in Seq(Message)
      /\ PoolHas(eventPool, sent, Len(delivered))
  BY DEF Carrying
<1>2. /\ fields # <<>> /\ sent' = Append(sent, m) /\ writeBufferList' = writeBufferList \o buffers
      /\ note' = Clear(note) /\ fields' = <<>>
      /\ UNCHANGED <<wire, rcvVars, eventPool, delivered>>
  BY DEF Send
<1>3. m \in ProperMessage /\ m \in Message /\ m.type = type /\ m.channel = channel /\ m.fields = fields
  <2>1. fields \in Seq(Fields)
    BY <1>1 DEF NoteHas
  <2>2. m \in Message
    BY <2>1 DEF Message
  <2>3. Row(fields) # <<>> /\ Len(Row(fields)) <= NoteSize
    BY <1>1, <1>2, <2>1, RowOfSome, ContentsAre
  <2>4. m.type = type /\ m.channel = channel /\ m.fields = fields
    OBVIOUS
  <2> HIDE DEF m
  <2> QED
    BY <2>2, <2>3, <2>4 DEF ProperMessage
<1> HIDE DEF m
<1>4. Chunks(m) = Unsents(buffers) /\ buffers \in Seq(ProperBuffer)
  <2>1. Contents = Row(m.fields)
    BY <1>1, <1>3, ContentsAre
  <2>2. buffers = BuffersOf(m.type, m.channel, Row(m.fields))
    BY <2>1, <1>3
  <2>3. BuffersOf(m.type, m.channel, Row(m.fields)) \in Seq(ProperBuffer)
    BY <1>3, ChunksType
  <2> QED
    BY <2>2, <2>3 DEF Chunks, ChunksOf
<1>5. sent' \in Seq(ProperMessage) /\ Len(sent') = Len(sent) + 1 /\ sent'[Len(sent) + 1] = m
      /\ \A k \in 1 .. Len(sent) : sent'[k] = sent[k]
  BY <1>1, <1>2, <1>3, AppendProperties
<1>6. NoteHas(note', fields')
  <2>1. Unread(note) /\ Len(note.buf) = NoteSize
    BY <1>1 DEF NoteHas
  <2>2. Unread(Clear(note)) /\ Len(Clear(note).buf) = NoteSize /\ Clear(note).writePos = 0
    <3>1. Unread(Clear(note)) /\ Len(Clear(note).buf) = Len(note.buf)
      BY <2>1, ClearIsUnread DEF Unread
    <3>2. Clear(note).writePos = 0
      BY <2>1, ProperFacts DEF Clear, Unread
    <3> QED
      BY <2>1, <3>1, <3>2
  <2>3. Holds(Clear(note), Row(<<>>))
    BY <2>2, RowOfNone DEF Holds
  <2>4. <<>> \in Seq(Fields)
    OBVIOUS
  <2> QED
    BY <1>2, <2>2, <2>3, <2>4 DEF NoteHas
<1>7. delivered' \in Seq(Message) /\ PoolHas(eventPool', sent', Len(delivered'))
  <2>1. eventPool' = eventPool /\ delivered' = delivered
    BY <1>2
  <2>2. Len(delivered) \in Nat /\ Len(eventPool) \in Nat /\ Len(sent) \in Nat
    BY <1>1, LenProperties DEF WireInv
  <2>3. \A k \in 1 .. Len(eventPool) : Len(delivered) + k \in 1 .. Len(sent)
    <3>1. Len(delivered) + Len(eventPool) <= Len(sent)
      BY <1>1 DEF PoolHas
    <3> QED
      BY <2>2, <3>1
  <2>4. PoolHas(eventPool, sent', Len(delivered))
    <3>1. Len(delivered) + Len(eventPool) <= Len(sent')
      BY <1>1, <1>5, <2>2 DEF PoolHas
    <3>2. \A k \in 1 .. Len(eventPool) : EventOf(eventPool[k], sent'[Len(delivered) + k])
      BY <1>1, <1>5, <2>3 DEF PoolHas
    <3> QED
      BY <3>1, <3>2 DEF PoolHas
  <2> QED
    BY <1>1, <2>1, <2>4
<1>8. PICK p \in 0 .. Len(AllBytes(sent)) :
        /\ PipeAt(sent, wire, writeBufferList, p)
        /\ ReceiverAt(readHeaderBuffer, streamEvent, blockEvent, blockChunkLength, nowChunkNum,
                      sent, Len(delivered) + Len(eventPool) + 1, p)
  BY DEF Carrying
<1>9. p \in 0 .. Len(AllBytes(sent'))
  <2>1. /\ Len(AllBytes(sent)) <= Len(AllBytes(sent')) /\ Len(AllBytes(sent)) \in Nat
        /\ Len(AllBytes(sent')) \in Nat
    BY <1>1, <1>2, <1>3, <1>5, BytesStay, EncodingsType, LenProperties
  <2> QED
    BY <2>1
<1>10. PipeAt(sent', wire', writeBufferList', p)
  <2>1. p \in Nat /\ wire \in Seq(Byte) /\ writeBufferList \in Seq(ProperBuffer)
    BY <1>1, EncodingsType, LenProperties DEF WireInv
  <2>2. PipeAt(Append(sent, m), wire, writeBufferList \o buffers, p)
    BY <1>1, <1>3, <1>4, <1>8, <2>1, PipeGrows
  <2> QED
    BY <1>2, <2>2
<1>11. ReceiverAt(readHeaderBuffer', streamEvent', blockEvent', blockChunkLength', nowChunkNum',
                  sent', Len(delivered') + Len(eventPool') + 1, p)
  <2>1. PICK i \in 1 .. Len(sent) + 1 : i = Len(delivered) + Len(eventPool) + 1
    <3>1. Len(delivered) + Len(eventPool) + 1 \in 1 .. Len(sent) + 1
      BY <1>1, LenProperties DEF PoolHas, WireInv
    <3> QED
      BY <3>1
  <2>2. ReceiverAt(readHeaderBuffer, streamEvent, blockEvent, blockChunkLength, nowChunkNum,
                   Append(sent, m), i, p)
    BY <1>1, <1>3, <1>8, <2>1, ReceiverStays
  <2> QED
    BY <1>2, <2>1, <2>2 DEF rcvVars
<1>12. Carrying'
  BY <1>5, <1>6, <1>7, <1>9, <1>10, <1>11 DEF Carrying
<1>13. Channel!Accept
  BY <1>2, <1>3, <1>5 DEF Channel!Accept
<1> QED
  BY <1>12, <1>13

LEMMA FitSizes ==
  ASSUME WireFits
  PROVE  /\ NoteSize < SizeT /\ HEADERLENGTH < SizeT
         /\ SizeT \in Nat /\ NoteSize \in Nat /\ HEADERLENGTH \in Nat /\ 4 <= HEADERLENGTH
<1>1. NoteSize + HEADERLENGTH < SizeT /\ NoteSize \in Nat /\ HEADERLENGTH \in Nat /\ SizeT \in Nat
  BY WireAssumption, BytesAssumption DEF WireFits
<1> QED
  BY <1>1 DEF WireFits

LEMMA WriteFieldCarries ==
  ASSUME WireFits, WireInv, Carrying, NEW f \in Fields, WriteField(f)
  PROVE  Carrying' /\ UNCHANGED <<sent, delivered>>
<1>1. /\ Put(note, f).ret /\ note' = Put(note, f).b /\ fields' = Append(fields, f)
      /\ UNCHANGED <<sent, writeBufferList, wire, rcvVars, eventPool, delivered>>
  BY DEF WriteField
<1>2. /\ fields \in Seq(Fields) /\ Proper(note) /\ note.readPos = 0 /\ Len(note.buf) = NoteSize
      /\ Holds(note, Row(fields)) /\ Len(note.buf) < SizeT
  BY FitSizes DEF Carrying, NoteHas, Unread
<1>3. PICK s \in Seq(Byte), row \in Seq(Byte) : s = FieldRow(f) /\ row = Row(fields)
  BY <1>2, FieldRowType, FieldRowsType
<1>4. Put(note, f) = Write(note, s)
  BY <1>3, PutIs
<1>5. Len(s) <= Len(note.buf) - note.writePos /\ note' = Store(note, s)
  BY <1>1, <1>2, <1>4, WriteSucceeds
<1>6. Holds(Store(note, s), row \o s)
  BY <1>2, <1>3, <1>5, StoreHolds
<1>7. Unread(Store(note, s)) /\ Len(Store(note, s).buf) = NoteSize
  BY <1>2, <1>5, StoreIsProper DEF Unread, SameSize
<1>8. row \o s = Row(Append(fields, f)) /\ Append(fields, f) \in Seq(Fields)
  BY <1>2, <1>3, RowAppend
<1>9. NoteHas(note', fields')
  BY <1>1, <1>5, <1>6, <1>7, <1>8 DEF NoteHas
<1>10. UNCHANGED <<readHeaderBuffer, streamEvent, blockEvent, blockChunkLength, nowChunkNum>>
  BY <1>1 DEF rcvVars
<1> QED
  BY <1>1, <1>9, <1>10 DEF Carrying

LEMMA RunWriteCarries ==
  ASSUME WireFits, WireInv, Carrying, writeBufferList # <<>>,
         NEW n \in 1 .. Len(Unsent(Head(writeBufferList))), RunWrite(n)
  PROVE  Carrying' /\ UNCHANGED <<sent, delivered>>
<1>1. UNCHANGED <<appVars, rcvVars, eventPool, delivered>>
  BY DEF RunWrite
<1>2. UNCHANGED <<note, fields, sent, delivered, eventPool, readHeaderBuffer, streamEvent, blockEvent,
                  blockChunkLength, nowChunkNum>>
  BY <1>1 DEF appVars, rcvVars
<1>3. wire \in Seq(Byte) /\ writeBufferList \in Seq(ProperBuffer)
  BY DEF WireInv
<1>4. Pipe(wire', writeBufferList') = Pipe(wire, writeBufferList)
  BY <1>3, PipeWritten DEF RunWrite
<1>5. ASSUME NEW p, PipeAt(sent, wire, writeBufferList, p)
      PROVE  PipeAt(sent', wire', writeBufferList', p)
  BY <1>2, <1>4, <1>5 DEF PipeAt
<1> QED
  BY <1>2, <1>5 DEF Carrying

-----------------------------------------------------------------------------
(* The steps of the receiver. *)

\* Where the receiver is, and what a recv() of k bytes brings it.
Receiving(i, p) ==
  /\ p \in Nat /\ i \in 1 .. Len(sent) + 1 /\ i = Len(delivered) + Len(eventPool) + 1
  /\ PipeAt(sent, wire, writeBufferList, p)
  /\ ReceiverAt(readHeaderBuffer, streamEvent, blockEvent, blockChunkLength, nowChunkNum, sent, i, p)

LEMMA RecvBrings ==
  ASSUME WireFits, WireInv, Carrying, NEW k \in 1 .. Len(wire), Received(k)
  PROVE  \E i, p :
           /\ Receiving(i, p) /\ k \in Nat
           /\ Recv(k) \in Seq(Byte) /\ Len(Recv(k)) = k
           /\ \A t \in 1 .. k : Recv(k)[t] = AllBytes(sent)[p + t]
           /\ p + k \in 0 .. Len(AllBytes(sent))
           /\ PipeAt(sent, wire', writeBufferList, p + k)
<1>1. PICK p \in 0 .. Len(AllBytes(sent)) :
        /\ PipeAt(sent, wire, writeBufferList, p)
        /\ ReceiverAt(readHeaderBuffer, streamEvent, blockEvent, blockChunkLength, nowChunkNum,
                      sent, Len(delivered) + Len(eventPool) + 1, p)
  BY DEF Carrying
<1>2. /\ sent \in Seq(ProperMessage) /\ AllBytes(sent) \in Seq(Byte) /\ Len(AllBytes(sent)) \in Nat
      /\ wire \in Seq(Byte) /\ writeBufferList \in Seq(ProperBuffer) /\ p \in Nat /\ k \in Nat
  BY EncodingsType, LenProperties DEF Carrying, WireInv
<1>3. PICK i \in 1 .. Len(sent) + 1 : i = Len(delivered) + Len(eventPool) + 1
  <2>1. Len(delivered) + Len(eventPool) + 1 \in 1 .. Len(sent) + 1
    BY LenProperties DEF PoolHas, WireInv, Carrying
  <2> QED
    BY <2>1
<1>4. Receiving(i, p)
  BY <1>1, <1>2, <1>3 DEF Receiving
<1>5. Recv(k) \in Seq(Byte) /\ Len(Recv(k)) = k
  BY <1>2, RecvType
<1>6. /\ PipeAt(sent, SubSeq(wire, k + 1, Len(wire)), writeBufferList, p + k)
      /\ p + k <= Len(AllBytes(sent))
      /\ \A t \in 1 .. k : SubSeq(wire, 1, k)[t] = AllBytes(sent)[p + t]
  BY <1>1, <1>2, PipeRead
<1>7. p + k \in 0 .. Len(AllBytes(sent))
  BY <1>2, <1>6
<1>8. wire' = SubSeq(wire, k + 1, Len(wire))
  BY DEF Received
<1> QED
  BY <1>2, <1>4, <1>5, <1>6, <1>7, <1>8 DEF Recv

\* A step of the receiver that keeps what the invariant says.
LEMMA ReceiverCarries ==
  ASSUME WireFits, WireInv, Carrying, NEW k \in 1 .. Len(wire), Received(k),
         NEW p, p \in 0 .. Len(AllBytes(sent)), PipeAt(sent, wire', writeBufferList, p),
         PoolHas(eventPool', sent, Len(delivered)),
         ReceiverAt(readHeaderBuffer', streamEvent', blockEvent', blockChunkLength', nowChunkNum',
                    sent, Len(delivered) + Len(eventPool') + 1, p)
  PROVE  Carrying' /\ UNCHANGED <<sent, delivered>>
<1>1. UNCHANGED <<note, fields, sent, writeBufferList, delivered>>
  BY DEF Received, appVars
<1> QED
  BY <1>1 DEF Carrying

LEMMA HeaderEmpty ==
  ASSUME WireFits, NEW h, h.writePos = 0, NEW ms, NEW p \in Nat
  PROVE  HeaderAt(h, ms, p, p)
<1>1. 0 < HEADERLENGTH /\ p = p + 0
  BY FitSizes
<1>2. \A x \in 1 .. 0 : h.buf[x] = AllBytes(ms)[p + x]
  OBVIOUS
<1> QED
  BY <1>1, <1>2 DEF HeaderAt

\* The last chunk's last byte: the message is there, and the next one begins.
LEMMA MessageEnds ==
  ASSUME WireFits, WireInv, Carrying, NEW i, NEW q, Receiving(i, q), i \in 1 .. Len(sent),
         NEW ev, EventFor(ev, sent[i]), NEW c, Unread(c), Len(c.buf) = Len(ev.b.buf),
         NEW j, NEW from, NEW l, IsChunk(sent[i], j, from, l), j = Len(Chunks(sent[i])),
         Filled(c, Row(sent[i].fields), from + l),
         NEW p \in Nat, p = ChunkBegin(sent, i, j) + HEADERLENGTH + l,
         Deliver(ev, c), readHeaderBuffer' = readHeaderBuffer, readHeaderBuffer.writePos = 0,
         streamEvent' = NoEvent, blockEvent' = NoEvent
  PROVE  /\ PoolHas(eventPool', sent, Len(delivered))
         /\ ReceiverAt(readHeaderBuffer', streamEvent', blockEvent', blockChunkLength', nowChunkNum',
                       sent, Len(delivered) + Len(eventPool') + 1, p)
<1>1. /\ sent \in Seq(ProperMessage) /\ sent[i] \in ProperMessage /\ Len(delivered) \in Nat
      /\ Len(eventPool) \in Nat /\ eventPool \in Seq(ProperEvent)
      /\ PoolHas(eventPool, sent, Len(delivered)) /\ i = Len(delivered) + Len(eventPool) + 1
  <2>1. sent \in Seq(ProperMessage) /\ PoolHas(eventPool, sent, Len(delivered))
    BY DEF Carrying
  <2>2. delivered \in Seq(Message) /\ eventPool \in Seq(ProperEvent)
    BY DEF Carrying, WireInv
  <2>3. i = Len(delivered) + Len(eventPool) + 1
    BY DEF Receiving
  <2> QED
    BY <2>1, <2>2, <2>3, LenProperties
<1>2. EventOf([ev EXCEPT !.b = ReadSeek(c, 0).b], sent[i])
  <2>1. from + l = Len(Row(sent[i].fields))
    BY <1>1, ChunkFacts
  <2> QED
    BY <2>1, <1>1, EventIsWhole
<1>3. PICK e : e = [ev EXCEPT !.b = ReadSeek(c, 0).b]
  OBVIOUS
<1>4. eventPool' = Append(eventPool, e) /\ EventOf(e, sent[i])
  BY <1>2, <1>3 DEF Deliver
<1>5. PoolHas(eventPool', sent, Len(delivered))
  BY <1>1, <1>4, PoolGrows
<1>6. Len(eventPool') = Len(eventPool) + 1
  BY <1>1, <1>4, AppendProperties DEF EventOf
<1>7. p = MessageStart(sent, i + 1)
  <2>1. ChunkFound(sent, i, j, l)
    BY <1>1, ChunkIsAt
  <2> QED
    BY <2>1 DEF ChunkFound
<1>8. Unread(readHeaderBuffer) /\ Len(readHeaderBuffer.buf) = HEADERLENGTH
  BY DEF Receiving, ReceiverAt
<1>9. HeaderAt(readHeaderBuffer, sent, p, p)
  BY HeaderEmpty
<1>10. AtMessage(readHeaderBuffer', streamEvent', blockEvent', sent, i + 1, p)
  BY <1>7, <1>9 DEF AtMessage
<1>11. Len(delivered) + Len(eventPool') + 1 = i + 1
  BY <1>1, <1>6
<1>12. ReceiverAt(readHeaderBuffer', streamEvent', blockEvent', blockChunkLength', nowChunkNum',
                  sent, i + 1, p)
  BY <1>8, <1>10 DEF ReceiverAt
<1> QED
  BY <1>5, <1>11, <1>12

LEMMA StreamCarries ==
  ASSUME WireFits, WireInv, Carrying, NEW k \in 1 .. Len(wire), StreamReadPart(k)
  PROVE  Carrying' /\ UNCHANGED <<sent, delivered>>
<1>1. PICK i, p :
        /\ Receiving(i, p) /\ k \in Nat
        /\ Recv(k) \in Seq(Byte) /\ Len(Recv(k)) = k
        /\ \A t \in 1 .. k : Recv(k)[t] = AllBytes(sent)[p + t]
        /\ p + k \in 0 .. Len(AllBytes(sent))
        /\ PipeAt(sent, wire', writeBufferList, p + k)
  BY RecvBrings DEF StreamReadPart
<1>2. /\ streamEvent # NoEvent /\ k <= GetAvailableSize(streamEvent.b) /\ Received(k)
      /\ UNCHANGED <<readHeaderBuffer, blockEvent, blockChunkLength, nowChunkNum>>
  BY DEF StreamReadPart
<1>3. InStream(readHeaderBuffer, streamEvent, blockEvent, sent, i, p)
  BY <1>1, <1>2 DEF Receiving, ReceiverAt, AtMessage, InBlock, AtChunk
<1>4. /\ i \in 1 .. Len(sent) /\ sent[i].type = "EVENT_RECIVE_STREAM" /\ readHeaderBuffer.writePos = 0
      /\ blockEvent = NoEvent /\ EventFor(streamEvent, sent[i])
  BY <1>3 DEF InStream
<1>5. PICK from \in 0 .. NoteSize, l \in 0 .. NoteSize, o \in 0 .. NoteSize :
        Payload(streamEvent.b, sent, i, 1, from, l, o, p)
  BY <1>3 DEF InStream
<1>6. /\ sent \in Seq(ProperMessage) /\ sent[i] \in ProperMessage /\ p \in Nat
      /\ i = Len(delivered) + Len(eventPool) + 1 /\ PoolHas(eventPool, sent, Len(delivered))
  <2>1. sent \in Seq(ProperMessage) /\ PoolHas(eventPool, sent, Len(delivered))
    BY DEF Carrying
  <2>2. p \in Nat /\ i = Len(delivered) + Len(eventPool) + 1
    BY <1>1 DEF Receiving
  <2> QED
    BY <2>1, <2>2, <1>4
<1>7. IsChunk(sent[i], 1, from, l) /\ Filled(streamEvent.b, Row(sent[i].fields), from + o)
  BY <1>5 DEF Payload
<1>8. /\ from = 0 /\ Len(Chunks(sent[i])) = 1 /\ l = Len(Row(sent[i].fields))
      /\ from + l = Len(Row(sent[i].fields))
  BY <1>4, <1>6, <1>7, ChunkFacts
<1> DEFINE b == streamEvent.b
           c == Store(b, Recv(k))
           r == ReadFromSocket(b, GetAvailableSize(b), Recv(k))
<1>9. /\ Proper(b) /\ Unread(b) /\ Len(b.buf) < SizeT /\ Len(b.buf) = l /\ b.writePos = o
      /\ GetAvailableSize(b) = l - o
  <2>1. Proper(b) /\ Unread(b) /\ Len(b.buf) < SizeT /\ Len(b.buf) = l
    BY <1>4, <1>8 DEF EventFor, Unread
  <2>2. b.writePos = o
    BY <1>7, <1>8 DEF Filled
  <2> QED
    BY <2>1, <2>2, AvailableType
<1>10. 1 <= Len(Recv(k)) /\ Len(Recv(k)) <= l - o
  BY <1>1, <1>2, <1>9
<1>11. /\ Unread(c) /\ Len(c.buf) = Len(b.buf)
       /\ l - o \in Nat \ {0} /\ l - o <= Len(b.buf) - b.writePos
       /\ k # l - o => Payload(c, sent, i, 1, from, l, o + k, p + k)
       /\ k = l - o => /\ Filled(c, Row(sent[i].fields), from + l)
                       /\ p + k = ChunkBegin(sent, i, 1) + HEADERLENGTH + l
  <2>1. PICK s \in Seq(Byte) : s = Recv(k) /\ Len(s) = k
    BY <1>1
  <2>2. /\ 1 <= Len(s) /\ Len(s) <= l - o /\ \A t \in 1 .. Len(s) : s[t] = AllBytes(sent)[p + t]
    BY <1>1, <1>10, <2>1
  <2>3. /\ Unread(Store(b, s)) /\ Len(Store(b, s).buf) = Len(b.buf)
        /\ l - o \in Nat \ {0} /\ l - o <= Len(b.buf) - b.writePos
        /\ Len(s) # l - o => Payload(Store(b, s), sent, i, 1, from, l, o + Len(s), p + Len(s))
        /\ Len(s) = l - o =>
             /\ Filled(Store(b, s), Row(sent[i].fields), from + l)
             /\ p + Len(s) = ChunkBegin(sent, i, 1) + HEADERLENGTH + l
    <3>1. PayloadGoesOn(sent, i, streamEvent, 1, from, l, o, p, s)
      BY <1>4, <1>5, <1>6, <2>2, PayloadMore
    <3> QED
      BY <3>1 DEF PayloadGoesOn, b
  <2> QED
    BY <2>1, <2>3
<1>12. r.b = c /\ (r.ret = 0 <=> k = l - o)
  <2>1. PICK n \in Nat \ {0} : n = l - o
    BY <1>11
  <2>2. PICK s \in Seq(Byte) : s = Recv(k) /\ Len(s) = k /\ Len(s) <= n
    BY <1>1, <1>10, <2>1
  <2>3. n <= Len(b.buf) - b.writePos
    BY <1>11, <2>1
  <2>4. ReadFromSocket(b, n, s).b = Store(b, s) /\ (ReadFromSocket(b, n, s).ret = 0 <=> Len(s) = n)
    <3>1. Fetches(b, n, s)
      BY <1>9, <2>2, <2>3, SocketRead
    <3> QED
      BY <3>1 DEF Fetches
  <2> QED
    BY <1>9, <2>1, <2>2, <2>4
<1>13. IF r.ret = 0
       THEN Deliver(streamEvent, r.b) /\ streamEvent' = NoEvent
       ELSE streamEvent' = [streamEvent EXCEPT !.b = r.b] /\ UNCHANGED eventPool
  BY DEF StreamReadPart
<1> HIDE DEF b, c, r
<1>14. p + k \in Nat
  BY <1>1, <1>6
<1>15. CASE k = l - o
  <2>1. Deliver(streamEvent, c) /\ streamEvent' = NoEvent
    BY <1>12, <1>13, <1>15
  <2>2. /\ PoolHas(eventPool', sent, Len(delivered))
        /\ ReceiverAt(readHeaderBuffer', streamEvent', blockEvent', blockChunkLength', nowChunkNum',
                      sent, Len(delivered) + Len(eventPool') + 1, p + k)
    <3>1. PICK q \in Nat : q = p + k
      BY <1>14
    <3>2. /\ readHeaderBuffer' = readHeaderBuffer /\ blockEvent' = NoEvent
          /\ Len(c.buf) = Len(streamEvent.b.buf) /\ Unread(c)
      BY <1>2, <1>4, <1>11 DEF b
    <3>3. /\ Filled(c, Row(sent[i].fields), from + l) /\ q = ChunkBegin(sent, i, 1) + HEADERLENGTH + l
      BY <1>11, <1>15, <3>1
    <3>4. /\ PoolHas(eventPool', sent, Len(delivered))
          /\ ReceiverAt(readHeaderBuffer', streamEvent', blockEvent', blockChunkLength', nowChunkNum',
                        sent, Len(delivered) + Len(eventPool') + 1, q)
      BY <1>1, <1>4, <1>7, <1>8, <2>1, <3>2, <3>3, MessageEnds
    <3> QED
      BY <3>1, <3>4
  <2> QED
    BY <1>1, <1>2, <2>2, ReceiverCarries
<1>16. CASE k # l - o
  <2>1. streamEvent' = [streamEvent EXCEPT !.b = c] /\ eventPool' = eventPool
    BY <1>12, <1>13, <1>16
  <2>2. EventFor(streamEvent', sent[i]) /\ streamEvent'.b = c
    <3>1. EventFor(streamEvent', sent[i])
      BY <1>4, <1>6, <1>11, <2>1, EventWith DEF b
    <3>2. streamEvent'.b = c
      BY <1>4, <2>1 DEF EventFor, ProperEvent
    <3> QED
      BY <3>1, <3>2
  <2>3. o + k \in 0 .. NoteSize
    <3>1. o + k \in 0 .. l - 1
      BY <1>11, <1>16 DEF Payload
    <3> QED
      BY <3>1, FitSizes
  <2>4. Payload(c, sent, i, 1, from, l, o + k, p + k)
    BY <1>11, <1>16
  <2>5. InStream(readHeaderBuffer', streamEvent', blockEvent', sent, i, p + k)
    BY <1>2, <1>4, <2>2, <2>3, <2>4 DEF InStream
  <2>6. ReceiverAt(readHeaderBuffer', streamEvent', blockEvent', blockChunkLength', nowChunkNum',
                   sent, i, p + k)
    BY <1>1, <1>2, <2>5 DEF ReceiverAt, Receiving
  <2> QED
    BY <1>1, <1>2, <1>6, <2>1, <2>6, ReceiverCarries
<1> QED
  BY <1>15, <1>16

LEMMA BlockCarries ==
  ASSUME WireFits, WireInv, Carrying, NEW k \in 1 .. Len(wire), BlockReadPart(k)
  PROVE  Carrying' /\ UNCHANGED <<sent, delivered>>
<1>1. PICK i, p :
        /\ Receiving(i, p) /\ k \in Nat
        /\ Recv(k) \in Seq(Byte) /\ Len(Recv(k)) = k
        /\ \A t \in 1 .. k : Recv(k)[t] = AllBytes(sent)[p + t]
        /\ p + k \in 0 .. Len(AllBytes(sent))
        /\ PipeAt(sent, wire', writeBufferList, p + k)
  BY RecvBrings DEF BlockReadPart
<1>2. /\ streamEvent = NoEvent /\ blockEvent # NoEvent /\ blockChunkLength > 0
      /\ k <= Asked(blockEvent.b, blockChunkLength) /\ Received(k)
      /\ UNCHANGED <<readHeaderBuffer, streamEvent, nowChunkNum>>
  BY DEF BlockReadPart
<1>3. InBlock(readHeaderBuffer, streamEvent, blockEvent, blockChunkLength, nowChunkNum, sent, i, p)
  <2>1. i \in 1 .. Len(sent) => sent[i] \in ProperMessage
    BY DEF Carrying
  <2>2. ~ (0 > 0)
    OBVIOUS
  <2>3. ~ AtChunk(readHeaderBuffer, streamEvent, blockEvent, blockChunkLength, sent, i, p)
    BY <1>2, <2>2 DEF AtChunk
  <2>4. ~ InStream(readHeaderBuffer, streamEvent, blockEvent, sent, i, p)
    BY <1>2 DEF InStream
  <2>5. ~ AtMessage(readHeaderBuffer, streamEvent, blockEvent, sent, i, p)
    BY <1>2 DEF AtMessage
  <2> QED
    BY <1>1, <2>3, <2>4, <2>5 DEF Receiving, ReceiverAt
<1>4. /\ i \in 1 .. Len(sent) /\ sent[i].type = "EVENT_RECIVE_BLOCK" /\ readHeaderBuffer.writePos = 0
      /\ EventFor(blockEvent, sent[i])
  BY <1>3 DEF InBlock
<1>5. PICK j \in 1 .. Len(Chunks(sent[i])), from \in 0 .. NoteSize, l \in 0 .. NoteSize,
           o \in 0 .. NoteSize :
        /\ Payload(blockEvent.b, sent, i, j, from, l, o, p)
        /\ blockChunkLength = l - o /\ nowChunkNum = Len(Chunks(sent[i])) - j + 1
  BY <1>3 DEF InBlock
<1>6. /\ sent \in Seq(ProperMessage) /\ sent[i] \in ProperMessage /\ p \in Nat
      /\ i = Len(delivered) + Len(eventPool) + 1 /\ PoolHas(eventPool, sent, Len(delivered))
  <2>1. sent \in Seq(ProperMessage) /\ PoolHas(eventPool, sent, Len(delivered))
    BY DEF Carrying
  <2>2. p \in Nat /\ i = Len(delivered) + Len(eventPool) + 1
    BY <1>1 DEF Receiving
  <2> QED
    BY <2>1, <2>2, <1>4
<1>7. IsChunk(sent[i], j, from, l) /\ Filled(blockEvent.b, Row(sent[i].fields), from + o)
  BY <1>5 DEF Payload
<1>8. PICK n \in Nat : /\ n = Len(Chunks(sent[i])) /\ j \in 1 .. n
                       /\ from + l <= Len(Row(sent[i].fields)) /\ from + l \in 0 .. NoteSize
  <2>1. /\ Len(Chunks(sent[i])) \in Nat /\ j \in 1 .. Len(Chunks(sent[i]))
        /\ from \in 0 .. NoteSize /\ l \in 1 .. NoteSize /\ from + l <= Len(Row(sent[i].fields))
        /\ Len(Row(sent[i].fields)) \in 1 .. NoteSize /\ NoteSize \in Nat
    <3>1. PICK m \in ProperMessage : m = sent[i] /\ IsChunk(m, j, from, l)
      BY <1>6, <1>7
    <3>2. /\ Len(Chunks(m)) \in 1 .. Base - 1 /\ j \in 1 .. Len(Chunks(m))
          /\ from \in 0 .. NoteSize /\ l \in 1 .. NoteSize /\ from + l <= Len(Row(m.fields))
          /\ Len(Row(m.fields)) \in 1 .. NoteSize /\ NoteSize \in Nat
      BY <3>1, ChunkFacts
    <3> QED
      BY <3>1, <3>2
  <2>2. from + l \in 0 .. NoteSize
    BY <2>1
  <2> QED
    BY <2>1, <2>2
<1> DEFINE b == blockEvent.b
           c == Store(b, Recv(k))
           r == ReadFromSocket(b, blockChunkLength, Recv(k))
<1>9. Proper(b) /\ Unread(b) /\ Len(b.buf) < SizeT
  BY <1>4 DEF EventFor, Unread
<1>10. k <= l - o
  <2>1. PICK a, v \in Nat : a = GetAvailableSize(b) /\ v = blockChunkLength /\ v = l - o
    <3>1. l - o \in Nat
      BY <1>2, <1>5
    <3> QED
      BY <3>1, <1>5, <1>9, AvailableType
  <2>2. k <= (IF a < v THEN a ELSE v)
    BY <1>2, <2>1 DEF Asked, Smaller
  <2>3. k <= v
    BY <2>2, <1>1
  <2> QED
    BY <2>1, <2>3
<1>11. /\ Unread(c) /\ Len(c.buf) = Len(b.buf)
       /\ l - o \in Nat \ {0} /\ l - o <= Len(b.buf) - b.writePos
       /\ k # l - o => Payload(c, sent, i, j, from, l, o + k, p + k)
       /\ k = l - o => /\ Filled(c, Row(sent[i].fields), from + l)
                       /\ p + k = ChunkBegin(sent, i, j) + HEADERLENGTH + l
  <2>1. PICK s \in Seq(Byte) : s = Recv(k) /\ Len(s) = k
    BY <1>1
  <2>2. /\ 1 <= Len(s) /\ Len(s) <= l - o /\ \A t \in 1 .. Len(s) : s[t] = AllBytes(sent)[p + t]
    BY <1>1, <1>10, <2>1
  <2>3. PayloadGoesOn(sent, i, blockEvent, j, from, l, o, p, s)
    BY <1>4, <1>5, <1>6, <2>2, PayloadMore
  <2>4. /\ Unread(Store(b, s)) /\ Len(Store(b, s).buf) = Len(b.buf)
        /\ l - o \in Nat \ {0} /\ l - o <= Len(b.buf) - b.writePos
        /\ Len(s) # l - o => Payload(Store(b, s), sent, i, j, from, l, o + Len(s), p + Len(s))
        /\ Len(s) = l - o =>
             /\ Filled(Store(b, s), Row(sent[i].fields), from + l)
             /\ p + Len(s) = ChunkBegin(sent, i, j) + HEADERLENGTH + l
    BY <2>3 DEF PayloadGoesOn, b
  <2> QED
    BY <2>1, <2>4
<1>12. r.b = c /\ (r.ret = 0 <=> k = l - o) /\ r.readSize = (l - o) - k
  <2>1. PICK z \in Nat \ {0} : z = l - o
    BY <1>11
  <2>2. PICK s \in Seq(Byte) : s = Recv(k) /\ Len(s) = k /\ Len(s) <= z
    BY <1>1, <1>10, <2>1
  <2>3. z <= Len(b.buf) - b.writePos
    BY <1>11, <2>1
  <2>4. /\ ReadFromSocket(b, z, s).b = Store(b, s) /\ (ReadFromSocket(b, z, s).ret = 0 <=> Len(s) = z)
        /\ ReadFromSocket(b, z, s).readSize = z - Len(s)
    <3>1. Fetches(b, z, s)
      BY <1>9, <2>2, <2>3, SocketRead
    <3> QED
      BY <3>1 DEF Fetches
  <2> QED
    BY <1>5, <2>1, <2>2, <2>4
<1>13. /\ blockChunkLength' = IF r.ret = 0 THEN 0 ELSE r.readSize
       /\ blockEvent' = IF r.ret = 0 /\ nowChunkNum <= 1 THEN NoEvent ELSE [blockEvent EXCEPT !.b = r.b]
       /\ IF r.ret = 0 /\ nowChunkNum <= 1 THEN Deliver(blockEvent, r.b) ELSE UNCHANGED eventPool
  BY DEF BlockReadPart
<1>14. p + k \in Nat
  BY <1>1, <1>6
<1>15. nowChunkNum <= 1 <=> j = n
  BY <1>5, <1>8
<1> HIDE DEF b, c, r
<1>16. EventFor([blockEvent EXCEPT !.b = c], sent[i]) /\ [blockEvent EXCEPT !.b = c].b = c
  <2>1. EventFor([blockEvent EXCEPT !.b = c], sent[i])
    BY <1>4, <1>6, <1>11, EventWith DEF b
  <2>2. [blockEvent EXCEPT !.b = c].b = c
    BY <1>4 DEF EventFor, ProperEvent
  <2> QED
    BY <2>1, <2>2
<1>17. CASE k = l - o /\ j = n
  <2>1. Deliver(blockEvent, c) /\ blockEvent' = NoEvent
    BY <1>12, <1>13, <1>15, <1>17
  <2>2. /\ PoolHas(eventPool', sent, Len(delivered))
        /\ ReceiverAt(readHeaderBuffer', streamEvent', blockEvent', blockChunkLength', nowChunkNum',
                      sent, Len(delivered) + Len(eventPool') + 1, p + k)
    <3>1. PICK q \in Nat : q = p + k
      BY <1>14
    <3>2. /\ readHeaderBuffer' = readHeaderBuffer /\ streamEvent' = NoEvent
          /\ Len(c.buf) = Len(blockEvent.b.buf) /\ Unread(c)
      BY <1>2, <1>11 DEF b
    <3>3. /\ Filled(c, Row(sent[i].fields), from + l) /\ q = ChunkBegin(sent, i, j) + HEADERLENGTH + l
          /\ j = Len(Chunks(sent[i]))
      BY <1>8, <1>11, <1>17, <3>1
    <3>4. /\ PoolHas(eventPool', sent, Len(delivered))
          /\ ReceiverAt(readHeaderBuffer', streamEvent', blockEvent', blockChunkLength', nowChunkNum',
                        sent, Len(delivered) + Len(eventPool') + 1, q)
      BY <1>1, <1>4, <1>7, <2>1, <3>2, <3>3, MessageEnds
    <3> QED
      BY <3>1, <3>4
  <2> QED
    BY <1>1, <1>2, <2>2, ReceiverCarries
<1>18. CASE k = l - o /\ j # n
  <2>1. /\ blockChunkLength' = 0 /\ blockEvent' = [blockEvent EXCEPT !.b = c] /\ eventPool' = eventPool
    BY <1>12, <1>13, <1>15, <1>18
  <2>2. PICK y \in 2 .. n : y = j + 1 /\ j < n
    <3>1. j + 1 \in 2 .. n /\ j < n
      BY <1>8, <1>18
    <3> QED
      BY <3>1
  <2>3. PICK f, z : f \in 0 .. NoteSize /\ f = from + l /\ IsChunk(sent[i], y, f, z)
    <3>1. \E z : IsChunk(sent[i], j + 1, from + l, z)
      BY <1>6, <1>7, <1>8, <2>2, NextChunk
    <3> QED
      BY <1>8, <2>2, <3>1
  <2>4. z \in 0 .. NoteSize
    <3>1. z \in 1 .. NoteSize
      BY <1>6, <2>3, ChunkFacts
    <3> QED
      BY <3>1
  <2>5. PICK q \in Nat : q = p + k /\ q = ChunkBegin(sent, i, y)
    <3>1. ChunkFound(sent, i, j, l)
      BY <1>4, <1>6, <1>7, ChunkIsAt
    <3>2. ChunkBegin(sent, i, j) + HEADERLENGTH + l = ChunkBegin(sent, i, j + 1)
      BY <3>1, <1>8, <2>2 DEF ChunkFound
    <3> QED
      BY <3>2, <1>11, <1>14, <1>18, <2>2
  <2>6. HeaderAt(readHeaderBuffer, sent, q, q)
    BY <1>4, HeaderEmpty
  <2>7. AtChunk(readHeaderBuffer', streamEvent', blockEvent', blockChunkLength', sent, i, q)
    <3>1. Filled(blockEvent'.b, Row(sent[i].fields), f)
      BY <1>11, <1>16, <1>18, <2>1, <2>3
    <3>2. EventFor(blockEvent', sent[i])
      BY <1>16, <2>1
    <3>3. HeaderAt(readHeaderBuffer', sent, ChunkBegin(sent, i, y), q)
      BY <1>2, <2>5, <2>6
    <3>4. y \in 2 .. Len(Chunks(sent[i]))
      BY <1>8
    <3> QED
      BY <3>1, <3>2, <3>3, <3>4, <1>2, <1>4, <2>1, <2>3, <2>4 DEF AtChunk
  <2>8. ReceiverAt(readHeaderBuffer', streamEvent', blockEvent', blockChunkLength', nowChunkNum',
                   sent, i, p + k)
    BY <1>1, <1>2, <2>5, <2>7 DEF ReceiverAt, Receiving
  <2> QED
    BY <1>1, <1>2, <1>6, <2>1, <2>8, ReceiverCarries
<1>19. CASE k # l - o
  <2>1. /\ blockChunkLength' = (l - o) - k /\ blockEvent' = [blockEvent EXCEPT !.b = c]
        /\ eventPool' = eventPool
    BY <1>12, <1>13, <1>19
  <2>2. Payload(c, sent, i, j, from, l, o + k, p + k)
    BY <1>11, <1>19
  <2>3. o + k \in 0 .. NoteSize /\ (l - o) - k = l - (o + k)
    <3>1. o + k \in 0 .. l - 1
      BY <2>2 DEF Payload
    <3>4. NoteSize \in Nat /\ k \in Nat
      BY <1>1, FitSizes
    <3>5. l \in Nat /\ o \in Nat /\ l <= NoteSize
      BY <3>4
    <3>2. PICK z, w, x \in Nat : z = l /\ w = NoteSize /\ x = o /\ z <= w /\ k \in Nat
      BY <3>4, <3>5, Zenon
    <3>3. x + k \in 0 .. w /\ (z - x) - k = z - (x + k)
      <4>1. x + k \in 0 .. z - 1
        BY <3>1, <3>2
      <4> QED
        BY <4>1, <3>2
    <3> QED
      BY <3>2, <3>3
  <2>4. InBlock(readHeaderBuffer', streamEvent', blockEvent', blockChunkLength', nowChunkNum',
                sent, i, p + k)
    <3>1. Payload(blockEvent'.b, sent, i, j, from, l, o + k, p + k)
      BY <1>16, <2>1, <2>2
    <3>2. EventFor(blockEvent', sent[i])
      BY <1>16, <2>1
    <3>3. /\ blockChunkLength' = l - (o + k) /\ nowChunkNum' = Len(Chunks(sent[i])) - j + 1
          /\ readHeaderBuffer' = readHeaderBuffer /\ streamEvent' = NoEvent
      BY <1>2, <1>5, <2>1, <2>3
    <3> QED
      BY <3>1, <3>2, <3>3, <1>4, <2>3 DEF InBlock
  <2>5. ReceiverAt(readHeaderBuffer', streamEvent', blockEvent', blockChunkLength', nowChunkNum',
                   sent, i, p + k)
    BY <1>1, <1>2, <2>4 DEF ReceiverAt, Receiving
  <2> QED
    BY <1>1, <1>2, <1>6, <2>1, <2>5, ReceiverCarries
<1> QED
  BY <1>17, <1>18, <1>19

\* A recv() of k bytes of a header: the header is there or is not.
HeaderStep(h, ms, start, p, s) ==
  LET c == Store(h, s)
      r == ReadFromSocket(h, GetAvailableSize(h), s)
  IN  /\ r.b = c /\ Unread(c) /\ Len(c.buf) = HEADERLENGTH
      /\ r.ret = 0 => /\ c.writePos = HEADERLENGTH /\ p + Len(s) = start + HEADERLENGTH
                      /\ \A x \in 1 .. HEADERLENGTH : c.buf[x] = AllBytes(ms)[start + x]
      /\ r.ret # 0 => HeaderAt(c, ms, start, p + Len(s))

LEMMA HeaderReads ==
  ASSUME WireFits, NEW h, Unread(h), Len(h.buf) = HEADERLENGTH, NEW ms, NEW start \in Nat, NEW p,
         HeaderAt(h, ms, start, p), NEW s \in Seq(Byte), Len(s) <= GetAvailableSize(h),
         \A t \in 1 .. Len(s) : s[t] = AllBytes(ms)[p + t]
  PROVE  HeaderStep(h, ms, start, p, s)
<1>1. /\ Proper(h) /\ h.writePos \in Nat /\ HEADERLENGTH \in Nat /\ Len(h.buf) < SizeT
      /\ h.writePos < HEADERLENGTH /\ p = start + h.writePos
  BY FitSizes, ProperFacts DEF Unread, HeaderAt
<1>2. GetAvailableSize(h) = HEADERLENGTH - h.writePos
  BY <1>1, AvailableType
<1>3. PICK d \in Nat \ {0} : d = HEADERLENGTH - h.writePos /\ HEADERLENGTH = h.writePos + d
  <2>1. HEADERLENGTH - h.writePos \in Nat \ {0}
    BY <1>1
  <2> QED
    BY <2>1, <1>1
<1>4. HeaderGoesOn(h, ms, start, s)
  BY <1>2, HeaderMore
<1> DEFINE c == Store(h, s)
           r == ReadFromSocket(h, GetAvailableSize(h), s)
<1>5. /\ Unread(c) /\ Len(c.buf) = HEADERLENGTH /\ c.writePos = h.writePos + Len(s)
      /\ \A x \in 1 .. c.writePos : c.buf[x] = AllBytes(ms)[start + x]
  BY <1>4 DEF HeaderGoesOn
<1>6. r.b = c /\ (r.ret = 0 <=> Len(s) = d)
  <2>1. d <= Len(h.buf) - h.writePos /\ Len(s) <= d
    BY <1>2, <1>3
  <2>2. ReadFromSocket(h, d, s).b = Store(h, s) /\ (ReadFromSocket(h, d, s).ret = 0 <=> Len(s) = d)
    <3>1. Fetches(h, d, s)
      BY <2>1, <1>1, SocketRead
    <3> QED
      BY <3>1 DEF Fetches
  <2> QED
    BY <2>2, <1>2, <1>3
<1> HIDE DEF c, r
<1>7. PICK k, w, z \in Nat : k = Len(s) /\ w = h.writePos /\ z = HEADERLENGTH
  BY <1>1, LenProperties
<1>8. k <= d /\ z = w + d /\ p = start + w /\ c.writePos = w + k
  BY <1>1, <1>2, <1>3, <1>5, <1>7
<1>9. CASE k = d
  <2>1. w + k = z /\ p + k = start + z
    BY <1>8, <1>9
  <2>2. r.ret = 0 /\ c.writePos = HEADERLENGTH /\ p + Len(s) = start + HEADERLENGTH
    BY <2>1, <1>6, <1>7, <1>8, <1>9
  <2>3. \A x \in 1 .. HEADERLENGTH : c.buf[x] = AllBytes(ms)[start + x]
    BY <2>2, <1>5
  <2> QED
    BY <2>2, <2>3, <1>5, <1>6 DEF HeaderStep, c, r
<1>10. CASE k # d
  <2>1. w + k < z /\ p + k = start + (w + k)
    BY <1>8, <1>10
  <2>2. HeaderAt(c, ms, start, p + k)
    BY <2>1, <1>5, <1>7, <1>8 DEF HeaderAt
  <2> QED
    BY <2>2, <1>5, <1>6, <1>7, <1>10 DEF HeaderStep, c, r
<1> QED
  BY <1>9, <1>10

LEMMA HeaderOfChunk ==
  ASSUME WireFits, NEW ms \in Seq(ProperMessage), NEW i \in 1 .. Len(ms), NEW m \in ProperMessage,
         m = ms[i], NEW j, NEW from, NEW l, IsChunk(m, j, from, l),
         NEW c, Unread(c), Len(c.buf) = HEADERLENGTH, c.writePos = HEADERLENGTH,
         \A x \in 1 .. HEADERLENGTH : c.buf[x] = AllBytes(ms)[ChunkBegin(ms, i, j) + x]
  PROVE  HeaderSays(c, ChunkNumber(m, j), m.channel, l)
<1>1. PICK num, channel :
        /\ num = ChunkNumber(m, j) /\ channel = m.channel
        /\ num \in 0 .. Base - 1 /\ channel \in Byte /\ l \in Nat /\ l < Limit(2)
        /\ HeaderIs(Chunks(m)[j], num, channel, l)
  BY ChunkHeader
<1>2. ChunkFound(ms, i, j, l)
  BY ChunkIsAt
<1>3. \A x \in 1 .. HEADERLENGTH + l : AllBytes(ms)[ChunkBegin(ms, i, j) + x] = Chunks(m)[j][x]
  BY <1>2 DEF ChunkFound
<1>4. 1 \in 1 .. HEADERLENGTH /\ 2 \in 1 .. HEADERLENGTH /\ 3 \in 1 .. HEADERLENGTH
      /\ 4 \in 1 .. HEADERLENGTH /\ \A x \in 1 .. HEADERLENGTH : x \in 1 .. HEADERLENGTH + l
  BY <1>1, FitSizes
<1>5. \A x \in 1 .. HEADERLENGTH : c.buf[x] = Chunks(m)[j][x]
  BY <1>3, <1>4
<1>6. HeaderIs(c.buf, num, channel, l)
  BY <1>1, <1>4, <1>5 DEF HeaderIs
<1>7. HeaderSays(c, num, channel, l)
  BY <1>1, <1>6, HeaderRead
<1> QED
  BY <1>1, <1>7

\* The event made for a message by its first header.
LEMMA NewEvent ==
  ASSUME WireFits, NEW m \in ProperMessage, NEW size \in Nat, size < SizeT, Len(Row(m.fields)) <= size,
         m.type = "EVENT_RECIVE_STREAM" => size = Len(Row(m.fields))
  PROVE  LET ev == Event(m.type, m.channel, New(size))
         IN  EventFor(ev, m) /\ Filled(ev.b, Row(m.fields), 0)
<1> DEFINE ev == Event(m.type, m.channel, New(size))
<1>1. m.type \in {"EVENT_RECIVE_BLOCK", "EVENT_RECIVE_STREAM"} /\ m.channel \in Nat
  BY WireAssumption DEF ProperMessage, Message
<1>2. Unread(New(size)) /\ Len(New(size).buf) = size /\ New(size).writePos = 0
  BY NewIsUnread
<1>3. ev \in ProperEvent
  BY <1>1, <1>2, EventType DEF Unread
<1>4. ev.type = m.type /\ ev.channel = m.channel /\ ev.b = New(size)
  BY DEF Event
<1> HIDE DEF ev
<1>5. EventFor(ev, m)
  BY <1>2, <1>3, <1>4 DEF EventFor
<1>6. \A x \in 1 .. 0 : ev.b.buf[x] = Row(m.fields)[x]
  OBVIOUS
<1>7. Filled(ev.b, Row(m.fields), 0)
  BY <1>2, <1>4, <1>6 DEF Filled
<1> QED
  BY <1>5, <1>7 DEF ev

\* The receiver before the j-th chunk of the i-th message.
BeforeChunk(i, j, from, l, p) ==
  /\ IsChunk(sent[i], j, from, l)
  /\ HeaderAt(readHeaderBuffer, sent, ChunkBegin(sent, i, j), p)
  /\ j = 1 => blockEvent = NoEvent /\ from = 0
  /\ j # 1 => /\ sent[i].type = "EVENT_RECIVE_BLOCK" /\ EventFor(blockEvent, sent[i])
              /\ Filled(blockEvent.b, Row(sent[i].fields), from) /\ blockChunkLength = 0

LEMMA ReceiverBefore ==
  ASSUME WireFits, Carrying, NEW i, NEW p, Receiving(i, p),
         p < Len(AllBytes(sent)), streamEvent = NoEvent, blockEvent = NoEvent \/ blockChunkLength = 0
  PROVE  i \in 1 .. Len(sent) /\ \E j, from, l : BeforeChunk(i, j, from, l, p)
<1>1. /\ sent \in Seq(ProperMessage) /\ p \in Nat /\ i \in 1 .. Len(sent) + 1
      /\ Unread(readHeaderBuffer)
      /\ ReceiverAt(readHeaderBuffer, streamEvent, blockEvent, blockChunkLength, nowChunkNum, sent, i, p)
  BY DEF Carrying, Receiving, ReceiverAt
<1>2. i \in 1 .. Len(sent) => sent[i] \in ProperMessage
  BY <1>1
<1>3. CASE AtMessage(readHeaderBuffer, streamEvent, blockEvent, sent, i, p)
  <2>1. HeaderAt(readHeaderBuffer, sent, MessageStart(sent, i), p) /\ blockEvent = NoEvent
    BY <1>3 DEF AtMessage
  <2>2. i \in 1 .. Len(sent)
    <3>1. readHeaderBuffer.writePos \in Nat /\ p = MessageStart(sent, i) + readHeaderBuffer.writePos
      BY <1>1, <2>1, ProperFacts DEF HeaderAt, Unread
    <3>2. MessageStart(sent, Len(sent) + 1) = Len(AllBytes(sent)) /\ Len(AllBytes(sent)) \in Nat
      BY <1>1, EncodingsType, LenProperties
    <3>3. i # Len(sent) + 1
      BY <3>1, <3>2
    <3> QED
      BY <1>1, <3>3
  <2>3. PICK from, l : IsChunk(sent[i], 1, from, l)
    <3>1. PICK m \in ProperMessage : m = sent[i]
      BY <1>2, <2>2
    <3>2. 1 \in 1 .. Len(Chunks(m)) /\ \A j \in 1 .. Len(Chunks(m)) : \E from, l : IsChunk(m, j, from, l)
      BY ChunksType
    <3> QED
      BY <3>1, <3>2
  <2>4. from = 0
    <3>1. PICK m \in ProperMessage : m = sent[i]
      BY <1>2, <2>2
    <3>2. PICK j : j = 1
      OBVIOUS
    <3>3. IsChunk(m, j, from, l)
      BY <2>3, <3>1, <3>2
    <3>4. j = 1 => from = 0
      BY <3>3, ChunkFacts
    <3> QED
      BY <3>2, <3>4
  <2>5. ChunkBegin(sent, i, 1) = MessageStart(sent, i)
    BY <1>1, <2>2, <2>3, ChunkIsAt DEF ChunkFound
  <2> QED
    BY <2>1, <2>2, <2>3, <2>4, <2>5 DEF BeforeChunk
<1>4. CASE AtChunk(readHeaderBuffer, streamEvent, blockEvent, blockChunkLength, sent, i, p)
  <2>1. /\ i \in 1 .. Len(sent) /\ sent[i].type = "EVENT_RECIVE_BLOCK"
        /\ EventFor(blockEvent, sent[i]) /\ blockChunkLength = 0
    BY <1>4 DEF AtChunk
  <2>2. PICK j \in 2 .. Len(Chunks(sent[i])), from \in 0 .. NoteSize, l \in 0 .. NoteSize :
          /\ IsChunk(sent[i], j, from, l) /\ Filled(blockEvent.b, Row(sent[i].fields), from)
          /\ HeaderAt(readHeaderBuffer, sent, ChunkBegin(sent, i, j), p)
    BY <1>4 DEF AtChunk
  <2>3. j # 1
    OBVIOUS
  <2> QED
    BY <2>1, <2>2, <2>3 DEF BeforeChunk
<1>5. ~ InStream(readHeaderBuffer, streamEvent, blockEvent, sent, i, p)
  BY <1>2, EventFacts DEF InStream
<1>6. ~ InBlock(readHeaderBuffer, streamEvent, blockEvent, blockChunkLength, nowChunkNum, sent, i, p)
  <2> SUFFICES ASSUME InBlock(readHeaderBuffer, streamEvent, blockEvent, blockChunkLength, nowChunkNum,
                              sent, i, p)
               PROVE  FALSE
    OBVIOUS
  <2>1. blockEvent # NoEvent
    BY <1>2, EventFacts DEF InBlock
  <2>2. PICK l \in 0 .. NoteSize, o \in 0 .. NoteSize : blockChunkLength = l - o /\ o \in 0 .. l - 1
    BY DEF InBlock, Payload
  <2>3. l - o # 0
    BY <2>2, WireAssumption
  <2> QED
    BY <2>1, <2>2, <2>3
<1> QED
  BY <1>1, <1>3, <1>4, <1>5, <1>6 DEF ReceiverAt

\* The receiver where a chunk's header is being read, if not all of it is there.
LEMMA BeforeIsAt ==
  ASSUME WireFits, NEW ms \in Seq(ProperMessage), NEW i \in 1 .. Len(ms), NEW j, NEW from, NEW l,
         IsChunk(ms[i], j, from, l), NEW h, Unread(h), Len(h.buf) = HEADERLENGTH, NEW p,
         HeaderAt(h, ms, ChunkBegin(ms, i, j), p), NEW be, NEW cl, NEW nn,
         j = 1 => be = NoEvent,
         j # 1 => /\ ms[i].type = "EVENT_RECIVE_BLOCK" /\ EventFor(be, ms[i])
                  /\ Filled(be.b, Row(ms[i].fields), from) /\ cl = 0
  PROVE  ReceiverAt(h, NoEvent, be, cl, nn, ms, i, p)
<1>1. CASE j = 1
  <2>1. ChunkBegin(ms, i, j) = MessageStart(ms, i)
    BY <1>1, ChunkIsAt DEF ChunkFound
  <2>2. AtMessage(h, NoEvent, be, ms, i, p)
    BY <1>1, <2>1 DEF AtMessage
  <2> QED
    BY <2>2 DEF ReceiverAt
<1>2. CASE j # 1
  <2>1. PICK m \in ProperMessage : m = ms[i]
    OBVIOUS
  <2>2. /\ j \in 1 .. Len(Chunks(m)) /\ Len(Chunks(m)) \in 1 .. Base - 1
        /\ from \in 0 .. NoteSize /\ l \in 1 .. NoteSize
    BY <2>1, ChunkFacts
  <2>3. j \in 2 .. Len(Chunks(ms[i])) /\ l \in 0 .. NoteSize
    BY <1>2, <2>1, <2>2
  <2>4. AtChunk(h, NoEvent, be, cl, ms, i, p)
    BY <1>2, <2>2, <2>3 DEF AtChunk
  <2> QED
    BY <2>4 DEF ReceiverAt
<1> QED
  BY <1>1, <1>2

\* The receiver where a chunk's payload begins.
LEMMA PayloadStarts ==
  ASSUME WireFits, NEW ms \in Seq(ProperMessage), NEW i \in 1 .. Len(ms), NEW j, NEW from, NEW l,
         IsChunk(ms[i], j, from, l), NEW b, Filled(b, Row(ms[i].fields), from),
         NEW p, p = ChunkBegin(ms, i, j) + HEADERLENGTH
  PROVE  Payload(b, ms, i, j, from, l, 0, p)
<1>1. from \in 0 .. NoteSize /\ l \in 1 .. NoteSize /\ NoteSize \in Nat
  <2>1. PICK m \in ProperMessage : m = ms[i]
    OBVIOUS
  <2>2. from \in 0 .. NoteSize /\ l \in 1 .. NoteSize /\ NoteSize \in Nat
    BY <2>1, ChunkFacts
  <2> QED
    BY <2>2
<1>2. from + 0 = from /\ 0 \in 0 .. l - 1
  BY <1>1
<1>3. PICK q \in Nat : q = ChunkBegin(ms, i, j)
  BY ChunkIsAt DEF ChunkFound
<1>4. p = q + HEADERLENGTH + 0
  BY <1>3, FitSizes
<1> QED
  BY <1>2, <1>3, <1>4 DEF Payload

\* A whole header: the receiver goes on with the chunk's payload.
LEMMA ChunkStarts ==
  ASSUME WireFits, Carrying, NEW i \in 1 .. Len(sent), NEW j, NEW from, NEW l,
         NEW p0, BeforeChunk(i, j, from, l, p0), streamEvent = NoEvent,
         StartChunk(ChunkNumber(sent[i], j), sent[i].channel, l),
         NEW h, Unread(h), Len(h.buf) = HEADERLENGTH, h.writePos = 0,
         NEW p, p = ChunkBegin(sent, i, j) + HEADERLENGTH
  PROVE  ReceiverAt(h, streamEvent', blockEvent', blockChunkLength', nowChunkNum', sent, i, p)
<1>1. sent \in Seq(ProperMessage) /\ IsChunk(sent[i], j, from, l)
  BY DEF Carrying, BeforeChunk
<1>2. PICK m \in ProperMessage : m = sent[i]
  BY <1>1
<1>3. PICK n \in Nat : n = Len(Chunks(m))
  BY ChunksType
<1>4. /\ n \in 1 .. Base - 1 /\ j \in 1 .. n /\ from \in 0 .. NoteSize /\ l \in 1 .. NoteSize
      /\ Len(Row(m.fields)) \in 1 .. NoteSize
      /\ j = 1 => from = 0 /\ Len(Row(m.fields)) <= l * n
      /\ m.type = "EVENT_RECIVE_STREAM" => n = 1 /\ j = 1 /\ from = 0 /\ l = Len(Row(m.fields))
  <2>1. IsChunk(m, j, from, l)
    BY <1>1, <1>2
  <2>2. /\ Len(Chunks(m)) \in 1 .. Base - 1 /\ j \in 1 .. Len(Chunks(m))
        /\ from \in 0 .. NoteSize /\ l \in 1 .. NoteSize
        /\ Len(Row(m.fields)) \in 1 .. NoteSize
        /\ j = 1 => from = 0 /\ Len(Row(m.fields)) <= l * Len(Chunks(m))
        /\ m.type = "EVENT_RECIVE_STREAM" =>
             Len(Chunks(m)) = 1 /\ j = 1 /\ from = 0 /\ l = Len(Row(m.fields))
    BY <2>1, ChunkFacts
  <2> QED
    BY <1>3, <2>2
<1>5. l \in 0 .. NoteSize /\ 0 \in 0 .. NoteSize /\ l \in Nat /\ l < SizeT /\ j \in Int
  BY <1>4, FitSizes
<1>6. m.type \in {"EVENT_RECIVE_BLOCK", "EVENT_RECIVE_STREAM"}
  BY DEF ProperMessage, Message
<1>7. ASSUME NEW b, Filled(b, Row(m.fields), from)
      PROVE  Payload(b, sent, i, j, from, l, 0, p)
  <2>1. Filled(b, Row(sent[i].fields), from)
    BY <1>2, <1>7
  <2> QED
    BY <1>1, <2>1, PayloadStarts
<1>8. CASE m.type = "EVENT_RECIVE_STREAM"
  <2>1. ChunkNumber(sent[i], j) = 0 /\ j = 1 /\ from = 0 /\ l = Len(Row(m.fields))
    BY <1>2, <1>4, <1>8 DEF ChunkNumber
  <2>2. streamEvent' = Event(m.type, m.channel, New(l)) /\ blockEvent' = blockEvent
    BY <1>2, <1>8, <2>1 DEF StartChunk
  <2>3. blockEvent' = NoEvent
    BY <2>1, <2>2 DEF BeforeChunk
  <2>4. EventFor(streamEvent', m) /\ Filled(streamEvent'.b, Row(m.fields), 0)
    <3>1. EventFor(Event(m.type, m.channel, New(l)), m)
          /\ Filled(Event(m.type, m.channel, New(l)).b, Row(m.fields), 0)
      <4>1. Len(Row(m.fields)) <= l
        BY <1>4, <2>1
      <4> QED
        BY <4>1, <1>5, <2>1, NewEvent
    <3> QED
      BY <2>2, <3>1
  <2>5. Payload(streamEvent'.b, sent, i, j, from, l, 0, p)
    BY <1>7, <2>1, <2>4
  <2>6. InStream(h, streamEvent', blockEvent', sent, i, p)
    BY <1>2, <1>4, <1>5, <1>8, <2>1, <2>3, <2>4, <2>5 DEF InStream
  <2> QED
    BY <2>6 DEF ReceiverAt
<1>9. CASE m.type = "EVENT_RECIVE_BLOCK"
  <2>1. /\ ChunkNumber(sent[i], j) = n - j + 1 /\ n - j + 1 # 0
    BY <1>2, <1>3, <1>4, <1>9 DEF ChunkNumber
  <2>2. /\ blockEvent = NoEvent => l * (n - j + 1) <= MAX_DATALENGTH
        /\ blockEvent' = IF blockEvent # NoEvent THEN blockEvent
                         ELSE Event("EVENT_RECIVE_BLOCK", m.channel, New(l * (n - j + 1)))
        /\ blockChunkLength' = l /\ nowChunkNum' = n - j + 1 /\ streamEvent' = streamEvent
    BY <1>2, <2>1 DEF StartChunk
  <2>3. EventFor(blockEvent', m) /\ Filled(blockEvent'.b, Row(m.fields), from)
    <3>1. CASE j = 1
      <4>1. blockEvent = NoEvent /\ from = 0
        BY <3>1 DEF BeforeChunk
      <4>2. PICK size \in Nat : size = l * n
        BY <1>4, <1>5
      <4>3. n - j + 1 = n
        BY <3>1
      <4>4. blockEvent' = Event(m.type, m.channel, New(size)) /\ size <= MAX_DATALENGTH
        BY <1>9, <2>2, <4>1, <4>2, <4>3
      <4>5. size < SizeT /\ Len(Row(m.fields)) <= size
        <5>1. MAX_DATALENGTH \in 0 .. SizeT - 1 /\ SizeT \in Nat
          BY FitSizes DEF WireFits
        <5>2. size < SizeT
          BY <4>4, <5>1
        <5> QED
          BY <1>4, <3>1, <4>2, <5>2
      <4>6. EventFor(Event(m.type, m.channel, New(size)), m)
            /\ Filled(Event(m.type, m.channel, New(size)).b, Row(m.fields), 0)
        BY <1>9, <4>5, NewEvent
      <4> QED
        BY <4>1, <4>4, <4>6
    <3>2. CASE j # 1
      <4>1. EventFor(blockEvent, m) /\ Filled(blockEvent.b, Row(m.fields), from)
        BY <1>2, <3>2 DEF BeforeChunk
      <4>2. blockEvent # NoEvent
        BY <4>1, EventFacts
      <4> QED
        BY <2>2, <4>1, <4>2
    <3> QED
      BY <3>1, <3>2
  <2>4. Payload(blockEvent'.b, sent, i, j, from, l, 0, p)
    BY <1>7, <2>3
  <2>5. blockChunkLength' = l - 0 /\ nowChunkNum' = Len(Chunks(sent[i])) - j + 1
        /\ j \in 1 .. Len(Chunks(sent[i]))
    BY <1>2, <1>3, <1>4, <1>5, <2>2
  <2>6. InBlock(h, streamEvent', blockEvent', blockChunkLength', nowChunkNum', sent, i, p)
    BY <1>2, <1>4, <1>5, <1>9, <2>2, <2>3, <2>4, <2>5 DEF InBlock
  <2> QED
    BY <2>6 DEF ReceiverAt
<1> QED
  BY <1>6, <1>8, <1>9

LEMMA HeaderCarries ==
  ASSUME WireFits, WireInv, Carrying, NEW k \in 1 .. Len(wire), ChunkHeaderReadPart(k)
  PROVE  Carrying' /\ UNCHANGED <<sent, delivered>>
<1>1. PICK i, p :
        /\ Receiving(i, p) /\ k \in Nat
        /\ Recv(k) \in Seq(Byte) /\ Len(Recv(k)) = k
        /\ \A t \in 1 .. k : Recv(k)[t] = AllBytes(sent)[p + t]
        /\ p + k \in 0 .. Len(AllBytes(sent))
        /\ PipeAt(sent, wire', writeBufferList, p + k)
  BY RecvBrings DEF ChunkHeaderReadPart
<1>2. /\ streamEvent = NoEvent /\ (blockEvent = NoEvent \/ blockChunkLength = 0)
      /\ k <= GetAvailableSize(readHeaderBuffer) /\ Received(k) /\ UNCHANGED eventPool
  BY DEF ChunkHeaderReadPart
<1>3. /\ sent \in Seq(ProperMessage) /\ p \in Nat
      /\ i = Len(delivered) + Len(eventPool) + 1 /\ PoolHas(eventPool, sent, Len(delivered))
      /\ Unread(readHeaderBuffer) /\ Len(readHeaderBuffer.buf) = HEADERLENGTH
  BY <1>1 DEF Carrying, Receiving, ReceiverAt
<1>4. p < Len(AllBytes(sent))
  <2>1. Len(AllBytes(sent)) \in Nat /\ 1 <= k
    BY <1>1, <1>3, EncodingsType, LenProperties
  <2> QED
    BY <1>1, <1>3, <2>1
<1>5. i \in 1 .. Len(sent) /\ \E j, from, l : BeforeChunk(i, j, from, l, p)
  BY <1>1, <1>2, <1>4, ReceiverBefore
<1>6. PICK j, from, l : BeforeChunk(i, j, from, l, p)
  BY <1>5
<1>7. PICK start \in Nat :
        /\ start = ChunkBegin(sent, i, j) /\ IsChunk(sent[i], j, from, l)
        /\ HeaderAt(readHeaderBuffer, sent, start, p)
  BY <1>3, <1>5, <1>6, ChunkIsAt DEF BeforeChunk, ChunkFound
<1>8. PICK s \in Seq(Byte) :
        /\ s = Recv(k) /\ Len(s) = k /\ Len(s) <= GetAvailableSize(readHeaderBuffer)
        /\ \A t \in 1 .. Len(s) : s[t] = AllBytes(sent)[p + t]
  BY <1>1, <1>2
<1>9. HeaderStep(readHeaderBuffer, sent, start, p, s)
  BY <1>3, <1>7, <1>8, HeaderReads
<1> DEFINE c == Store(readHeaderBuffer, s)
           r == ReadFromSocket(readHeaderBuffer, GetAvailableSize(readHeaderBuffer), s)
<1>10. /\ r.b = c /\ Unread(c) /\ Len(c.buf) = HEADERLENGTH
       /\ r.ret = 0 => /\ c.writePos = HEADERLENGTH /\ p + k = start + HEADERLENGTH
                       /\ \A x \in 1 .. HEADERLENGTH : c.buf[x] = AllBytes(sent)[start + x]
       /\ r.ret # 0 => HeaderAt(c, sent, start, p + k)
  BY <1>8, <1>9 DEF HeaderStep
<1>11. LET nextChunkNum == ReadUint8(ReadSeek(c, 0).b)
           channel      == ReadUint8(nextChunkNum.b)
           length       == ReadUint16(channel.b)
       IN  IF r.ret = 0
           THEN /\ StartChunk(nextChunkNum.ret, channel.ret, length.ret)
                /\ readHeaderBuffer' = Clear(length.b)
           ELSE /\ readHeaderBuffer' = c
                /\ UNCHANGED <<streamEvent, blockEvent, blockChunkLength, nowChunkNum>>
  BY <1>8, <1>10 DEF ChunkHeaderReadPart
<1> HIDE DEF c, r
<1>15. Unread(c) /\ Len(c.buf) = HEADERLENGTH
  BY <1>10
<1>16. r.ret = 0 => c.writePos = HEADERLENGTH
  BY <1>10
<1>12. PICK q \in Nat : q = p + k
  BY <1>1, <1>3
<1>13. CASE r.ret # 0
  <2>1. /\ readHeaderBuffer' = c
        /\ UNCHANGED <<streamEvent, blockEvent, blockChunkLength, nowChunkNum>>
    BY <1>11, <1>13
  <2>2. HeaderAt(c, sent, ChunkBegin(sent, i, j), q)
    BY <1>7, <1>10, <1>12, <1>13
  <2>3. ReceiverAt(c, NoEvent, blockEvent, blockChunkLength, nowChunkNum, sent, i, q)
    <3>1. /\ j = 1 => blockEvent = NoEvent
          /\ j # 1 => /\ sent[i].type = "EVENT_RECIVE_BLOCK" /\ EventFor(blockEvent, sent[i])
                      /\ Filled(blockEvent.b, Row(sent[i].fields), from) /\ blockChunkLength = 0
      BY <1>6 DEF BeforeChunk
    <3> QED
      BY <1>3, <1>5, <1>7, <1>10, <2>2, <3>1, BeforeIsAt
  <2>4. ReceiverAt(readHeaderBuffer', streamEvent', blockEvent', blockChunkLength', nowChunkNum',
                   sent, i, p + k)
    BY <1>2, <1>12, <2>1, <2>3
  <2> QED
    BY <1>1, <1>2, <1>3, <2>4, ReceiverCarries
<1>14. CASE r.ret = 0
  <2>1. HeaderSays(c, ChunkNumber(sent[i], j), sent[i].channel, l)
    <3>1. PICK m \in ProperMessage : m = sent[i]
      BY <1>3, <1>5
    <3>2. \A x \in 1 .. HEADERLENGTH : c.buf[x] = AllBytes(sent)[ChunkBegin(sent, i, j) + x]
      BY <1>7, <1>10, <1>14
    <3>3. HeaderSays(c, ChunkNumber(m, j), m.channel, l)
      <4>1. IsChunk(m, j, from, l) /\ i \in 1 .. Len(sent) /\ sent \in Seq(ProperMessage)
        BY <1>3, <1>5, <1>7, <3>1
      <4>2. c.writePos = HEADERLENGTH
        BY <1>14, <1>16, Zenon
      <4> QED
        BY <1>15, <3>1, <3>2, <4>1, <4>2, HeaderOfChunk
    <3> QED
      BY <3>1, <3>3
  <2>2. /\ StartChunk(ChunkNumber(sent[i], j), sent[i].channel, l)
        /\ Unread(readHeaderBuffer') /\ Len(readHeaderBuffer'.buf) = HEADERLENGTH
        /\ readHeaderBuffer'.writePos = 0
    BY <1>11, <1>14, <2>1 DEF HeaderSays
  <2>3. q = ChunkBegin(sent, i, j) + HEADERLENGTH
    BY <1>7, <1>10, <1>12, <1>14
  <2>4. ReceiverAt(readHeaderBuffer', streamEvent', blockEvent', blockChunkLength', nowChunkNum',
                   sent, i, q)
    BY <1>2, <1>5, <1>6, <2>2, <2>3, ChunkStarts
  <2> QED
    BY <1>1, <1>2, <1>3, <1>12, <2>4, ReceiverCarries
<1> QED
  BY <1>13, <1>14

-----------------------------------------------------------------------------
(* The handler, and the refinement. *)

LEMMA HandleCarries ==
  ASSUME WireFits, WireInv, Carrying, Handle
  PROVE  Carrying' /\ Channel!Deliver
<1>1. /\ sent \in Seq(ProperMessage) /\ delivered \in Seq(Message)
      /\ PoolHas(eventPool, sent, Len(delivered)) /\ eventPool \in Seq(ProperEvent)
  BY DEF Carrying, WireInv
<1>2. /\ eventPool # <<>> /\ eventPool' = Tail(eventPool)
      /\ UNCHANGED <<appVars, writeBufferList, wire, rcvVars>>
      /\ delivered' = Append(delivered,
           [type |-> Head(eventPool).type, channel |-> Head(eventPool).channel,
            fields |-> ReadFields(Head(eventPool).b, sent[Len(delivered) + 1].fields)])
  BY DEF Handle
<1>3. UNCHANGED <<note, fields, sent, writeBufferList, wire, readHeaderBuffer, streamEvent,
                  blockEvent, blockChunkLength, nowChunkNum>>
  BY <1>2 DEF appVars, rcvVars
<1>4. PICK d, n \in Nat : d = Len(delivered) /\ n = Len(eventPool)
  BY <1>1, LenProperties
<1>5. n # 0 /\ d + n <= Len(sent) /\ \A k \in 1 .. n : EventOf(eventPool[k], sent[d + k])
  BY <1>1, <1>2, <1>4 DEF PoolHas
<1>6. /\ Tail(eventPool) \in Seq(ProperEvent) /\ Len(Tail(eventPool)) = n - 1
      /\ \A k \in 1 .. n - 1 : Tail(eventPool)[k] = eventPool[k + 1]
      /\ Head(eventPool) = eventPool[1]
  BY <1>1, <1>2, <1>4, HeadTailProperties
<1>7. PICK m, ev : m \in ProperMessage /\ m = sent[d + 1] /\ ev = Head(eventPool)
  <2>1. d + 1 \in 1 .. Len(sent)
    BY <1>1, <1>4, <1>5
  <2> QED
    BY <2>1, <1>1
<1>8. EventOf(ev, m)
  <2>1. 1 \in 1 .. n
    BY <1>5
  <2> QED
    BY <2>1, <1>5, <1>6, <1>7
<1>9. [type |-> ev.type, channel |-> ev.channel, fields |-> ReadFields(ev.b, m.fields)] = m
  <2>1. m \in Message /\ m.fields \in Seq(Fields)
    BY <1>7 DEF ProperMessage, Message
  <2>2. ReadFields(ev.b, m.fields) = m.fields
    BY <1>8, <2>1, ReadFieldsIs DEF EventOf
  <2>3. m = [type |-> m.type, channel |-> m.channel, fields |-> m.fields]
    BY <2>1 DEF Message
  <2> QED
    BY <1>8, <2>2, <2>3 DEF EventOf
<1>10. delivered' = Append(delivered, m) /\ m \in Message
  BY <1>2, <1>4, <1>7, <1>9 DEF ProperMessage
<1>11. delivered' \in Seq(Message) /\ Len(delivered') = d + 1
  BY <1>1, <1>4, <1>10, AppendProperties
<1>12. PoolHas(eventPool', sent', Len(delivered'))
  <2>1. (d + 1) + (n - 1) <= Len(sent)
    BY <1>1, <1>5
  <2>2. ASSUME NEW k \in 1 .. n - 1
        PROVE  EventOf(Tail(eventPool)[k], sent[(d + 1) + k])
    <3>1. PICK y \in 1 .. n : y = k + 1 /\ d + y = (d + 1) + k
      BY <1>4
    <3> QED
      BY <3>1, <1>5, <1>6
  <2> QED
    BY <2>1, <2>2, <1>2, <1>3, <1>6, <1>11 DEF PoolHas
<1>13. Len(delivered') + Len(eventPool') + 1 = Len(delivered) + Len(eventPool) + 1
  BY <1>2, <1>4, <1>5, <1>6, <1>11
<1>14. Carrying'
  BY <1>3, <1>11, <1>12, <1>13 DEF Carrying
<1>15. Channel!Deliver
  <2>1. d < Len(sent)
    BY <1>1, <1>5
  <2> QED
    BY <2>1, <1>3, <1>4, <1>7, <1>10 DEF Channel!Deliver
<1> QED
  BY <1>14, <1>15

LEMMA InitCarries ==
  ASSUME WireFits, WireInit
  PROVE  Carrying /\ Channel!Init
<1>1. /\ note = New(NoteSize) /\ fields = <<>> /\ writeBufferList = <<>> /\ wire = <<>>
      /\ readHeaderBuffer = New(HEADERLENGTH) /\ streamEvent = NoEvent /\ blockEvent = NoEvent
      /\ eventPool = <<>> /\ sent = <<>> /\ delivered = <<>>
  BY DEF WireInit
<1>2. /\ sent \in Seq(ProperMessage) /\ delivered \in Seq(Message) /\ <<>> \in Seq(Fields)
      /\ Len(sent) = 0 /\ Len(delivered) = 0 /\ Len(eventPool) = 0
  BY <1>1
<1>3. NoteHas(note, fields)
  <2>1. Unread(note) /\ Len(note.buf) = NoteSize /\ note.writePos = 0
    BY <1>1, FitSizes, NewIsUnread
  <2>2. Holds(note, Row(<<>>))
    BY <2>1, RowOfNone DEF Holds
  <2> QED
    BY <1>1, <1>2, <2>1, <2>2 DEF NoteHas
<1>4. PoolHas(eventPool, sent, Len(delivered))
  BY <1>2 DEF PoolHas
<1>5. AllBytes(sent) = <<>>
  <2>1. Encodings(sent) = <<>>
    BY <1>1 DEF Encodings
  <2> QED
    BY <2>1 DEF AllBytes, FlattenSeq
<1>6. PipeAt(sent, wire, writeBufferList, 0)
  <2>1. Unsents(<<>>) = <<>>
    BY DEF Unsents
  <2>2. FlattenSeq(<<>>) = <<>>
    BY DEF FlattenSeq
  <2>3. Pipe(wire, writeBufferList) = <<>>
    BY <1>1, <2>1, <2>2 DEF Pipe
  <2> QED
    BY <1>5, <2>3 DEF PipeAt
<1>7. Unread(readHeaderBuffer) /\ Len(readHeaderBuffer.buf) = HEADERLENGTH /\ readHeaderBuffer.writePos = 0
  BY <1>1, FitSizes, NewIsUnread
<1>8. MessageStart(sent, 1) = 0
  <2>1. MessageStart(sent, Len(sent) + 1) = Len(AllBytes(sent))
    BY <1>2, EncodingsType
  <2> QED
    BY <2>1, <1>2, <1>5
<1>9. AtMessage(readHeaderBuffer, streamEvent, blockEvent, sent, 1, 0)
  <2>1. HeaderAt(readHeaderBuffer, sent, 0, 0)
    BY <1>7, HeaderEmpty
  <2> QED
    BY <2>1, <1>1, <1>8 DEF AtMessage
<1>10. ReceiverAt(readHeaderBuffer, streamEvent, blockEvent, blockChunkLength, nowChunkNum,
                  sent, Len(delivered) + Len(eventPool) + 1, 0)
  BY <1>2, <1>7, <1>9 DEF ReceiverAt
<1>11. 0 \in 0 .. Len(AllBytes(sent))
  BY <1>5
<1>12. Carrying
  BY <1>2, <1>3, <1>4, <1>6, <1>10, <1>11 DEF Carrying
<1> QED
  BY <1>1, <1>12 DEF Channel!Init

LEMMA WireCarries ==
  ASSUME WireFits, WireInv, Carrying, [WireNext]_wireVars
  PROVE  Carrying' /\ [Channel!Next]_(Channel!vars)
<1>1. CASE \E f \in Fields : WriteField(f)
  BY <1>1, WriteFieldCarries DEF Channel!vars
<1>2. CASE \E c \in Channels : StreamWrite(c) \/ BlockWriteAndCommit(c)
  <2>1. PICK c \in Channels : StreamWrite(c) \/ BlockWriteAndCommit(c)
    BY <1>2
  <2>2. CASE StreamWrite(c)
    <3>1. <<StreamBuffer(Contents, c)>> = BuffersOf("EVENT_RECIVE_STREAM", c, Contents)
      BY DEF BuffersOf
    <3> QED
      BY <2>2, <3>1, SendCarries DEF StreamWrite, Channel!Next
  <2>3. CASE BlockWriteAndCommit(c)
    <3>1. BlockBuffers(Contents, c) = BuffersOf("EVENT_RECIVE_BLOCK", c, Contents)
      BY DEF BuffersOf
    <3> QED
      BY <2>3, <3>1, SendCarries DEF BlockWriteAndCommit, Channel!Next
  <2> QED
    BY <2>1, <2>2, <2>3
<1>3. CASE /\ writeBufferList # <<>>
           /\ \E n \in 1 .. Len(Unsent(Head(writeBufferList))) : RunWrite(n)
  BY <1>3, RunWriteCarries DEF Channel!vars
<1>4. CASE \E k \in 1 .. Len(wire) : \/ StreamReadPart(k)
                                     \/ BlockReadPart(k)
                                     \/ ChunkHeaderReadPart(k)
  BY <1>4, StreamCarries, BlockCarries, HeaderCarries DEF Channel!vars
<1>5. CASE Handle
  BY <1>5, HandleCarries DEF Channel!Next
<1>6. CASE UNCHANGED wireVars
  <2>1. UNCHANGED <<note, fields, sent, writeBufferList, wire, readHeaderBuffer, streamEvent,
                    blockEvent, blockChunkLength, nowChunkNum, eventPool, delivered>>
    BY <1>6 DEF wireVars, appVars, rcvVars
  <2> QED
    BY <2>1 DEF Carrying, Channel!vars
<1> QED
  BY <1>1, <1>2, <1>3, <1>4, <1>5, <1>6 DEF WireNext

\* For every set of fields and channels, every size of bytes, headers, chunks and
\* buffers that a message's numbers have room for, and however the socket splits the
\* bytes: the handler reads what the application wrote, message by message.
THEOREM FieldsAreCarried == WireFits => (WireSpec => CarriesFields)
<1> SUFFICES ASSUME WireFits PROVE WireSpec => CarriesFields
  OBVIOUS
<1>1. WireInit => Carrying /\ Channel!Init
  BY InitCarries
<1>2. WireInv /\ Carrying /\ [WireNext]_wireVars => Carrying' /\ [Channel!Next]_(Channel!vars)
  BY WireCarries
<1> QED
  BY <1>1, <1>2, WireInvariance, PTL DEF WireSpec, CarriesFields, Channel!Spec

-----------------------------------------------------------------------------
(* Streams. *)

\* A row made of two has the one and then the other.
TwoParts(s, a, b) ==
  SubSeq(s, 1, Len(a)) = a /\ SubSeq(s, Len(a) + 1, Len(s)) = b /\ Len(a) <= Len(s)

LEMMA RowSplits ==
  ASSUME NEW a \in Seq(Byte), NEW b \in Seq(Byte)
  PROVE  TwoParts(a \o b, a, b)
<1>1. PICK s \in Seq(Byte) : s = a \o b /\ MadeOf(s, a, b)
  BY RowsMake
<1>2. PICK n \in Nat, m \in Nat, l \in Nat : n = Len(a) /\ m = Len(b) /\ l = Len(s)
  BY LenProperties, Zenon
<1>3. /\ l = n + m
      /\ \A t \in 1 .. n : s[t] = a[t]
      /\ \A t \in 1 .. m : s[n + t] = b[t]
  BY <1>1, <1>2 DEF MadeOf
<1>4. SubSeq(s, 1, n) = a
  <2>1. 0 \in Nat /\ 1 = 0 + 1 /\ n = 0 + n /\ n <= Len(s) /\ \A t \in 1 .. n : 0 + t = t
    BY <1>2, <1>3
  <2>2. PICK c \in Seq(Byte) : c = SubSeq(s, 1, n) /\ PartOf(c, s, 0, n)
    BY <2>1, RowPart
  <2>3. Len(c) = n /\ \A t \in 1 .. n : c[t] = a[t]
    BY <1>3, <2>1, <2>2 DEF PartOf
  <2> QED
    BY <1>2, <2>2, <2>3, SeqEqual
<1>5. SubSeq(s, n + 1, l) = b
  <2>1. l = n + m /\ l <= Len(s)
    BY <1>2, <1>3
  <2>2. PICK c \in Seq(Byte) : c = SubSeq(s, n + 1, l) /\ PartOf(c, s, n, m)
    BY <2>1, SubSeqIs
  <2>3. Len(c) = m /\ \A t \in 1 .. m : c[t] = b[t]
    BY <1>3, <2>2 DEF PartOf
  <2> QED
    BY <1>2, <2>2, <2>3, SeqEqual
<1>6. n <= l
  BY <1>3
<1> QED
  BY <1>1, <1>2, <1>4, <1>5, <1>6 DEF TwoParts

LEMMA FourBytes ==
  ASSUME NEW n \in Nat
  PROVE  /\ Htonl(n, 4) \in Seq(Byte) /\ Len(Htonl(n, 4)) = 4
         /\ <<0, 0, 0, 0>> \in Seq(Byte) /\ Len(<<0, 0, 0, 0>>) = 4
<1>1. n \in Int /\ 4 \in Nat
  OBVIOUS
<1>2. Htonl(n, 4) \in Seq(Byte) /\ Len(Htonl(n, 4)) = 4
  BY <1>1, HtonlType
<1>3. 0 \in Byte
  BY ByteType
<1>4. <<0, 0, 0, 0>> \in Seq(Byte) /\ Len(<<0, 0, 0, 0>>) = 4
  BY <1>3
<1> QED
  BY <1>2, <1>4

LEMMA SizeBytesType ==
  ASSUME NEW n \in Nat
  PROVE  SizeBytes(n) \in Seq(Byte) /\ Len(SizeBytes(n)) = 8
<1>1. PICK g \in Seq(Byte) : g = Htonl(n, 4) /\ Len(g) = 4
  BY FourBytes, Zenon
<1>2. PICK z \in Seq(Byte) : z = <<0, 0, 0, 0>> /\ Len(z) = 4
  BY FourBytes, Zenon
<1>3. PICK h \in Seq(Byte) : h = g \o z /\ MadeOf(h, g, z)
  BY RowsMake
<1>4. Len(h) = 8
  <2>1. Len(h) = Len(g) + Len(z) /\ Len(g) = 4 /\ Len(z) = 4
    BY <1>1, <1>2, <1>3, Zenon DEF MadeOf
  <2> QED
    BY <2>1
<1> QED
  BY <1>1, <1>2, <1>3, <1>4, Zenon DEF SizeBytes

\* The first four bytes are a number.
LEMMA NumberInFront ==
  ASSUME NEW n \in Nat, n < Limit(4), NEW s \in Seq(Byte)
  PROVE  /\ SizeOf(Htonl(n, 4) \o s) = n /\ After(Htonl(n, 4) \o s, 4) = s
         /\ 4 <= Len(Htonl(n, 4) \o s)
<1>1. PICK g \in Seq(Byte) : g = Htonl(n, 4) /\ Len(g) = 4
  BY FourBytes, Zenon
<1>2. TwoParts(g \o s, g, s)
  BY RowSplits
<1>3. SubSeq(g \o s, 1, 4) = g /\ SubSeq(g \o s, 4 + 1, Len(g \o s)) = s /\ 4 <= Len(g \o s)
  BY <1>1, <1>2, Zenon DEF TwoParts
<1>4. Ntohl(g) = n
  <2>1. PICK m \in Nat \ {0} : m = Limit(4) /\ n < m
    BY LimitType
  <2>2. n % m = n
    BY <2>1, SMTT(30)
  <2> QED
    BY <1>1, <2>1, <2>2, NtohlOfHtonl
<1> QED
  BY <1>1, <1>3, <1>4, Zenon DEF SizeOf, After

\* What is read of a row saved with its length in front.
Takes(s, x, rest) ==
  /\ SizeOf(s) = Len(x) /\ SubSeq(After(s, 8), 1, Len(x)) = x
  /\ After(s, 8 + Len(x)) = rest

LEMMA SavedRow ==
  ASSUME NEW x \in Seq(Byte), Len(x) < Limit(4), NEW rest \in Seq(Byte)
  PROVE  /\ KeySave(x) \in Seq(Byte) /\ KeySave(x) \o rest \in Seq(Byte)
         /\ Takes(KeySave(x) \o rest, x, rest)
<1>1. PICK n \in Nat : n = Len(x)
  BY LenProperties
<1>2. PICK g \in Seq(Byte), z \in Seq(Byte) : g = Htonl(n, 4) /\ z = <<0, 0, 0, 0>>
  BY FourBytes, Zenon
<1>3. PICK h \in Seq(Byte) : h = g \o z /\ h = SizeBytes(n) /\ Len(h) = 8
  BY <1>2, SizeBytesType DEF SizeBytes
<1>4. PICK k \in Seq(Byte) : k = h \o x /\ MadeOf(k, h, x)
  BY RowsMake
<1>5. PICK y \in Seq(Byte) : y = x \o rest
  BY ConcatProperties
<1>6. PICK zy \in Seq(Byte) : zy = z \o y
  BY ConcatProperties
<1>7. PICK s \in Seq(Byte) : s = k \o rest
  BY ConcatProperties
<1>8. s = h \o y /\ s = g \o zy
  <2>1. Joined(h, x, rest) /\ Joined(g, z, y)
    BY RowsJoin
  <2> QED
    BY <1>3, <1>4, <1>5, <1>6, <1>7, <2>1 DEF Joined
<1>9. SizeOf(s) = n
  BY <1>1, <1>2, <1>8, NumberInFront
<1>10. After(s, 8) = y
  <2>1. TwoParts(h \o y, h, y)
    BY RowSplits
  <2> QED
    BY <1>3, <1>8, <2>1 DEF TwoParts, After
<1>11. SubSeq(y, 1, n) = x
  <2>1. TwoParts(x \o rest, x, rest)
    BY RowSplits
  <2> QED
    BY <1>1, <1>5, <2>1 DEF TwoParts
<1>12. After(s, 8 + n) = rest
  <2>1. TwoParts(k \o rest, k, rest)
    BY RowSplits
  <2>2. Len(k) = 8 + n
    BY <1>1, <1>3, <1>4 DEF MadeOf
  <2> QED
    BY <1>7, <2>1, <2>2, Zenon DEF TwoParts, After
<1>13. KeySave(x) = k
  BY <1>1, <1>3, <1>4 DEF KeySave
<1> QED
  BY <1>1, <1>7, <1>9, <1>10, <1>11, <1>12, <1>13, Zenon DEF Takes

\* Data are loaded from the front of a stream.
LEMMA SavedData ==
  ASSUME NEW x \in Seq(Byte), Len(x) < Limit(4), NEW y \in Seq(Byte), Len(y) < Limit(4),
         NEW rest \in Seq(Byte)
  PROVE  /\ DataSave(Data(x, y)) \in Seq(Byte) /\ DataSave(Data(x, y)) \o rest \in Seq(Byte)
         /\ DataLoad(DataSave(Data(x, y)) \o rest)
              = [data |-> Data(CString(x), y), rest |-> rest]
<1>1. PICK ky \in Seq(Byte), yr \in Seq(Byte) :
        ky = KeySave(y) /\ yr = ky \o rest /\ Takes(yr, y, rest)
  BY SavedRow
<1>2. PICK kx \in Seq(Byte), s \in Seq(Byte) :
        kx = KeySave(x) /\ s = kx \o yr /\ Takes(s, x, yr)
  BY SavedRow
<1>3. PICK d \in Seq(Byte) : d = kx \o ky
  BY ConcatProperties
<1>4. DataSave(Data(x, y)) = d
  <2>1. PICK h \in Seq(Byte) : h = SizeBytes(Len(y))
    BY SizeBytesType, LenProperties
  <2>2. ky = h \o y /\ DataSave(Data(x, y)) = (kx \o h) \o y
    BY <1>1, <1>2, <2>1 DEF KeySave, DataSave, Data
  <2>3. Joined(kx, h, y)
    BY RowsJoin
  <2> QED
    BY <1>3, <2>2, <2>3 DEF Joined
<1>5. d \o rest = s
  <2>1. Joined(kx, ky, rest)
    BY RowsJoin
  <2> QED
    BY <1>1, <1>2, <1>3, <2>1 DEF Joined
<1>6. KeyLoad(s) = [key |-> CString(x), rest |-> yr]
  BY <1>2, Zenon DEF KeyLoad, Takes
<1>7. DataLoad(s) = [data |-> Data(CString(x), y), rest |-> rest]
  <2>1. SizeOf(yr) = Len(y) /\ SubSeq(After(yr, 8), 1, Len(y)) = y /\ After(yr, 8 + Len(y)) = rest
    BY <1>1 DEF Takes
  <2>2. KeyLoad(s).key = CString(x) /\ KeyLoad(s).rest = yr
    BY <1>6
  <2> QED
    BY <2>1, <2>2, Zenon DEF DataLoad
<1> QED
  BY <1>4, <1>5, <1>7

\* What is pushed behind a row a is popped after it.
Popped(a, n, b) ==
  LET p1 == pop_buf(realloc_push(realloc_push_uint32(a, n), b), Len(a))
  IN  p1.ret = a /\ pop_uint32(p1.src) = [ret |-> n, src |-> b]

LEMMA PushedIsPopped ==
  ASSUME NEW a \in Seq(Byte), NEW b \in Seq(Byte), NEW n \in Nat, n < Limit(4)
  PROVE  Popped(a, n, b)
<1>1. PICK g \in Seq(Byte) : g = Htonl(n, 4)
  BY HtonlType
<1>2. PICK t \in Seq(Byte) : t = g \o b
  BY ConcatProperties
<1>3. PICK s \in Seq(Byte) : s = a \o t
  BY ConcatProperties
<1>4. realloc_push(realloc_push_uint32(a, n), b) = s
  <2>1. Joined(a, g, b)
    BY RowsJoin
  <2> QED
    BY <1>1, <1>2, <1>3, <2>1 DEF Joined, realloc_push, realloc_push_uint32
<1>5. PICK l \in Nat, k \in Nat, m \in Nat : l = Len(s) /\ k = Len(a) /\ m = Len(t)
  BY LenProperties, Zenon
<1>6. pop_buf(s, k) = [ret |-> a, src |-> t]
  <2>1. TwoParts(a \o t, a, t)
    BY RowSplits
  <2>2. SubSeq(s, 1, k) = a /\ SubSeq(s, k + 1, l) = t /\ k <= l
    BY <1>3, <1>5, <2>1 DEF TwoParts
  <2>3. ~ (l < k)
    BY <2>2
  <2> QED
    BY <1>5, <2>2, <2>3, Zenon DEF pop_buf, After
<1>7. pop_uint32(t) = [ret |-> n, src |-> b]
  <2>1. SizeOf(t) = n /\ After(t, 4) = b /\ 4 <= m
    BY <1>1, <1>2, <1>5, NumberInFront
  <2>2. ~ (m < 4)
    BY <2>1
  <2> QED
    BY <1>5, <2>1, <2>2, Zenon DEF pop_uint32
<1> QED
  BY <1>4, <1>5, <1>6, <1>7 DEF Popped

LEMMA RowsGivenBack ==
  ASSUME NEW a \in Seq(Byte), Len(a) < Limit(4), NEW b \in Seq(Byte), Len(b) < Limit(4),
         NEW n \in Nat, n < Limit(4)
  PROVE  GivenBack(a, b, n)
<1>1. PICK none \in Seq(Byte) : none = <<>>
  BY EmptySeq
<1>2. PICK d \in Seq(Byte) :
        /\ d = DataSave(Data(b, a))
        /\ DataLoad(d \o none) = [data |-> Data(CString(b), a), rest |-> none]
  BY SavedData
<1>3. DataLoad(d) = [data |-> Data(CString(b), a), rest |-> <<>>]
  <2>1. d \o none = d
    BY <1>1, ConcatEmptySeq
  <2> QED
    BY <1>1, <1>2, <2>1
<1>4. PICK l1 : /\ l1 = DataLoad(DataSave(Data(a, b)) \o d)
                /\ l1 = [data |-> Data(CString(a), b), rest |-> d]
  BY SavedData
<1>5. l1.data = Data(CString(a), b) /\ l1.rest = d
  BY <1>4
<1>6. Popped(a, n, b)
  BY PushedIsPopped
<1> QED
  BY <1>2, <1>3, <1>4, <1>5, <1>6, Zenon DEF GivenBack, Popped

\* The application's buffer keeps its size.
LEMMA NoteSizeInv == WireSpec => [](Len(note.buf) = NoteSize)
<1>1. WireInit => Len(note.buf) = NoteSize
  BY WireAssumption, NewIsUnread DEF WireInit
<1>2. WireInv /\ Len(note.buf) = NoteSize /\ [WireNext]_wireVars
        => (Len(note.buf) = NoteSize)'
  <2> SUFFICES ASSUME WireInv, Len(note.buf) = NoteSize, [WireNext]_wireVars
               PROVE  (Len(note.buf) = NoteSize)'
    OBVIOUS
  <2>1. ASSUME NEW f \in Fields, WriteField(f)
        PROVE  Len(note'.buf) = NoteSize
    <3>1. Unread(note) /\ Proper(note) /\ note' = Put(note, f).b
      BY <2>1 DEF WriteField, WireInv, Unread
    <3>2. CASE f.type \in {"uint8", "uint16", "uint32", "int8", "int16", "int32"} /\ f.value \in Int
      <4>1. \A w \in {1, 2, 4} : Len(PutNumber(note, f.value, w).b.buf) = NoteSize
        BY <3>1, <3>2, PutNumberUnread
      <4> QED
        BY <3>1, <3>2, <4>1
        DEF Put, WriteUint8, WriteUint16, WriteUint32, WriteInt8, WriteInt16, WriteInt32
    <3>3. CASE f.type = "data" /\ f.value \in Seq(Byte)
      <4>1. Put(note, f) = Write(note, f.value)
        BY <3>3 DEF Put
      <4> QED
        BY <3>1, <3>3, <4>1, WriteIsProper DEF SameSize
    <3> QED
      BY <3>2, <3>3, WireAssumption
  <2>2. ASSUME NEW c \in Channels, StreamWrite(c) \/ BlockWriteAndCommit(c)
        PROVE  Len(note'.buf) = NoteSize
    <3>1. note' = Clear(note)
      BY <2>2, Zenon DEF StreamWrite, BlockWriteAndCommit, Send
    <3> QED
      BY <3>1, ClearIsUnread DEF WireInv, Unread
  <2>3. note' = note \/ (\E f \in Fields : WriteField(f))
          \/ (\E c \in Channels : StreamWrite(c) \/ BlockWriteAndCommit(c))
    <3>1. ASSUME NEW k, StreamReadPart(k) \/ BlockReadPart(k) \/ ChunkHeaderReadPart(k)
          PROVE  note' = note
      BY <3>1, Zenon DEF StreamReadPart, BlockReadPart, ChunkHeaderReadPart, Received, appVars
    <3>2. ASSUME NEW k, RunWrite(k)
          PROVE  note' = note
      BY <3>2, Zenon DEF RunWrite, appVars
    <3>3. Handle \/ UNCHANGED wireVars => note' = note
      BY Zenon DEF Handle, wireVars, appVars
    <3> QED
      BY <3>1, <3>2, <3>3, Zenon DEF WireNext
  <2> QED
    BY <2>1, <2>2, <2>3
<1> QED
  BY <1>1, <1>2, WireInvariance, PTL DEF WireSpec

LEMMA ContentsFit ==
  ASSUME Unread(note), Len(note.buf) = NoteSize
  PROVE  Contents \in Seq(Byte) /\ Len(Contents) <= NoteSize
<1>1. Contents \in Seq(Byte)
  BY ContentsType
<1>2. PICK n \in Nat : n = note.writePos /\ n <= NoteSize /\ n <= Len(note.buf)
  BY ProperFacts DEF Unread
<1>3. PICK buf \in Seq(Byte) : buf = note.buf /\ note.readPos = 0
  BY ProperFacts DEF Unread
<1>4. GetBuffer(note) = buf
  <2>1. GetBuffer(note) = SubSeq(buf, 1, Len(buf))
    BY <1>3 DEF GetBuffer
  <2> QED
    BY <2>1, SubSeqFull
<1>5. Contents = SubSeq(buf, 1, n)
  BY <1>2, <1>4 DEF Contents, GetDataLength
<1>6. Len(SubSeq(buf, 1, n)) = n
  <2>1. 0 \in Nat /\ 1 = 0 + 1 /\ n = 0 + n /\ n <= Len(buf)
    BY <1>2, <1>3
  <2>2. PartOf(SubSeq(buf, 1, n), buf, 0, n)
    BY <2>1, RowPart
  <2> QED
    BY <2>2 DEF PartOf
<1> QED
  BY <1>1, <1>2, <1>5, <1>6

\* For every size of bytes and every row of them whose length the four bytes of a saved
\* length have room for, however it is divided: what save and the realloc_push functions
\* put away is loaded and popped again, piece by piece, and nothing of the next piece is
\* taken for the last or left out, also where a key holds a NUL.
THEOREM StreamsGiveBack == NoteSize < Limit(4) => (WireSpec => []SavedIsLoaded)
<1> SUFFICES ASSUME NoteSize < Limit(4) PROVE WireSpec => []SavedIsLoaded
  OBVIOUS
<1>1. WireInv /\ Len(note.buf) = NoteSize => SavedIsLoaded
  <2> SUFFICES ASSUME WireInv, Len(note.buf) = NoteSize PROVE SavedIsLoaded
    OBVIOUS
  <2>1. PICK row \in Seq(Byte) : row = Contents /\ Len(row) <= NoteSize
    BY ContentsFit DEF WireInv
  <2>2. PICK l \in Nat, m \in Nat \ {0} : l = Len(row) /\ m = Limit(4) /\ l < m
    <3>1. Len(row) \in Nat /\ Limit(4) \in Nat \ {0}
      BY LimitType
    <3> QED
      BY <2>1, <3>1, WireAssumption
  <2>3. PICK n \in Nat : n = Ntohl(row) % Limit(4) /\ n < Limit(4)
    <3>1. Ntohl(row) \in Nat
      BY NtohlType
    <3> QED
      BY <2>2, <3>1
  <2>4. ASSUME NEW i \in 0 .. l
        PROVE  GivenBack(SubSeq(row, 1, i), SubSeq(row, i + 1, l), n)
    <3>1. PICK k \in Nat : l = i + k
      <4>1. l - i \in Nat /\ l = i + (l - i)
        BY <2>2
      <4> QED
        BY <4>1
    <3>2. PICK a \in Seq(Byte) : a = SubSeq(row, 1, i) /\ PartOf(a, row, 0, i)
      <4>1. i \in Nat /\ 0 \in Nat /\ 1 = 0 + 1 /\ i = 0 + i /\ i <= Len(row)
        BY <2>2
      <4> QED
        BY <4>1, RowPart
    <3>3. PICK b \in Seq(Byte) : b = SubSeq(row, i + 1, l) /\ PartOf(b, row, i, k)
      <4>1. i \in Nat /\ l <= Len(row)
        BY <2>2
      <4> QED
        BY <3>1, <4>1, SubSeqIs
    <3>4. Len(a) < Limit(4) /\ Len(b) < Limit(4)
      BY <2>2, <3>1, <3>2, <3>3 DEF PartOf
    <3> QED
      BY <2>3, <3>2, <3>3, <3>4, RowsGivenBack
  <2> QED
    BY <2>1, <2>2, <2>3, <2>4, Zenon DEF SavedIsLoaded
<1> QED
  BY <1>1, WireInvariance, NoteSizeInv, PTL

-----------------------------------------------------------------------------
(* Counters: the number that each first part of a row makes. *)

\* Induction up to a number.
LEMMA ReachesAll ==
  ASSUME NEW T, NEW n \in Nat, 0 \in T, \A k \in Nat : k < n /\ k \in T => k + 1 \in T
  PROVE  \A k \in Nat : k <= n => k \in T
<1> DEFINE bad == {k \in Nat : k <= n /\ k \notin T}
<1>1. SUFFICES ASSUME bad # {} PROVE FALSE
  OBVIOUS
<1>2. PICK m \in Nat : m <= n /\ m \notin T /\ \A k \in bad : m <= k
  <2>1. PICK m \in bad : \A k \in bad : m <= k
    BY <1>1, LeastNumber
  <2> QED
    BY <2>1
<1>3. PICK k \in Nat : m = k + 1
  <2>1. m # 0
    BY <1>2
  <2>2. m - 1 \in Nat /\ m = (m - 1) + 1
    BY <2>1
  <2> QED
    BY <2>2
<1>4. k \in T
  <2>1. k <= n /\ ~ (m <= k)
    BY <1>2, <1>3
  <2> QED
    BY <1>2, <2>1
<1>5. k < n
  BY <1>2, <1>3
<1> QED
  BY <1>2, <1>3, <1>4, <1>5

\* A byte of a row is one of the numbers less than Base.
LEMMA BytesAre ==
  ASSUME NEW s \in Seq(Byte)
  PROVE  \A k \in 1 .. Len(s) : s[k] \in 0 .. Base - 1
<1>1. Byte = 0 .. Base - 1
  BY Zenon DEF Byte
<1>2. \A k \in 1 .. Len(s) : s[k] \in Byte
  OBVIOUS
<1> QED
  BY <1>1, <1>2

\* p[k] is the number of the first k bytes of s.
Numbers(p, s) ==
  /\ p[0] = 0 /\ \A k \in Nat : k < Len(s) => p[k + 1] = p[k] * Base + s[k + 1]
  /\ \A k \in Nat : k <= Len(s) => p[k] \in 0 .. Limit(k) - 1
  /\ p[Len(s)] = Ntohl(s)

\* A digit after a number.
LEMMA DigitAfter ==
  ASSUME NEW d \in Nat, NEW b \in Nat, NEW x \in 0 .. d - 1, NEW y \in 0 .. b - 1
  PROVE  x * b + y \in 0 .. d * b - 1
<1>1. x * b \in Nat /\ d * b \in Nat
  OBVIOUS
<1>2. PICK e \in Nat : d = x + 1 + e
  <2>1. d - x - 1 \in Nat /\ d = x + 1 + (d - x - 1)
    OBVIOUS
  <2> QED
    BY <2>1
<1>3. d * b = x * b + b + e * b /\ e * b \in Nat
  BY <1>2
<1> QED
  BY <1>1, <1>3

\* The number that each first part of a row makes, from the fold of Ntohl.
LEMMA NumbersExist ==
  ASSUME NEW s \in Seq(Byte)
  PROVE  \E p : Numbers(p, s)
<1> DEFINE n == Len(s)
           h == CHOOSE f : NumberFold(f, s, n)
           p == [k \in 0 .. n |-> h[1 .. k]]
<1>1. n \in Nat /\ DOMAIN s = 1 .. n /\ \A k \in 1 .. n : s[k] \in 0 .. Base - 1
  BY BytesAre
<1>2. NumberFold(h, s, n)
  BY NumberFoldExists, <1>1
<1>3. Ntohl(s) = h[1 .. n]
  BY <1>1 DEF Ntohl, FoldLeft, MapThenFoldSet, NumberFold
<1> HIDE DEF h, n
<1>4. p[0] = 0 /\ p[n] = Ntohl(s)
  <2>1. h[1 .. 0] = 0
    BY <1>1, <1>2, NumberFoldStep
  <2> QED
    BY <1>1, <1>3, <2>1
<1>5. ASSUME NEW k \in Nat, k < n
      PROVE  p[k + 1] = p[k] * Base + s[k + 1]
  <2>1. k + 1 \in 1 .. n /\ (k + 1) - 1 = k /\ k \in 0 .. n /\ k + 1 \in 0 .. n
    BY <1>1, <1>5
  <2>2. PICK m \in 1 .. n : m = k + 1 /\ m - 1 = k
    BY <2>1
  <2>3. h[1 .. m] = h[1 .. m - 1] * Base + s[m]
    BY <1>1, <1>2, NumberFoldStep
  <2> QED
    BY <2>1, <2>2, <2>3
<1> HIDE DEF p
<1>6. \A k \in Nat : k <= n => p[k] \in 0 .. Limit(k) - 1
  <2> DEFINE T == {k \in Nat : p[k] \in 0 .. Limit(k) - 1}
  <2>1. 0 \in T
    BY <1>4, LimitValues
  <2>2. ASSUME NEW k \in Nat, k < n, k \in T
        PROVE  k + 1 \in T
    <3>1. PICK d \in Nat, b \in Nat : d = Limit(k) /\ b = Base /\ Limit(k + 1) = d * b
      BY LimitType, LimitStep, ByteType
    <3>2. PICK x \in 0 .. d - 1 : x = p[k]
      BY <2>2, <3>1
    <3>3. PICK y \in 0 .. b - 1 : y = s[k + 1]
      <4>1. k + 1 \in 1 .. n
        BY <1>1, <2>2
      <4> QED
        BY <1>1, <3>1, <4>1
    <3>4. p[k + 1] = x * b + y
      BY <1>5, <2>2, <3>1, <3>2, <3>3
    <3> QED
      BY <3>1, <3>4, DigitAfter
  <2> HIDE DEF T
  <2>3. \A k \in Nat : k <= n => k \in T
    BY <1>1, <2>1, <2>2, ReachesAll
  <2> QED
    BY <2>3 DEF T
<1>7. Numbers(p, s)
  BY <1>4, <1>5, <1>6 DEF Numbers, n
<1> QED
  BY <1>7

\* A byte more or less, at its place, is as much more or less of the number.
OtherByte(t, s, j, x) ==
  Len(t) = Len(s) /\ \A k \in 1 .. Len(s) : t[k] = IF k = j THEN x ELSE s[k]

\* Another byte changes the number by what it weighs at its place.
LEMMA NumberExcept ==
  ASSUME NEW s \in Seq(Byte), NEW j \in Nat \ {0}, NEW v \in Nat, Len(s) = j + v,
         NEW x \in Byte, NEW t \in Seq(Byte), OtherByte(t, s, j, x)
  PROVE  Ntohl(t) = Ntohl(s) + (x - s[j]) * Limit(v)
<1>1. PICK n \in Nat : /\ n = Len(s) /\ n = j + v /\ n = Len(t)
                      /\ \A k \in 1 .. n : t[k] = IF k = j THEN x ELSE s[k]
  BY LenProperties DEF OtherByte
<1>2. PICK p : Numbers(p, s)
  BY NumbersExist
<1>3. PICK q : Numbers(q, t)
  BY NumbersExist
<1>4. /\ p[0] = 0 /\ \A k \in Nat : k < n => p[k + 1] = p[k] * Base + s[k + 1]
      /\ \A k \in Nat : k <= n => p[k] \in Nat
      /\ p[n] = Ntohl(s)
  <2>1. \A k \in Nat : 0 .. Limit(k) - 1 \subseteq Nat
    BY LimitType
  <2> QED
    BY <1>1, <1>2, <2>1 DEF Numbers
<1>5. /\ q[0] = 0 /\ \A k \in Nat : k < n => q[k + 1] = q[k] * Base + t[k + 1]
      /\ q[n] = Ntohl(t)
  BY <1>1, <1>3 DEF Numbers
<1>6. \A k \in Nat : k < n => t[k + 1] = IF k + 1 = j THEN x ELSE s[k + 1]
  BY <1>1
<1>7. \A k \in 1 .. n : s[k] \in Int
  BY <1>1, ByteType
<1> DEFINE T == {k \in Nat : k < j => q[k] = p[k]}
<1>8. \A k \in Nat : k <= n => k \in T
  <2>1. 0 \in T
    BY <1>4, <1>5
  <2>2. ASSUME NEW k \in Nat, k < n, k \in T
        PROVE  k + 1 \in T
    <3>1. CASE k + 1 < j
      <4>1. t[k + 1] = s[k + 1] /\ q[k] = p[k]
        BY <1>6, <2>2, <3>1
      <4> QED
        BY <1>4, <1>5, <2>2, <4>1
    <3>2. CASE ~ (k + 1 < j)
      BY <3>2
    <3> QED
      BY <3>1, <3>2
  <2> HIDE DEF T
  <2> QED
    BY <2>1, <2>2, ReachesAll
<1>9. PICK i \in Nat : j = i + 1 /\ i < n /\ i <= n
  <2>1. j - 1 \in Nat /\ j = (j - 1) + 1 /\ j - 1 < n
    BY <1>1
  <2> QED
    BY <2>1
<1>10. q[i] = p[i]
  BY <1>8, <1>9
<1>11. PICK d \in Int : d = x - s[j]
  BY <1>1, <1>7, ByteType
<1>12. q[j] = p[j] + d * Limit(0)
  <2>1. t[j] = x /\ s[j] \in Int /\ x \in Int
    <3>1. j \in 1 .. n
      BY <1>1
    <3> QED
      BY <1>1, <1>7, <3>1, ByteType
  <2>2. PICK b \in Nat, a \in Nat : b = Base /\ a = p[i]
    BY <1>4, <1>9, ByteType
  <2>3. q[j] = a * b + x /\ p[j] = a * b + s[j]
    BY <1>4, <1>5, <1>9, <1>10, <2>1, <2>2
  <2>4. PICK y \in Nat : y = a * b
    OBVIOUS
  <2>5. Limit(0) = 1
    BY LimitValues
  <2> QED
    BY <1>11, <2>1, <2>3, <2>4, <2>5
<1> DEFINE U == {k \in Nat : q[j + k] = p[j + k] + d * Limit(k)}
<1>13. \A k \in Nat : k <= v => k \in U
  <2>1. 0 \in U
    BY <1>12
  <2>2. ASSUME NEW k \in Nat, k < v, k \in U
        PROVE  k + 1 \in U
    <3>1. PICK m \in Nat : m = j + k /\ m < n /\ m + 1 = j + (k + 1) /\ m + 1 # j
      BY <1>1, <2>2
    <3>2. q[m] = p[m] + d * Limit(k) /\ t[m + 1] = s[m + 1] /\ s[m + 1] \in Int
      <4>1. m + 1 \in 1 .. n
        BY <3>1
      <4> QED
        BY <1>6, <1>7, <2>2, <3>1, <4>1
    <3>3. q[m + 1] = q[m] * Base + s[m + 1] /\ p[m + 1] = p[m] * Base + s[m + 1] /\ p[m] \in Nat
      BY <1>4, <1>5, <3>1, <3>2
    <3>4. PICK b \in Nat, l \in Nat : b = Base /\ l = Limit(k) /\ Limit(k + 1) = l * b
      BY LimitType, LimitStep, ByteType
    <3>5. \A y \in Nat : (y + d * l) * b = y * b + d * (l * b)
      OBVIOUS
    <3>6. PICK a \in Nat : a = p[m]
      BY <3>3
    <3>7. PICK y \in Int, z \in Int : y = a * b /\ z = d * (l * b) /\ (a + d * l) * b = y + z
      BY <3>5
    <3>8. q[m + 1] = y + z + s[m + 1] /\ p[m + 1] = y + s[m + 1] /\ d * Limit(k + 1) = z
      BY <3>2, <3>3, <3>4, <3>6, <3>7
    <3>9. q[m + 1] = p[m + 1] + d * Limit(k + 1)
      BY <3>2, <3>8
    <3> QED
      BY <3>1, <3>9
  <2> HIDE DEF U
  <2> QED
    BY <2>1, <2>2, ReachesAll
<1>14. q[n] = p[n] + d * Limit(v)
  BY <1>1, <1>13
<1> QED
  BY <1>4, <1>5, <1>11, <1>14

\* Of two rows of the same length, that is less which has the lower byte first.
LEMMA LowerByteFirst ==
  ASSUME NEW s \in Seq(Byte), NEW t \in Seq(Byte), Len(t) = Len(s), NEW j \in 1 .. Len(s),
         \A k \in 1 .. Len(s) : k < j => s[k] = t[k], s[j] < t[j]
  PROVE  Ntohl(s) < Ntohl(t)
<1>1. PICK n \in Nat : n = Len(s)
  BY LenProperties
<1>2. PICK p : Numbers(p, s)
  BY NumbersExist
<1>3. PICK q : Numbers(q, t)
  BY NumbersExist
<1>4. \A k \in Nat : 0 .. Limit(k) - 1 \subseteq Nat
  BY LimitType
<1>5. /\ p[0] = 0 /\ \A k \in Nat : k < n => p[k + 1] = p[k] * Base + s[k + 1]
      /\ \A k \in Nat : k <= n => p[k] \in Nat
      /\ p[n] = Ntohl(s)
  BY <1>1, <1>2, <1>4 DEF Numbers
<1>6. /\ q[0] = 0 /\ \A k \in Nat : k < n => q[k + 1] = q[k] * Base + t[k + 1]
      /\ \A k \in Nat : k <= n => q[k] \in Nat
      /\ q[n] = Ntohl(t)
  BY <1>1, <1>3, <1>4 DEF Numbers
<1>7. \A k \in Nat : k < n => s[k + 1] \in 0 .. Base - 1 /\ t[k + 1] \in 0 .. Base - 1
  <2>1. \A k \in Nat : k < n => k + 1 \in 1 .. n
    OBVIOUS
  <2> QED
    BY <1>1, <2>1, BytesAre
<1>8. PICK b \in Nat : b = Base
  BY ByteType
<1> DEFINE T == {k \in Nat : IF k < j THEN p[k] = q[k] ELSE p[k] + 1 <= q[k]}
<1>9. \A k \in Nat : k <= n => k \in T
  <2>1. 0 \in T
    BY <1>5, <1>6
  <2>2. ASSUME NEW k \in Nat, k < n, k \in T
        PROVE  k + 1 \in T
    <3>1. PICK x \in 0 .. b - 1, y \in 0 .. b - 1 : x = s[k + 1] /\ y = t[k + 1]
      BY <1>7, <1>8, <2>2
    <3>2. PICK u \in Nat, w \in Nat : u = p[k] /\ w = q[k]
      BY <1>5, <1>6, <2>2
    <3>3. p[k + 1] = u * b + x /\ q[k + 1] = w * b + y
      BY <1>5, <1>6, <1>8, <2>2, <3>1, <3>2
    <3>4. u * b \in Nat /\ w * b \in Nat
      OBVIOUS
    <3>5. CASE k + 1 < j
      <4>1. k + 1 \in 1 .. Len(s) /\ k < j
        BY <1>1, <2>2, <3>5
      <4>2. x = y /\ u = w
        BY <2>2, <3>1, <3>2, <3>5, <4>1
      <4> QED
        BY <3>3, <3>5, <4>2
    <3>6. CASE k + 1 = j
      <4>1. x < y /\ u = w
        BY <2>2, <3>1, <3>2, <3>6
      <4>2. p[k + 1] + 1 <= q[k + 1]
        BY <3>3, <3>4, <4>1
      <4> QED
        BY <3>6, <4>2
    <3>7. CASE j < k + 1 /\ k + 1 # j
      <4>1. u + 1 <= w
        BY <2>2, <3>2, <3>7
      <4>2. PICK e \in Nat : w = u + 1 + e
        <5>1. w - u - 1 \in Nat /\ w = u + 1 + (w - u - 1)
          BY <4>1
        <5> QED
          BY <5>1
      <4>3. w * b = u * b + b + e * b /\ e * b \in Nat
        BY <4>2
      <4>4. p[k + 1] + 1 <= q[k + 1]
        BY <3>3, <3>4, <4>3
      <4> QED
        BY <3>7, <4>4
    <3> QED
      BY <3>5, <3>6, <3>7
  <2> HIDE DEF T
  <2> QED
    BY <2>1, <2>2, ReachesAll
<1>10. p[n] + 1 <= q[n] /\ p[n] \in Nat /\ q[n] \in Nat
  <2>1. ~ (n < j) /\ n \in T
    BY <1>1, <1>9
  <2> QED
    BY <1>5, <1>6, <2>1
<1> QED
  BY <1>5, <1>6, <1>10

\* The first bytes make the number without the rest.
LEMMA FirstBytes ==
  ASSUME NEW s \in Seq(Byte), NEW p, Numbers(p, s), NEW k \in Nat, NEW v \in Nat,
         Len(s) = k + v
  PROVE  Ntohl(s) \div Limit(v) = p[k]
<1>1. PICK n \in Nat : n = Len(s) /\ n = k + v
  BY LenProperties
<1>2. /\ \A m \in Nat : m < n => p[m + 1] = p[m] * Base + s[m + 1]
      /\ \A m \in Nat : m <= n => p[m] \in Nat
      /\ p[n] = Ntohl(s)
  <2>1. \A m \in Nat : 0 .. Limit(m) - 1 \subseteq Nat
    BY LimitType
  <2> QED
    BY <1>1, <2>1 DEF Numbers
<1>3. \A m \in Nat : m < n => s[m + 1] \in 0 .. Base - 1
  <2>1. \A m \in Nat : m < n => m + 1 \in 1 .. n
    OBVIOUS
  <2> QED
    BY <1>1, <2>1, BytesAre
<1>4. PICK b \in Nat, a \in Nat : b = Base /\ a = p[k]
  <2>1. p[k] \in Nat /\ Base \in Nat
    BY <1>1, <1>2, ByteType
  <2> QED
    BY <2>1
<1> DEFINE T == {m \in Nat : \E r \in 0 .. Limit(m) - 1 : p[k + m] = a * Limit(m) + r}
<1>5. \A m \in Nat : m <= v => m \in T
  <2>1. 0 \in T
    <3>1. Limit(0) = 1 /\ 0 \in 0 .. 1 - 1 /\ k + 0 = k /\ a * 1 + 0 = a
      BY LimitValues
    <3> QED
      BY <1>4, <3>1
  <2>2. ASSUME NEW m \in Nat, m < v, m \in T
        PROVE  m + 1 \in T
    <3>1. PICK d \in Nat : d = Limit(m) /\ Limit(m + 1) = d * b
      BY <1>4, LimitType, LimitStep
    <3>2. PICK r \in 0 .. d - 1 : p[k + m] = a * d + r
      BY <2>2, <3>1
    <3>3. PICK i \in Nat : i = k + m /\ i < n /\ i + 1 = k + (m + 1)
      BY <1>1, <2>2
    <3>4. PICK y \in 0 .. b - 1 : y = s[i + 1]
      BY <1>3, <1>4, <3>3
    <3>5. p[k + (m + 1)] = (a * d + r) * b + y
      BY <1>2, <1>4, <3>2, <3>3, <3>4
    <3>6. (a * d + r) * b + y = a * (d * b) + (r * b + y)
      OBVIOUS
    <3>7. r * b + y \in 0 .. d * b - 1
      BY DigitAfter
    <3>8. \E z \in 0 .. Limit(m + 1) - 1 : p[k + (m + 1)] = a * Limit(m + 1) + z
      BY <3>1, <3>5, <3>6, <3>7
    <3> QED
      BY <3>8
  <2> HIDE DEF T
  <2> QED
    BY <2>1, <2>2, ReachesAll
<1>6. PICK d \in Nat \ {0} : d = Limit(v)
  BY LimitType
<1>7. PICK r \in 0 .. d - 1 : Ntohl(s) = d * a + r
  <2>1. v \in T
    BY <1>5
  <2>2. PICK r \in 0 .. d - 1 : Ntohl(s) = a * d + r
    BY <1>1, <1>2, <1>6, <2>1
  <2>3. a * d = d * a
    OBVIOUS
  <2> QED
    BY <2>2, <2>3
<1>8. PICK z \in Nat : z = Ntohl(s)
  BY NtohlType
<1>9. PICK q \in Int, w \in 0 .. d - 1 : q = z \div d /\ z = d * q + w
  BY DivisionIs
<1>10. q = a
  BY <1>7, <1>8, <1>9, DivisionUnique
<1> QED
  BY <1>4, <1>6, <1>8, <1>9, <1>10

\* The least element of a set of positions.
LEMMA MinIs ==
  ASSUME NEW S \in SUBSET Nat, S # {}
  PROVE  Min(S) \in S /\ \A x \in S : Min(S) <= x
<1>1. \E x \in S : \A y \in S : x <= y
  BY LeastNumber
<1> QED
  BY <1>1 DEF Min

\* id_cmp tells which number is less, bin_cmp whether they differ.
Compared(s, t) ==
  /\ id_cmp(s, t) > 0 <=> Ntohl(s) > Ntohl(t)
  /\ id_cmp(s, t) < 0 <=> Ntohl(s) < Ntohl(t)
  /\ bin_cmp(s, t) = 0 <=> Ntohl(s) = Ntohl(t)

\* id_cmp orders rows of one length like their numbers.
LEMMA IdsAreCompared ==
  ASSUME NEW s \in Seq(Byte), NEW t \in Seq(Byte), Len(t) = Len(s)
  PROVE  Compared(s, t)
<1> DEFINE diff == [i \in DOMAIN s |-> s[i] - t[i]]
           I == {i \in 1 .. Len(diff) : diff[i] # 0}
<1>1. PICK n \in Nat : n = Len(s) /\ n = Len(t) /\ DOMAIN s = 1 .. n
  BY LenProperties
<1>2. Len(diff) = n /\ \A i \in 1 .. n : diff[i] = s[i] - t[i]
  BY <1>1
<1>3. id_cmp(s, t) = IF (IF I # {} THEN Min(I) ELSE 0) = 0 THEN 0
                     ELSE s[IF I # {} THEN Min(I) ELSE 0] - t[IF I # {} THEN Min(I) ELSE 0]
  BY Zenon DEF id_cmp, SelectInSeq
<1>4. bin_cmp(s, t)
        = IF (IF I # {} THEN Min(I) ELSE 0) = 0 THEN 0
          ELSE Char(s[IF I # {} THEN Min(I) ELSE 0]) - Char(t[IF I # {} THEN Min(I) ELSE 0])
  BY Zenon DEF bin_cmp, SelectInSeq
<1>5. I = {i \in 1 .. n : s[i] - t[i] # 0}
  <2> HIDE DEF diff
  <2> QED
    BY <1>2
<1> HIDE DEF I
<1>6. \A i \in 1 .. n : s[i] \in Nat /\ t[i] \in Nat
  BY <1>1, ByteType
<1>7. PICK x \in Nat, y \in Nat : x = Ntohl(s) /\ y = Ntohl(t)
  BY NtohlType
<1>8. CASE I = {}
  <2>1. \A i \in 1 .. n : s[i] = t[i]
    BY <1>5, <1>6, <1>8
  <2>2. s = t
    BY <1>1, <2>1, SeqEqual
  <2>3. id_cmp(s, t) = 0 /\ bin_cmp(s, t) = 0
    BY <1>3, <1>4, <1>8
  <2> QED
    BY <1>7, <2>2, <2>3 DEF Compared
<1>9. CASE I # {}
  <2>1. PICK j \in 1 .. n : j = Min(I) /\ j \in I /\ \A i \in I : j <= i
    <3>1. I \in SUBSET Nat /\ I \subseteq 1 .. n
      BY <1>5
    <3> QED
      BY <1>9, <3>1, MinIs
  <2>2. id_cmp(s, t) = s[j] - t[j] /\ bin_cmp(s, t) = Char(s[j]) - Char(t[j])
    <3>1. Min(I) # 0
      BY <2>1
    <3> QED
      BY <1>3, <1>4, <1>9, <2>1, <3>1
  <2>3. PICK u \in Nat, v \in Nat : u = s[j] /\ v = t[j] /\ u # v
    <3>1. s[j] - t[j] # 0
      BY <1>5, <2>1
    <3>2. s[j] \in Nat /\ t[j] \in Nat
      BY <1>6
    <3> QED
      BY <3>1, <3>2
  <2>4. ASSUME NEW i \in 1 .. n, i < j
        PROVE  s[i] = t[i]
    <3>1. i \notin I
      BY <2>1, <2>4
    <3> QED
      BY <1>5, <1>6, <3>1
  <2>5. bin_cmp(s, t) # 0
    <3>1. PICK b \in Nat \ {0} : b = Base
      BY ByteType
    <3>2. u < b /\ v < b
      BY <1>1, <2>3, <3>1, BytesAre
    <3>3. (Char(u) = u \/ Char(u) = u - b) /\ (Char(v) = v \/ Char(v) = v - b)
      BY <3>1 DEF Char
    <3>4. PICK k \in Int, l \in Int : k = Char(u) /\ l = Char(v)
      <4>1. u - b \in Int /\ v - b \in Int /\ u \in Int /\ v \in Int
        OBVIOUS
      <4> QED
        BY <3>3, <4>1
    <3>5. (k = u \/ k = u - b) /\ (l = v \/ l = v - b)
      BY <3>3, <3>4
    <3>6. u # v
      BY <2>3
    <3>7. k - l # 0
      BY <3>2, <3>5, <3>6
    <3>8. bin_cmp(s, t) = Char(u) - Char(v)
      BY <2>2, <2>3
    <3> QED
      BY <3>4, <3>7, <3>8
  <2>6. CASE u < v
    <3>1. Ntohl(s) < Ntohl(t)
      BY <1>1, <2>3, <2>4, <2>6, LowerByteFirst
    <3> QED
      BY <1>7, <2>2, <2>3, <2>5, <2>6, <3>1 DEF Compared
  <2>7. CASE v < u
    <3>1. Ntohl(t) < Ntohl(s)
      BY <1>1, <2>3, <2>4, <2>7, LowerByteFirst
    <3> QED
      BY <1>7, <2>2, <2>3, <2>5, <2>7, <3>1 DEF Compared
  <2> QED
    BY <2>3, <2>6, <2>7
<1> QED
  BY <1>8, <1>9

\* What is carried out of a byte is worth as much as what did not fit it.
CarriedOver(b, c, byte, unit, v) ==
  /\ Carry([buf |-> b, carry |-> TRUE], byte, unit) = c
  /\ c = [buf |-> c.buf, carry |-> c.carry]
  /\ c.buf \in Seq(Byte) /\ Len(c.buf) = Len(b) /\ c.carry \in BOOLEAN
  /\ Ntohl(c.buf) + (IF c.carry THEN Limit(v + 1) ELSE 0) = Ntohl(b) + unit * Limit(v)

\* One round keeps the number, when what is carried out weighs one byte more.
LEMMA CarryIs ==
  ASSUME NEW b \in Seq(Byte), NEW byte \in Nat \ {0}, NEW v \in Nat, Len(b) = byte + v,
         NEW unit \in 1 .. Base
  PROVE  \E c : CarriedOver(b, c, byte, unit, v)
<1>1. PICK n \in Nat : n = Len(b) /\ n = byte + v /\ byte \in 1 .. n
  BY LenProperties
<1>2. PICK d \in Nat \ {0} : d = Base
  BY ByteType
<1>3. PICK x \in 0 .. d - 1 : x = b[byte]
  BY <1>1, <1>2, BytesAre
<1>4. PICK r \in 0 .. d - 1, o \in 0 .. 1 :
        r = (x + unit) % d /\ x + unit = d * o + r /\ (o = 1 <=> x + unit >= d)
  <2>1. unit \in 1 .. d
    BY <1>2
  <2>2. CASE x + unit >= d
    <3>1. x + unit - d \in 0 .. d - 1
      BY <2>1, <2>2
    <3>2. (x + unit) % d = x + unit - d
      BY <2>1, <3>1, SMTT(30)
    <3> QED
      BY <2>1, <2>2, <3>1, <3>2
  <2>3. CASE x + unit < d
    <3>1. (x + unit) % d = x + unit
      BY <2>1, <2>3, SMTT(30)
    <3> QED
      BY <2>1, <2>3, <3>1
  <2> QED
    BY <2>1, <2>2, <2>3
<1> DEFINE t == [b EXCEPT ![byte] = r]
           c == [buf |-> t, carry |-> x + unit >= d]
<1>5. Carry([buf |-> b, carry |-> TRUE], byte, unit) = c
  BY <1>2, <1>3, <1>4 DEF Carry
<1>6. r \in Byte
  BY <1>2, <1>4, Zenon DEF Byte
<1>7. t \in Seq(Byte) /\ Len(t) = n /\ \A k \in 1 .. n : t[k] = IF k = byte THEN r ELSE b[k]
  BY <1>1, <1>6
<1> HIDE DEF t
<1>8. Ntohl(t) = Ntohl(b) + (r - x) * Limit(v)
  <2>1. OtherByte(t, b, byte, r)
    BY <1>1, <1>7 DEF OtherByte
  <2>2. Ntohl(t) = Ntohl(b) + (r - b[byte]) * Limit(v)
    BY <1>6, <1>7, <2>1, NumberExcept
  <2> QED
    BY <1>3, <2>2
<1>9. PICK l \in Nat : l = Limit(v) /\ Limit(v + 1) = l * d
  BY <1>2, LimitType, LimitStep
<1>10. PICK y \in Nat : y = Ntohl(b)
  BY NtohlType
<1>11. Ntohl(t) = y + (r - x) * l
  BY <1>8, <1>9, <1>10
<1>12. Ntohl(t) + (IF x + unit >= d THEN l * d ELSE 0) = y + unit * l
  <2>1. CASE o = 1
    <3>1. r - x = unit - d /\ x + unit >= d
      BY <1>4, <2>1
    <3>2. Ntohl(t) = y + (unit - d) * l
      BY <1>11, <3>1
    <3>3. PICK i \in Int, k \in Int, e \in Int :
            i = unit * l /\ k = l * d /\ e = (unit - d) * l /\ e = i - k
      OBVIOUS
    <3>4. Ntohl(t) = y + e
      BY <3>2, <3>3
    <3> QED
      BY <3>1, <3>3, <3>4
  <2>2. CASE o = 0
    <3>1. r - x = unit /\ ~ (x + unit >= d)
      BY <1>4, <2>2
    <3>2. unit * l \in Int
      OBVIOUS
    <3> QED
      BY <1>11, <3>1, <3>2
  <2> QED
    BY <1>4, <2>1, <2>2
<1>13. c.buf = t /\ c.carry = (x + unit >= d) /\ c.carry \in BOOLEAN /\ c = [buf |-> c.buf, carry |-> c.carry]
  OBVIOUS
<1>14. Ntohl(c.buf) + (IF c.carry THEN Limit(v + 1) ELSE 0) = Ntohl(b) + unit * Limit(v)
  BY <1>9, <1>10, <1>12, <1>13
<1> HIDE DEF c
<1>15. CarriedOver(b, c, byte, unit, v)
  BY <1>1, <1>5, <1>7, <1>13, <1>14, Zenon DEF CarriedOver
<1> QED
  BY <1>15

\* The fold of bin_inc.
CarryFold(g, buf, depth, seq) ==
  g = [S \in SUBSET DOMAIN seq |->
         IF S = {} THEN [buf |-> buf, carry |-> TRUE]
         ELSE LET x == Max(S)
              IN  Carry(g[S \ {x}], seq[x],
                        IF seq[x] = (depth \div ByteBits) + 1
                        THEN 2 ^ (ByteBits - 1 - (depth % ByteBits)) ELSE 1)]

\* The rounds of bin_inc.
Rounds(g, buf, bytes, unit) ==
  /\ g[0] = [buf |-> buf, carry |-> TRUE]
  /\ \A m \in 1 .. bytes : g[m] = Carry(g[m - 1], bytes - m + 1, IF m = 1 THEN unit ELSE 1)

HasRounds(buf, depth, bytes, unit) ==
  \E g : Rounds(g, buf, bytes, unit) /\ bin_inc(buf, depth) = g[bytes].buf

\* The rounds are the steps of the fold.
LEMMA RoundsExist ==
  ASSUME NEW buf, NEW depth \in Nat, NEW bytes \in Nat, bytes = (depth \div ByteBits) + 1,
         NEW unit, unit = 2 ^ (ByteBits - 1 - (depth % ByteBits))
  PROVE  HasRounds(buf, depth, bytes, unit)
<1> DEFINE seq == [k \in 1 .. bytes |-> bytes - k + 1]
           base == [buf |-> buf, carry |-> TRUE]
           rows == [k \in 1 .. bytes |->
                      [byte |-> bytes - k + 1, unit |-> IF bytes - k + 1 = bytes THEN unit ELSE 1]]
           h == CHOOSE g : CarryFold(g, buf, depth, seq)
<1>1. \A g : CarryFold(g, buf, depth, seq) <=> FoldIs(g, "carry", base, rows, bytes)
  <2> TAKE g
  <2>1. DOMAIN seq = 1 .. bytes /\ \A k \in 1 .. bytes : seq[k] = bytes - k + 1
    OBVIOUS
  <2>2. \A S \in SUBSET (1 .. bytes) : S # {} => Max(S) \in 1 .. bytes
    BY MaxIs
  <2>3. \A k \in 1 .. bytes : rows[k].byte = seq[k]
          /\ rows[k].unit = IF seq[k] = (depth \div ByteBits) + 1
                            THEN 2 ^ (ByteBits - 1 - (depth % ByteBits)) ELSE 1
    BY <2>1
  <2> HIDE DEF seq, base, rows
  <2>4. ASSUME NEW S \in SUBSET (1 .. bytes), S # {}
        PROVE  Carry(g[S \ {Max(S)}], seq[Max(S)],
                     IF seq[Max(S)] = (depth \div ByteBits) + 1
                     THEN 2 ^ (ByteBits - 1 - (depth % ByteBits)) ELSE 1)
               = FoldStep("carry", g[S \ {Max(S)}], rows[Max(S)])
    BY <2>2, <2>3, <2>4 DEF FoldStep
  <2>5. [S \in SUBSET (1 .. bytes) |->
           IF S = {} THEN base
           ELSE Carry(g[S \ {Max(S)}], seq[Max(S)],
                     IF seq[Max(S)] = (depth \div ByteBits) + 1
                     THEN 2 ^ (ByteBits - 1 - (depth % ByteBits)) ELSE 1)]
        = [S \in SUBSET (1 .. bytes) |->
             IF S = {} THEN base ELSE FoldStep("carry", g[S \ {Max(S)}], rows[Max(S)])]
    BY <2>4
  <2> QED
    BY <2>1, <2>5 DEF CarryFold, FoldIs, base
<1>2. CarryFold(h, buf, depth, seq)
  <2>1. \E f : FoldIs(f, "carry", base, rows, bytes)
    BY FoldExists
  <2> HIDE DEF seq, base, rows
  <2> QED
    BY <1>1, <2>1
<1>3. bin_inc(buf, depth) = h[DOMAIN seq].buf
  BY DEF bin_inc, FoldLeft, MapThenFoldSet, CarryFold
<1>4. DOMAIN seq = 1 .. bytes
  OBVIOUS
<1>5. FoldIs(h, "carry", base, rows, bytes)
  <2> HIDE DEF h, seq, base, rows
  <2> QED
    BY <1>1, <1>2
<1> HIDE DEF h
<1>6. /\ h[1 .. 0] = base
      /\ \A m \in 1 .. bytes : h[1 .. m] = FoldStep("carry", h[1 .. m - 1], rows[m])
  <2> HIDE DEF base, rows
  <2> QED
    BY <1>5, FoldOfFirst
<1> DEFINE g == [m \in 0 .. bytes |-> h[1 .. m]]
<1>7. ASSUME NEW m \in 1 .. bytes
      PROVE  g[m] = Carry(g[m - 1], bytes - m + 1, IF m = 1 THEN unit ELSE 1)
  <2>1. m \in 0 .. bytes /\ m - 1 \in 0 .. bytes /\ (bytes - m + 1 = bytes <=> m = 1)
    OBVIOUS
  <2>2. rows[m].byte = bytes - m + 1 /\ rows[m].unit = IF m = 1 THEN unit ELSE 1
    BY <2>1
  <2>3. h[1 .. m] = FoldStep("carry", h[1 .. m - 1], rows[m])
    BY <1>6
  <2> HIDE DEF rows
  <2>4. h[1 .. m] = Carry(h[1 .. m - 1], rows[m].byte, rows[m].unit)
    BY <2>3 DEF FoldStep
  <2> QED
    BY <2>1, <2>2, <2>4
<1>8. g[0] = base /\ g[bytes] = h[1 .. bytes]
  BY <1>6
<1> HIDE DEF g, seq
<1>9. Rounds(g, buf, bytes, unit)
  BY <1>7, <1>8 DEF Rounds
<1> QED
  BY <1>3, <1>4, <1>8, <1>9 DEF HasRounds

\* A bit of a row: its byte, the bytes before and behind, the bits behind it in the byte.
BitAt(l, depth, before, v, bits, unit) ==
  /\ depth \div ByteBits = before /\ l = before + 1 + v
  /\ bits = ByteBits - 1 - (depth % ByteBits) /\ bits < ByteBits
  /\ unit = 2 ^ bits /\ unit \in 1 .. Base
  /\ 2 ^ (ByteBits * l - 1 - depth) = unit * Limit(v)
  /\ unit * 2 ^ (ByteBits - bits) = Base

LEMMA BitIsAt ==
  ASSUME NEW l \in Nat, NEW depth \in 0 .. ByteBits * l - 1
  PROVE  \E before \in Nat, v \in Nat, bits \in Nat, unit \in Nat :
           BitAt(l, depth, before, v, bits, unit)
<1>1. PICK w \in Nat \ {0} : w = ByteBits
  BY BytesAssumption
<1>2. w * l \in Nat /\ depth \in Nat /\ depth < w * l
  BY <1>1
<1>3. PICK q \in Int, r \in 0 .. w - 1 : q = depth \div w /\ r = depth % w /\ depth = w * q + r
  <2>1. depth \in Int
    BY <1>2
  <2>2. /\ depth \div w \in Int /\ depth % w \in 0 .. w - 1
        /\ depth = w * (depth \div w) + (depth % w)
    BY <2>1, DivisionIs
  <2> QED
    BY <2>2
<1>4. q \in Nat /\ q < l
  <2>1. ~ (q + 1 <= 0)
    <3>1. \A x \in Int : x + 1 <= 0 => w * x <= -w
      OBVIOUS
    <3> QED
      BY <1>2, <1>3, <3>1
  <2>2. ~ (l <= q)
    <3>1. \A x \in Int : l <= x => w * l <= w * x
      OBVIOUS
    <3>2. w * q \in Int
      OBVIOUS
    <3> QED
      BY <1>2, <1>3, <3>1, <3>2
  <2> QED
    BY <2>1, <2>2
<1>5. PICK v \in Nat : l = q + 1 + v
  <2>1. l - q - 1 \in Nat /\ l = q + 1 + (l - q - 1)
    BY <1>4
  <2> QED
    BY <2>1
<1>6. PICK bits \in Nat, c \in Nat : bits = w - 1 - r /\ bits < w /\ c = w - bits /\ bits + c = w
  <2>1. w - 1 - r \in Nat /\ w - (w - 1 - r) \in Nat
    OBVIOUS
  <2> QED
    BY <2>1
<1>7. PICK unit \in Nat \ {0}, d \in Nat \ {0} : unit = 2 ^ bits /\ d = 2 ^ c
  BY PowerOfTwo
<1>8. unit * d = Base
  <2>1. 2 ^ (bits + c) = 2 ^ bits * 2 ^ c
    BY PowerOfSum
  <2> QED
    BY <1>1, <1>6, <1>7, <2>1 DEF Base
<1>9. unit \in 1 .. Base
  <2>1. \A x, y \in Nat \ {0} : x <= x * y
    OBVIOUS
  <2> QED
    BY <1>7, <1>8, <2>1, ByteType
<1>10. w * l - 1 - depth = bits + w * v
  <2>1. w * (q + 1 + v) = w * q + w + w * v
    OBVIOUS
  <2>2. PICK a \in Int, b \in Int : a = w * q /\ b = w * v
    OBVIOUS
  <2>3. w * l = a + w + b
    BY <1>5, <2>1, <2>2
  <2>4. depth = a + r
    BY <1>3, <2>2
  <2>5. a + w + b - 1 - (a + r) = bits + b
    BY <1>6
  <2> QED
    BY <2>2, <2>3, <2>4, <2>5
<1>11. 2 ^ (ByteBits * l - 1 - depth) = unit * Limit(v)
  <2>1. PICK a \in Nat : a = w * v
    OBVIOUS
  <2>2. 2 ^ (bits + a) = 2 ^ bits * 2 ^ a
    BY PowerOfSum
  <2> QED
    BY <1>1, <1>7, <1>10, <2>1, <2>2 DEF Limit
<1> QED
  BY <1>1, <1>3, <1>4, <1>5, <1>6, <1>7, <1>8, <1>9, <1>11 DEF BitAt

\* What is a number but for a whole overflow is its remainder.
LEMMA Wraps ==
  ASSUME NEW d \in Nat \ {0}, NEW x \in 0 .. d - 1, NEW y \in Nat, y = x \/ y = x + d
  PROVE  x = y % d
<1>1. PICK q \in Int, r \in 0 .. d - 1 : r = y % d /\ y = d * q + r
  <2>1. y \in Int
    OBVIOUS
  <2>2. y \div d \in Int /\ y % d \in 0 .. d - 1 /\ y = d * (y \div d) + (y % d)
    BY <2>1, DivisionIs
  <2> QED
    BY <2>2
<1>2. PICK o \in 0 .. 1 : y = d * o + x
  <2>1. y = d * 0 + x \/ y = d * 1 + x
    OBVIOUS
  <2> QED
    BY <2>1
<1> QED
  BY <1>1, <1>2, DivisionUnique

\* bin_inc adds the value of the bit to the number of the row, modulo its size.
Increased(buf, next, x) ==
  next \in Seq(Byte) /\ Len(next) = Len(buf) /\ Ntohl(next) = (Ntohl(buf) + x) % Limit(Len(buf))

LEMMA IncAdds ==
  ASSUME NEW buf \in Seq(Byte), NEW depth \in Nat, NEW before \in Nat, NEW v \in Nat,
         NEW bits, NEW unit \in Nat, BitAt(Len(buf), depth, before, v, bits, unit)
  PROVE  Increased(buf, bin_inc(buf, depth), unit * Limit(v))
<1>1. PICK l \in Nat, bytes \in Nat \ {0} :
        l = Len(buf) /\ bytes = before + 1 /\ l = bytes + v /\ bytes = (depth \div ByteBits) + 1
  BY LenProperties DEF BitAt
<1>2. unit \in 1 .. Base /\ unit = 2 ^ (ByteBits - 1 - (depth % ByteBits))
  BY DEF BitAt
<1>3. PICK g : Rounds(g, buf, bytes, unit) /\ bin_inc(buf, depth) = g[bytes].buf
  <2>1. bytes \in Nat
    OBVIOUS
  <2>2. HasRounds(buf, depth, bytes, unit)
    BY <1>1, <1>2, <2>1, RoundsExist, Zenon
  <2> QED
    BY <2>2, Zenon DEF HasRounds
<1>4. PICK x \in Nat : x = unit * Limit(v)
  <2>1. Limit(v) \in Nat
    BY LimitType
  <2>2. unit * Limit(v) \in Nat
    BY <2>1
  <2> QED
    BY <2>2
<1>5. PICK y \in Nat : y = Ntohl(buf)
  BY NtohlType
<1> DEFINE weight(m) == IF m = 0 THEN x ELSE Limit(v + m)
           State(m, b, c) == /\ g[m] = [buf |-> b, carry |-> c] /\ Len(b) = l
                             /\ Ntohl(b) + (IF c THEN weight(m) ELSE 0) = y + x
           T == {m \in Nat : \E b \in Seq(Byte), c \in BOOLEAN : State(m, b, c)}
<1>6. \A m \in Nat : m <= bytes => m \in T
  <2>1. 0 \in T
    <3>1. State(0, buf, TRUE)
      BY <1>1, <1>3, <1>5 DEF Rounds
    <3> QED
      BY <3>1
  <2>2. ASSUME NEW m \in Nat, m < bytes, m \in T
        PROVE  m + 1 \in T
    <3>1. PICK b \in Seq(Byte), c \in BOOLEAN : State(m, b, c)
      BY <2>2
    <3>2. PICK k \in Nat, byte \in Nat \ {0}, u \in Nat :
            /\ k = m + 1 /\ k \in 1 .. bytes /\ k - 1 = m
            /\ byte = bytes - k + 1 /\ u = v + m /\ l = byte + u /\ u + 1 = v + k
      <4>1. /\ m + 1 \in 1 .. bytes /\ (m + 1) - 1 = m /\ bytes - (m + 1) + 1 \in Nat \ {0}
            /\ v + m \in Nat /\ l = (bytes - (m + 1) + 1) + (v + m) /\ (v + m) + 1 = v + (m + 1)
        BY <1>1, <2>2
      <4> QED
        BY <4>1
    <3>3. PICK unit1 \in 1 .. Base : unit1 = IF k = 1 THEN unit ELSE 1
      <4>1. 1 \in 1 .. Base
        BY ByteType
      <4> QED
        BY <1>2, <4>1
    <3>4. g[k] = Carry(g[m], byte, unit1)
      BY <1>3, <3>2, <3>3 DEF Rounds
    <3>5. weight(m) = unit1 * Limit(u)
      <4>1. Limit(u) \in Nat
        BY LimitType
      <4>2. CASE m = 0
        BY <1>4, <3>2, <3>3, <4>2
      <4>3. CASE m # 0
        <5>1. unit1 = 1 /\ 1 * Limit(u) = Limit(u)
          BY <3>2, <3>3, <4>1, <4>3
        <5> QED
          BY <3>2, <4>3, <5>1
      <4> QED
        BY <4>2, <4>3
    <3>6. weight(k) = Limit(u + 1)
      BY <3>2
    <3> HIDE DEF weight
    <3>7. CASE c = TRUE
      <4>1. PICK e : CarriedOver(b, e, byte, unit1, u)
        BY <1>1, <3>1, <3>2, CarryIs
      <4>2. g[k] = e
        BY <3>1, <3>4, <3>7, <4>1 DEF CarriedOver
      <4>3. e.buf \in Seq(Byte) /\ e.carry \in BOOLEAN /\ Len(e.buf) = l
        BY <3>1, <4>1 DEF CarriedOver
      <4>4. Ntohl(e.buf) + (IF e.carry THEN weight(k) ELSE 0) = Ntohl(b) + weight(m)
        BY <3>5, <3>6, <4>1 DEF CarriedOver
      <4>5. Ntohl(b) + weight(m) = y + x
        BY <3>1, <3>7
      <4>6. State(k, e.buf, e.carry)
        BY <4>1, <4>2, <4>3, <4>4, <4>5 DEF CarriedOver
      <4> QED
        BY <3>2, <4>3, <4>6
    <3>8. CASE c = FALSE
      <4>1. g[k] = g[m]
        <5>1. ~ g[m].carry
          BY <3>1, <3>8
        <5> QED
          BY <3>4, <5>1 DEF Carry
      <4>2. State(k, b, FALSE)
        BY <3>1, <3>8, <4>1
      <4> QED
        BY <3>2, <4>2
    <3> QED
      BY <3>7, <3>8
  <2> HIDE DEF T
  <2> QED
    BY <2>1, <2>2, ReachesAll
<1>7. PICK b \in Seq(Byte), c \in BOOLEAN : State(bytes, b, c)
  <2>1. bytes \in T
    <3> HIDE DEF T
    <3> QED
      BY <1>6
  <2> QED
    BY <2>1
<1>8. PICK d \in Nat \ {0} : d = Limit(l) /\ weight(bytes) = d
  <2>1. weight(bytes) = Limit(l)
    <3>1. bytes # 0 /\ v + bytes = l
      BY <1>1
    <3> QED
      BY <3>1
  <2> QED
    BY <2>1, LimitType
<1>9. PICK z \in 0 .. d - 1 : z = Ntohl(b)
  <2>1. PICK p : Numbers(p, b)
    BY NumbersExist
  <2>2. p[l] \in 0 .. Limit(l) - 1 /\ p[l] = Ntohl(b)
    BY <1>7, <2>1 DEF Numbers
  <2> QED
    BY <1>8, <2>2
<1>10. z = (y + x) % d
  <2>1. z + (IF c THEN d ELSE 0) = y + x
    BY <1>7, <1>8, <1>9
  <2>2. PICK s \in Nat : s = y + x
    OBVIOUS
  <2>3. s = z \/ s = z + d
    BY <2>1, <2>2
  <2> QED
    BY <2>2, <2>3, Wraps
<1>11. bin_inc(buf, depth) = b /\ Len(b) = l
  BY <1>3, <1>7
<1> QED
  BY <1>1, <1>4, <1>5, <1>8, <1>9, <1>10, <1>11 DEF Increased

\* bin2ull takes the gap it has found before a byte, and the bits of the byte.
Gap(depth, i) == IF depth - i < ByteBits THEN depth - i + 1 ELSE ByteBits

ShiftFold(g, buf, depth, seq) ==
  g = [S \in SUBSET DOMAIN seq |->
         IF S = {} THEN 0
         ELSE LET x == Max(S)
              IN  (g[S \ {x}] * 2 ^ Gap(depth, seq[x]))
                  + (buf[(seq[x] \div ByteBits) + 1] \div 2 ^ (ByteBits - Gap(depth, seq[x])))]

\* The rounds of bin2ull.
Shifts(g, buf, depth, bytes) ==
  /\ g[0] = 0
  /\ \A m \in 1 .. bytes :
       g[m] = (g[m - 1] * 2 ^ Gap(depth, ByteBits * (m - 1)))
              + (buf[((ByteBits * (m - 1)) \div ByteBits) + 1]
                  \div 2 ^ (ByteBits - Gap(depth, ByteBits * (m - 1))))

HasShifts(buf, depth, bytes) ==
  \E g : Shifts(g, buf, depth, bytes) /\ bin2ull(buf, depth) = g[bytes]

LEMMA ShiftsExist ==
  ASSUME NEW buf, NEW depth \in Nat, NEW bytes \in Nat, bytes = (depth + ByteBits - 1) \div ByteBits
  PROVE  HasShifts(buf, depth, bytes)
<1> DEFINE seq == [k \in 1 .. (depth + ByteBits - 1) \div ByteBits |-> ByteBits * (k - 1)]
           rows == [k \in 1 .. bytes |->
                      [gap |-> Gap(depth, ByteBits * (k - 1)),
                       n |-> buf[((ByteBits * (k - 1)) \div ByteBits) + 1]
                               \div 2 ^ (ByteBits - Gap(depth, ByteBits * (k - 1)))]]
           h == CHOOSE g : ShiftFold(g, buf, depth, seq)
<1>1. \A g : ShiftFold(g, buf, depth, seq) <=> FoldIs(g, "shift", 0, rows, bytes)
  <2> TAKE g
  <2>1. DOMAIN seq = 1 .. bytes /\ \A k \in 1 .. bytes : seq[k] = ByteBits * (k - 1)
    OBVIOUS
  <2>2. \A S \in SUBSET (1 .. bytes) : S # {} => Max(S) \in 1 .. bytes
    BY MaxIs
  <2>3. \A k \in 1 .. bytes :
          /\ rows[k].gap = Gap(depth, seq[k])
          /\ rows[k].n = buf[(seq[k] \div ByteBits) + 1] \div 2 ^ (ByteBits - Gap(depth, seq[k]))
    BY <2>1
  <2> HIDE DEF seq, rows
  <2>4. ASSUME NEW S \in SUBSET (1 .. bytes), S # {}
        PROVE  (g[S \ {Max(S)}] * 2 ^ Gap(depth, seq[Max(S)]))
                 + (buf[(seq[Max(S)] \div ByteBits) + 1]
                     \div 2 ^ (ByteBits - Gap(depth, seq[Max(S)])))
               = FoldStep("shift", g[S \ {Max(S)}], rows[Max(S)])
    BY <2>2, <2>3, <2>4 DEF FoldStep
  <2>5. [S \in SUBSET (1 .. bytes) |->
           IF S = {} THEN 0
           ELSE (g[S \ {Max(S)}] * 2 ^ Gap(depth, seq[Max(S)]))
                 + (buf[(seq[Max(S)] \div ByteBits) + 1]
                     \div 2 ^ (ByteBits - Gap(depth, seq[Max(S)])))]
        = [S \in SUBSET (1 .. bytes) |->
             IF S = {} THEN 0 ELSE FoldStep("shift", g[S \ {Max(S)}], rows[Max(S)])]
    BY <2>4
  <2> QED
    BY <2>1, <2>5 DEF ShiftFold, FoldIs
<1>2. ShiftFold(h, buf, depth, seq)
  <2>1. \E f : FoldIs(f, "shift", 0, rows, bytes)
    BY FoldExists
  <2> HIDE DEF seq, rows
  <2> QED
    BY <1>1, <2>1
<1>3. bin2ull(buf, depth) = h[DOMAIN seq]
  BY DEF bin2ull, FoldLeft, MapThenFoldSet, ShiftFold, Gap
<1>4. DOMAIN seq = 1 .. bytes
  OBVIOUS
<1>5. FoldIs(h, "shift", 0, rows, bytes)
  <2> HIDE DEF h, seq, rows
  <2> QED
    BY <1>1, <1>2
<1> HIDE DEF h
<1>6. /\ h[1 .. 0] = 0
      /\ \A m \in 1 .. bytes : h[1 .. m] = FoldStep("shift", h[1 .. m - 1], rows[m])
  <2> HIDE DEF rows
  <2> QED
    BY <1>5, FoldOfFirst
<1> DEFINE g == [m \in 0 .. bytes |-> h[1 .. m]]
<1>7. ASSUME NEW m \in 1 .. bytes
      PROVE  g[m] = (g[m - 1] * 2 ^ Gap(depth, ByteBits * (m - 1)))
              + (buf[((ByteBits * (m - 1)) \div ByteBits) + 1]
                  \div 2 ^ (ByteBits - Gap(depth, ByteBits * (m - 1))))
  <2>1. m \in 0 .. bytes /\ m - 1 \in 0 .. bytes
    OBVIOUS
  <2>2. /\ rows[m].gap = Gap(depth, ByteBits * (m - 1))
        /\ rows[m].n = buf[((ByteBits * (m - 1)) \div ByteBits) + 1]
                         \div 2 ^ (ByteBits - Gap(depth, ByteBits * (m - 1)))
    BY <2>1
  <2>3. h[1 .. m] = FoldStep("shift", h[1 .. m - 1], rows[m])
    BY <1>6
  <2> HIDE DEF rows
  <2>4. h[1 .. m] = (h[1 .. m - 1] * 2 ^ rows[m].gap) + rows[m].n
    BY <2>3 DEF FoldStep
  <2> QED
    BY <2>1, <2>2, <2>4
<1>8. g[0] = 0 /\ g[bytes] = h[1 .. bytes]
  BY <1>6
<1> HIDE DEF g, seq
<1>9. Shifts(g, buf, depth, bytes)
  BY <1>7, <1>8 DEF Shifts
<1> QED
  BY <1>3, <1>4, <1>8, <1>9 DEF HasShifts

\* Where a byte starts, and the gap bin2ull takes before it.
ByteAt(depth, before, bits, k) ==
  /\ (ByteBits * (k - 1)) \div ByteBits = k - 1
  /\ Gap(depth, ByteBits * (k - 1)) = IF k = before + 1 THEN ByteBits - bits ELSE ByteBits

\* bin2ull reads the bits before and at a bit that is not the first of its byte.
LEMMA BitsAreRead ==
  ASSUME NEW buf \in Seq(Byte), NEW depth \in Nat, NEW before \in Nat, NEW v \in Nat,
         NEW bits \in Nat, NEW unit \in Nat, BitAt(Len(buf), depth, before, v, bits, unit),
         depth % ByteBits # 0
  PROVE  bin2ull(buf, depth) = Ntohl(buf) \div (unit * Limit(v))
<1>1. PICK w \in Nat \ {0} : w = ByteBits
  BY BytesAssumption
<1>2. PICK l \in Nat, bytes \in Nat \ {0} :
        l = Len(buf) /\ bytes = before + 1 /\ l = bytes + v /\ before < l
  BY LenProperties DEF BitAt
<1>3. PICK r \in 1 .. w - 1 : depth = w * before + r /\ bits = w - 1 - r
  <2>1. depth \in Int
    OBVIOUS
  <2>2. depth % w \in 0 .. w - 1 /\ depth = w * (depth \div w) + (depth % w)
    BY <2>1, DivisionIs
  <2>3. depth \div w = before /\ bits = w - 1 - (depth % w) /\ depth % w # 0
    BY <1>1 DEF BitAt
  <2> QED
    BY <2>2, <2>3
<1>4. bytes = (depth + ByteBits - 1) \div ByteBits
  <2>1. PICK a \in Int : a = w * before
    OBVIOUS
  <2>2. w * bytes = a + w
    <3>1. w * (before + 1) = w * before + w
      OBVIOUS
    <3> QED
      BY <1>2, <2>1, <3>1
  <2>3. PICK s \in 0 .. w - 1 : s = r - 1
    BY <1>3
  <2>4. depth + w - 1 = w * bytes + s
    BY <1>3, <2>1, <2>2, <2>3
  <2>5. PICK e \in Int : e = depth + w - 1
    OBVIOUS
  <2>6. e \div w \in Int /\ e % w \in 0 .. w - 1 /\ e = w * (e \div w) + (e % w)
    BY DivisionIs
  <2>7. w * bytes + s = w * (e \div w) + (e % w) /\ bytes \in Int
    BY <2>4, <2>5, <2>6
  <2>8. bytes = e \div w
    BY <2>6, <2>7, DivisionUnique
  <2> QED
    BY <1>1, <2>5, <2>8
<1>5. PICK g : Shifts(g, buf, depth, bytes) /\ bin2ull(buf, depth) = g[bytes]
  <2>1. bytes \in Nat
    OBVIOUS
  <2>2. HasShifts(buf, depth, bytes)
    BY <1>4, <2>1, ShiftsExist, Zenon
  <2> QED
    BY <2>2, Zenon DEF HasShifts
<1>6. ASSUME NEW m \in Nat, m <= before
      PROVE  ByteAt(depth, before, bits, m + 1)
  <2>1. PICK c \in Nat : before = m + c
    <3>1. before - m \in Nat /\ before = m + (before - m)
      BY <1>6
    <3> QED
      BY <3>1
  <2>2. w * before = w * m + w * c
    <3>1. w * (m + c) = w * m + w * c
      OBVIOUS
    <3> QED
      BY <2>1, <3>1
  <2>3. PICK a \in Int, b \in Int : a = w * m /\ b = w * c
    OBVIOUS
  <2>4. depth - a = b + r
    BY <1>3, <2>2, <2>3
  <2>5. a \div w = m
    <3>1. a \div w \in Int /\ a % w \in 0 .. w - 1 /\ a = w * (a \div w) + (a % w)
      BY DivisionIs
    <3>2. w * m + 0 = w * (a \div w) + (a % w) /\ m \in Int /\ 0 \in 0 .. w - 1
      BY <2>3, <3>1
    <3> QED
      BY <3>1, <3>2, DivisionUnique
  <2>6. IF c = 0 THEN b = 0 ELSE b >= w
    <3>1. c = 0 => w * c = 0
      OBVIOUS
    <3>2. c # 0 => w * c >= w
      OBVIOUS
    <3> QED
      BY <2>3, <3>1, <3>2
  <2>7. (m + 1) - 1 = m /\ (m + 1 = before + 1 <=> c = 0)
    BY <2>1
  <2>8. Gap(depth, a) = IF c = 0 THEN w - bits ELSE w
    <3>1. Gap(depth, a) = IF depth - a < w THEN depth - a + 1 ELSE w
      BY <1>1 DEF Gap
    <3> QED
      BY <1>3, <2>4, <2>6, <3>1
  <2> QED
    BY <1>1, <2>3, <2>5, <2>7, <2>8 DEF ByteAt
<1>7. PICK p : Numbers(p, buf)
  BY NumbersExist
<1>8. \A k \in 1 .. l : buf[k] \in 0 .. Base - 1
  BY <1>2, BytesAre
<1>9. \A m \in Nat : m < l => p[m + 1] = p[m] * Base + buf[m + 1]
  BY <1>2, <1>7 DEF Numbers
<1>10. \A m \in Nat : m <= l => p[m] \in Nat
  <2>1. \A m \in Nat : m <= l => p[m] \in 0 .. Limit(m) - 1
    BY <1>2, <1>7 DEF Numbers
  <2>2. \A m \in Nat : Limit(m) \in Nat
    BY LimitType
  <2> QED
    BY <2>1, <2>2
<1> DEFINE T == {m \in Nat : g[m] = p[m]}
<1>11. \A m \in Nat : m <= before => m \in T
  <2>1. 0 \in T
    BY <1>5, <1>7 DEF Shifts, Numbers
  <2>2. ASSUME NEW m \in Nat, m < before, m \in T
        PROVE  m + 1 \in T
    <3>1. ByteAt(depth, before, bits, m + 1)
      BY <1>6, <2>2
    <3>2. PICK k \in 1 .. bytes : k = m + 1 /\ k - 1 = m /\ k # before + 1 /\ k \in 1 .. l
      <4>1. m + 1 \in 1 .. bytes /\ (m + 1) - 1 = m /\ m + 1 # before + 1 /\ m + 1 \in 1 .. l
        BY <1>2, <2>2
      <4> QED
        BY <4>1
    <3>3. /\ (ByteBits * (k - 1)) \div ByteBits = m
          /\ Gap(depth, ByteBits * (k - 1)) = ByteBits
      BY <3>1, <3>2 DEF ByteAt
    <3>4. g[k] = (g[m] * 2 ^ ByteBits) + (buf[k] \div 2 ^ (ByteBits - ByteBits))
      <4>1. g[k] = (g[k - 1] * 2 ^ Gap(depth, ByteBits * (k - 1)))
              + (buf[((ByteBits * (k - 1)) \div ByteBits) + 1]
                  \div 2 ^ (ByteBits - Gap(depth, ByteBits * (k - 1))))
        BY <1>5 DEF Shifts
      <4> QED
        BY <3>2, <3>3, <4>1
    <3>5. buf[k] \div 2 ^ (ByteBits - ByteBits) = buf[k]
      <4>1. 2 ^ (ByteBits - ByteBits) = 1
        <5>1. ByteBits - ByteBits = 0
          BY <1>1
        <5> QED
          BY <5>1, PowerStep
      <4>2. buf[k] \in Int /\ 1 \in Nat \ {0}
        BY <1>8, <3>2, ByteType
      <4>3. \A x \in Int : x \div 1 = x
        OBVIOUS
      <4> QED
        BY <4>1, <4>2, <4>3
    <3>6. p[k] = p[m] * Base + buf[k]
      BY <1>2, <1>9, <2>2, <3>2
    <3> QED
      BY <2>2, <3>2, <3>4, <3>5, <3>6 DEF Base
  <2> HIDE DEF T
  <2> QED
    BY <2>1, <2>2, ReachesAll
<1>12. PICK x \in Nat, y \in Nat, z \in Nat :
         /\ x = p[before] /\ g[before] = x /\ y = buf[bytes] /\ z = p[bytes]
         /\ z = x * Base + y
  <2>1. before \in T
    <3> HIDE DEF T
    <3> QED
      BY <1>11
  <2>2. bytes \in 1 .. l /\ before <= l /\ bytes <= l /\ bytes \in Nat
    BY <1>2
  <2>3. p[before] \in Nat /\ p[bytes] \in Nat /\ buf[bytes] \in Nat
    BY <1>8, <1>10, <2>2, ByteType
  <2>4. p[bytes] = p[before] * Base + buf[bytes]
    BY <1>2, <1>9
  <2> QED
    BY <2>1, <2>3, <2>4
<1>13. PICK d \in Nat \ {0} : d = 2 ^ (ByteBits - bits) /\ unit = 2 ^ bits /\ unit * d = Base
  <2>1. w - bits \in Nat
    BY <1>3
  <2>2. 2 ^ (ByteBits - bits) \in Nat \ {0}
    BY <1>1, <2>1, PowerOfTwo
  <2> QED
    BY <2>2 DEF BitAt
<1>14. g[bytes] = x * d + (y \div unit)
  <2>1. ByteAt(depth, before, bits, before + 1)
    BY <1>6
  <2>2. /\ (ByteBits * (bytes - 1)) \div ByteBits = before /\ bytes - 1 = before
        /\ Gap(depth, ByteBits * (bytes - 1)) = ByteBits - bits
    BY <1>2, <2>1 DEF ByteAt
  <2>3. bytes \in 1 .. bytes
    OBVIOUS
  <2>4. g[bytes] = (g[bytes - 1] * 2 ^ Gap(depth, ByteBits * (bytes - 1)))
              + (buf[((ByteBits * (bytes - 1)) \div ByteBits) + 1]
                  \div 2 ^ (ByteBits - Gap(depth, ByteBits * (bytes - 1))))
    BY <1>5, <2>3 DEF Shifts
  <2>5. ByteBits - (ByteBits - bits) = bits
    BY <1>1
  <2> QED
    BY <1>2, <1>12, <1>13, <2>2, <2>4, <2>5
<1>15. unit \in Nat \ {0}
  BY DEF BitAt
<1>16. z \div unit = x * d + (y \div unit)
  <2>1. PICK q \in Int, s \in 0 .. unit - 1 : q = y \div unit /\ y = unit * q + s
    <3>1. y \in Int
      OBVIOUS
    <3> QED
      BY <1>15, <3>1, DivisionIs
  <2>2. PICK q2 \in Int, s2 \in 0 .. unit - 1 : q2 = z \div unit /\ z = unit * q2 + s2
    <3>1. z \in Int
      OBVIOUS
    <3> QED
      BY <1>15, <3>1, DivisionIs
  <2>3. z = unit * (x * d + q) + s
    <3>1. x * (unit * d) = unit * (x * d)
      OBVIOUS
    <3>2. PICK e \in Int : e = x * d
      OBVIOUS
    <3>3. unit * (e + q) = unit * e + unit * q
      OBVIOUS
    <3>4. PICK a \in Int, b \in Int : a = unit * e /\ b = unit * q
      OBVIOUS
    <3>5. z = a + y
      BY <1>12, <1>13, <3>1, <3>2, <3>4
    <3>6. z = a + b + s
      BY <2>1, <3>4, <3>5
    <3> QED
      BY <3>2, <3>3, <3>4, <3>6
  <2>4. PICK f \in Int : f = x * d + q
    OBVIOUS
  <2>5. q2 = f
    BY <1>15, <2>2, <2>3, <2>4, DivisionUnique
  <2> QED
    BY <2>1, <2>2, <2>4, <2>5
<1>17. Ntohl(buf) \div (unit * Limit(v)) = z \div unit
  <2>1. Limit(v) \in Nat \ {0} /\ Ntohl(buf) \in Int
    BY LimitType, NtohlType
  <2>2. Ntohl(buf) \div (unit * Limit(v)) = (Ntohl(buf) \div Limit(v)) \div unit
    BY <1>15, <2>1, DigitsJoin
  <2>3. Ntohl(buf) \div Limit(v) = p[bytes]
    <3>1. bytes \in Nat /\ Len(buf) = bytes + v
      BY <1>2
    <3> QED
      BY <1>7, <3>1, FirstBytes
  <2> QED
    BY <1>12, <2>2, <2>3
<1> QED
  BY <1>5, <1>14, <1>16, <1>17

\* One is added at every bit of a row, the growth is seen and the bits are read.
LEMMA OneIsAdded ==
  ASSUME NEW buf \in Seq(Byte), NEW depth \in 0 .. ByteBits * Len(buf) - 1
  PROVE  AddsOne(buf, depth)
<1>1. PICK l \in Nat : l = Len(buf)
  BY LenProperties
<1>2. depth \in Nat
  OBVIOUS
<1>3. PICK before \in Nat, v \in Nat, bits \in Nat, unit \in Nat :
        BitAt(Len(buf), depth, before, v, bits, unit)
  BY <1>1, BitIsAt
<1>4. Increased(buf, bin_inc(buf, depth), unit * Limit(v))
  BY <1>2, <1>3, IncAdds
<1>5. PICK next \in Seq(Byte) : next = bin_inc(buf, depth) /\ Len(next) = Len(buf)
  BY <1>4 DEF Increased
<1>6. 2 ^ (ByteBits * Len(buf) - 1 - depth) = unit * Limit(v)
  BY <1>3 DEF BitAt
<1>7. Ntohl(next) = (Ntohl(buf) + 2 ^ (ByteBits * Len(buf) - 1 - depth)) % Limit(Len(buf))
  BY <1>4, <1>5, <1>6 DEF Increased
<1>8. Compared(next, buf)
  BY <1>5, IdsAreCompared
<1>9. depth % ByteBits # 0
        => bin2ull(next, depth) = Ntohl(next) \div 2 ^ (ByteBits * Len(buf) - 1 - depth)
  <2>1. ASSUME depth % ByteBits # 0
        PROVE  bin2ull(next, depth) = Ntohl(next) \div (unit * Limit(v))
    <3>1. BitAt(Len(next), depth, before, v, bits, unit)
      BY <1>3, <1>5
    <3> QED
      BY <1>2, <2>1, <3>1, BitsAreRead
  <2> QED
    BY <1>6, <2>1
<1> QED
  BY <1>5, <1>7, <1>8, <1>9 DEF AddsOne, Compared

\* CountsUp: whatever an application has in its StaticBuffer, taken as a row of bytes,
\* tools.c adds one to the number of its first bits, and id.cpp and tools.c see it.
THEOREM CountsGoUp == WireSpec => []CountsUp
<1>1. WireInv => CountsUp
  <2> SUFFICES ASSUME WireInv PROVE CountsUp
    OBVIOUS
  <2>1. Unread(note)
    BY DEF WireInv
  <2>2. Contents \in Seq(Byte)
    BY <2>1, ContentsType
  <2> QED
    BY <2>2, OneIsAdded DEF CountsUp
<1> QED
  BY <1>1, WireInvariance, PTL

-----------------------------------------------------------------------------
(* ConnectionLife. *)

USE ConstantsAssumption

\* NonBlockConnect has a list of addresses until it is connected; while it
\* tries one it has a socket of its own for it.
UnderWay == {"INITIALIZED", "TRYING", "FAILED"}

Connects == [status : ConnectStatus, fd : FD \cup {NULL}, res : 0 .. Addresses,
             res0 : BOOLEAN]

AttemptInv ==
  /\ nb.status \in UnderWay => nb.res0
  /\ nb.status \in UnderWay /\ nb.fd # NULL =>
       sockets[nb.fd] \in Own /\ nb.res \in 1 .. Addresses
  /\ nb.status \in {"NULL", "NOT_INITIALIZED"} => nb.fd = NULL
  /\ pc \in {"connect", "next"} => nb.status \in UnderWay
  /\ pc = "connect" => nb.fd # NULL
  /\ pc = "next" => nb.fd = NULL

\* Once connected, NonBlockConnect stays so; its descriptor is that of an
\* established socket until the connection is lost, and of none afterwards.
HandedOutInv ==
  /\ nb.status = "CONNECTED" =>
       nb.fd # NULL /\ (~lost => sockets[nb.fd] \in Established)
  /\ lost => nb.status = "CONNECTED" /\ \A f \in FD : sockets[f] \notin Own
  /\ status = "STATUS_CONNECTED" => nb.status = "CONNECTED" /\ fd = nb.fd

\* The places where the manager closes the descriptor it was told: the
\* connection has been established, or NonBlockConnect has given its own back.
CloseInv ==
  /\ pc = "recv" => IsConnect
  /\ pc = "returned" /\ caller = "RunAgain" /\ status = "STATUS_DISCONNECTED" =>
       nb.fd = NULL

IInv == TypeOK /\ NoSocketLeak /\ AttemptInv /\ HandedOutInv /\ CloseInv

-----------------------------------------------------------------------------

LEMMA InitInv == Init => IInv
<1> SUFFICES ASSUME Init PROVE IInv
  OBVIOUS
<1>1. /\ nb.status = "NULL" /\ nb.fd = NULL
      /\ nb \in Connects
  BY DEF Init, NoConnect, ConnectStatus, Connects
<1>2. sockets \in [FD -> Own \cup {"closed", "other"}] /\ \A f \in FD : sockets[f] \notin Own
  BY DEF Init, Own
<1>3. TypeOK
  BY <1>1, <1>2 DEF Init, TypeOK, Connects
<1> QED
  BY <1>1, <1>2, <1>3
  DEF Init, IInv, NoSocketLeak, AttemptInv, HandedOutInv, CloseInv, UnderWay

\* What connect() does to one of the connection's own sockets.
LEMMA ConnectResultFacts ==
  ASSUME TypeOK, NEW s \in Own, NEW r \in ConnectResult(s)
  PROVE  /\ r.socket \in Own
         /\ r.code \in NowConnected => r.socket \in Established
<1>1. CASE s = "fresh" /\ Platform = "POSIX"
  <2>1. \/ r \in [code : {"EINPROGRESS"}, socket : {"connecting"}]
        \/ r \in [code : {"OK"}, socket : {"connected"}]
        \/ r \in [code : {"ECONNREFUSED"}, socket : {"refused"}]
    BY <1>1 DEF ConnectResult
  <2> QED
    BY <1>1, <2>1 DEF Own, Established, NowConnected
<1>2. CASE s = "fresh" /\ Platform = "Win32"
  <2>1. r \in [code : {"EWOULDBLOCK"}, socket : {"connecting"}]
    BY <1>2 DEF ConnectResult
  <2> QED
    BY <1>2, <2>1 DEF Own, NowConnected
<1>3. CASE s = "connecting"
  <2>1. r \in [code : {"EALREADY"}, socket : {s}]
    BY <1>3 DEF ConnectResult
  <2> QED
    BY <1>3, <2>1 DEF Own, NowConnected
<1>4. CASE s = "connected"
  <2>1. r \in [code : {"EISCONN"}, socket : {s}]
    BY <1>4 DEF ConnectResult
  <2> QED
    BY <1>4, <2>1 DEF Own, Established, NowConnected
<1>5. CASE s \in {"refused", "reset"}
  <2>1. r \in [code : {"ECONNREFUSED"}, socket : {s}]
    BY <1>5 DEF ConnectResult
  <2> QED
    BY <1>5, <2>1 DEF Own, Established, NowConnected
<1> QED
  BY <1>1, <1>2, <1>3, <1>4, <1>5 DEF Own

\* What becomes of NonBlockConnect's fields.
LEMMA ConnectFields ==
  ASSUME TypeOK
  PROVE  /\ Found \in Connects /\ NoConnect \in Connects
         /\ Found.status = "INITIALIZED" /\ Found.fd = nb.fd /\ Found.res0
         /\ NoConnect.status = "NULL" /\ NoConnect.fd = NULL
         /\ [nb EXCEPT !.status = "NOT_INITIALIZED", !.res = 0, !.res0 = FALSE] \in Connects
<1>1. 0 \in 0 .. Addresses
  OBVIOUS
<1>2. nb \in Connects
  BY DEF TypeOK, Connects
<1> QED
  BY <1>1, <1>2 DEF Connects, Found, NoConnect, ConnectStatus

\* The cursor moves to the next address.
LEMMA NextFields ==
  ASSUME TypeOK, nb.res < Addresses, NEW f \in FD \cup {NULL},
         nb' = [nb EXCEPT !.status = "TRYING", !.res = @ + 1, !.fd = f]
  PROVE  /\ nb' \in Connects
         /\ nb'.status = "TRYING" /\ nb'.fd = f /\ nb'.res0 = nb.res0
         /\ nb'.res \in 1 .. Addresses
<1>1. nb \in Connects /\ nb.res \in 0 .. Addresses
  BY DEF TypeOK, Connects
<1>2. nb.res + 1 \in 1 .. Addresses /\ nb.res + 1 \in 0 .. Addresses
  BY <1>1
<1> QED
  BY <1>1, <1>2 DEF Connects, ConnectStatus

-----------------------------------------------------------------------------
(* One lemma per group of actions. *)

LEMMA EnterKeepsInv ==
  ASSUME IInv, HandOut \/ NotInitialized \/ (\E b \in BOOLEAN : SetTarget(b)) \/ Resume
  PROVE  IInv'
<1> USE DEF IInv, TypeOK, NoSocketLeak, AttemptInv, HandedOutInv, CloseInv, kernelVars,
            connVars, managerVars, historyVars, ConnectStatus, UnderWay, IsConnect
<1>1. CASE HandOut
  BY <1>1 DEF HandOut
<1>2. CASE NotInitialized
  BY <1>2 DEF NotInitialized
<1>3. ASSUME NEW b \in BOOLEAN, SetTarget(b)
      PROVE  IInv'
  <2>1. /\ nb.status = "NULL" /\ nb.fd = NULL /\ ~lost
        /\ pc' = IF b THEN "next" ELSE "returned"
        /\ status # "STATUS_CONNECTED"
        /\ lost' = lost /\ trouble' \in BOOLEAN
        /\ UNCHANGED <<kernelVars, connVars, managerVars, closeEvent, caller>>
    BY <1>3 DEF SetTarget
  <2>2. /\ nb' \in Connects
        /\ nb'.fd = NULL
        /\ IF b THEN nb'.status = "INITIALIZED" /\ nb'.res0
           ELSE nb'.status = "NULL"
    BY <1>3, <2>1, ConnectFields DEF SetTarget, Connects
  <2>3. TypeOK'
    BY <2>1, <2>2 DEF Connects
  <2> QED
    BY <2>1, <2>2, <2>3
<1>4. CASE Resume
  BY <1>4 DEF Resume
<1> QED
  BY <1>1, <1>2, <1>3, <1>4

LEMMA TryConnectKeepsInv ==
  ASSUME IInv, TryConnect
  PROVE  IInv'
<1> USE DEF IInv, TypeOK, NoSocketLeak, AttemptInv, HandedOutInv, CloseInv,
            connVars, managerVars, historyVars, ConnectStatus, UnderWay, IsConnect
<1>1. /\ pc = "connect"
      /\ nb.fd \in FD /\ sockets[nb.fd] \in Own
      /\ nb.status \in UnderWay /\ nb.status # "CONNECTED" /\ ~lost
      /\ status # "STATUS_CONNECTED"
      /\ UNCHANGED <<resets, managerVars, closeEvent, caller, historyVars>>
  BY DEF TryConnect
<1>2. PICK r \in ConnectResult(sockets[nb.fd]) : Trying(r) \/ Connected(r) \/ Failed(r)
  BY DEF TryConnect
<1>3. /\ r.socket \in Own
      /\ r.code \in NowConnected => r.socket \in Established
  BY <1>1, ConnectResultFacts
<1>4. CASE Trying(r)
  <2>1. /\ sockets' = [sockets EXCEPT ![nb.fd] = r.socket]
        /\ nb' = [nb EXCEPT !.status = "TRYING"]
        /\ fd' = nb.fd /\ status' = "STATUS_CONNECTING" /\ pc' = "returned"
    BY <1>4 DEF Trying
  <2>2. /\ nb'.status = "TRYING" /\ nb'.fd = nb.fd /\ nb'.res0 = nb.res0
        /\ nb'.res = nb.res
    BY <2>1
  <2>3. /\ sockets'[nb.fd] \in Own
        /\ \A f \in FD \ {nb.fd} : sockets'[f] = sockets[f]
    BY <1>1, <1>3, <2>1
  <2>4. TypeOK'
    BY <1>1, <1>3, <2>1
  <2> QED
    BY <1>1, <2>1, <2>2, <2>3, <2>4
<1>5. CASE Connected(r)
  <2>1. /\ sockets' = [sockets EXCEPT ![nb.fd] = r.socket]
        /\ r.socket \in Established
        /\ nb' = [nb EXCEPT !.status = "CONNECTED", !.res = 0, !.res0 = FALSE]
        /\ fd' = nb.fd /\ status' = "STATUS_CONNECTED" /\ pc' = "returned"
    BY <1>3, <1>5 DEF Connected
  <2>2. nb' \in Connects /\ nb'.status = "CONNECTED" /\ nb'.fd = nb.fd
    <3>1. nb \in Connects /\ 0 \in 0 .. Addresses
      BY DEF Connects
    <3> QED
      BY <2>1, <3>1 DEF Connects
  <2>3. /\ sockets'[nb.fd] \in Established
        /\ \A f \in FD \ {nb.fd} : sockets'[f] = sockets[f]
        /\ sockets' \in [FD -> Own \cup {"closed", "other"}]
    BY <1>1, <1>3, <2>1
  <2>4. TypeOK'
    BY <1>1, <2>1, <2>2, <2>3 DEF Connects
  <2> QED
    BY <1>1, <2>1, <2>2, <2>3, <2>4
<1>6. CASE Failed(r)
  <2>1. /\ sockets' = [sockets EXCEPT ![nb.fd] = "closed"]
        /\ nb' = [nb EXCEPT !.status = "FAILED", !.fd = NULL]
        /\ fd' = fd /\ status' = status /\ pc' = "next"
    BY <1>6 DEF Failed
  <2>2. /\ nb'.status = "FAILED" /\ nb'.fd = NULL /\ nb'.res0 = nb.res0
        /\ nb'.res = nb.res
    BY <2>1
  <2>3. /\ sockets'[nb.fd] \notin Own
        /\ \A f \in FD \ {nb.fd} : sockets'[f] = sockets[f]
    BY <1>1, <2>1 DEF Own
  <2>4. TypeOK'
    BY <1>1, <2>1
  <2> QED
    BY <1>1, <2>1, <2>2, <2>3, <2>4
<1> QED
  BY <1>2, <1>4, <1>5, <1>6

LEMMA NextKeepsInv ==
  ASSUME IInv, \/ \E f \in FD : NextAddress(f)
               \/ NoDescriptor
               \/ \E b \in BOOLEAN : AllFailed(b)
  PROVE  IInv'
<1> USE DEF IInv, TypeOK, NoSocketLeak, AttemptInv, HandedOutInv, CloseInv, kernelVars,
            connVars, managerVars, historyVars, ConnectStatus, UnderWay, IsConnect
<1>1. ASSUME NEW f \in FD, NextAddress(f)
      PROVE  IInv'
  <2>1. /\ nb.status \in UnderWay /\ nb.fd = NULL /\ nb.res0 /\ ~lost
        /\ status # "STATUS_CONNECTED"
        /\ nb.res < Addresses /\ pc' = "connect"
        /\ sockets' = [sockets EXCEPT ![f] = "fresh"]
        /\ nb' = [nb EXCEPT !.status = "TRYING", !.res = @ + 1, !.fd = f]
        /\ UNCHANGED <<resets, connVars, managerVars, closeEvent, caller, historyVars>>
    BY <1>1 DEF NextAddress
  <2>2. /\ nb'.status = "TRYING" /\ nb'.fd = f /\ nb'.res0
        /\ nb'.res \in 1 .. Addresses /\ nb' \in Connects
    BY <2>1, NextFields
  <2>3. /\ sockets'[f] \in Own
        /\ \A g \in FD \ {f} : sockets'[g] \notin Own
    BY <2>1 DEF Own
  <2>4. TypeOK'
    BY <2>1, <2>2 DEF Own, Connects
  <2> QED
    BY <2>1, <2>2, <2>3, <2>4
<1>2. CASE NoDescriptor
  <2>1. /\ nb.status \in UnderWay /\ nb.fd = NULL /\ nb.res0 /\ ~lost
        /\ status # "STATUS_CONNECTED"
        /\ nb.res < Addresses
        /\ nb' = [nb EXCEPT !.status = "TRYING", !.res = @ + 1]
        /\ trouble' = TRUE
        /\ UNCHANGED <<kernelVars, connVars, managerVars, closeEvent, pc, caller, lost>>
        /\ pc = "next"
    BY <1>2 DEF NoDescriptor
  <2>2. nb'.status = "TRYING" /\ nb'.fd = NULL /\ nb'.res0 /\ nb' \in Connects
    <3>1. nb' = [nb EXCEPT !.status = "TRYING", !.res = @ + 1, !.fd = NULL]
      BY <2>1
    <3> QED
      BY <2>1, <3>1, NextFields
  <2>3. TypeOK'
    BY <2>1, <2>2 DEF Connects
  <2> QED
    BY <2>1, <2>2, <2>3
<1>3. ASSUME NEW b \in BOOLEAN, AllFailed(b)
      PROVE  IInv'
  <2>1. /\ nb.status \in UnderWay /\ nb.fd = NULL /\ ~lost
        /\ status' = "STATUS_DISCONNECTED" /\ pc' = "returned"
        /\ trouble' \in BOOLEAN
        /\ UNCHANGED <<kernelVars, fd, managerVars, closeEvent, caller, lost>>
    BY <1>3 DEF AllFailed
  <2>2. /\ nb' \in Connects
        /\ nb'.fd = NULL
        /\ \/ nb'.status = "INITIALIZED" /\ nb'.res0
           \/ nb'.status = "NOT_INITIALIZED"
    BY <1>3, <2>1, ConnectFields DEF AllFailed, Connects
  <2>3. TypeOK'
    BY <2>1, <2>2 DEF Connects
  <2> QED
    BY <2>1, <2>2, <2>3
<1> QED
  BY <1>1, <1>2, <1>3

LEMMA LoopKeepsInv ==
  ASSUME IInv, Tick \/ TickReturned \/ Timeout \/ PollReturn \/ RunRead \/ Receive
  PROVE  IInv'
<1>1. /\ UNCHANGED <<sockets, resets, nb, status, fd, closeEvent, lost, trouble>>
      /\ initialList' \in BOOLEAN /\ registered' \in BOOLEAN
      /\ caller' \in {"Tick", "Run", "RunAgain"}
      /\ pc' \in {"enter", "poll", "list", "run", "recv"}
      /\ pc' = "recv" => IsConnect
  BY DEF IInv, TypeOK, Tick, TickReturned, Timeout, PollReturn, RunRead, Receive,
         CallConnect, kernelVars, connVars, managerVars, historyVars, IsConnect
<1>2. TypeOK'
  BY <1>1 DEF IInv, TypeOK
<1> QED
  BY <1>1, <1>2
  DEF IInv, NoSocketLeak, AttemptInv, HandedOutInv, CloseInv, IsConnect

\* Disconnect() closes the last socket of a connection that is lost.
LEMMA LossKeepsInv ==
  ASSUME IInv, IsConnect, SocketError, lost' = TRUE, pc' \in {"run", "list"},
         UNCHANGED <<nb, resets, managerVars, caller, trouble>>
  PROVE  IInv'
<1> USE DEF IInv, TypeOK, NoSocketLeak, AttemptInv, HandedOutInv, CloseInv,
            managerVars, ConnectStatus, UnderWay, IsConnect
<1>1. /\ nb.status = "CONNECTED" /\ fd = nb.fd /\ fd \in FD
      /\ sockets' = [sockets EXCEPT ![fd] = "closed"]
      /\ fd' = NULL /\ status' = "STATUS_DISCONNECTED" /\ closeEvent' = TRUE
  BY DEF SocketError
<1>2. \A f \in FD : sockets'[f] \notin Own
  BY <1>1 DEF Own
<1>3. TypeOK'
  BY <1>1
<1> QED
  BY <1>1, <1>2, <1>3

LEMMA ReturnKeepsInv ==
  ASSUME IInv, RunReturned
  PROVE  IInv'
<1> USE DEF IInv, TypeOK, NoSocketLeak, AttemptInv, HandedOutInv, CloseInv, kernelVars,
            connVars, managerVars, historyVars, ConnectStatus, UnderWay, IsConnect
<1>1. CASE caller = "RunAgain" /\ status = "STATUS_DISCONNECTED"
  <2>1. /\ nb.fd = NULL /\ nb.status # "CONNECTED" /\ ~lost
        /\ \A f \in FD : sockets[f] \notin Own
    BY <1>1 DEF RunReturned
  <2>2. /\ fd' = NULL /\ status' = "STATUS_DISCONNECTED" /\ closeEvent' = TRUE
        /\ sockets' = IF fd = NULL THEN sockets
                      ELSE [sockets EXCEPT ![fd] = "closed"]
        /\ pc' = "run"
        /\ UNCHANGED <<resets, nb, managerVars, caller, historyVars>>
    BY <1>1 DEF RunReturned, SocketError
  <2>3. TypeOK'
    BY <2>2
  <2>4. \A f \in FD : sockets'[f] \notin Own
    BY <2>1, <2>2 DEF Own
  <2> QED
    BY <2>1, <2>2, <2>3, <2>4
<1>2. CASE ~(caller = "RunAgain" /\ status = "STATUS_DISCONNECTED")
  BY <1>2 DEF RunReturned
<1> QED
  BY <1>1, <1>2

LEMMA OthersKeepInv ==
  ASSUME IInv, NEW f \in FD,
         OtherOpens(f) \/ OtherCloses(f) \/ Resolve(f) \/ Reset(f)
  PROVE  IInv'
<1> USE DEF IInv, TypeOK, NoSocketLeak, AttemptInv, HandedOutInv, CloseInv,
            connVars, managerVars, historyVars, ConnectStatus, UnderWay, IsConnect,
            Own, Established
<1>1. CASE OtherOpens(f)
  BY <1>1 DEF OtherOpens
<1>2. CASE OtherCloses(f)
  BY <1>2 DEF OtherCloses
<1>3. CASE Resolve(f)
  BY <1>3 DEF Resolve
<1>4. CASE Reset(f)
  BY <1>4 DEF Reset
<1> QED
  BY <1>1, <1>2, <1>3, <1>4

LEMMA HandleCloseKeepsInv ==
  ASSUME IInv, HandleClose
  PROVE  IInv'
<1>1. /\ UNCHANGED <<sockets, resets, nb, initialList, registered, pc, caller, lost, trouble>>
      /\ closeEvent' \in BOOLEAN
  BY DEF HandleClose, kernelVars, managerVars, historyVars
<1>2. CASE UNCHANGED connVars
  <2>1. status' = status /\ fd' = fd
    BY <1>2 DEF connVars
  <2>2. TypeOK'
    BY <1>1, <2>1 DEF IInv, TypeOK
  <2> QED
    BY <1>1, <2>1, <2>2
    DEF IInv, NoSocketLeak, AttemptInv, HandedOutInv, CloseInv, IsConnect
<1>3. CASE /\ nb.status = "CONNECTED" /\ ~IsConnect
           /\ fd' = nb.fd /\ status' = "STATUS_CONNECTED"
  <2>1. nb.fd \in FD /\ pc # "recv"
    BY <1>3 DEF IInv, TypeOK, HandedOutInv, CloseInv
  <2>2. TypeOK'
    BY <1>1, <1>3, <2>1 DEF IInv, TypeOK
  <2> QED
    BY <1>1, <1>3, <2>1, <2>2
    DEF IInv, NoSocketLeak, AttemptInv, HandedOutInv, CloseInv, IsConnect
<1> QED
  BY <1>2, <1>3 DEF HandleClose

LEMMA NextInv == IInv /\ [Next]_vars => IInv'
<1> SUFFICES ASSUME IInv, [Next]_vars PROVE IInv'
  OBVIOUS
<1>1. CASE HandOut \/ NotInitialized \/ (\E b \in BOOLEAN : SetTarget(b)) \/ Resume
  BY <1>1, EnterKeepsInv
<1>2. CASE TryConnect
  BY <1>2, TryConnectKeepsInv
<1>3. CASE \/ \E f \in FD : NextAddress(f)
           \/ NoDescriptor
           \/ \E b \in BOOLEAN : AllFailed(b)
  BY <1>3, NextKeepsInv
<1>4. CASE Tick \/ TickReturned \/ Timeout \/ PollReturn \/ RunRead \/ Receive
  BY <1>4, LoopKeepsInv
<1>5. CASE RunReturned
  BY <1>5, ReturnKeepsInv
<1>6. CASE ReceiveError
  BY <1>6, LossKeepsInv DEF ReceiveError, IInv, CloseInv
<1>7. CASE SendError
  BY <1>7, LossKeepsInv DEF SendError
<1>8. CASE HandleClose
  BY <1>8, HandleCloseKeepsInv
<1>9. ASSUME NEW f \in FD, OtherOpens(f) \/ OtherCloses(f) \/ Resolve(f) \/ Reset(f)
      PROVE  IInv'
  BY <1>9, OthersKeepInv
<1>10. CASE UNCHANGED vars
  BY <1>10 DEF vars, IInv, TypeOK, NoSocketLeak, AttemptInv, HandedOutInv, CloseInv,
               IsConnect
<1> QED
  BY <1>1, <1>2, <1>3, <1>4, <1>5, <1>6, <1>7, <1>8, <1>9, <1>10 DEF Next, Manager

\* The invariant holds in every reachable state.
THEOREM Inductive == Spec => []IInv
<1> QED
  BY InitInv, NextInv, PTL DEF Spec

\* The types hold for every number of addresses, descriptors and resets.
THEOREM TypeCorrect == Spec => []TypeOK
<1>1. IInv => TypeOK
  BY DEF IInv
<1> QED
  BY <1>1, Inductive, PTL

\* Every socket opened for the connection is still NonBlockConnect's.
THEOREM SocketsAreKept == Spec => []NoSocketLeak
<1>1. IInv => NoSocketLeak
  BY DEF IInv
<1> QED
  BY <1>1, Inductive, PTL

\* A connection that was not lost is connected by a socket of its own.
THEOREM ConnectedByItsOwn == Spec => []ConnectedIsOwn
<1>1. IInv => ConnectedIsOwn
  BY DEF IInv, TypeOK, HandedOutInv, ConnectedIsOwn
<1> QED
  BY <1>1, Inductive, PTL

\* connect() is called with the connection's socket and a held address.
THEOREM AddressIsHeld == Spec => []ConnectHasAddress
<1>1. IInv => ConnectHasAddress
  BY DEF IInv, TypeOK, AttemptInv, UnderWay, ConnectHasAddress
<1> QED
  BY <1>1, Inductive, PTL
===============================================================================
