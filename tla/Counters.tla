------------------------------- MODULE Counters -------------------------------
(***************************************************************************)
(* Rows of bytes as numbers: tools.c adds one at a bit of a row and reads  *)
(* its first bits, id.cpp and tools.c compare two rows.  The rows are made *)
(* of the bytes an application has in its StaticBuffer (ChunkWire).        *)
(***************************************************************************)
EXTENDS ChunkWire

\* The difference of the first bytes that differ.
id_cmp(id1, id2) ==
  LET differ == SelectInSeq([i \in DOMAIN id1 |-> id1[i] - id2[i]], LAMBDA d : d # 0)
  IN  IF differ = 0 THEN 0 ELSE id1[differ] - id2[differ]

\* A char is signed.
Char(x) == IF 2 * x >= Base THEN x - Base ELSE x

\* The same of chars.
bin_cmp(p1, p2) ==
  LET differ == SelectInSeq([i \in DOMAIN p1 |-> p1[i] - p2[i]], LAMBDA d : d # 0)
  IN  IF differ = 0 THEN 0 ELSE Char(p1[differ]) - Char(p2[differ])

\* One round of bin_inc: byte, in which unit is added, and what is carried out of it.
Carry(s, byte, unit) ==
  LET n == s.buf[byte] + unit
  IN  IF ~s.carry THEN s
      ELSE [buf |-> [s.buf EXCEPT ![byte] = n % Base], carry |-> n >= Base]

\* Mutant: the carry goes on from the bit and not from the byte before it.
IncBits(buf, depth) ==
  LET add(s, i) == Carry(s, (i \div ByteBits) + 1, 2 ^ (ByteBits - 1 - (i % ByteBits)))
  IN  FoldLeft(add, [buf |-> buf, carry |-> TRUE], [k \in 1 .. depth + 1 |-> depth - k + 1]).buf
\* Adds 1 at bit "depth" (bit 0 is the first), and what is carried to the bytes before.
bin_inc(buf, depth) ==
  LET bytes == (depth \div ByteBits) + 1
      add(s, byte) ==
        Carry(s, byte, IF byte = bytes THEN 2 ^ (ByteBits - 1 - (depth % ByteBits)) ELSE 1)
  IN  FoldLeft(add, [buf |-> buf, carry |-> TRUE], [k \in 1 .. bytes |-> bytes - k + 1]).buf

\* The value of the first depth bits if these are whole bytes, else of one more.
bin2ull(buf, depth) ==
  LET add(ull, i) ==
        LET gap == IF depth - i < ByteBits THEN depth - i + 1 ELSE ByteBits
        IN  (ull * 2 ^ gap) + (buf[(i \div ByteBits) + 1] \div 2 ^ (ByteBits - gap))
  IN  FoldLeft(add, 0, [k \in 1 .. (depth + ByteBits - 1) \div ByteBits |-> ByteBits * (k - 1)])

-----------------------------------------------------------------------------
\* See CountsUp.
AddsOne(buf, depth) ==
  LET next  == bin_inc(buf, depth)
      value == Ntohl(next)
      unit  == 2 ^ (ByteBits * Len(buf) - 1 - depth)
  IN  /\ Len(next) = Len(buf)
      /\ value = (Ntohl(buf) + unit) % Limit(Len(buf))
      /\ id_cmp(next, buf) > 0 <=> value > Ntohl(buf)
      /\ id_cmp(next, buf) < 0 <=> value < Ntohl(buf)
      /\ bin_cmp(next, buf) = 0 <=> value = Ntohl(buf)
      /\ depth % ByteBits # 0 /\ depth < 64 => bin2ull(next, depth) = value \div unit

\* Of what the application has in its buffer, bin_inc adds one to the number in the
\* bits 0 to depth, whose carry crosses bytes and is lost behind the first one, and
\* leaves the others alone; id_cmp sees whether it has grown, bin_cmp, which takes the
\* bytes for signed ones, whether it has changed, and bin2ull reads it where it reads
\* these bits and they fit its 64.
CountsUp ==
  \A depth \in 0 .. ByteBits * Len(Contents) - 1 : AddsOne(Contents, depth)
=============================================================================
