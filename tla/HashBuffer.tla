------------------------------ MODULE HashBuffer ------------------------------
(***************************************************************************)
(* How md32_common.h feeds a hash: HASH_UPDATE gathers bytes in the words  *)
(* of a block (SHA_CTX) whatever the pieces they come in, HASH_FINAL adds  *)
(* the padding and the length.  The blocks the hash is given are collected *)
(* in "blocks"; module Sha1 says what it does with them.  Words are rows   *)
(* of bytes, the most significant one first.                               *)
(***************************************************************************)
EXTENDS Bitwise, Integers, Sequences, SequencesExt

CONSTANTS
  ByteBits,         \* bits of a byte (8)
  WordBytes,        \* bytes of a HASH_LONG (4)
  WordSize,         \* values of a HASH_LONG (2^32)
  LBLOCK            \* HASH_LBLOCK, words of a block (16)

CBLOCK == LBLOCK * WordBytes
Lower(m, n) == IF m <= n THEN m ELSE n
Zeros(w) == [i \in 1 .. w |-> 0]

\* HOST_l2c: the w bytes of the number n.
BytesOf(n, w) ==
  [i \in 1 .. w |-> FoldLeft(LAMBDA q, x : q \div 2 ^ ByteBits, n, Zeros(w - i)) % 2 ^ ByteBits]

\* HASH_INIT leaves data as it was: junk.
HASH_INIT(junk) ==
  [blocks |-> <<>>, Nl |-> 0, Nh |-> 0, num |-> 0,
   data |-> [i \in 0 .. LBLOCK - 1 |-> junk]]

HASH_BLOCK(c) == [c EXCEPT !.blocks = Append(@, [i \in 1 .. LBLOCK |-> c.data[i - 1]])]

\* Mutant: the first byte is put into a word that was not cleared.
IntoOldWord(l, sc, s) ==
  [i \in 1 .. WordBytes |-> IF i \in sc + 1 .. sc + Len(s) THEN l[i] | s[i - sc] ELSE l[i]]
\* The bytes s are or-ed into the word l behind its first sc bytes; the first
\* byte of a word is assigned instead, which clears the others.
IntoWord(l, sc, s) ==
  [i \in 1 .. WordBytes |->
     CASE i \in sc + 1 .. sc + Len(s) -> IF sc = 0 THEN s[i] ELSE l[i] | s[i - sc]
       [] OTHER                       -> IF sc = 0 THEN 0 ELSE l[i]]

\* The bytes s go behind the first num bytes of data: the rest of a word that
\* has begun, whole words, the beginning of a last one.
Gather(data, num, s) ==
  LET sw == num \div WordBytes
      sc == num % WordBytes
  IN  [i \in 0 .. LBLOCK - 1 |->
         CASE i = sw -> IntoWord(data[i], sc, SubSeq(s, 1, Lower(WordBytes - sc, Len(s))))
           [] i > sw /\ i * WordBytes < num + Len(s) ->
                IntoWord(data[i], 0, SubSeq(s, i * WordBytes - num + 1,
                                            Lower((i + 1) * WordBytes - num, Len(s))))
           [] OTHER -> data[i]]

\* The length in bits, in two words.
CountBits(c, len) ==
  LET l == (c.Nl + len * ByteBits) % WordSize
  IN  [c EXCEPT !.Nl = l,
                !.Nh = (@ + (IF l < c.Nl THEN 1 ELSE 0) + ((len * ByteBits) \div WordSize))
                       % WordSize]

\* Whole blocks straight from the data, and what is left of it.
WholeBlocks(c, s) ==
  LET sw   == Len(s) \div CBLOCK
      cut(k) == [i \in 1 .. LBLOCK |->
                   SubSeq(s, (k - 1) * CBLOCK + (i - 1) * WordBytes + 1,
                             (k - 1) * CBLOCK + i * WordBytes)]
      rest == SubSeq(s, sw * CBLOCK + 1, Len(s))
      ew   == Len(rest) \div WordBytes
      c1   == [c EXCEPT !.blocks = @ \o [k \in 1 .. sw |-> cut(k)]]
  IN  IF rest = <<>> THEN c1
      ELSE [c1 EXCEPT !.num = Len(rest),
                      !.data = [Gather(@, 0, rest) EXCEPT
                                  ![ew] = IF Len(rest) % WordBytes = 0 THEN Zeros(WordBytes)
                                          ELSE @]]

HASH_UPDATE(c, s) ==
  LET c1   == CountBits(c, Len(s))
      room == CBLOCK - c.num
  IN  CASE s = <<>> -> c
        [] s # <<>> /\ c.num = 0 -> WholeBlocks(c1, s)
        [] s # <<>> /\ c.num # 0 /\ Len(s) >= room ->
             WholeBlocks([HASH_BLOCK([c1 EXCEPT !.data = Gather(@, c.num, SubSeq(s, 1, room))])
                            EXCEPT !.num = 0],
                         SubSeq(s, room + 1, Len(s)))
        [] OTHER -> [c1 EXCEPT !.num = @ + Len(s), !.data = Gather(@, c.num, s)]

HASH_FINAL(c) ==
  LET i    == c.num \div WordBytes
      j    == c.num % WordBytes
      end  == [k \in 1 .. WordBytes - j |-> IF k = 1 THEN 2 ^ (ByteBits - 1) ELSE 0]
      c1   == [c EXCEPT !.data[i] =
                 IntoWord(IF j = 0 THEN Zeros(WordBytes) ELSE @, j, end)]
      full == i + 1 > LBLOCK - 2            \* no room for Nl and Nh
      c2   == IF ~full THEN c1
              ELSE HASH_BLOCK([c1 EXCEPT !.data = [k \in DOMAIN @ |->
                                 IF k = i + 1 THEN Zeros(WordBytes) ELSE @[k]]])
      from == IF full THEN 0 ELSE i + 1
      last == [k \in 0 .. LBLOCK - 1 |->
                 CASE k = LBLOCK - 2 -> BytesOf(c.Nh, WordBytes)
                   [] k = LBLOCK - 1 -> BytesOf(c.Nl, WordBytes)
                   [] k \in from .. LBLOCK - 3 -> Zeros(WordBytes)
                   [] OTHER -> c2.data[k]]
  IN  [HASH_BLOCK([c2 EXCEPT !.data = last]) EXCEPT !.num = 0]

\* A message given in pieces.
HashInPieces(pieces, junk) ==
  HASH_FINAL(FoldLeft(HASH_UPDATE, HASH_INIT(junk), pieces)).blocks

-----------------------------------------------------------------------------
(* The reference: the padded message, cut into blocks. *)

Padded(m) ==
  LET fill == (-(Len(m) + 1 + 2 * WordBytes)) % CBLOCK
  IN  m \o <<2 ^ (ByteBits - 1)>> \o Zeros(fill) \o BytesOf(Len(m) * ByteBits, 2 * WordBytes)

PaddedBlocks(m) ==
  LET p == Padded(m)
  IN  [k \in 1 .. Len(p) \div CBLOCK |->
         [i \in 1 .. LBLOCK |-> SubSeq(p, (k - 1) * CBLOCK + (i - 1) * WordBytes + 1,
                                          (k - 1) * CBLOCK + i * WordBytes)]]
=============================================================================
