---------------------------------- MODULE Sha1 ----------------------------------
(***************************************************************************)
(* The hash of ids: SHA-1 and SHA-0 of sha_locl.h on the blocks that       *)
(* HashBuffer gathers.  A SHA_LONG is a pair of 16-bit halves.  A block    *)
(* goes through 80 rounds on six variables that change their roles from    *)
(* round to round, with a circular buffer X of 16 words.                   *)
(***************************************************************************)
EXTENDS Bitwise, Integers, Sequences, SequencesExt

\* TLC's integers have 32 bits: the length is counted in words of 30.
Buffer == INSTANCE HashBuffer WITH
  ByteBits <- 8, WordBytes <- 4, WordSize <- 2 ^ 30, LBLOCK <- 16

Half == 2 ^ 16

ROTATE(a, n) ==
  LET hi == IF n < 16 THEN a[1] ELSE a[2]
      lo == IF n < 16 THEN a[2] ELSE a[1]
      k  == n % 16
      two(x, y) == ((x * 2 ^ k) % Half) + (y \div 2 ^ (16 - k))
  IN  <<two(hi, lo), two(lo, hi)>>

Sum(words) ==
  LET lo == FoldLeft(LAMBDA n, w : n + w[2], 0, words)
      hi == FoldLeft(LAMBDA n, w : n + w[1], lo \div Half, words)
  IN  <<hi % Half, lo % Half>>

XorWords(words) ==
  FoldLeft(LAMBDA x, w : <<x[1] ^^ w[1], x[2] ^^ w[2]>>, <<0, 0>>, words)
AndWord(x, y) == <<x[1] & y[1], x[2] & y[2]>>
OrWord(x, y)  == <<x[1] | y[1], x[2] | y[2]>>
NotWord(x)    == <<Half - 1 - x[1], Half - 1 - x[2]>>

INIT_DATA == << <<\h6745, \h2301>>, <<\hefcd, \hab89>>, <<\h98ba, \hdcfe>>,
                <<\h1032, \h5476>>, <<\hc3d2, \he1f0>> >>

K(i) == CASE i < 20 -> <<\h5a82, \h7999>>
          [] i \in 20 .. 39 -> <<\h6ed9, \heba1>>
          [] i \in 40 .. 59 -> <<\h8f1b, \hbcdc>>
          [] OTHER -> <<\hca62, \hc1d6>>

F(i, b, c, d) ==
  CASE i < 20 -> XorWords(<<AndWord(XorWords(<<c, d>>), b), d>>)
    [] i \in 40 .. 59 -> OrWord(AndWord(b, c), AndWord(OrWord(b, c), d))
    [] OTHER -> XorWords(<<b, c, d>>)

\* Xupdate; SHA-0 does not rotate.
Xupdate(rot, ia, ib, ic, id) == ROTATE(XorWords(<<ia, ib, ic, id>>), rot)

\* Mutant: e is not where the roles of round i have it.
BODY_e(i, v, xi) ==
  LET r(k) == (k + 5 * i) % 6
  IN  [v EXCEPT ![r(5)] = Sum(<<xi, v[r(5)], K(i), ROTATE(v[r(0)], 5),
                                F(i, v[r(1)], v[r(2)], v[r(3)])>>),
                ![r(1)] = ROTATE(@, 30)]
\* Round i on the variables v (A to E and T): a is v[-i], the others follow it.
BODY(i, v, xi) ==
  LET r(k) == (k + 5 * i) % 6
  IN  [v EXCEPT ![r(5)] = Sum(<<xi, v[r(4)], K(i), ROTATE(v[r(0)], 5),
                                F(i, v[r(1)], v[r(2)], v[r(3)])>>),
                ![r(1)] = ROTATE(@, 30)]

Rounds == [r \in 1 .. 5 |-> [k \in 1 .. 16 |-> 16 * (r - 1) + k - 1]]
Variables(h) == [k \in 0 .. 5 |-> IF k < 5 THEN h[k + 1] ELSE <<0, 0>>]

\* After 80 rounds the roles of h0 to h4 are those of E, T, A, B and C.
AddTo(h, v) ==
  <<Sum(<<h[1], v[4]>>), Sum(<<h[2], v[5]>>), Sum(<<h[3], v[0]>>),
    Sum(<<h[4], v[1]>>), Sum(<<h[5], v[2]>>)>>

\* 80 rounds, in rows of 16 that use every word of X once: "at" says where the
\* words for the update of X[i % 16] are taken from, "first" those of round i < 16.
RunRounds(rot, h, at(_, _), first(_)) ==
  LET update(x, i) ==
        [x EXCEPT ![i % 16] = IF i < 16 THEN first(i)
                              ELSE Xupdate(rot, at(x, i), at(x, i + 2), at(x, i + 8), at(x, i + 13))]
      row(s, r) ==
        LET x == FoldLeft(update, s.X, r)
        IN  [rounds |-> s.rounds + 16, X |-> x,
             v |-> FoldLeft(LAMBDA v, i : BODY(i, v, x[i % 16]), s.v, r)]
      start == [rounds |-> 0, X |-> [k \in 0 .. 15 |-> <<0, 0>>], v |-> Variables(h)]
  IN  AddTo(h, FoldLeft(row, start, Rounds).v)

\* The bytes of the block become the words of X, which is updated in place.
HASH_BLOCK_DATA_ORDER(rot, h, block) ==
  RunRounds(rot, h, LAMBDA x, j : x[j % 16], LAMBDA i : block[i + 1])

\* The block stays as it is, X gets the updated words only: until a word was
\* updated it is taken from the block.
HASH_BLOCK_HOST_ORDER(rot, h, block) ==
  RunRounds(rot, h,
            LAMBDA x, j : IF j < 32 THEN block[(j % 16) + 1] ELSE x[j % 16],
            LAMBDA i : block[i + 1])

\* The words of a block of bytes.
Words(block) == [i \in 1 .. 16 |-> <<(block[i][1] * 256) + block[i][2],
                                     (block[i][3] * 256) + block[i][4]>>]

HASH_MAKE_STRING(h) ==
  FlattenSeq([i \in 1 .. 5 |-> <<h[i][1] \div 256, h[i][1] % 256,
                                  h[i][2] \div 256, h[i][2] % 256>>])

\* SHA1_Init, SHA1_Update of each piece and SHA1_Final (SHA_Init... with rot 0).
\* HASH_UPDATE has whole blocks of the data done in data order, others in host
\* order.
Digest(rot, pieces) ==
  HASH_MAKE_STRING(
    FoldLeft(LAMBDA h, b : HASH_BLOCK_HOST_ORDER(rot, h, Words(b)), INIT_DATA,
             Buffer!HashInPieces(pieces, <<255, 255, 255, 255>>)))

SHA1(d) == Digest(1, <<d>>)
SHA(d)  == Digest(0, <<d>>)

-----------------------------------------------------------------------------
(* The reference: the standard's schedule of 80 words and its five variables. *)

Choose(i, b, c, d) ==
  CASE i < 20 -> OrWord(AndWord(b, c), AndWord(NotWord(b), d))
    [] i \in 40 .. 59 -> OrWord(AndWord(b, c), OrWord(AndWord(b, d), AndWord(c, d)))
    [] OTHER -> XorWords(<<b, c, d>>)

StandardBlock(rot, h, block) ==
  LET word(w, i) ==
        LET t == i + 1
        IN  Append(w, IF i < 16 THEN block[t]
                      ELSE ROTATE(XorWords(<<w[t - 3], w[t - 8], w[t - 14], w[t - 16]>>), rot))
      round(v, i, wi) ==
        <<Sum(<<ROTATE(v[1], 5), Choose(i, v[2], v[3], v[4]), v[5], wi, K(i)>>),
          v[1], ROTATE(v[2], 30), v[3], v[4]>>
      row(s, r) ==
        LET w == FoldLeft(word, s.w, r)
        IN  [rounds |-> s.rounds + 16, w |-> w,
             v |-> FoldLeft(LAMBDA v, i : round(v, i, w[i + 1]), s.v, r)]
      last == FoldLeft(row, [rounds |-> 0, w |-> <<>>, v |-> h], Rounds).v
  IN  [k \in 1 .. 5 |-> Sum(<<h[k], last[k]>>)]
=============================================================================
