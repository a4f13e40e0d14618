---------------------------------- MODULE Ids ----------------------------------
(***************************************************************************)
(* Ids: the hash of a key and its text in hexadecimal digits.  Bytes have  *)
(* 8 bits here; a row of bytes is a sequence.                              *)
(***************************************************************************)
EXTENDS Sha1

\* The id of s; of nothing there is none, and the caller's id stays as it is.
bin2ID(s, id) == IF s = <<>> THEN id ELSE SHA1(s)

\* Two hexadecimal digits for a byte.
id2str_r(id) == [n \in 1 .. 2 * Len(id) |->
                   IF n % 2 = 1 THEN id[(n + 1) \div 2] \div 16 ELSE id[n \div 2] % 16]

\* sscanf("%x") takes all digits there are, not one: the number, cut to a byte.
\* What does not fit unsigned long is ULONG_MAX.
ScanHex(digits) ==
  LET first == SelectInSeq(digits, LAMBDA d : d # 0)
      n     == Len(digits)
  IN  IF first # 0 /\ n - first + 1 > 16 THEN 255
      ELSE (IF n > 1 THEN 16 * digits[n - 1] ELSE 0) + digits[n]

strID2id(digits, length) ==
  LET step(id, n) ==
        LET x == ScanHex(SubSeq(digits, n + 1, Len(digits)))
        IN  [id EXCEPT ![(n \div 2) + 1] = IF n % 2 = 0 THEN x ELSE ((@ * 16) + x) % 256]
  IN  FoldLeft(step, [i \in 1 .. length |-> 0], [n \in DOMAIN digits |-> n - 1])
=============================================================================
