----------------------------- MODULE MCSendBuffer -----------------------------
(***************************************************************************)
(* SendBuffer for TLC: bytes of four values, numbers of two bytes, a       *)
(* buffer that grows from 2 bytes to 4 and 8 and can grow no more.         *)
(***************************************************************************)
EXTENDS SendBuffer

MCHtonl == [n \in 0 .. 15 |-> <<n \div 4, n % 4>>]

UInt(n) == [kind |-> "i", value |-> n]
Str(s) == [kind |-> "s", value |-> s]
Dat(s) == [kind |-> "d", value |-> s]
Fix(s) == [kind |-> "f", value |-> s]

MCMessage ==
  { <<>>,
    <<UInt(7)>>,
    <<Str(<<3, 1>>), UInt(14)>>,
    <<Dat(<<0, 2, 0>>), Str(<<>>)>>,
    <<Fix(<<1, 0>>), UInt(4), Dat(<<2>>)>>,
    <<UInt(1), Dat(<<1, 2, 3, 0, 1>>)>> }

MCNoise == {<<0, 1, 3>>, <<3, 3, 1, 1>>, <<0, 3, 2, 1>>, <<0, 0, 0, 0, 1, 1>>}
=============================================================================
