------------------------- MODULE MCChunkedConnection -------------------------
(* Small instances of ChunkedConnection for TLC. *)
EXTENDS ChunkedConnection

\* Messages that fit.
MCBlockData == {<<2, 1>>, <<1, 2, 2>>}
MCStreamData == {<<2>>}

\* An application that is not careful: with UInt16 = 3, UInt8 = 4 and
\* MAX_DATALENGTH = 4, a commit of nothing and a stream of 3 bytes do not fit,
\* and a block of 3 chunks is longer than the receiver accepts.
CarelessBlockData == {<<>>, <<2, 1, 2>>}
CarelessStreamData == {<<2>>, <<1, 1, 2>>}

\* Pieces that add up to a block of UInt8 = 4 chunks.
QuarterBlockData == {<<2, 1>>, <<1, 2>>}
=============================================================================
