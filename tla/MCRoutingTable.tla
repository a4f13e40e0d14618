--------------------------- MODULE MCRoutingTable ---------------------------
(* Ids of two binary digits.  Both keys and p1 belong to the same element, p2 *)
(* to another.  d1 and d3 are equal.                                          *)
EXTENDS RoutingTable

CONSTANTS k1, k2, d1, d2, d3, p1, p2

IdOfDigits(a, b) == (0 :> a) @@ (1 :> b)

MCOwnID == IdOfDigits(0, 0)
MCKeyID == k1 :> IdOfDigits(1, 0) @@ k2 :> IdOfDigits(1, 1)
MCDataKey == d1 :> k1 @@ d2 :> k2 @@ d3 :> k1
MCDataValue == d1 :> "x" @@ d2 :> "x" @@ d3 :> "x"
MCPeerID == p1 :> IdOfDigits(1, 1) @@ p2 :> IdOfDigits(0, 1)
=============================================================================
