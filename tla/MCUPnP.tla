------------------------------- MODULE MCUPnP -------------------------------
(* A small instance of UPnP for TLC: one client on each of two hosts.        *)
EXTENDS UPnP

CONSTANTS a, b, A, B

MCHostOf == [c \in Client |-> IF c = a THEN A ELSE B]
=============================================================================
