---------------------------------- MODULE Text ----------------------------------
(***************************************************************************)
(* What the program reads out of text: elements of the gateway's XML       *)
(* (strstr_ci, getTag), the parts of a URL (HTTP_connect), of the name of  *)
(* a service (ServiceName2PortNumber) and of a remote (LookupIPPort),      *)
(* which the acceptor makes.  Text is a sequence of characters; a scheme   *)
(* that is only compared ("http://") is a character of its own.  A pointer *)
(* that may be NULL is the row of what it points to, or <<>>.              *)
(***************************************************************************)
EXTENDS Integers, Sequences, SequencesExt

CONSTANT Small      \* tolower of the capital letters

tolower(c) == IF c \in DOMAIN Small THEN Small[c] ELSE c
From(s, p) == SubSeq(s, p, Len(s))

\* Position of the first character c of s, or 0.
strchr(s, c) == SelectInSeq(s, LAMBDA x : x = c)
\* The text before the first c, or all; from the first c on, or nothing.
Before(s, c) == IF strchr(s, c) = 0 THEN s ELSE SubSeq(s, 1, strchr(s, c) - 1)
Behind(s, c) == IF strchr(s, c) = 0 THEN <<>> ELSE From(s, strchr(s, c))

-----------------------------------------------------------------------------
(* upnp.c *)

\* How many characters of target agree with buf from position p on, the first
\* one, which is known to, included.
Agree(buf, p, target) ==
  LET same(i) == p + i <= Len(buf) /\ tolower(buf[p + i]) = tolower(target[i + 1])
      ends    == {i \in 1 .. Len(target) : i = Len(target) \/ ~same(i)}
  IN  CHOOSE i \in ends : \A j \in ends : i <= j

\* Mutant: the first character that does not agree is passed over, too.
GoOnBehind(p, n) == p + n + 1
\* What agreed is not looked at again: the search goes on at the first character
\* that did not.
GoOn(p, n) == p + n

\* The position of target in buf, or 0.  The first character has to be the same,
\* the others but for their case.
strstr_ci(buf, target) ==
  LET step(s, p) ==
        IF s.found # 0 \/ p < s.from \/ buf[p] # target[1] THEN s
        ELSE LET n == Agree(buf, p, target)
             IN  IF n = Len(target) THEN [s EXCEPT !.found = p]
                 ELSE [s EXCEPT !.from = GoOn(p, n)]
  IN  FoldLeft(step, [found |-> 0, from |-> 1], [p \in DOMAIN buf |-> p]).found

\* The contents of the first element tagName, if a buffer of bufferLength
\* characters has room for them and the terminating NUL.
getTag(tagName, targetBuffer, bufferLength) ==
  LET open  == <<"<">> \o tagName \o <<">">>
      p     == strstr_ci(targetBuffer, open)
      rest  == From(targetBuffer, p + Len(open))
      p2    == strstr_ci(rest, <<"<", "/">> \o tagName \o <<">">>)
  IN  IF p = 0 \/ p2 = 0 \/ p2 > bufferLength THEN [ret |-> FALSE, text |-> <<>>]
      ELSE [ret |-> TRUE, text |-> SubSeq(rest, 1, p2 - 1)]

HasColon(s) == strchr(s, ":") # 0
HasPort(s) == HasColon(s) /\ (strchr(s, "/") # 0 => strchr(s, ":") < strchr(s, "/"))

\* Host and port that HTTP_connect connects to, and the file it returns.  The host
\* is not cut off where the first colon is in the file.
HTTP_connect(url) ==
  LET s    == Tail(url)
      rest == IF HasPort(s) THEN Tail(Behind(s, ":")) ELSE s
  IN  IF ~IsPrefix(<<"http://">>, url) THEN [ret |-> FALSE]
      ELSE [ret  |-> TRUE,
            host |-> CASE HasPort(s)   -> Before(s, ":")
                       [] ~HasColon(s) -> Before(s, "/")
                       [] OTHER        -> s,
            port |-> IF HasPort(s) THEN Before(rest, "/") ELSE <<"80">>,
            file |-> Behind(rest, "/")]

-----------------------------------------------------------------------------
(* NonBlockConnect and ConnectionAcceptor *)

SkipSlashes(s) ==
  LET first == SelectInSeq(s, LAMBDA c : c # "/")
  IN  IF first = 0 THEN <<>> ELSE From(s, first)

\* The name up to the slashes, the service behind them or the default one.
LookupIPPort(remote) ==
  LET s       == Tail(remote)
      service == SkipSlashes(Behind(s, "/"))
  IN  IF ~IsPrefix(<<"tcpip://">>, remote) THEN [ret |-> FALSE]
      ELSE [ret |-> TRUE, name |-> Before(s, "/"),
            service |-> IF service = <<>> THEN <<"1", "2", "0", "3">> ELSE service]

\* The remote of an accepted socket.
RemoteOf(addr, port) == <<"tcpip://">> \o addr \o <<"/">> \o port

\* The port to listen on.
ServiceName2PortNumber(serviceName) ==
  IF ~IsPrefix(<<"tcpport://">>, serviceName) THEN [ret |-> FALSE]
  ELSE [ret |-> TRUE, portNumberReturn |-> Tail(serviceName)]
=============================================================================
