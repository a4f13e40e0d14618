-------------------------------- MODULE MCBytes --------------------------------
(***************************************************************************)
(* ChunkWire, Streams and Counters with small bytes, and the pure          *)
(* algorithms of modules HashBuffer, Sha1 and Text.  Their inputs are made *)
(* of the row of bytes that the application has in its buffer: all rows    *)
(* that its fields can make.                                               *)
(***************************************************************************)
EXTENDS Streams, Counters, Ids, Text

-----------------------------------------------------------------------------
(* Values of the constants. *)

MCFields ==
  [type : {"uint8"}, value : 0 .. 3] \cup
  {[type |-> "int8",   value |-> -2],  [type |-> "uint16", value |-> 6],
   [type |-> "int16",  value |-> -3],  [type |-> "uint32", value |-> 229],
   [type |-> "int32",  value |-> -100], [type |-> "data",  value |-> <<1, 2, 3>>]}

MCSmall == [A |-> "a", B |-> "b"]

\* The premise of theorem FieldsAreCarried is true of these values.
ASSUME MessagesFit == WireFits

-----------------------------------------------------------------------------
(* Inputs. *)

\* Holds for the row in the buffer while nothing was sent.
Given(Holds(_)) == sent = <<>> /\ fields # <<>> => Holds(Contents)

\* The row, also repeated to be longer than a block.
Longer(row) == {row, row \o row, row \o row \o row}

\* The row as text: a byte stands for one of four words.
Spell(row, words) == FlattenSeq([i \in DOMAIN row |-> words[row[i] + 1]])

\* 16 words with the row in both halves.
Block(row) ==
  [i \in 1 .. 16 |-> <<(row[(i % Len(row)) + 1] * 4099 * i) % Half,
                       (row[((i + 1) % Len(row)) + 1] * 7919 * (i + 3)) % Half>>]

Words2 == INSTANCE HashBuffer WITH WordBytes <- 2, WordSize <- 16, LBLOCK <- 4

-----------------------------------------------------------------------------
(* The hash. *)

\* HASH_UPDATE and HASH_FINAL hash the padded message, whatever the pieces it comes
\* in and whatever was in the buffer: bytes are or-ed into words, blocks are taken
\* from the data or gathered, the length overflows its lower half.
HashIsOfMessage ==
  Given(LAMBDA row :
    \A m \in Longer(row), junk \in {<<0, 0>>, <<3, 3>>} :
      \A i \in 0 .. Len(m) : \A j \in i .. Len(m) :
        Words2!HashInPieces(<<SubSeq(m, 1, i), SubSeq(m, i + 1, j), SubSeq(m, j + 1, Len(m))>>,
                            junk)
          = Words2!PaddedBlocks(m))

\* The messages of sha1test.c and shatest.c, their hashes in hexadecimal digits, those
\* of SHA-1 as the ids of these keys, and the results there.
Long == FlattenSeq([i \in 1 .. 14 |-> [j \in 1 .. 4 |-> 95 + i + j]])
Tests ==
  {[got |-> id2str_r(bin2ID(<<97, 98, 99>>, <<>>)),
    ret |-> <<10, 9, 9, 9, 3, 14, 3, 6, 4, 7, 0, 6, 8, 1, 6, 10, 11, 10, 3, 14,
              2, 5, 7, 1, 7, 8, 5, 0, 12, 2, 6, 12, 9, 12, 13, 0, 13, 8, 9, 13>>],
   [got |-> id2str_r(bin2ID(Long, <<>>)),
    ret |-> <<8, 4, 9, 8, 3, 14, 4, 4, 1, 12, 3, 11, 13, 2, 6, 14, 11, 10, 10, 14,
              4, 10, 10, 1, 15, 9, 5, 1, 2, 9, 14, 5, 14, 5, 4, 6, 7, 0, 15, 1>>],
   [got |-> id2str_r(SHA(<<97, 98, 99>>)),
    ret |-> <<0, 1, 6, 4, 11, 8, 10, 9, 1, 4, 12, 13, 2, 10, 5, 14, 7, 4, 12, 4,
              15, 7, 15, 15, 0, 8, 2, 12, 4, 13, 9, 7, 15, 1, 14, 13, 15, 8, 8, 0>>],
   [got |-> id2str_r(SHA(Long)),
    ret |-> <<13, 2, 5, 1, 6, 14, 14, 1, 10, 12, 15, 10, 5, 11, 10, 15, 3, 3, 13, 15,
              12, 1, 12, 4, 7, 1, 14, 4, 3, 8, 4, 4, 9, 14, 15, 1, 3, 4, 12, 8>>]}

\* The unrolled rounds, which pass the roles of six variables on and update X in
\* place, compute the standard's, in host and in data order, SHA-0 and SHA-1 (rows
\* of even and odd length), and the results of the repository's tests.
RoundsAgree ==
  /\ Given(LAMBDA row :
       LET rot      == Len(row) % 2
           expected == StandardBlock(rot, INIT_DATA, Block(row))
       IN  /\ HASH_BLOCK_HOST_ORDER(rot, INIT_DATA, Block(row)) = expected
           /\ HASH_BLOCK_DATA_ORDER(rot, INIT_DATA, Block(row)) = expected)
  /\ sent = <<>> /\ fields = <<>> => \A t \in Tests : t.got = t.ret

-----------------------------------------------------------------------------
(* Text. *)

Tags == << <<"<", "a", ">">>, <<"<", "/", "A", ">">>, <<"<">>, <<"A", ">">> >>

\* The first position of w in s but for case, or 0.
First(s, w) ==
  LET at(p) == \A k \in DOMAIN w : tolower(s[p + k - 1]) = tolower(w[k])
  IN  SelectInSeq([p \in DOMAIN s |-> p], LAMBDA p : p + Len(w) - 1 <= Len(s) /\ at(p))

\* See TextIsRead.
TagIsFound ==
  Given(LAMBDA row :
    \A size \in {1, 4, 20} :
      LET s  == Spell(row, Tags)
          p  == First(s, <<"<", "a", ">">>)
          in == From(s, p + 3)
          q  == First(in, <<"<", "/", "a", ">">>)
      IN  getTag(<<"a">>, s, size) =
            IF p # 0 /\ q # 0 /\ q <= size THEN [ret |-> TRUE, text |-> SubSeq(in, 1, q - 1)]
            ELSE [ret |-> FALSE, text |-> <<>>])

\* See TextIsRead.
AddressIsSplit ==
  Given(LAMBDA row :
    LET any == Spell(row, << <<"h">>, <<":">>, <<"/">>, <<"8">> >>)
        slashes == [i \in 1 .. row[1] |-> "/"]
    IN  /\ \A port \in {<<>>, <<"8">>}, file \in {<<>>, <<"/">> \o any} :
           ~(port = <<>> /\ HasColon(file)) =>
             HTTP_connect(<<"http://", "h">> \o (IF port = <<>> THEN <<>> ELSE <<":">> \o port)
                            \o file)
               = [ret |-> TRUE, host |-> <<"h">>, file |-> file,
                  port |-> IF port = <<>> THEN <<"80">> ELSE port]
        /\ LookupIPPort(RemoteOf(<<"h">> \o slashes, <<"p">> \o any))
             = [ret |-> TRUE, name |-> <<"h">>, service |-> <<"p">> \o any]
        /\ LookupIPPort(<<"tcpip://", "h">> \o slashes).service = <<"1", "2", "0", "3">>
        /\ ServiceName2PortNumber(<<"tcpport://">> \o any)
             = [ret |-> TRUE, portNumberReturn |-> any])

\* getTag finds the first element of that name also where the beginning of a tag
\* stands in front of one, though strstr_ci does not look again at what agreed; and
\* the parts of a URL, of a service name and of the remote of an accepted socket
\* are found again, whatever follows them: slashes between name and service, slashes
\* in a path and, if the URL has a port, colons.  (Without a port, upnp.c:236 takes
\* the host together with a path that has a colon.)
TextIsRead == TagIsFound /\ AddressIsSplit
=============================================================================
