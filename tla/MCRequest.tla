------------------------------ MODULE MCRequest ------------------------------
(* Instances of Request for TLC.                                           *)
EXTENDS RequestInvariant

Get == [method |-> <<"G">>, dir |-> <<"/">>, name |-> <<>>, info |-> <<>>,
        query |-> <<>>, gap |-> <<SP>>, version |-> HTTPVersion,
        headers |-> <<<<Host, <<"h", "i">>>>>>, chunked |-> FALSE, data |-> <<>>,
        sizes |-> <<>>]

\* /a/b.c/d?q, with two spaces, a Host with a port, and two Hosts.
Program == [Get EXCEPT !.dir = <<"/", "a", "/">>, !.name = <<"b", ".", "c">>,
                       !.info = <<"/", "d">>, !.query = <<"q">>, !.gap = <<SP, SP>>,
                       !.headers = <<<<Host, <<"h", ":", "8">>>>, <<Expect, Continue>>,
                                     <<Host, <<"i">>>>>>]

Dir == [Get EXCEPT !.dir = <<"/", "a", "/">>, !.query = <<"q", "/", "r">>]
OtherVersion == [Get EXCEPT !.dir = <<"/", "a", "/">>, !.version = <<"W">>]
TwoDots == [Get EXCEPT !.name = <<"b", ".", "c", ".", "d">>]

\* A name of two characters, the second another's name; a value with colons.
Words == [Get EXCEPT !.headers =
             Append(@, <<<<"N">> \o Expect, <<"a">> \o Expect \o <<":", SP, "b", ":">>>>)]

With(key, value) == [Get EXCEPT !.headers = Append(@, <<key, value>>)]

Post == [Get EXCEPT !.method = <<"P">>, !.name = <<"b", ".", "c">>,
                    !.data = <<<<"x", CR, LF, CR, LF, "0">>>>]

\* Data that looks like line ends and sizes, and a size of two digits.
Chunks == <<<<"1", CR, LF>>, [i \in 1..17 |-> IF i % 5 = 0 THEN LF ELSE "2"], <<"0">>>>
HexText(n) == IF n < 16 THEN <<Digits[n + 1]>>
              ELSE <<Digits[(n \div 16) + 1], Digits[(n % 16) + 1]>>

InChunks(key) == [Post EXCEPT !.headers = Append(@, <<key, Chunked>>),
                              !.chunked = TRUE, !.data = Chunks,
                              !.sizes = [i \in DOMAIN Chunks |-> HexText(Len(Chunks[i]))]]

EveryRequest ==
    {Get, Program, Dir, OtherVersion, TwoDots, Words, [Get EXCEPT !.method = <<"U">>],
     With(Expect, <<"p">>), With(ContentType, <<FormData, "v">>),
     With(ContentType, <<"v">>), With(ContentType, <<"v", "/", "w">>),
     Post, InChunks(ContentEncoding), InChunks(TransferEncoding),
     [InChunks(ContentEncoding) EXCEPT !.data = <<>>, !.sizes = <<>>]}

InChunksOnly == {InChunks(ContentEncoding)}
\* The characters of these requests.
Characters == {SP, CR, LF, ":", "?", "/", ".", "a", "b", "c", "d", "f", "h", "i", "k", "m", "o",
               "p", "q", "r", "v", "w", "x", "G", "H", "N", "P", "T", "U", "V", "W", "X"}
              \cup ToSet(Digits)
=============================================================================
