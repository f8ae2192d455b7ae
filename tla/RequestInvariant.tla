-------------------------- MODULE RequestInvariant --------------------------
(***************************************************************************)
(* The inductive invariant of Request: what the parser has made of the     *)
(* text so far, and what is left of it, wherever the text is cut.  TLC     *)
(* checks it on the requests of MCRequest, and RequestProofs proves it.    *)
(***************************************************************************)
EXTENDS RequestProperties

(* An equality of concatenations is kept folded: the provers take it apart *)
(* into their characters.                                                  *)
Same(x, y) == x = y

-----------------------------------------------------------------------------
\* Nothing has been parsed.
Unread ==
    /\ Same(m_request \o wire, RequestText(request))
    /\ m_target = DefaultTarget /\ m_query = <<>> /\ m_filename = <<>> /\ m_cgi_path = <<>>
    /\ m_headers = [k \in {} |-> <<>>] /\ m_status = 200 /\ new_body = <<>>

\* What ErrorChecking refuses.
Refused == wire # <<>> /\ (m_method \notin Methods \/ m_version # HTTPVersion)

\* The version, and with the CR of its line.
VersionOnly == {HTTPVersion, HTTPVersion \o <<CR>>}

\* Nothing but the version is left, which is no header the server asks for.
NoHost ==
    /\ wire # <<>>
    /\ m_request \in VersionOnly \cup {<<>>, <<CR>>}
    /\ DOMAIN m_headers \subseteq VersionOnly

\* The request will not be answered 200.
Hopeless == m_status = 400 \/ Refused

-----------------------------------------------------------------------------
\* The name and the value of header i, and the number of headers.
Key(i) == request.headers[i][1]
Val(i) == request.headers[i][2]
N == Len(request.headers)

(* The first n headers have been read.                                     *)
HeadersRead(n) ==
    \A i \in 1..n : Key(i) \in DOMAIN m_headers /\ m_headers[Key(i)] = SentValue(Key(i))

\* The next header is expected: n have been read, and nothing else.
OnHeader(n) ==
    /\ n \in 0..N
    /\ Same(m_request \o wire, AfterHeader(n))
    /\ DOMAIN m_headers = {Key(i) : i \in 1..n}
    /\ HeadersRead(n)

\* The line feed of the last line has not come.
LineCut(s) == \A k \in DOMAIN s : s[k] # LF /\ (s[k] = CR => k = Len(s))

(* Header n + 1 is cut: what is left of its line makes no header that was  *)
(* sent.                                                                   *)
CutHeader(n) ==
    /\ n \in 0..(N - 1)
    /\ LineCut(m_request)
    /\ ~LineCame(n + 1)
    /\ HeadersRead(n)
    /\ NameCame(n + 1) => /\ Key(n + 1) \in DOMAIN m_headers
                          /\ IsPrefix(m_headers[Key(n + 1)], SentValue(Key(n + 1)))

\* What CutIsPrefix promises of the headers.
HeadersKept ==
    \A i \in DOMAIN request.headers :
        /\ NameCame(i) => /\ Key(i) \in DOMAIN m_headers
                          /\ IsPrefix(m_headers[Key(i)], SentValue(Key(i)))
        /\ LineCame(i) => m_headers[Key(i)] = SentValue(Key(i))

\* Between the headers.
Reading == \/ Hopeless \/ NoHost
           \/ m_status = 200 /\ StartLineKept /\ \E n \in 0..N : OnHeader(n) \/ CutHeader(n)

-----------------------------------------------------------------------------
\* The number of chunks, and the last.
D == Len(request.data)
Last0 == ChunkText(<<"0">>, <<>>)

\* What follows chunk n.
AfterChunk(n) ==
    FlattenSeq(SubSeq(ChunkTexts(request), n + 1, Len(request.data))) \o Last0

\* The next size has been read: n chunks are decoded.
OnChunk(n) ==
    /\ n \in 0..D
    /\ m_body # <<>>
    /\ Same(m_body \o wire, AfterChunk(n))
    /\ chunked_size = HexNumber(Before(m_body, CR))
    /\ new_body = FlattenSeq(SubSeq(request.data, 1, n))

\* The decoder has reached the cut, and reads an empty line for ever.
Stuck == m_body = <<>> /\ chunked_size > 0 /\ wire # <<>>

\* Between the chunks.
Decoding == \/ Hopeless
            \/ /\ m_status = 200 /\ StartLineKept /\ HeadersKept /\ ToDecode
               /\ DOMAIN m_headers = Sent
               /\ Stuck \/ \E n \in 0..D : OnChunk(n)

-----------------------------------------------------------------------------
\* What is promised of the body.
BodyKept ==
    /\ IsPrefix(m_body, SentBody)
    /\ wire = <<>> => m_body = SentBody
    /\ ToDecode => m_body \in {<<>>, SentBody}

\* The request is understood, as far as it has come.
Kept == StartLineKept /\ HeadersKept /\ BodyKept /\ (wire = <<>> => DOMAIN m_headers = Sent)

\* A request that has been parsed.
Understood == m_status \in {204, 400} \/ (wire # <<>> /\ m_status # 200) \/ Kept

\* One conjunct for each place of the parser.
Parsing ==
    /\ pc \in {"receive", "startline"} => Unread
    /\ pc = "startline" => m_request # <<>>
    /\ pc = "headers" => Reading /\ new_body = <<>>
    /\ pc = "decode" => Decoding
    /\ pc = "check" => Hopeless \/ (m_status = 200 /\ Kept)
    /\ pc = "parsed" => Understood
    /\ DeadWithoutTarget

(* The inductive invariant: wherever the parser is, and wherever the text  *)
(* is cut, the fields are what has been read of the request, and what is   *)
(* left of the text is what follows in it (Request.cpp:52-60).             *)
Inv == TypeOK /\ Parsing
=============================================================================
