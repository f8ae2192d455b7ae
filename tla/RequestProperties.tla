-------------------------- MODULE RequestProperties --------------------------
(***************************************************************************)
(* What the parser of Request.tla makes of a well-formed request, and of   *)
(* one that has been cut where a segment ended.                            *)
(***************************************************************************)
EXTENDS Request

Sent == {request.headers[i][1] : i \in DOMAIN request.headers}

\* The first header of that name.
SentValue(key) ==
    LET first == SelectInSeq(request.headers, LAMBDA h : h[1] = key)
    IN  request.headers[first][2]

\* What follows header i.
AfterHeader(i) ==
    FlattenSeq(SubSeq(HeaderTexts(request), i + 1, Len(request.headers)))
        \o <<CR, LF>> \o BodyText(request)

(* The whole line of header i has come; its name, and the space after it.  *)
LineCame(i) == Len(wire) =< Len(AfterHeader(i))
NameCame(i) == Len(wire) =< Len(request.headers[i][2] \o <<CR, LF>>) + Len(AfterHeader(i))

SentTarget == IF Len(request.dir) > 1 /\ Last(request.dir) = "/"
              THEN Front(request.dir) ELSE request.dir

\* The body: its chunk sizes are taken out for one of the two headers.
ToDecode == /\ request.chunked /\ ContentEncoding \in Sent
            /\ SentValue(ContentEncoding) = Chunked

SentBody == IF ToDecode THEN FlattenSeq(request.data) ELSE BodyText(request)

StartLineKept ==
    /\ m_method = request.method /\ m_version = request.version
    /\ m_query = request.query /\ RouteTarget = SentTarget
    /\ m_filename = request.name /\ m_cgi_path = request.info

(* A request that has arrived as a whole and is not refused with 400 is    *)
(* understood as it was meant: the method, the version, what the target    *)
(* is made of, the first of several headers with one name, and the body    *)
(* without its chunk sizes; those of a body that says so in a              *)
(* Transfer-Encoding stay in it (HandleRequest.cpp:47-112, Decoder.cpp).   *)
(* The port of the Host header, which nothing reads, is left out.          *)
WholeUnderstood ==
    (pc = "parsed" /\ wire = <<>> /\ m_status \notin {204, 400}) =>
        /\ StartLineKept
        /\ DOMAIN m_headers = Sent
        /\ \A k \in Sent : m_headers[k] = SentValue(k)
        /\ m_body = SentBody

(* A request that was cut and is accepted nevertheless has lost only what  *)
(* had not come: its start line is the one that was sent, a header of which*)
(* the name has come has its value or, where the cut is, the beginning of  *)
(* it, and the body is the beginning of the one sent.                      *)
CutIsPrefix ==
    (pc = "parsed" /\ m_status = 200) =>
        /\ StartLineKept
        /\ \A i \in DOMAIN request.headers :
              LET key == request.headers[i][1]
              IN  /\ NameCame(i) => key \in DOMAIN m_headers
                                     /\ IsPrefix(m_headers[key], SentValue(key))
                  /\ LineCame(i) => m_headers[key] = SentValue(key)
        /\ IsPrefix(m_body, SentBody)

(* A body in chunks is never stored in part: all of it is decoded or, when *)
(* only the headers have come, none (Decoder.cpp:10-20).  What lies        *)
(* between does not get past the decoder, see ParseEnds.                   *)
ChunksWholeOrNone ==
    (pc = "parsed" /\ m_status = 200 /\ ToDecode) =>
        m_body \in {<<>>, SentBody}

(* The exception of at(length - 1) is thrown only for a request of which   *)
(* no character of the target has come (HandleRequest.cpp:53).             *)
DeadWithoutTarget ==
    pc = "dead" => Len(RequestText(request)) - Len(wire) =< Len(request.method \o request.gap)

\* The size of the last chunk, and its two line ends, are still to come.
EndMissing == ToDecode /\ Len(wire) > 4

(* Parsing ends, however the request was cut, but for chunks without their *)
(* last: decodeRequest then reads an empty line, which leaves the size as  *)
(* it is, for ever (Decoder.cpp:11-18).                                    *)
ParseEnds ==
    pc \in {"startline", "headers", "decode", "check"}
        ~> (pc \in {"parsed", "dead"} \/ EndMissing)

-----------------------------------------------------------------------------
(* Request.hpp:40-45: parse "will initialise all the other fields in the   *)
(* request object".                                                        *)
ParseInitialises == pc = "decode" ~> pc = "parsed"
=============================================================================
