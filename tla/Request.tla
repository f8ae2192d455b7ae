------------------------------- MODULE Request -------------------------------
(***************************************************************************)
(* The text of one request, from its arrival to the fields the server works*)
(* from: Request.cpp, HandleRequest.cpp, Decoder.cpp and ErrorHandling.cpp.*)
(*                                                                         *)
(* The text arrives in pieces, and is parsed whenever the loop finds the   *)
(* socket writable: of a request sent in two segments, what has come is    *)
(* parsed.  The parser does not notice, so every prefix of a well-formed   *)
(* request is an input of it.                                              *)
(*                                                                         *)
(* A text is a sequence of characters.  Words are only compared, so those  *)
(* of interest are one character long.                                     *)
(***************************************************************************)
EXTENDS Integers, SequencesExt

CONSTANTS
    Char,           \* the characters
    Requests        \* the requests a client may send, see Message

SP == " "
CR == "CR"
LF == "LF"

Host == <<"H">>
Expect == <<"E">>
ContentType == <<"T">>
ContentEncoding == <<"C">>
TransferEncoding == <<"X">>
Chunked == <<"k">>              \* the value "chunked"
Continue == <<"o">>             \* the value "100-continue"
FormData == "f"                 \* part of a value: "multipart/form"
Unsupported == {<<"v">>, <<"m">>}   \* the values "video" and "multipart"
HTTPVersion == <<"V">>          \* HTTP_VERSION
Methods == {<<"G">>, <<"P">>, <<"D">>}
DefaultTarget == <<"/">>        \* DFL_TARGET

Digits == <<"0", "1", "2", "3", "4", "5", "6", "7", "8", "9", "A", "B", "C", "D",
            "E", "F">>

Text == Seq(Char)

\* The characters that are in a text whatever its words are.
ASSUME CharAssumption == {SP, CR, LF, ":", "?", "/"} \cup ToSet(Digits) \subseteq Char

(* What a client means to send: dir is where the target leads, name a file *)
(* in it with a "." or nothing, and info what follows the file; gap is the *)
(* space between two words. If chunked, data is sent in chunks with these  *)
(* sizes.                                                                  *)
Message == [method : Text, dir : Text, name : Text, info : Text, query : Text,
            gap : Text, version : Text, headers : Seq(Text \X Text),
            chunked : BOOLEAN, data : Seq(Text), sizes : Seq(Text)]

VARIABLES
    request,        \* the request the client sends
    wire,           \* what of its text has not arrived
    pc,
    m_request,      \* what has arrived and is not parsed
    m_method, m_target, m_query, m_filename, m_cgi_path, m_version,
    m_headers, m_body, m_status,
    chunked_size, new_body      \* of decodeRequest; the size is never read
                                \* unset, as a body begins with a size

startLine == <<m_method, m_target, m_query, m_filename, m_cgi_path, m_version>>
decoding == <<chunked_size, new_body>>
vars == <<request, wire, pc, m_request, startLine, m_headers, m_body, m_status,
          decoding>>

-----------------------------------------------------------------------------
(* std::string: find and npos, substr and erase.  Find counts from one, so *)
(* that it is 0 where npos + 1 is.                                         *)

Find(s, ch) == SelectInSeq(s, LAMBDA x : x = ch)
FindLast(s, ch) == SelectLastInSeq(s, LAMBDA x : x = ch)
FindOther(s, S) == SelectInSeq(s, LAMBDA x : x \notin S)

Erase(s, n) == SubSeq(s, n + 1, Len(s))
Take(s, n) == SubSeq(s, 1, IF n < Len(s) THEN n ELSE Len(s))
Before(s, ch) == IF Find(s, ch) = 0 THEN s ELSE SubSeq(s, 1, Find(s, ch) - 1)
After(s, ch) == Erase(s, Find(s, ch))

\* A mutant of SkipSpaces: one space is taken for granted.
SkipNoSpaces(s) == s

SkipSpaces(s) ==
    IF FindOther(s, {SP}) = 0 THEN <<>> ELSE Erase(s, FindOther(s, {SP}) - 1)

\* The number that a line begins with, zero if it begins with no digit.
HexNumber(t) ==
    LET other == FindOther(t, ToSet(Digits))
        number == SubSeq(t, 1, IF other = 0 THEN Len(t) ELSE other - 1)
        value[i \in 0..Len(number)] ==
            IF i = 0 THEN 0 ELSE 16 * value[i - 1] + Find(Digits, number[i]) - 1
    IN  value[Len(number)]

-----------------------------------------------------------------------------
(* What the client sends.                                                  *)

QueryText(r) == IF r.query = <<>> THEN <<>> ELSE <<"?">> \o r.query
URL(r) == r.dir \o r.name \o r.info \o QueryText(r)

HeaderText(h) == h[1] \o <<":", SP>> \o h[2] \o <<CR, LF>>
HeaderTexts(r) == [i \in DOMAIN r.headers |-> HeaderText(r.headers[i])]

ChunkText(size, d) == size \o <<CR, LF>> \o d \o <<CR, LF>>
ChunkTexts(r) == [i \in DOMAIN r.data |-> ChunkText(r.sizes[i], r.data[i])]

BodyText(r) == IF r.chunked THEN FlattenSeq(ChunkTexts(r)) \o ChunkText(<<"0">>, <<>>)
               ELSE FlattenSeq(r.data)

RequestText(r) ==
    r.method \o r.gap \o URL(r) \o r.gap \o r.version \o <<CR, LF>>
    \o FlattenSeq(HeaderTexts(r)) \o <<CR, LF>> \o BodyText(r)

(* A well-formed request: every part is free of what ends it.  A directory *)
(* of the target has no dot in its name, and a file has one.               *)

Free(s, S) == \A i \in DOMAIN s : s[i] \notin S

StartLineFormed(r) ==
    /\ r.method # <<>> /\ r.gap # <<>> /\ r.version # <<>>
    /\ \A s \in {r.method, r.dir, r.name, r.info, r.query, r.version} : Free(s, {SP, CR, LF})
    /\ \A i \in DOMAIN r.gap : r.gap[i] = SP
    /\ \A s \in {r.dir, r.name, r.info} : Free(s, {"?"})

\* Only a directory may end in a slash, and in one.
TargetFormed(r) ==
    /\ r.dir # <<>> /\ r.dir[1] = "/" /\ Free(r.dir, {"."})
    /\ r.name = <<>> => r.info = <<>>
    /\ r.name # <<>> => ~Free(r.name, {"."}) /\ Free(r.name, {"/"}) /\ Last(r.dir) = "/"
    /\ r.info # <<>> => r.info[1] = "/"
    /\ r.name \o r.query # <<>> => Last(URL(r)) # "/"
    /\ Len(r.dir) > 1 /\ Last(r.dir) = "/" => r.dir[Len(r.dir) - 1] # "/"

HeadersFormed(r) ==
    \A i \in DOMAIN r.headers :
        /\ r.headers[i][1] # <<>> /\ Free(r.headers[i][1], {":", CR, LF})
        /\ Free(r.headers[i][2], {CR, LF})
        /\ r.headers[i] = <<ContentEncoding, Chunked>> => r.chunked

\* The largest int: the decoder reads a size into one, and adds one to it.
MaxSize == 2147483647

(* A size has no leading zero and nothing after it: of "010" or of "0;x"   *)
(* the decoder would take a 0 before a cut for the last chunk.             *)
ChunksFormed(r) ==
    r.chunked =>
        /\ Len(r.sizes) = Len(r.data)
        /\ \A i \in DOMAIN r.data :
              /\ r.sizes[i] # <<>> /\ r.sizes[i][1] # "0"
              /\ \A k \in DOMAIN r.sizes[i] : r.sizes[i][k] \in ToSet(Digits)
              /\ HexNumber(r.sizes[i]) = Len(r.data[i]) /\ Len(r.data[i]) \in 1..(MaxSize - 1)

ASSUME RequestAssumption ==
    \A r \in Requests :
        r \in Message /\ StartLineFormed(r) /\ TargetFormed(r) /\ HeadersFormed(r)
            /\ ChunksFormed(r)

-----------------------------------------------------------------------------
TypeOK ==
    /\ request \in Requests
    /\ pc \in {"receive", "startline", "headers", "decode", "check", "parsed", "dead"}
    /\ {wire, m_request, m_method, m_target, m_query, m_filename, m_cgi_path,
         m_version, m_body, new_body} \subseteq Text
    /\ \A k \in DOMAIN m_headers : k \in Text /\ m_headers[k] \in Text
    /\ m_status \in {200, 204, 400, 405, 417, 418, 505}
    /\ chunked_size \in Nat

Init ==
    /\ request \in Requests
    /\ wire = RequestText(request)
    /\ pc = "receive" /\ m_request = <<>>
    /\ m_method = <<>> /\ m_target = DefaultTarget /\ m_query = <<>>
    /\ m_filename = <<>> /\ m_cgi_path = <<>> /\ m_version = <<>>
    /\ m_headers = [k \in {} |-> <<>>] /\ m_body = <<>> /\ m_status = 200
    /\ chunked_size = 0 /\ new_body = <<>>

\* appendRequestData, with what one recv returns.
Receive ==
    /\ pc = "receive"
    /\ \E n \in 1..Len(wire) :
          /\ m_request' = m_request \o SubSeq(wire, 1, n)
          /\ wire' = Erase(wire, n)
    /\ UNCHANGED <<request, pc, startLine, m_headers, m_body, m_status, decoding>>

\* Connection::parseRequest: without a text the status is 204.
Parse ==
    /\ pc = "receive"
    /\ IF m_request = <<>> THEN pc' = "parsed" /\ m_status' = 204
                           ELSE pc' = "startline" /\ UNCHANGED m_status
    /\ UNCHANGED <<request, wire, m_request, startLine, m_headers, m_body, decoding>>

-----------------------------------------------------------------------------
(* parseAndSetStartLine, parseQuery and parseFilenamesAndCGI.              *)

Trimmed(url) == IF Last(url) = "/" THEN Front(url) ELSE url

\* The end of the path segment that holds the dot.
FileEnd(t) ==
    LET slash == Find(After(t, "."), "/")
    IN  IF slash = 0 THEN Len(t) ELSE Find(t, ".") + slash - 1

\* parseFilenamesAndCGI
SetPath(target) ==
    LET file == SubSeq(target, 1, FileEnd(target))
        dir == FindLast(file, "/")
    IN  \/ /\ Find(target, ".") = 0
           /\ m_target' = target
           /\ UNCHANGED <<m_filename, m_cgi_path, m_status>>
        \/ /\ Find(target, ".") # 0 /\ Find(target, ".") = FindLast(target, ".")
           /\ m_target' = SubSeq(file, 1, dir) /\ m_filename' = Erase(file, dir)
           /\ m_cgi_path' = Erase(target, FileEnd(target))
           /\ UNCHANGED m_status
        \/ /\ Find(target, ".") # FindLast(target, ".")
           /\ m_target' = target /\ m_status' = 400
           /\ UNCHANGED <<m_filename, m_cgi_path>>

\* at(length - 1) throws for an empty target, and nobody catches it.
ParseStartLine ==
    /\ pc = "startline"
    /\ \E afterMethod \in {After(m_request, SP)} :
       \E rest \in {SkipSpaces(afterMethod)} :
       \E url \in {Before(rest, SP)}, afterURL \in {After(rest, SP)} :
       \E line \in {SkipSpaces(afterURL)} :
          \/ /\ url = <<>> /\ pc' = "dead"
             /\ UNCHANGED <<m_request, startLine, m_status>>
          \/ /\ url # <<>> /\ pc' = "headers"
             /\ m_method' = Before(m_request, SP)
             /\ m_version' = Before(line, CR)
             /\ m_request' = After(line, LF)
             /\ \E target \in {Trimmed(url)} :
                \E path \in {Before(target, "?")} :
                   /\ m_query' = (IF path = target THEN <<>> ELSE After(target, "?"))
                   /\ SetPath(IF path = <<>> THEN m_target ELSE path)
    /\ UNCHANGED <<request, wire, m_headers, m_body, decoding>>

-----------------------------------------------------------------------------
(* parseAndSetHeaders.                                                     *)

\* A mutant of Added: the last of two headers with one name is kept.
AddedLast(key, value) ==
    [k \in DOMAIN m_headers \cup {key} |-> IF k = key THEN value ELSE m_headers[k]]

\* insert changes nothing if there is the key.
Added(key, value) ==
    [k \in DOMAIN m_headers \cup {key} |->
        IF k \in DOMAIN m_headers THEN m_headers[k] ELSE value]

\* A mutant of Value: the value is taken up to the line feed.
ValueToLF(s) == Before(s, LF)

Value(s) == Before(s, CR)

\* A mutant of AtEndOfHeaders: the text is not tested for being at its end.
AtEmptyLine == Take(m_request, 1) = <<CR>>

AtEndOfHeaders == Take(m_request, 1) \in {<<>>, <<CR>>}

\* One turn of the loop; without a colon one character is erased.
ParseHeader ==
    /\ pc = "headers" /\ ~AtEndOfHeaders
    /\ \E rest \in {Erase(m_request, Find(m_request, ":") + 1)} :
           /\ m_headers' = Added(Before(m_request, ":"), Value(rest))
           /\ m_request' = After(rest, LF)
    /\ UNCHANGED <<request, wire, pc, startLine, m_body, m_status, decoding>>

\* A mutant of ReadSize: what cannot be read is zero.
ReadSizeOrZero(s, old) ==
    HexNumber(Before(s, CR))

\* A mutant of ReadSize: an empty line is answered with an error code.
ReadSizeOrError(s, old) ==
    IF Before(s, CR) = <<>> THEN -1 ELSE HexNumber(Before(s, CR))

(* istringstream(line) >> std::hex >> size, in C++11: zero if the line     *)
(* does not begin with a digit; but an empty line leaves the size as it is.*)
ReadSize(s, old) ==
    IF Before(s, CR) = <<>> THEN old ELSE HexNumber(Before(s, CR))

IsChunked(headers) ==
    ContentEncoding \in DOMAIN headers /\ headers[ContentEncoding] = Chunked

(* The end of the headers, setHost and the body; then                      *)
(* checkIfChunkedRequest, and the first size if there is a body to decode. *)
EndHeaders ==
    /\ pc = "headers" /\ AtEndOfHeaders
    /\ m_status' = (IF Host \in DOMAIN m_headers THEN m_status ELSE 400)
    /\ m_request' = Erase(m_request, 2)
    /\ m_body' = Erase(m_request, 2)
    /\ IF IsChunked(m_headers) /\ m_body' # <<>>
       THEN pc' = "decode" /\ chunked_size' = ReadSize(m_body', chunked_size)
       ELSE pc' = "check" /\ UNCHANGED chunked_size
    /\ UNCHANGED <<request, wire, startLine, m_headers, new_body>>

-----------------------------------------------------------------------------
(* decodeRequest.                                                          *)

\* What follows the data, its CR and the rest of its line.
NextChunk(s, size) == After(Erase(s, size + 1), LF)

DecodeChunk ==
    /\ pc = "decode" /\ chunked_size > 0
    /\ \E rest \in {After(m_body, LF)} :
          /\ new_body' = new_body \o Take(rest, chunked_size)
          /\ m_body' = NextChunk(rest, chunked_size)
    /\ chunked_size' = ReadSize(m_body', chunked_size)
    /\ UNCHANGED <<request, wire, pc, m_request, startLine, m_headers, m_status>>

EndDecode ==
    /\ pc = "decode" /\ chunked_size = 0
    /\ m_body' = new_body
    /\ pc' = "check"
    /\ UNCHANGED <<request, wire, m_request, startLine, m_headers, m_status, decoding>>

-----------------------------------------------------------------------------
(* errorChecking.                                                          *)

Header(name) == IF name \in DOMAIN m_headers THEN m_headers[name] ELSE <<>>

CheckedStatus ==
    IF m_method = <<>> \/ m_version = <<>> THEN 400
    ELSE IF m_method \notin Methods THEN 405
    ELSE IF m_version # HTTPVersion THEN 505
    ELSE IF FormData \in ToSet(Header(ContentType)) THEN 418
    ELSE IF Expect \in DOMAIN m_headers /\ Header(Expect) # Continue THEN 417
    ELSE IF Header(ContentType) \in Unsupported THEN 418
    ELSE 200

ErrorChecking ==
    /\ pc = "check"
    /\ m_status' = (IF m_status = 200 THEN CheckedStatus ELSE m_status)
    /\ m_request' = <<>>
    /\ pc' = "parsed"
    /\ UNCHANGED <<request, wire, startLine, m_headers, m_body, decoding>>

-----------------------------------------------------------------------------
\* getMatchingRoute compares the target without a trailing slash.
RouteTarget == IF Len(m_target) > 1 /\ Last(m_target) = "/" THEN Front(m_target)
               ELSE m_target

Thread == \/ ParseStartLine \/ ParseHeader \/ EndHeaders \/ DecodeChunk \/ EndDecode
          \/ ErrorChecking

Next == Receive \/ Parse \/ Thread

Spec == Init /\ [][Next]_vars

\* Once it has begun, the parser runs.
FairSpec == Spec /\ WF_vars(Thread)
=============================================================================
