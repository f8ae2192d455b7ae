------------------------------ MODULE Responder ------------------------------
(***************************************************************************)
(* What one pass of an event loop does with a parsed request: errorChecking*)
(* (request/), _matchRoute (Poller.cpp, PortConfig.cpp), the checks and    *)
(* handlers of Connection.cpp and handler/, and the answer (response/).    *)
(*                                                                         *)
(* Each port is a thread of its own and answers its clients one at a time, *)
(* but all ports share the document tree, so what a thread has found out   *)
(* about a file may be out of date when it uses the file.                  *)
(*                                                                         *)
(* They share the descriptors of the process as well.  Those that the      *)
(* connections need are set aside; what is counted is what is left for the *)
(* files and the pipes of CGI programs.                                    *)
(*                                                                         *)
(* A path is a directory and a name.  What a file holds is a sequence that *)
(* names, for each unit, the client whose body it came from.               *)
(***************************************************************************)
EXTENDS Integers, Sequences, FiniteSetsExt

CONSTANTS
    Client,         \* each makes one request
    Port,           \* the poller threads
    PortOf,         \* the port each client connects to
    Requests,       \* the requests they may make
    Blocks,         \* the server blocks of each port, the default one first
    Dir, Name,      \* directories, file names
    NoName,         \* the request's target names no file
    UploadName,     \* "test.<extension>", for a POST that names no file
    Documents,      \* the paths of the files there are at the start
    Locked,         \* the directories where no file can be opened for writing
    Spare,          \* the descriptors left beside the sockets
    Codes,          \* the keys of the status code map
    NoHost, NoRedirect, NoLength, Junk,
    Million, Word   \* 1000000 and 2^32, scaled down

Disk == "disk"      \* the origin of what the Documents hold
Methods == {"GET", "POST", "DELETE"}
Path == Dir \X Name
NoPath == <<>>

Route == [base : STRING, accepted : SUBSET Methods, redir : Nat \cup {NoRedirect},
          root : Dir, index : Seq(Name), cgi : SUBSET Name, upload : Dir,
          autoindex : BOOLEAN]
\* maxSize is the argument of client_max_body_size, which may be negative.
Block == [names : SUBSET STRING, routes : Seq(Route), maxSize : Int]
Request == [method : Methods \cup {"PUT"}, target : STRING, name : Name \cup {NoName},
            host : STRING \cup {NoHost}, hostPort : BOOLEAN,
            start : {"good", "noVersion", "otherVersion", "twoDots", "noTarget"},
            type : {"none", "text", "form", "video"}, expect : BOOLEAN,
            length : (-Word..Word - 1) \cup {NoLength, Junk}, body : 0..Word - 1]

ASSUME ClientAssumption == IsFiniteSet(Client)
ASSUME PortAssumption == PortOf \in [Client -> Port]
ASSUME RequestAssumption == \A r \in Requests : r \in Request
ASSUME BlockAssumption ==
    \A p \in Port : Blocks[p] \in Seq(Block) \ {<<>>}
ASSUME FileAssumption == /\ Documents \subseteq Path /\ UploadName \in Name
                         /\ NoName \notin Name /\ Locked \subseteq Dir
ASSUME NumberAssumption ==
    /\ Codes \subseteq Nat /\ Spare \in Nat /\ Million \in Nat /\ Word \in Nat \ {0}
    /\ {200, 201, 400, 404, 405, 413, 417, 418, 500, 505} \subseteq Codes

VARIABLES
    stage,      \* how far the pass over each client has come
    request,    \* m_request, once it has been received
    status,     \* its m_status
    route,      \* m_route, the position of a route in the block's; 0 for NULL
    isCGI,      \* its m_cgi
    handle,     \* the file a POST is writing
    answer,     \* what was sent
    files,      \* the document tree: what each file there is holds
    spare,      \* how many descriptors are free
    dead        \* an exception, or a NULL that was used, has ended the process

vars == <<stage, request, status, route, isCGI, handle, answer, files, spare, dead>>

-----------------------------------------------------------------------------
\* "cgi" is between the passes over a client whose CGI program is running.
Resting == {"away", "cgi", "done"}
Stages == Resting \cup {"received", "parsed", "search", "handle", "write",
                        "remove", "respond"}
Body == [what : {"none", "page", "listing", "notice", "error", "output"},
         content : Seq(Client \cup {Disk})]
NoBody == [what |-> "none", content |-> <<>>]
Answer == [status : Nat, body : Body]
NoAnswer == [status |-> 0, body |-> NoBody]

TypeOK ==
    /\ stage \in [Client -> Stages]
    /\ \A c \in Client : stage[c] # "away" => request[c] \in Requests
    /\ status \in [Client -> Nat]
    /\ route \in [Client -> Nat]
    /\ isCGI \in [Client -> BOOLEAN]
    /\ handle \in [Client -> Path \cup {NoPath}]
    /\ answer \in [Client -> Answer]
    /\ DOMAIN files \subseteq Path
    /\ \A p \in DOMAIN files : files[p] \in Seq(Client \cup {Disk})
    /\ spare \in Nat
    /\ dead \in BOOLEAN

Init ==
    /\ stage = [c \in Client |-> "away"]
    /\ request = [c \in Client |-> <<>>]
    /\ status = [c \in Client |-> 200]
    /\ route = [c \in Client |-> 0]
    /\ isCGI = [c \in Client |-> FALSE]
    /\ handle = [c \in Client |-> NoPath]
    /\ answer = [c \in Client |-> NoAnswer]
    /\ files = [p \in Documents |-> <<Disk>>]
    /\ spare = Spare
    /\ dead = FALSE

-----------------------------------------------------------------------------
\* The thread of c's port has no other client in hand.
Turn(c) ==
    /\ ~dead
    /\ \A d \in Client \ {c} : PortOf[d] = PortOf[c] => stage[d] \in Resting

Goto(c, s) == stage' = [stage EXCEPT ![c] = s]
SetStatus(c, code) == status' = [status EXCEPT ![c] = code]

Receive(c) ==
    /\ Turn(c) /\ stage[c] = "away" /\ Goto(c, "received")
    /\ \E r \in Requests : request' = [request EXCEPT ![c] = r]
    /\ UNCHANGED <<status, route, isCGI, handle, answer, files, spare, dead>>

(* parseAndSetStartLine, setHost and errorChecking, whose parts are run    *)
(* only while the status is 200.                                           *)
ParsedStatus(r) ==
    IF r.start \in {"twoDots", "noVersion"} \/ r.host = NoHost THEN 400
    ELSE IF r.method \notin Methods THEN 405
    ELSE IF r.start = "otherVersion" THEN 505
    ELSE IF r.type = "form" THEN 418
    ELSE IF r.expect THEN 417
    ELSE IF r.type = "video" THEN 418
    ELSE 200

\* A start line without a target ends the process.
Parse(c) ==
    /\ ~dead /\ stage[c] = "received"
    /\ \/ /\ request[c].start # "noTarget"
          /\ Goto(c, "parsed") /\ SetStatus(c, ParsedStatus(request[c])) /\ UNCHANGED dead
       \/ /\ request[c].start = "noTarget"
          /\ dead' = TRUE /\ UNCHANGED <<stage, status>>
    /\ UNCHANGED <<request, route, isCGI, handle, answer, files, spare>>

-----------------------------------------------------------------------------
(* _matchRoute.                                                            *)

(* The block whose server_name is the Host header, which is compared with  *)
(* its port if it has one; else, or if there is one block only, the first. *)
Named(bs, r) == {i \in DOMAIN bs : ~r.hostPort /\ r.host \in bs[i].names}

MatchingBlock(bs, r) ==
    IF Len(bs) > 1 /\ Named(bs, r) # {} THEN bs[Min(Named(bs, r))] ELSE bs[1]

BlockOf(c) == MatchingBlock(Blocks[PortOf[c]], request[c])
RouteOf(c) == BlockOf(c).routes[route[c]]

\* What std::stoi can return; for anything else it throws.
Ints == {n \in -Word..Word - 1 : -Word =< 2 * n /\ 2 * n < Word}
Readable(r) == r.length \in Ints \cup {NoLength}

\* The length the client declares is believed; both sides are unsigned.
Length(r) == (IF r.length = NoLength THEN r.body ELSE r.length) % Word
Limit(b) == (b.maxSize * Million) % Word
TooLarge(r, b) == Length(r) > Limit(b)

CheckedStatus(r, b, t) ==
    IF r.method = "POST" /\ TooLarge(r, b) THEN 413
    ELSE IF r.method \notin t.accepted THEN 405
    ELSE IF t.redir # NoRedirect THEN t.redir
    ELSE 200

\* A mutant of NextStage: the handlers do not look at the status.
NextStageUnchecked(r, code) == IF r.method = "GET" THEN "search" ELSE "handle"

\* The handlers are called whatever the status, and look at it themselves.
NextStage(r, code) ==
    IF code # 200 THEN "respond" ELSE IF r.method = "GET" THEN "search" ELSE "handle"

\* The first route of the block whose base is the target; there may be none.
Matches(b, r, i) ==
    /\ i \in DOMAIN b.routes /\ b.routes[i].base = r.target
    /\ \A j \in DOMAIN b.routes : j < i => b.routes[j].base # r.target

MatchRoute(c) ==
    /\ Turn(c) /\ stage[c] \in {"parsed", "cgi"}
    /\ LET r == request[c]
           b == BlockOf(c)
       IN  \/ /\ status[c] # 200
              /\ Goto(c, "respond")
              /\ UNCHANGED <<status, route, dead>>
           \/ /\ status[c] = 200 /\ \A i \in DOMAIN b.routes : ~Matches(b, r, i)
              /\ SetStatus(c, 404)
              /\ Goto(c, "respond")
              /\ UNCHANGED <<route, dead>>
           \/ \E i \in DOMAIN b.routes :
              /\ status[c] = 200 /\ Matches(b, r, i)
              /\ route' = [route EXCEPT ![c] = i]
              /\ IF r.method = "POST" /\ ~Readable(r)
                 THEN dead' = TRUE /\ UNCHANGED <<stage, status>>
                 ELSE LET code == CheckedStatus(r, b, b.routes[i])
                      IN  SetStatus(c, code) /\ Goto(c, NextStage(r, code)) /\ UNCHANGED dead
    /\ UNCHANGED <<request, isCGI, handle, answer, files, spare>>

\* The index files of the route that are there, by their position.
Indices(c) == {i \in DOMAIN RouteOf(c).index :
                  <<RouteOf(c).root, RouteOf(c).index[i]>> \in DOMAIN files}

Target(c) == <<RouteOf(c).root, request[c].name>>

IsProgram(c) == request[c].name \in RouteOf(c).cgi
Found(c) == IF request[c].name = NoName THEN Indices(c) # {} ELSE Target(c) \in DOMAIN files

(* A mutant of SearchFile: a CGI program is recognised the first time only. *)
SearchFileTwice(c) ==
    /\ ~dead /\ stage[c] = "search" /\ (IsProgram(c) => isCGI[c])
    /\ SetStatus(c, IF Found(c) THEN 200 ELSE 404)
    /\ Goto(c, "respond")
    /\ UNCHANGED <<request, route, isCGI, handle, answer, files, spare, dead>>

(* A mutant of SearchFile: a page that is not there is not noticed.        *)
SearchNothing(c) ==
    /\ ~dead /\ stage[c] = "search" /\ ~IsProgram(c)
    /\ Goto(c, "respond")
    /\ UNCHANGED <<request, status, route, isCGI, handle, answer, files, spare, dead>>

(* checkFileSearchPath, for GET.  A page is opened to see whether it is    *)
(* there, which takes a descriptor that is never given back.               *)
SearchFile(c) ==
    /\ ~dead /\ stage[c] = "search" /\ ~IsProgram(c)
    /\ \/ /\ Found(c) /\ spare > 0
          /\ SetStatus(c, 200) /\ spare' = spare - 1
       \/ /\ ~Found(c) \/ spare = 0
          /\ SetStatus(c, 404) /\ UNCHANGED spare
    /\ Goto(c, "respond")
    /\ UNCHANGED <<request, route, isCGI, handle, answer, files, dead>>

(* A CGI program is not looked for.  It is started the first time, with    *)
(* two pipes; an exception ends the process when they cannot be made.      *)
PipeEnds == 4

SearchProgram(c) ==
    /\ ~dead /\ stage[c] = "search" /\ IsProgram(c)
    /\ isCGI' = [isCGI EXCEPT ![c] = TRUE]
    /\ \/ isCGI[c] /\ Goto(c, "cgi") /\ UNCHANGED <<spare, dead>>
       \/ /\ ~isCGI[c] /\ spare >= PipeEnds
          /\ Goto(c, "cgi") /\ spare' = spare - PipeEnds /\ UNCHANGED dead
       \/ /\ ~isCGI[c] /\ spare < PipeEnds
          /\ dead' = TRUE /\ UNCHANGED <<stage, spare>>
    /\ UNCHANGED <<request, status, route, handle, answer, files>>

-----------------------------------------------------------------------------
(* post_handler and delete_handler.                                        *)

\* A mutant of Upload: no name is made for a POST that has none.
UploadUnnamed(c) == <<RouteOf(c).upload, request[c].name>>

Upload(c) == <<RouteOf(c).upload,
               IF request[c].name = NoName THEN UploadName ELSE request[c].name>>

Storable(c) == request[c].name # NoName \/ request[c].type # "none"
Writable(d) == d \notin Locked /\ spare > 0

(* A mutant of OpenUpload: a file that is there is not truncated.          *)
OpenUploadOver(c) ==
    /\ ~dead /\ stage[c] = "handle" /\ request[c].method = "POST"
    /\ Storable(c) /\ Writable(RouteOf(c).upload) /\ spare' = spare - 1
    /\ files' = [p \in DOMAIN files \cup {Upload(c)} |->
                    IF p \in DOMAIN files THEN files[p] ELSE <<>>]
    /\ handle' = [handle EXCEPT ![c] = Upload(c)]
    /\ Goto(c, "write")
    /\ UNCHANGED <<request, status, route, isCGI, answer, dead>>

\* The file is created, or truncated.
OpenUpload(c) ==
    /\ ~dead /\ stage[c] = "handle" /\ request[c].method = "POST"
    /\ Storable(c) /\ Writable(RouteOf(c).upload) /\ spare' = spare - 1
    /\ files' = [p \in DOMAIN files \cup {Upload(c)} |->
                    IF p = Upload(c) THEN <<>> ELSE files[p]]
    /\ handle' = [handle EXCEPT ![c] = Upload(c)]
    /\ Goto(c, "write")
    /\ UNCHANGED <<request, status, route, isCGI, answer, dead>>

\* Nowhere to store it is 400; a file that cannot be opened leaves the 200.
RefuseUpload(c) ==
    /\ ~dead /\ stage[c] = "handle" /\ request[c].method = "POST"
    /\ IF Storable(c) THEN ~Writable(RouteOf(c).upload) /\ UNCHANGED status
                      ELSE SetStatus(c, 400)
    /\ Goto(c, "respond")
    /\ UNCHANGED <<request, route, isCGI, handle, answer, files, spare, dead>>

\* new, written over the beginning of old
Overwrite(old, new) == new \o SubSeq(old, Len(new) + 1, Len(old))

\* What is written to a file that has been removed is lost.
WriteUpload(c) ==
    /\ ~dead /\ stage[c] = "write"
    /\ files' = IF handle[c] = NoPath THEN files
                ELSE [files EXCEPT ![handle[c]] =
                         Overwrite(@, [i \in 1..request[c].body |-> c])]
    /\ handle' = [handle EXCEPT ![c] = NoPath]
    /\ SetStatus(c, 201) /\ Goto(c, "respond") /\ spare' = spare + 1
    /\ UNCHANGED <<request, route, isCGI, answer, dead>>

\* The file is open for reading and writing until it has been removed.
LookForDeletion(c) ==
    /\ ~dead /\ stage[c] = "handle" /\ request[c].method = "DELETE"
    /\ IF request[c].name # NoName /\ Target(c) \in DOMAIN files /\ Writable(RouteOf(c).root)
       THEN Goto(c, "remove") /\ spare' = spare - 1 /\ UNCHANGED status
       ELSE /\ SetStatus(c, IF request[c].name = NoName THEN 400 ELSE 404)
            /\ Goto(c, "respond") /\ UNCHANGED spare
    /\ UNCHANGED <<request, route, isCGI, handle, answer, files, dead>>

(* A mutant of RemoveFile: the result of remove is not looked at.          *)
RemoveFileUnchecked(c) ==
    /\ ~dead /\ stage[c] = "remove"
    /\ SetStatus(c, 200)
    /\ files' = [p \in DOMAIN files \ {Target(c)} |-> files[p]]
    /\ handle' = [d \in Client |-> IF handle[d] = Target(c) THEN NoPath ELSE handle[d]]
    /\ Goto(c, "respond") /\ spare' = spare + 1
    /\ UNCHANGED <<request, route, isCGI, answer, dead>>

(* A mutant of RemoveFile: it is tried until it succeeds.                  *)
RemoveFileRetried(c) ==
    /\ ~dead /\ stage[c] = "remove" /\ Target(c) \in DOMAIN files
    /\ SetStatus(c, 200)
    /\ files' = [p \in DOMAIN files \ {Target(c)} |-> files[p]]
    /\ handle' = [d \in Client |-> IF handle[d] = Target(c) THEN NoPath ELSE handle[d]]
    /\ Goto(c, "respond") /\ spare' = spare + 1
    /\ UNCHANGED <<request, route, isCGI, answer, dead>>

\* Another port may have removed it since; one that writes to it goes on.
RemoveFile(c) ==
    /\ ~dead /\ stage[c] = "remove"
    /\ SetStatus(c, IF Target(c) \in DOMAIN files THEN 200 ELSE 500)
    /\ files' = [p \in DOMAIN files \ {Target(c)} |-> files[p]]
    /\ handle' = [d \in Client |-> IF handle[d] = Target(c) THEN NoPath ELSE handle[d]]
    /\ Goto(c, "respond") /\ spare' = spare + 1
    /\ UNCHANGED <<request, route, isCGI, answer, dead>>

-----------------------------------------------------------------------------
(* sendResponse.                                                           *)

\* A page is opened once more to be read.
Page(p) ==
    IF p \in DOMAIN files /\ spare > 0 THEN [what |-> "page", content |-> files[p]]
                                      ELSE NoBody
Listing == IF spare > 0 THEN [NoBody EXCEPT !.what = "listing"] ELSE NoBody

\* Only a request whose route was matched has a status below 400 here.
BuildBody(c) ==
    LET r == request[c]
    IN  IF status[c] >= 400 THEN [NoBody EXCEPT !.what = "error"]
        ELSE IF r.method # "GET" THEN [NoBody EXCEPT !.what = "notice"]
        ELSE IF r.name # NoName THEN Page(Target(c))
        ELSE IF RouteOf(c).autoindex THEN Listing
        ELSE IF Indices(c) = {} THEN NoBody
        ELSE Page(<<RouteOf(c).root, RouteOf(c).index[Min(Indices(c))]>>)

\* A mutant of UsesRoute: an off-by-one, for 404.
UsesRouteFor404(code) == code =< 404 \/ code > 505

(* Nothing is sent for 204.  Below 404 the answer is built with a copy of  *)
(* the route, which a request that was not parsed does not have.           *)
UsesRoute(code) == code < 404 \/ code > 505

Respond(c) ==
    /\ ~dead /\ stage[c] = "respond"
    /\ \/ /\ status[c] = 204
          /\ Goto(c, "done") /\ UNCHANGED <<answer, dead>>
       \/ /\ status[c] # 204
          /\ (UsesRoute(status[c]) => route[c] # 0) /\ status[c] \in Codes
          /\ answer' = [answer EXCEPT ![c] = [status |-> status[c], body |-> BuildBody(c)]]
          /\ Goto(c, "done") /\ UNCHANGED dead
       \/ /\ status[c] # 204
          /\ (UsesRoute(status[c]) /\ route[c] = 0) \/ status[c] \notin Codes
          /\ dead' = TRUE /\ UNCHANGED <<answer, stage>>
    /\ UNCHANGED <<request, status, route, isCGI, handle, files, spare>>

(* The CGI program has ended, see Poller.  Of its pipes' ends only the one *)
(* that is polled is closed.                                               *)
FinishCGI(c) ==
    /\ Turn(c) /\ stage[c] = "cgi"
    /\ \E code \in {200, 500} :
          answer' = [answer EXCEPT ![c] = [status |-> code, body |-> [NoBody EXCEPT
                        !.what = IF code = 200 THEN "output" ELSE "error"]]]
    /\ Goto(c, "done") /\ spare' = spare + 1
    /\ UNCHANGED <<request, status, route, isCGI, handle, files, dead>>

-----------------------------------------------------------------------------
Next == \E c \in Client :
            \/ Receive(c) \/ Parse(c) \/ MatchRoute(c)
            \/ SearchFile(c) \/ SearchProgram(c)
            \/ OpenUpload(c) \/ RefuseUpload(c) \/ WriteUpload(c)
            \/ LookForDeletion(c) \/ RemoveFile(c)
            \/ Respond(c) \/ FinishCGI(c)

Spec == Init /\ [][Next]_vars
=============================================================================
