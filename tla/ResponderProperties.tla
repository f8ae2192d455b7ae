------------------------ MODULE ResponderProperties ------------------------
(***************************************************************************)
(* What the passes of Responder.tla guarantee, whatever the other ports do *)
(* to the documents meanwhile.                                             *)
(***************************************************************************)
EXTENDS Responder

(* The body is within the limit that the file states.  That is not sure if *)
(* the client declares less than it sends, or if the limit is negative or  *)
(* its bytes do not fit 32 bits.                                           *)
WithinLimit(r, b) ==
    \/ r.body =< b.maxSize * Million
    \/ r.length # NoLength /\ r.length < r.body
    \/ b.maxSize * Million \notin 0..Word - 1

(* What the configuration lets a request do, without the order in which    *)
(* the code finds it out.                                                  *)
Permitted(c) ==
    LET b == BlockOf(c)
    IN  /\ ParsedStatus(request[c]) = 200
        /\ \E i \in DOMAIN b.routes :
              /\ b.routes[i].base = request[c].target
              /\ request[c].method \in b.routes[i].accepted
              /\ b.routes[i].redir \in {NoRedirect, 200}
        /\ request[c].method = "POST" => WithinLimit(request[c], b)

(* The document tree changes only for a request that is well formed, whose *)
(* route accepts its method and does not redirect it, and whose body is    *)
(* within the limit if the limit fits and the declared length is true      *)
(* (Option.cpp:101-104, Connection.cpp:225-243): the checks come before    *)
(* the handlers (Poller.cpp:276-279) and stop them.                        *)
EffectPermitted ==
    files' # files =>
        \E c \in Client : /\ stage'[c] # stage[c] /\ Permitted(c)
                          /\ request[c].method \in {"POST", "DELETE"}
EffectsPermitted == [][EffectPermitted]_vars

(* What makes it so: a request that has come as far as a handler has been  *)
(* permitted, and one that has come as far as a route was well formed.     *)
Vetted ==
    /\ stage \in [Client -> Stages]
    /\ DOMAIN request = Client /\ DOMAIN status = Client
    /\ \A c \in Client :
          /\ stage[c] # "away" => request[c] \in Requests
          /\ stage[c] = "parsed" => status[c] = ParsedStatus(request[c])
          /\ stage[c] \in {"search", "cgi"} => ParsedStatus(request[c]) = 200
          /\ stage[c] \in {"handle", "write", "remove"} =>
                Permitted(c) /\ request[c].method \in {"POST", "DELETE"}

Deleted(p) == {c \in Client : /\ request[c] # <<>> /\ request[c].method = "DELETE"
                              /\ answer[c].status = 200 /\ Target(c) = p}
Opened(p) == {c \in Client : /\ request[c] # <<>> /\ request[c].method = "POST"
                             /\ \/ stage[c] = "write"
                                \/ status[c] = 201
                             /\ Upload(c) = p}

(* Of several deletions of one file by different ports only one is told it *)
(* succeeded: there is never one more success than there were files to     *)
(* delete (DeleteHandler.cpp:16-26 looks for the file, then removes it).   *)
DeletionsCounted ==
    \A p \in Path : Cardinality(Deleted(p))
                       =< Cardinality(Opened(p)) + (IF p \in Documents THEN 1 ELSE 0)

(* A file that nobody is writing holds the whole body of one request and   *)
(* nothing else, unless two ports have stored to it: no body is left over  *)
(* from a longer one that was there before (PostHandler.cpp:23-27).        *)
Whole(p) == files[p] = <<Disk>> \/ \E c \in Client :
                request[c] # <<>> /\ files[p] = [i \in 1..request[c].body |-> c]

StoredWhole ==
    \A p \in DOMAIN files :
        \/ Whole(p)
        \/ \E c \in Client : handle[c] = p
        \/ \E c, d \in Opened(p) : PortOf[c] # PortOf[d]

Pages(c) == IF request[c].name # NoName THEN {Target(c)}
            ELSE {<<RouteOf(c).root, RouteOf(c).index[i]>> : i \in DOMAIN RouteOf(c).index}

Textless(body) == body.what = "none" \/ (body.what = "page" /\ body.content = <<>>)

\* d has deleted p, is storing to it, or has stored nothing there.
Deletes(d, p) == /\ request[d] # <<>> /\ request[d].method = "DELETE"
                 /\ stage[d] \in {"respond", "done"} /\ Target(d) = p
StoredEmpty(d, p) == d \in Opened(p) /\ status[d] = 201 /\ request[d].body = 0

(* A GET is answered 200 without a text only if, since the page was found, *)
(* another port deleted it or has truncated it and not yet written it      *)
(* again, if an empty body was stored there, or if no descriptor is left   *)
(* to open it once more (Connection.cpp:250 and 268 lose one for every     *)
(* page found, ResponseBody.cpp:24 and AutoIndex.cpp:28 need another).     *)
PageHasText ==
    [][\A c \in Client :
          /\ answer'[c] # answer[c] /\ answer'[c].status = 200
          /\ Textless(answer'[c].body)
          => \/ spare = 0
             \/ \E d \in Client, p \in Pages(c) :
                   \/ PortOf[d] # PortOf[c] /\ (Deletes(d, p) \/ handle[d] = p)
                   \/ StoredEmpty(d, p)]_vars

(* The process ends only for a start line without a target, for a request  *)
(* that was refused before a route was matched with a status below 404,    *)
(* for a Content-Length that is no number or does not fit an int, for a    *)
(* redirect whose status has no reason phrase, or for a CGI program when   *)
(* there are no descriptors for its pipes (HandleRequest.cpp:53,           *)
(* Connection.cpp:122-129 and 233, ResponseStartLine.cpp:17,               *)
(* CGI.cpp:182-183).                                                       *)
KnownDeaths ==
    dead => \E c \in Client :
        /\ request[c] # <<>>
        /\ \/ request[c].start = "noTarget"
           \/ ParsedStatus(request[c]) = 400
           \/ request[c].method = "POST" /\ ~Readable(request[c])
           \/ route[c] # 0 /\ RouteOf(c).redir \notin Codes \cup {NoRedirect}
           \/ isCGI[c] /\ spare < PipeEnds

(* _matchRoute is run again on every pass over a client whose CGI program  *)
(* is running (Poller.cpp:95-100); it never sends that client anything     *)
(* else, and never gives the program up.                                   *)
CGIKept ==
    [][\A c \in Client : isCGI[c] =>
          /\ isCGI'[c] /\ status'[c] = 200 /\ handle'[c] = NoPath
          /\ stage[c] = "search" => stage'[c] \in {"search", "cgi"}
          /\ answer'[c] # answer[c] => stage[c] = "cgi"]_vars

(* A request that has been parsed comes to its answer or to its CGI        *)
(* program, or ends the process: no handler waits for what another port    *)
(* does to the documents.  That the answer is sent and the program         *)
(* collected is another matter: both may block, see Poller and CGI.        *)
Decided ==
    \A c \in Client : stage[c] = "parsed" ~> stage[c] \in {"respond", "cgi"} \/ dead

(* Each thread goes on with the request it has parsed, as far as the       *)
(* answer.  That parsing ends, that sending does, and that a program is    *)
(* ever collected is not assumed.                                          *)
FairSpec ==
    /\ Spec
    /\ \A c \in Client :
          WF_vars(\/ stage[c] = "parsed" /\ MatchRoute(c)
                  \/ SearchFile(c) \/ SearchProgram(c)
                  \/ OpenUpload(c) \/ RefuseUpload(c) \/ WriteUpload(c)
                  \/ LookForDeletion(c) \/ RemoveFile(c))
=============================================================================
