--------------------------- MODULE ResponderProofs ---------------------------
(***************************************************************************)
(* The document tree changes only as the configuration permits, whatever   *)
(* the configuration, the requests and the number of ports.                *)
(*                                                                         *)
(* How a request ends, and what becomes of the files: what may end the     *)
(* process, and that a CGI program is not given up by the passes over its  *)
(* client, rest on what a stage says of the status and of the route that   *)
(* was matched (Outcomes).  What is stored is whole, deletions are counted *)
(* and a page without its text has a cause, because the clients of one     *)
(* port do not meet in the document tree (Handling).                       *)
(***************************************************************************)
EXTENDS ResponderProperties, FiniteSetTheorems, WellFoundedInduction, TLAPS

(* A number that fits a word is stored in it as it is.                     *)
LEMMA Fits == ASSUME NEW w \in Nat \ {0}, NEW x \in 0..w - 1 PROVE x % w = x
  <1>1. x \in Int /\ 0 =< x /\ x < w
    OBVIOUS
  <1> QED BY <1>1, SMTT(30)

(* The comparison of unsigned numbers keeps the limit, except where the    *)
(* limit does not fit or the client declares too little                    *)
(* (Connection.cpp:225-243).                                               *)
LEMMA LimitKept ==
    ASSUME NEW r \in Requests, Readable(r),
           NEW b, b.maxSize \in Int, ~TooLarge(r, b)
    PROVE  WithinLimit(r, b)
  <1> DEFINE limit == b.maxSize * Million
  <1> SUFFICES ASSUME limit \in 0..Word - 1,
                      r.length = NoLength \/ ~(r.length < r.body)
               PROVE  r.body =< limit
    BY DEF WithinLimit
  <1>1. Word \in Nat \ {0} /\ r \in Request
    BY NumberAssumption, RequestAssumption
  <1>2. r.body \in 0..Word - 1
    BY <1>1 DEF Request
  <1>3. Limit(b) = limit
    BY <1>1, Fits DEF Limit
  <1> HIDE DEF limit
  <1>4. ~(Length(r) > limit)
    BY <1>3 DEF TooLarge
  <1>5. CASE r.length = NoLength
    <2>1. Length(r) = r.body
      BY <1>1, <1>2, <1>5, Fits DEF Length
    <2> QED BY <2>1, <1>2, <1>4
  <1>6. CASE r.length # NoLength
    <2>1. r.length \in -Word..Word - 1
      BY <1>1, <1>6 DEF Readable, Ints
    <2>2. r.length >= r.body /\ r.length \in 0..Word - 1
      BY <1>1, <1>2, <1>6, <2>1
    <2>3. Length(r) = r.length
      BY <1>1, <1>6, <2>2, Fits DEF Length
    <2> QED BY <2>2, <2>3, <1>2, <1>4
  <1> QED BY <1>5, <1>6

(* The first of several numbers is one of them.                            *)
LEMMA MinIn == ASSUME NEW n \in Nat, NEW T \in SUBSET (1..n), T # {} PROVE Min(T) \in T
  <1> DEFINE less == {ss \in Nat \X Nat : ss[1] < ss[2]}
  <1>1. IsWellFoundedOn(less, Nat)
    BY NatLessThanWellFounded, Zenon DEF OpToRel
  <1>2. T \subseteq Nat
    OBVIOUS
  <1> HIDE DEF less
  <1>3. \E x \in T : \A y \in T : ~(<<y, x>> \in less)
    BY <1>1, <1>2, WFMin
  <1>4. PICK x \in T : \A y \in T : ~(<<y, x>> \in less)
    BY <1>3
  <1>5. ASSUME NEW y \in T PROVE x =< y
    <2>1. x \in Nat /\ y \in Nat /\ ~(<<y, x>> \in less)
      BY <1>2, <1>4
    <2> QED BY <2>1 DEF less
  <1>6. \A y \in T : x =< y
    BY <1>5
  <1> QED BY <1>6 DEF Min

(* A client is answered for a block of the configuration.                  *)
LEMMA BlockTyped == ASSUME NEW c \in Client PROVE BlockOf(c) \in Block
  <1> DEFINE bs == Blocks[PortOf[c]]
             hit == Named(bs, request[c])
  <1>1. bs \in Seq(Block) /\ bs # <<>>
    BY PortAssumption, BlockAssumption
  <1>2. Len(bs) \in Nat /\ DOMAIN bs = 1..Len(bs) /\ 1 \in DOMAIN bs
    BY <1>1
  <1>3. \A i \in DOMAIN bs : bs[i] \in Block
    BY <1>1, <1>2
  <1>4. hit # {} => Min(hit) \in DOMAIN bs
    BY <1>2, MinIn DEF Named
  <1> QED BY <1>2, <1>3, <1>4 DEF BlockOf, MatchingBlock

(* A status of 200 after the checks means that the route permits the       *)
(* request (Connection.cpp:176-203 and 225-243).                           *)
LEMMA CheckedPermitted ==
    ASSUME NEW c \in Client, NEW i \in DOMAIN BlockOf(c).routes,
           request[c] \in Requests,
           ParsedStatus(request[c]) = 200,
           BlockOf(c).routes[i].base = request[c].target,
           ~(request[c].method = "POST" /\ ~Readable(request[c])),
           CheckedStatus(request[c], BlockOf(c), BlockOf(c).routes[i]) = 200
    PROVE  Permitted(c)
  <1> DEFINE b == BlockOf(c)
  <1>1. /\ request[c].method \in b.routes[i].accepted
        /\ b.routes[i].redir \in {NoRedirect, 200}
        /\ request[c].method = "POST" => ~TooLarge(request[c], b)
    BY DEF CheckedStatus
  <1>2. b.maxSize \in Int
    BY BlockTyped DEF Block
  <1>3. request[c].method = "POST" => WithinLimit(request[c], b)
    BY <1>1, <1>2, LimitKept
  <1> QED BY <1>1, <1>3 DEF Permitted

(* Only a request whose method is one of three is not refused by           *)
(* errorChecking (ErrorHandling.cpp:15-29).                                *)
LEMMA KnownMethod ==
    ASSUME NEW r, ParsedStatus(r) = 200
    PROVE  r.method \in Methods
  BY DEF ParsedStatus

(* No step but Receive changes what a client requests, so what is          *)
(* permitted to it stays so.                                               *)
LEMMA PermittedStays ==
    ASSUME NEW c \in Client, request'[c] = request[c]
    PROVE  /\ Permitted(c)' = Permitted(c)
           /\ ParsedStatus(request[c])' = ParsedStatus(request[c])
  BY DEF Permitted, BlockOf

\* At first nobody has requested anything.
LEMMA InitVetted == Init => Vetted
  BY DEF Init, Vetted, Stages, Resting

(* Each step takes its client only as far as its request allows, and does  *)
(* not touch the others.                                                   *)
LEMMA NextVetted == ASSUME Vetted, [Next]_vars PROVE Vetted'
  <1> DEFINE V(d) ==
        /\ stage[d] # "away" => request[d] \in Requests
        /\ stage[d] = "parsed" => status[d] = ParsedStatus(request[d])
        /\ stage[d] \in {"search", "cgi"} => ParsedStatus(request[d]) = 200
        /\ stage[d] \in {"handle", "write", "remove"} =>
              Permitted(d) /\ request[d].method \in {"POST", "DELETE"}
  <1>1. CASE UNCHANGED vars
    BY <1>1 DEF vars, Vetted, Permitted, BlockOf
  <1>2. ASSUME NEW c \in Client,
               \/ Receive(c) \/ Parse(c) \/ MatchRoute(c)
               \/ SearchFile(c) \/ SearchProgram(c)
               \/ OpenUpload(c) \/ RefuseUpload(c) \/ WriteUpload(c)
               \/ LookForDeletion(c) \/ RemoveFile(c)
               \/ Respond(c) \/ FinishCGI(c)
        PROVE  Vetted'
    <2>1. /\ stage \in [Client -> Stages] /\ \A d \in Client : V(d)
          /\ DOMAIN request = Client /\ DOMAIN status = Client
      BY DEF Vetted
    <2>2. /\ stage' \in [Client -> Stages]
          /\ DOMAIN request' = Client /\ DOMAIN status' = Client
      BY <1>2, <2>1 DEF Receive, Parse, MatchRoute, NextStage, SearchFile, SearchProgram, OpenUpload,
         RefuseUpload, WriteUpload, LookForDeletion, RemoveFile, Respond, FinishCGI,
         Goto, SetStatus, Stages, Resting
    <2>3. ASSUME NEW d \in Client, d # c
          PROVE  V(d)'
      <3>1. stage'[d] = stage[d]
        BY <1>2, <2>1, <2>3 DEF Receive, Parse, MatchRoute, SearchFile, SearchProgram, OpenUpload,
           RefuseUpload, WriteUpload, LookForDeletion, RemoveFile, Respond, FinishCGI,
           Goto
      <3>2. request'[d] = request[d] /\ status'[d] = status[d]
        BY <1>2, <2>1, <2>3 DEF Receive, Parse, MatchRoute, SearchFile, SearchProgram, OpenUpload,
           RefuseUpload, WriteUpload, LookForDeletion, RemoveFile, Respond, FinishCGI,
           SetStatus
      <3> QED BY <2>1, <3>1, <3>2, PermittedStays
    <2>4. V(c)'
      <3>1. CASE Receive(c)
        BY <3>1, <2>1 DEF Receive, Goto
      <3>2. CASE Parse(c)
        <4>1. \/ stage'[c] = "parsed" /\ status'[c] = ParsedStatus(request[c])
              \/ stage'[c] = stage[c]
          BY <3>2, <2>1 DEF Parse, Goto, SetStatus
        <4>2. request' = request
          BY <3>2 DEF Parse
        <4>3. stage[c] = "received"
          BY <3>2 DEF Parse
        <4> QED BY <4>1, <4>2, <4>3, <2>1, PermittedStays
      <3>3. CASE MatchRoute(c)
        <4>1. request' = request /\ (stage[c] = "parsed" \/ stage[c] = "cgi")
          BY <3>3 DEF MatchRoute
        <4>2. ASSUME status[c] = 200
              PROVE  ParsedStatus(request[c]) = 200
          BY <4>1, <4>2, <2>1
        <4>3. \/ stage'[c] = "respond"
              \/ UNCHANGED <<stage, status>>
              \/ \E i \in DOMAIN BlockOf(c).routes :
                    /\ status[c] = 200 /\ Matches(BlockOf(c), request[c], i)
                    /\ ~(request[c].method = "POST" /\ ~Readable(request[c]))
                    /\ stage'[c] = NextStage(request[c], CheckedStatus(request[c],
                                        BlockOf(c), BlockOf(c).routes[i]))
          BY <3>3, <2>1 DEF MatchRoute, Goto
        <4>4. CASE stage'[c] = "respond"
          BY <4>1, <4>4, <2>1
        <4>5. CASE UNCHANGED <<stage, status>>
          BY <4>5, <4>1, <2>1, PermittedStays
        <4>6. ASSUME NEW i \in DOMAIN BlockOf(c).routes,
                     status[c] = 200, Matches(BlockOf(c), request[c], i),
                     ~(request[c].method = "POST" /\ ~Readable(request[c])),
                     stage'[c] = NextStage(request[c], CheckedStatus(request[c],
                                     BlockOf(c), BlockOf(c).routes[i]))
              PROVE  V(c)'
          <5>1. CASE CheckedStatus(request[c], BlockOf(c), BlockOf(c).routes[i]) = 200
            <6>1. Permitted(c) /\ ParsedStatus(request[c]) = 200
              BY <4>1, <4>2, <4>6, <5>1, <2>1, CheckedPermitted DEF Matches
            <6>2. request[c].method \in Methods
              BY <6>1, KnownMethod
            <6>3. stage'[c] = IF request[c].method = "GET" THEN "search" ELSE "handle"
              BY <4>6, <5>1 DEF NextStage
            <6> QED BY <6>1, <6>2, <6>3, <4>1, <2>1, PermittedStays DEF Methods
          <5>2. CASE CheckedStatus(request[c], BlockOf(c), BlockOf(c).routes[i]) # 200
            BY <4>1, <4>6, <5>2, <2>1 DEF NextStage
          <5> QED BY <5>1, <5>2
        <4> QED BY <4>3, <4>4, <4>5, <4>6
      <3>4. CASE SearchFile(c) \/ SearchProgram(c)
        BY <3>4, <2>1, PermittedStays DEF SearchFile, SearchProgram, Goto
      <3>5. CASE OpenUpload(c)
        BY <3>5, <2>1, PermittedStays DEF OpenUpload, Goto
      <3>6. CASE LookForDeletion(c)
        BY <3>6, <2>1, PermittedStays DEF LookForDeletion, Goto
      <3>7. CASE RefuseUpload(c) \/ WriteUpload(c) \/ RemoveFile(c)
        BY <3>7, <2>1 DEF RefuseUpload, WriteUpload, RemoveFile, Goto
      <3>8. CASE Respond(c) \/ FinishCGI(c)
        BY <3>8, <2>1 DEF Respond, FinishCGI, Goto
      <3> QED BY <1>2, <3>1, <3>2, <3>3, <3>4, <3>5, <3>6, <3>7, <3>8
    <2> QED BY <2>2, <2>3, <2>4 DEF Vetted
  <1> QED BY <1>1, <1>2 DEF Next

(* Whatever the ports do in whatever order, a client whose request has     *)
(* come as far as a handler is permitted what it asks for: the checks of   *)
(* Connection.cpp:166-243 cannot be passed by.                             *)
THEOREM AlwaysVetted == Spec => []Vetted
  BY InitVetted, NextVetted, PTL DEF Spec

(* Only the handlers touch the document tree.                              *)
LEMMA StepPermitted == ASSUME Vetted, Next PROVE EffectPermitted
  <1> SUFFICES ASSUME files' # files
               PROVE  \E c \in Client : /\ stage'[c] # stage[c] /\ Permitted(c)
                                       /\ request[c].method \in {"POST", "DELETE"}
    BY DEF EffectPermitted
  <1>1. PICK c \in Client : OpenUpload(c) \/ WriteUpload(c) \/ RemoveFile(c)
    BY DEF Next, Receive, Parse, MatchRoute, SearchFile, SearchProgram, RefuseUpload,
       LookForDeletion, Respond, FinishCGI
  <1>2. stage[c] \in {"handle", "write", "remove"}
    BY <1>1 DEF OpenUpload, WriteUpload, RemoveFile
  <1>3. stage'[c] # stage[c]
    BY <1>1, <1>2 DEF Vetted, OpenUpload, WriteUpload, RemoveFile, Goto
  <1> QED BY <1>2, <1>3 DEF Vetted

(* The document tree changes only for a request that the configuration     *)
(* permits (the order of the calls in Poller.cpp:272-279).                 *)
THEOREM EffectsArePermitted == Spec => EffectsPermitted
  <1>1. Vetted /\ [Next]_vars => [EffectPermitted]_vars
    BY StepPermitted
  <1> QED BY <1>1, AlwaysVetted, PTL DEF Spec, EffectsPermitted

-----------------------------------------------------------------------------
(* How a request ends.                                                     *)

Domains ==
    DOMAIN route = Client /\ DOMAIN isCGI = Client /\ DOMAIN handle = Client
       /\ DOMAIN answer = Client

\* The route that c was matched with permits its request.
Routed(c) == Matches(BlockOf(c), request[c], route[c])
Checked(c) == CheckedStatus(request[c], BlockOf(c), RouteOf(c)) = 200

\* A refusal without a route is one of the parser's or 404; with a route, it is
\* a code of the map or that of a redirect.
Explained(c) ==
    \/ route[c] = 0 /\ status[c] # 200 /\ status[c] \in {404, ParsedStatus(request[c])}
    \/ route[c] # 0 /\ status[c] \in Codes
    \/ route[c] # 0 /\ status[c] = RouteOf(c).redir /\ status[c] # NoRedirect

Outcome(c) ==
    /\ stage[c] \in {"search", "cgi", "handle", "write", "remove"} => Routed(c)
    /\ stage[c] \in {"search", "cgi", "handle"} => status[c] = 200
    /\ stage[c] \in {"search", "cgi"} => request[c].method = "GET" /\ Checked(c)
    /\ stage[c] = "respond" => Explained(c)
    /\ isCGI[c] => /\ stage[c] \in {"search", "cgi", "done"} /\ status[c] = 200
                   /\ stage[c] # "done" => request[c].name \in RouteOf(c).cgi
    /\ handle[c] # NoPath => stage[c] = "write"

Outcomes == Domains /\ \A c \in Client : Outcome(c)

\* A route that matches has a position in its block.
LEMMA MatchedPosition ==
    ASSUME NEW c \in Client, NEW i, Matches(BlockOf(c), request[c], i)
    PROVE  i # 0
<1>1. BlockOf(c).routes \in Seq(Route)
  BY BlockTyped DEF Block
<1> QED
  BY <1>1 DEF Matches

\* There is one first route.
LEMMA OneMatch ==
    ASSUME NEW c \in Client, NEW r, NEW i, NEW j,
           Matches(BlockOf(c), r, i), Matches(BlockOf(c), r, j)
    PROVE  i = j
<1>1. BlockOf(c).routes \in Seq(Route)
  BY BlockTyped DEF Block
<1>2. i \in Nat /\ j \in Nat
  BY <1>1 DEF Matches
<1> QED
  BY <1>2 DEF Matches

\* What errorChecking may answer is in the map (ErrorHandling.cpp:15-60).
LEMMA ParsedCodes ==
    ASSUME NEW r
    PROVE  ParsedStatus(r) \in {200, 400, 405, 417, 418, 505} /\ ParsedStatus(r) \in Codes
  BY NumberAssumption DEF ParsedStatus

\* What the checks of a matched route may answer (Connection.cpp:166-203).
LEMMA CheckedCodes ==
    ASSUME NEW r, NEW b, NEW t
    PROVE  \/ CheckedStatus(r, b, t) \in Codes
           \/ CheckedStatus(r, b, t) = t.redir /\ t.redir # NoRedirect
  BY NumberAssumption DEF CheckedStatus

Step(c) == \/ Receive(c) \/ Parse(c) \/ MatchRoute(c)
           \/ SearchFile(c) \/ SearchProgram(c)
           \/ OpenUpload(c) \/ RefuseUpload(c) \/ WriteUpload(c)
           \/ LookForDeletion(c) \/ RemoveFile(c) \/ Respond(c) \/ FinishCGI(c)

\* A step of one client changes of the others only what they are writing.
LEMMA OthersStay ==
    ASSUME Vetted, Domains, NEW c \in Client, Step(c)
    PROVE  /\ Domains'
           /\ \A d \in Client \ {c} :
                 /\ stage'[d] = stage[d] /\ request'[d] = request[d]
                 /\ status'[d] = status[d] /\ route'[d] = route[d]
                 /\ isCGI'[d] = isCGI[d] /\ answer'[d] = answer[d]
                 /\ handle'[d] \in {handle[d], NoPath}
<1> USE DEF Vetted, Domains, Goto, SetStatus
<1>1. CASE Receive(c) \/ Parse(c) \/ FinishCGI(c)
  BY <1>1 DEF Receive, Parse, FinishCGI
<1>2. CASE MatchRoute(c)
  BY <1>2 DEF MatchRoute
<1>3. CASE SearchFile(c) \/ SearchProgram(c)
  BY <1>3 DEF SearchFile, SearchProgram
<1>4. CASE OpenUpload(c) \/ RefuseUpload(c) \/ WriteUpload(c)
  BY <1>4 DEF OpenUpload, RefuseUpload, WriteUpload
<1>5. CASE LookForDeletion(c) \/ RemoveFile(c)
  BY <1>5 DEF LookForDeletion, RemoveFile
<1>6. CASE Respond(c)
  BY <1>6 DEF Respond
<1> QED
  BY <1>1, <1>2, <1>3, <1>4, <1>5, <1>6 DEF Step

\* What is said of a client that keeps its request, its route and its status
\* depends on nothing else.
LEMMA Unchanged ==
    ASSUME NEW c \in Client, request'[c] = request[c], route'[c] = route[c],
           status'[c] = status[c]
    PROVE  /\ Routed(c)' = Routed(c) /\ Checked(c)' = Checked(c)
           /\ Explained(c)' = Explained(c) /\ RouteOf(c)' = RouteOf(c)
  BY DEF Routed, Checked, Explained, RouteOf, BlockOf

\* _matchRoute leaves a request routed, refused, or dead (Connection.cpp:166-203).
LEMMA MatchOutcome ==
    ASSUME Vetted, Domains, NEW c \in Client, Outcome(c), MatchRoute(c)
    PROVE  Outcome(c)'
<1>1. /\ UNCHANGED <<request, isCGI, handle>> /\ stage[c] \in {"parsed", "cgi"}
      /\ BlockOf(c)' = BlockOf(c) /\ request[c] \in Requests
  BY DEF MatchRoute, BlockOf, Vetted
<1>2. handle'[c] = NoPath
  BY <1>1 DEF Outcome
<1>3. CASE status[c] # 200
  <2>1. stage[c] = "parsed" /\ status[c] = ParsedStatus(request[c]) /\ ~isCGI[c]
    BY <1>1, <1>3 DEF Outcome, Vetted
  <2>2. stage'[c] = "respond" /\ status'[c] = status[c] /\ route'[c] = route[c]
    BY <1>3 DEF MatchRoute, Goto, Vetted
  <2>3. Explained(c)
    BY <1>3, <2>1, ParsedCodes DEF Explained
  <2> QED
    BY <1>1, <1>2, <2>1, <2>2, <2>3, Unchanged DEF Outcome
<1>4. CASE status[c] = 200 /\ \A i \in DOMAIN BlockOf(c).routes : ~Matches(BlockOf(c), request[c], i)
  <2>1. stage'[c] = "respond" /\ status'[c] = 404 /\ route'[c] = route[c]
    BY <1>4 DEF MatchRoute, Goto, SetStatus, Vetted
  <2>2. ~isCGI[c]
    BY <1>1, <1>4 DEF Outcome, Routed, Matches
  <2>3. Explained(c)'
    BY <2>1, NumberAssumption DEF Explained
  <2> QED
    BY <1>1, <1>2, <2>1, <2>2, <2>3 DEF Outcome
<1>5. ASSUME NEW i \in DOMAIN BlockOf(c).routes, Matches(BlockOf(c), request[c], i),
             status[c] = 200, route'[c] = i,
             \/ /\ request[c].method = "POST" /\ ~Readable(request[c])
                /\ UNCHANGED <<stage, status>>
             \/ /\ status'[c] = CheckedStatus(request[c], BlockOf(c), BlockOf(c).routes[i])
                /\ stage'[c] = NextStage(request[c], status'[c])
      PROVE  Outcome(c)'
  <2> DEFINE t == BlockOf(c).routes[i]
             code == CheckedStatus(request[c], BlockOf(c), t)
  <2>1. Routed(c)' /\ RouteOf(c)' = t /\ route'[c] # 0
    BY <1>1, <1>5, MatchedPosition DEF Routed, RouteOf
  <2>2. isCGI[c] => /\ stage[c] = "cgi" /\ i = route[c] /\ request[c].method = "GET"
                    /\ code = 200 /\ request[c].name \in t.cgi
    <3>1. isCGI[c] => stage[c] = "cgi" /\ Routed(c) /\ Checked(c) /\ request[c].method = "GET"
                        /\ request[c].name \in RouteOf(c).cgi
      BY <1>1 DEF Outcome
    <3>2. isCGI[c] => i = route[c]
      BY <1>5, <3>1, OneMatch DEF Routed
    <3> QED
      BY <3>1, <3>2 DEF Checked, RouteOf
  <2>3. CASE request[c].method = "POST" /\ UNCHANGED <<stage, status>>
    <3>1. stage[c] = "parsed"
      BY <1>1, <2>3 DEF Outcome
    <3> QED
      BY <1>1, <1>2, <2>2, <2>3, <3>1 DEF Outcome
  <2>4. CASE status'[c] = code /\ stage'[c] = NextStage(request[c], code)
    <3>1. CASE code # 200
      <4>1. stage'[c] = "respond"
        BY <2>4, <3>1 DEF NextStage
      <4>2. Explained(c)'
        BY <2>1, <2>4, CheckedCodes DEF Explained
      <4> QED
        BY <1>1, <1>2, <2>2, <3>1, <4>1, <4>2 DEF Outcome
    <3>2. CASE code = 200
      <4>1. stage'[c] = IF request[c].method = "GET" THEN "search" ELSE "handle"
        BY <2>4, <3>2 DEF NextStage
      <4>2. Checked(c)'
        BY <1>1, <2>1, <3>2 DEF Checked
      <4> QED
        BY <1>1, <1>2, <2>1, <2>2, <2>4, <3>2, <4>1, <4>2 DEF Outcome
    <3> QED
      BY <3>1, <3>2
  <2> QED
    BY <1>5, <2>3, <2>4
<1> QED
  BY <1>3, <1>4, <1>5 DEF MatchRoute, Domains, Vetted, Goto, SetStatus

\* The other steps take a request from its route to its answer.
LEMMA OutcomeOfStep ==
    ASSUME Vetted, Domains, NEW c \in Client, Outcome(c), Step(c)
    PROVE  Outcome(c)'
<1> USE DEF Vetted, Domains, Goto, SetStatus
<1>1. CASE MatchRoute(c)
  BY <1>1, MatchOutcome
<1>2. CASE Receive(c) \/ Parse(c)
  <2>1. stage[c] \in {"away", "received"} /\ stage'[c] \in {"received", "parsed"}
        /\ UNCHANGED <<isCGI, handle>>
    BY <1>2 DEF Receive, Parse
  <2>2. ~isCGI[c] /\ handle[c] = NoPath
    BY <2>1 DEF Outcome
  <2> QED
    BY <2>1, <2>2 DEF Outcome
<1>3. CASE ~MatchRoute(c) /\ ~Receive(c) /\ ~Parse(c) /\ ~WriteUpload(c) /\ ~RemoveFile(c)
             /\ ~Respond(c) /\ ~FinishCGI(c)
  <2>1. SearchFile(c) \/ SearchProgram(c) \/ OpenUpload(c) \/ RefuseUpload(c)
           \/ LookForDeletion(c)
    BY <1>3 DEF Step
  <2>2. UNCHANGED <<request, route>> /\ stage[c] \in {"search", "handle"}
    BY <2>1 DEF SearchFile, SearchProgram, OpenUpload, RefuseUpload, LookForDeletion
  <2>3. Routed(c) /\ status[c] = 200 /\ route[c] # 0
    BY <2>2, MatchedPosition DEF Outcome, Routed
  <2>4. status'[c] \in {200, 400, 404}
    <3>1. CASE SearchFile(c) \/ SearchProgram(c)
      BY <2>3, <3>1 DEF SearchFile, SearchProgram
    <3>2. CASE OpenUpload(c) \/ RefuseUpload(c)
      BY <2>3, <3>2 DEF OpenUpload, RefuseUpload
    <3>3. CASE LookForDeletion(c)
      BY <2>3, <3>3 DEF LookForDeletion
    <3> QED
      BY <2>1, <3>1, <3>2, <3>3
  <2>5. Explained(c)'
    BY <2>2, <2>3, <2>4, NumberAssumption DEF Explained
  <2>6. CASE SearchFile(c)
    <3>1. ~isCGI[c] /\ stage'[c] = "respond" /\ UNCHANGED <<isCGI, handle>>
      BY <2>6 DEF SearchFile, IsProgram, Outcome
    <3> QED
      BY <2>2, <2>5, <3>1 DEF Outcome
  <2>10. CASE SearchProgram(c)
    <3>1. /\ stage[c] = "search" /\ stage'[c] \in {"search", "cgi"} /\ isCGI'[c]
          /\ request[c].name \in RouteOf(c).cgi /\ UNCHANGED <<status, handle>>
      BY <2>10 DEF SearchProgram, IsProgram
    <3> QED
      BY <2>2, <2>3, <3>1, Unchanged DEF Outcome
  <2>7. CASE OpenUpload(c)
    BY <2>2, <2>3, <2>5, <2>7, Unchanged DEF OpenUpload, Outcome
  <2>8. CASE RefuseUpload(c)
    BY <2>2, <2>3, <2>5, <2>8, Unchanged DEF RefuseUpload, Outcome
  <2>9. CASE LookForDeletion(c)
    BY <2>2, <2>3, <2>5, <2>9, Unchanged DEF LookForDeletion, Outcome
  <2> QED
    BY <2>1, <2>6, <2>7, <2>8, <2>9, <2>10
<1>4. CASE WriteUpload(c) \/ RemoveFile(c)
  <2>1. /\ UNCHANGED <<request, route, isCGI>> /\ stage[c] \in {"write", "remove"}
        /\ stage'[c] = "respond" /\ status'[c] \in {200, 201, 500} /\ handle'[c] = NoPath
    BY <1>4 DEF WriteUpload, RemoveFile, Outcome
  <2>2. route[c] # 0 /\ ~isCGI[c] /\ {200, 201, 500} \subseteq Codes
    BY <2>1, MatchedPosition, NumberAssumption DEF Outcome, Routed
  <2>3. Explained(c)'
    BY <2>1, <2>2 DEF Explained
  <2> QED
    BY <2>1, <2>2, <2>3 DEF Outcome
<1>5. CASE Respond(c)
  <2>1. UNCHANGED <<request, route, status, isCGI, handle>> /\ stage[c] = "respond"
        /\ stage'[c] \in {"respond", "done"}
    BY <1>5 DEF Respond
  <2> QED
    BY <2>1, Unchanged DEF Outcome
<1>6. CASE FinishCGI(c)
  <2>1. UNCHANGED <<request, route, status, isCGI, handle>> /\ stage[c] = "cgi"
        /\ stage'[c] = "done"
    BY <1>6 DEF FinishCGI
  <2> QED
    BY <2>1 DEF Outcome
<1> QED
  BY <1>1, <1>2, <1>3, <1>4, <1>5, <1>6 DEF Step

\* A step leaves what is said of every client true.
LEMMA OutcomesStep == Vetted /\ Outcomes /\ [Next]_vars => Outcomes'
<1> SUFFICES ASSUME Vetted, Outcomes, [Next]_vars PROVE Outcomes'
  OBVIOUS
<1>1. CASE UNCHANGED vars
  <2>1. \A c \in Client : Outcome(c)' = Outcome(c)
    BY <1>1, Unchanged DEF vars, Outcome
  <2> QED
    BY <1>1, <2>1 DEF vars, Outcomes, Domains
<1>2. ASSUME NEW c \in Client, Step(c) PROVE Outcomes'
  <2>1. Domains' /\ Outcome(c)'
    BY <1>2, OthersStay, OutcomeOfStep DEF Outcomes
  <2>2. ASSUME NEW d \in Client \ {c} PROVE Outcome(d)'
    <3>1. /\ stage'[d] = stage[d] /\ request'[d] = request[d] /\ status'[d] = status[d]
          /\ route'[d] = route[d] /\ isCGI'[d] = isCGI[d] /\ handle'[d] \in {handle[d], NoPath}
      BY <1>2, OthersStay DEF Outcomes
    <3> QED
      BY <3>1, Unchanged DEF Outcomes, Outcome
  <2> QED
    BY <2>1, <2>2 DEF Outcomes
<1> QED
  BY <1>1, <1>2 DEF Next, Step

\* Before a request nothing is said of it.
LEMMA OutcomesInit == Init => Outcomes
BY DEF Init, Outcomes, Outcome, Domains

\* What each stage says of the status and the route holds of every client.
THEOREM OutcomesHold == Spec => []Outcomes
  BY OutcomesInit, OutcomesStep, AlwaysVetted, PTL DEF Spec

-----------------------------------------------------------------------------
(* What may end the process.                                               *)

\* What KnownDeaths allows of one client's request.
Fatal(c) ==
    /\ request[c] # <<>>
    /\ \/ request[c].start = "noTarget"
       \/ ParsedStatus(request[c]) = 400
       \/ request[c].method = "POST" /\ ~Readable(request[c])
       \/ route[c] # 0 /\ RouteOf(c).redir \notin Codes \cup {NoRedirect}
       \/ isCGI[c] /\ spare < PipeEnds

\* A request that was received is not the empty one.
LEMMA RequestMade == ASSUME NEW r \in Requests PROVE r # <<>>
<1>1. r \in Request
  BY RequestAssumption
<1>2. DOMAIN r # {}
  BY <1>1 DEF Request
<1> QED
  BY <1>2

\* The process dies in the parser, in _matchRoute over a length that std::stoi
\* refuses, in initCGI, or in sendResponse (HandleRequest.cpp:53, CGI.cpp:182-183,
\* Connection.cpp:122-129, 233; ResponseStartLine.cpp:17).
LEMMA DeathExplained ==
    ASSUME Vetted, Outcomes, ~dead, dead', Next
    PROVE  \E c \in Client : Fatal(c)'
<1>1. PICK c \in Client : Parse(c) \/ MatchRoute(c) \/ SearchProgram(c) \/ Respond(c)
  BY DEF Next, Receive, SearchFile, OpenUpload, RefuseUpload, WriteUpload, LookForDeletion,
     RemoveFile, FinishCGI
<1>2. request[c] # <<>> /\ UNCHANGED request
  <2>1. stage[c] # "away" /\ UNCHANGED request
    BY <1>1 DEF Parse, MatchRoute, SearchProgram, Respond
  <2> QED
    BY <2>1, RequestMade DEF Vetted
<1>5. CASE Parse(c)
  <2>1. request[c].start = "noTarget"
    BY <1>5 DEF Parse
  <2> QED
    BY <1>2, <2>1 DEF Fatal
<1>6. CASE SearchProgram(c)
  <2>1. spare' < PipeEnds /\ isCGI'[c]
    BY <1>6 DEF SearchProgram, Outcomes, Domains
  <2> QED
    BY <1>2, <2>1 DEF Fatal
<1>3. CASE MatchRoute(c)
  <2>1. request[c].method = "POST" /\ ~Readable(request[c])
    BY <1>3 DEF MatchRoute
  <2> QED
    BY <1>2, <2>1 DEF Fatal
<1>4. CASE Respond(c)
  <2>0. Explained(c)
    BY <1>4 DEF Respond, Outcomes, Outcome
  <2>1. /\ UNCHANGED <<request, route, status>> /\ Explained(c)
        /\ (UsesRoute(status[c]) /\ route[c] = 0) \/ status[c] \notin Codes
    BY <1>4, <2>0 DEF Respond
  <2>2. CASE route[c] = 0
    <3>1. status[c] \in {404, ParsedStatus(request[c])} /\ status[c] # 200
      BY <2>1, <2>2 DEF Explained
    <3>2. status[c] \in Codes
      BY <3>1, ParsedCodes, NumberAssumption
    <3>3. ParsedStatus(request[c]) = 400
      BY <2>1, <3>1, <3>2, ParsedCodes DEF UsesRoute
    <3> QED
      BY <1>2, <3>3 DEF Fatal
  <2>3. CASE route[c] # 0
    <3>1. RouteOf(c).redir \notin Codes \cup {NoRedirect}
      BY <2>1, <2>3 DEF Explained
    <3>2. RouteOf(c)' = RouteOf(c)
      BY <2>1 DEF RouteOf, BlockOf
    <3> QED
      BY <1>2, <2>1, <2>3, <3>1, <3>2 DEF Fatal
  <2> QED
    BY <2>2, <2>3
<1> QED
  BY <1>1, <1>3, <1>4, <1>5, <1>6

\* Nothing happens in a process that has ended.
LEMMA DeadStays == [Next]_vars /\ dead => UNCHANGED vars
BY DEF Next, Turn, Receive, Parse, MatchRoute, SearchFile, SearchProgram, OpenUpload, RefuseUpload, WriteUpload,
   LookForDeletion, RemoveFile, Respond, FinishCGI

(* For every configuration and every order of the ports' steps, the process *)
(* ends only for a start line without a target, a malformed request that    *)
(* was refused before a route was matched, a Content-Length that is no      *)
(* number or does not fit an int, a redirect whose status has no reason     *)
(* phrase, or a CGI program that no descriptors are left for                *)
(* (HandleRequest.cpp:53, Connection.cpp:122-129 and 233,                   *)
(* ResponseStartLine.cpp:17, CGI.cpp:182-183).                              *)
THEOREM DeathsAreKnown == Spec => []KnownDeaths
<1>1. Init => KnownDeaths
  BY DEF Init, KnownDeaths
<1>2. ASSUME Vetted, Outcomes, KnownDeaths, [Next]_vars PROVE KnownDeaths'
  <2>1. CASE dead
    <3>1. UNCHANGED vars
      BY <1>2, <2>1, DeadStays
    <3> QED
      BY <1>2, <3>1 DEF vars, KnownDeaths, RouteOf, BlockOf
  <2>2. CASE ~dead /\ dead'
    <3>1. Next
      BY <1>2, <2>2 DEF vars
    <3> QED
      BY <1>2, <2>2, <3>1, DeathExplained DEF KnownDeaths, Fatal
  <2>3. CASE ~dead'
    BY <2>3 DEF KnownDeaths
  <2> QED
    BY <2>1, <2>2, <2>3
<1> QED
  BY <1>1, <1>2, AlwaysVetted, OutcomesHold, PTL DEF Spec

-----------------------------------------------------------------------------
(* A program that has been started is waited for.                          *)

\* What CGIKept says of a step.
Kept ==
    \A c \in Client : isCGI[c] =>
        /\ isCGI'[c] /\ status'[c] = 200 /\ handle'[c] = NoPath
        /\ stage[c] = "search" => stage'[c] \in {"search", "cgi"}
        /\ answer'[c] # answer[c] => stage[c] = "cgi"

\* The route of the program is matched again, and leads to the program again.
LEMMA StepKeeps ==
    ASSUME Vetted, Outcomes, Next
    PROVE  Kept
<1> SUFFICES ASSUME NEW c \in Client, isCGI[c]
             PROVE  /\ isCGI'[c] /\ status'[c] = 200 /\ handle'[c] = NoPath
                    /\ stage[c] = "search" => stage'[c] \in {"search", "cgi"}
                    /\ answer'[c] # answer[c] => stage[c] = "cgi"
  BY DEF Kept
<1>1. PICK d \in Client : Step(d)
  BY DEF Next, Step
<1>2. stage[c] \in {"search", "cgi", "done"} /\ status[c] = 200 /\ handle[c] = NoPath
  BY DEF Outcomes, Outcome
<1>3. CASE d # c
  BY <1>1, <1>2, <1>3, OthersStay DEF Outcomes
<1>4. CASE d = c
  <2>0. ~SearchFile(c)
    BY DEF SearchFile, IsProgram, Outcomes, Outcome
  <2>1. SearchProgram(c) \/ MatchRoute(c) \/ FinishCGI(c)
    BY <1>1, <1>2, <1>4, <2>0 DEF Step, Receive, Parse, OpenUpload, RefuseUpload, WriteUpload,
       LookForDeletion, RemoveFile, Respond
  <2>2. CASE SearchProgram(c)
    BY <1>2, <2>2 DEF SearchProgram, Outcomes, Domains, Vetted, Goto
  <2>3. CASE MatchRoute(c)
    <3>1. UNCHANGED <<isCGI, handle, answer>> /\ stage[c] = "cgi"
      BY <1>2, <2>3 DEF MatchRoute
    <3>2. Outcome(c)'
      BY <1>1, <1>4, OutcomeOfStep DEF Outcomes
    <3> QED
      BY <1>2, <3>1, <3>2 DEF Outcome
  <2>4. CASE FinishCGI(c)
    BY <1>2, <2>4 DEF FinishCGI
  <2> QED
    BY <2>1, <2>2, <2>3, <2>4
<1> QED
  BY <1>3, <1>4

(* Whatever else the loops do, the passes over a client whose CGI program   *)
(* runs match its route again and neither refuse nor answer it; only the    *)
(* program's end does (Poller.cpp:95-100, 272-279).                         *)
THEOREM ProgramsAreKept == Spec => CGIKept
<1>1. Vetted /\ Outcomes /\ [Next]_vars => [Kept]_vars
  BY StepKeeps
<1> QED
  BY <1>1, AlwaysVetted, OutcomesHold, PTL DEF Spec, CGIKept, Kept

-----------------------------------------------------------------------------
(* The types of the pass: paths are paths of the tree, and files hold what *)
(* clients sent.                                                           *)

Contents == Seq(Client \cup {Disk})

\* A matched route has its type, and so has what it makes of a name.
LEMMA RouteTyped ==
    ASSUME NEW c \in Client, Routed(c), request[c] \in Requests
    PROVE  /\ RouteOf(c) \in Route /\ request[c] \in Request
           /\ Upload(c) \in Path
           /\ request[c].name # NoName => Target(c) \in Path
<1>1. BlockOf(c).routes \in Seq(Route) /\ route[c] \in DOMAIN BlockOf(c).routes
  BY BlockTyped DEF Block, Routed, Matches
<1>2. RouteOf(c) \in Route
  BY <1>1 DEF RouteOf
<1>3. request[c] \in Request
  BY RequestAssumption
<1>4. RouteOf(c).upload \in Dir /\ RouteOf(c).root \in Dir
  BY <1>2 DEF Route
<1>5. request[c].name \in Name \cup {NoName}
  BY <1>3 DEF Request
<1> QED
  BY <1>2, <1>3, <1>4, <1>5, FileAssumption DEF Upload, Target, Path

\* One body over the beginning of another is a content too.
LEMMA Overwritten ==
    ASSUME NEW c \in Client, NEW n \in Nat, NEW old \in Contents
    PROVE  Overwrite(old, [i \in 1..n |-> c]) \in Contents
<1> DEFINE new == [i \in 1..n |-> c]
<1>1. new \in Contents /\ Len(new) = n
  BY DEF Contents
<1> HIDE DEF new
<1>2. SubSeq(old, n + 1, Len(old)) \in Contents
  BY DEF Contents
<1>3. \A s, t \in Contents : s \o t \in Contents
  BY DEF Contents
<1> QED
  BY <1>1, <1>2, <1>3 DEF Overwrite, new

\* What is read from a file is a content.
LEMMA PageTyped == ASSUME TypeOK, NEW p PROVE Page(p) \in Body
<1>1. NoBody \in Body
  <2>1. <<>> \in Contents
    BY DEF Contents
  <2> QED
    BY <2>1 DEF NoBody, Body, Contents
<1>2. p \in DOMAIN files => files[p] \in Contents
  BY DEF TypeOK, Contents
<1> QED
  BY <1>1, <1>2 DEF Page, Body, Contents

\* The body of an answer has its type (response/).
LEMMA BodyTyped ==
    ASSUME TypeOK, NEW c \in Client
    PROVE  BuildBody(c) \in Body /\ \A w \in {"error", "notice", "listing", "output"} :
                                       [NoBody EXCEPT !.what = w] \in Body
<1>1. NoBody \in Body
  <2>1. <<>> \in Contents
    BY DEF Contents
  <2> QED
    BY <2>1 DEF NoBody, Body, Contents
<1>2. \A w \in {"error", "notice", "listing", "output"} : [NoBody EXCEPT !.what = w] \in Body
  BY <1>1 DEF Body
<1>3. \A p : Page(p) \in Body
  BY PageTyped
<1>4. Listing \in Body
  BY <1>1, <1>2 DEF Listing
<1> QED
  BY <1>1, <1>2, <1>3, <1>4 DEF BuildBody

\* The types hold at the start.
LEMMA TypeInit == Init => TypeOK
<1> SUFFICES ASSUME Init PROVE TypeOK
  OBVIOUS
<1>1. <<>> \in Contents /\ <<Disk>> \in Contents
  <2>1. \A S : <<>> \in Seq(S) /\ \A x \in S : <<x>> \in Seq(S)
    OBVIOUS
  <2> QED
    BY <2>1 DEF Contents
<1>2. NoAnswer \in Answer
  BY <1>1 DEF NoAnswer, NoBody, Answer, Body, Contents
<1>3. DOMAIN files \subseteq Path /\ \A p \in DOMAIN files : files[p] \in Contents
  BY <1>1, FileAssumption DEF Init
<1>4. /\ stage \in [Client -> Stages] /\ \A c \in Client : stage[c] = "away"
      /\ dead \in BOOLEAN
  BY DEF Init, Stages, Resting
<1>7. spare \in Nat
  BY NumberAssumption DEF Init
<1>5. /\ status \in [Client -> Nat] /\ route \in [Client -> Nat]
      /\ isCGI \in [Client -> BOOLEAN] /\ handle \in [Client -> Path \cup {NoPath}]
  BY DEF Init
<1>6. answer \in [Client -> Answer]
  BY <1>2 DEF Init
<1> QED
  BY <1>3, <1>4, <1>5, <1>6, <1>7 DEF TypeOK, Contents

\* Only the handlers change the tree, and they keep it one.
LEMMA TreeTyped ==
    ASSUME TypeOK, Vetted, Outcomes, NEW c \in Client, Step(c)
    PROVE  /\ DOMAIN files' \subseteq Path /\ \A p \in DOMAIN files' : files'[p] \in Contents
           /\ handle' \in [Client -> Path \cup {NoPath}]
<1>0. /\ DOMAIN files \subseteq Path /\ \A p \in DOMAIN files : files[p] \in Contents
      /\ handle \in [Client -> Path \cup {NoPath}]
  BY DEF TypeOK, Contents
<1>1. CASE OpenUpload(c)
  <2>1. Upload(c) \in Path
    BY <1>1, RouteTyped DEF OpenUpload, Outcomes, Outcome, Vetted
  <2>2. <<>> \in Contents
    BY DEF Contents
  <2> QED
    BY <1>0, <1>1, <2>1, <2>2 DEF OpenUpload
<1>2. CASE WriteUpload(c)
  <2>1. request[c] \in Request
    BY <1>2, RequestAssumption DEF WriteUpload, Vetted
  <2>2. request[c].body \in Nat
    BY <2>1, NumberAssumption DEF Request
  <2>3. \A old \in Contents : Overwrite(old, [i \in 1..request[c].body |-> c]) \in Contents
    BY <2>2, Overwritten
  <2> QED
    BY <1>0, <1>2, <2>3 DEF WriteUpload
<1>3. CASE RemoveFile(c)
  BY <1>0, <1>3 DEF RemoveFile
<1>4. CASE UNCHANGED <<files, handle>>
  BY <1>0, <1>4
<1> QED
  BY <1>1, <1>2, <1>3, <1>4
  DEF Step, Receive, Parse, MatchRoute, SearchFile, SearchProgram, RefuseUpload, LookForDeletion, Respond, FinishCGI

\* Every status is a code (StatusCodes.hpp), and every route a position.
LEMMA StatusTyped ==
    ASSUME TypeOK, Vetted, NEW c \in Client, Step(c)
    PROVE  status' \in [Client -> Nat] /\ route' \in [Client -> Nat]
<1>0. status \in [Client -> Nat] /\ route \in [Client -> Nat]
  BY DEF TypeOK
<1>1. CASE MatchRoute(c)
  <2>1. BlockOf(c).routes \in Seq(Route)
    BY BlockTyped DEF Block
  <2>2. ASSUME NEW i \in DOMAIN BlockOf(c).routes
        PROVE  /\ i \in Nat
               /\ CheckedStatus(request[c], BlockOf(c), BlockOf(c).routes[i]) \in Nat
    <3>1. i \in Nat /\ BlockOf(c).routes[i] \in Route
      BY <2>1
    <3>2. BlockOf(c).routes[i].redir \in Nat \cup {NoRedirect}
      BY <3>1 DEF Route
    <3> DEFINE code == CheckedStatus(request[c], BlockOf(c), BlockOf(c).routes[i])
    <3>3. \/ code \in Codes
          \/ code = BlockOf(c).routes[i].redir /\ code # NoRedirect
      BY CheckedCodes
    <3> HIDE DEF code
    <3>4. Codes \subseteq Nat
      BY NumberAssumption
    <3>5. code \in Nat
      BY <3>2, <3>3, <3>4, Zenon
    <3> QED
      BY <3>1, <3>5 DEF code
  <2> QED
    BY <1>0, <1>1, <2>2 DEF MatchRoute, SetStatus
<1>2. CASE Parse(c)
  <2>1. ParsedStatus(request[c]) \in Nat
    BY ParsedCodes, NumberAssumption
  <2> QED
    BY <1>0, <1>2, <2>1 DEF Parse, SetStatus
<1> QED
  BY <1>0, <1>1, <1>2
  DEF Step, Receive, SearchFile, SearchProgram, OpenUpload, RefuseUpload, WriteUpload, LookForDeletion, RemoveFile,
      Respond, FinishCGI, SetStatus

\* Every answer is a status and a body.
LEMMA AnswerTyped ==
    ASSUME TypeOK, NEW c \in Client, Step(c)
    PROVE  answer' \in [Client -> Answer]
<1>0. answer \in [Client -> Answer] /\ status[c] \in Nat
  BY DEF TypeOK
<1>1. CASE Respond(c)
  <2>1. [status |-> status[c], body |-> BuildBody(c)] \in Answer
    BY <1>0, BodyTyped DEF Answer
  <2> QED
    BY <1>0, <1>1, <2>1 DEF Respond
<1>2. CASE FinishCGI(c)
  <2>1. \A code \in {200, 500} :
           [status |-> code, body |-> [NoBody EXCEPT !.what = IF code = 200 THEN "output"
                                                              ELSE "error"]] \in Answer
    BY BodyTyped DEF Answer
  <2> QED
    BY <1>0, <1>2, <2>1 DEF FinishCGI
<1>3. CASE UNCHANGED answer
  BY <1>0, <1>3
<1> QED
  BY <1>1, <1>2, <1>3
  DEF Step, Receive, Parse, MatchRoute, SearchFile, SearchProgram, OpenUpload, RefuseUpload, WriteUpload,
      LookForDeletion, RemoveFile

\* A step keeps the types, one variable after the other.
LEMMA TypeStep == Vetted /\ Vetted' /\ Outcomes /\ TypeOK /\ [Next]_vars => TypeOK'
<1> SUFFICES ASSUME Vetted, Vetted', Outcomes, TypeOK, [Next]_vars PROVE TypeOK'
  OBVIOUS
<1>1. CASE UNCHANGED vars
  BY <1>1 DEF vars, TypeOK
<1>2. ASSUME NEW c \in Client, Step(c) PROVE TypeOK'
  <2>1. isCGI' \in [Client -> BOOLEAN] /\ dead' \in BOOLEAN
    <3>1. isCGI \in [Client -> BOOLEAN] /\ dead \in BOOLEAN
      BY DEF TypeOK
    <3>2. UNCHANGED isCGI \/ isCGI' = [isCGI EXCEPT ![c] = TRUE]
      BY <1>2, Zenon DEF Step, Receive, Parse, MatchRoute, SearchFile, SearchProgram, OpenUpload, RefuseUpload,
         WriteUpload, LookForDeletion, RemoveFile, Respond, FinishCGI
    <3>3. UNCHANGED dead \/ dead' = TRUE
      BY <1>2, Zenon DEF Step, Receive, Parse, MatchRoute, SearchFile, SearchProgram, OpenUpload, RefuseUpload,
         WriteUpload, LookForDeletion, RemoveFile, Respond, FinishCGI
    <3> QED
      BY <3>1, <3>2, <3>3
  <2>2. spare' \in Nat
    <3>1. \/ UNCHANGED spare
          \/ spare > 0 /\ spare' = spare - 1
          \/ spare >= PipeEnds /\ spare' = spare - PipeEnds
          \/ spare' = spare + 1
      BY <1>2, Zenon DEF Step, Receive, Parse, MatchRoute, SearchFile, SearchProgram, OpenUpload,
         RefuseUpload, WriteUpload, LookForDeletion, RemoveFile, Respond, FinishCGI, Writable
    <3>2. spare \in Nat
      BY DEF TypeOK
    <3> QED
      BY <3>1, <3>2 DEF PipeEnds
  <2> QED
    BY <1>2, <2>1, <2>2, TreeTyped, StatusTyped, AnswerTyped DEF TypeOK, Vetted, Contents
<1> QED
  BY <1>1, <1>2 DEF Next, Step

\* The variables of the pass have their types, whatever the configuration.
THEOREM TypeCorrect == Spec => []TypeOK
  BY TypeInit, TypeStep, AlwaysVetted, OutcomesHold, PTL DEF Spec

-----------------------------------------------------------------------------
(* What each stage says of the document tree. A thread has one client in   *)
(* hand, so the clients of one port do not meet in it.                     *)

Exclusive ==
    \A c, d \in Client : PortOf[c] = PortOf[d] /\ stage[c] \notin Resting
                            /\ stage[d] \notin Resting => c = d

Handles(c) ==
    /\ stage[c] = "away" => request[c] = <<>>
    /\ stage[c] \in {"away", "received", "remove"} => status[c] = 200
    /\ stage[c] = "write" => request[c].method = "POST"
    /\ stage[c] = "remove" => request[c].method = "DELETE" /\ request[c].name # NoName
    /\ handle[c] # NoPath => handle[c] = Upload(c) /\ handle[c] \in DOMAIN files
    /\ answer[c].status = 200 => stage[c] = "done" /\ status[c] = 200

Handling == Exclusive /\ \A c \in Client : Handles(c)

\* A file that only one port has stored to is being written, from its
\* beginning, or is whole.
Shared(p) == \E c, d \in Opened(p) : PortOf[c] # PortOf[d]
Tidy(p) ==
    \/ Shared(p)
    \/ \E c \in Client : handle[c] = p /\ files[p] = <<>>
    \/ Whole(p) /\ \A c \in Client : handle[c] # p
Stored == \A p \in DOMAIN files : Tidy(p)

\* The deletions that succeeded, answered or not.
Removed(p) == {c \in Client : /\ request[c] # <<>> /\ request[c].method = "DELETE"
                              /\ stage[c] \in {"respond", "done"} /\ status[c] = 200
                              /\ Target(c) = p}
One(b) == IF b THEN 1 ELSE 0
Counted ==
    \A p \in Path : Cardinality(Removed(p)) + One(p \in DOMAIN files)
                       =< Cardinality(Opened(p)) + One(p \in Documents)

\* A client that takes a step has its port to itself.
LEMMA Alone ==
    ASSUME Exclusive, NEW c \in Client, Step(c)
    PROVE  \A d \in Client \ {c} : PortOf[d] = PortOf[c] => stage[d] \in Resting
<1>1. CASE Turn(c)
  BY <1>1 DEF Turn
<1>2. CASE ~Turn(c)
  <2>1. stage[c] \notin Resting
    BY <1>2 DEF Step, Receive, Parse, MatchRoute, SearchFile, SearchProgram, OpenUpload, RefuseUpload, WriteUpload,
       LookForDeletion, RemoveFile, Respond, FinishCGI, Resting
  <2> QED
    BY <2>1 DEF Exclusive
<1> QED
  BY <1>1, <1>2

\* A step leaves at most one client of a port between request and answer.
LEMMA ExclusiveStep ==
    ASSUME Vetted, Domains, Exclusive, NEW c \in Client, Step(c)
    PROVE  Exclusive'
<1>1. \A d \in Client \ {c} : stage'[d] = stage[d]
  BY OthersStay
<1>2. \A d \in Client \ {c} : PortOf[d] = PortOf[c] => stage[d] \in Resting
  BY Alone
<1> QED
  BY <1>1, <1>2 DEF Exclusive

\* What a step leaves in the tree of the files that others are writing.
LEMMA OtherFiles ==
    ASSUME Vetted, Outcomes, Handling, NEW c \in Client, Step(c), NEW d \in Client \ {c},
           handle'[d] # NoPath
    PROVE  handle'[d] = handle[d] /\ (handle[d] \in DOMAIN files => handle[d] \in DOMAIN files')
<1>1. handle'[d] = handle[d]
  BY OthersStay DEF Outcomes
<1>2. CASE RemoveFile(c)
  BY <1>1, <1>2 DEF RemoveFile
<1>3. CASE OpenUpload(c) \/ WriteUpload(c)
  BY <1>1, <1>3 DEF OpenUpload, WriteUpload
<1>4. CASE UNCHANGED files
  BY <1>1, <1>4
<1> QED
  BY <1>2, <1>3, <1>4
  DEF Step, Receive, Parse, MatchRoute, SearchFile, SearchProgram, RefuseUpload, LookForDeletion, Respond, FinishCGI

\* The step's own client.
LEMMA HandlesStep ==
    ASSUME Vetted, Vetted', TypeOK, Outcomes, Handling, NEW c \in Client, Step(c)
    PROVE  Handles(c)'
<1> USE DEF Vetted, Domains, Goto, SetStatus
<1>0. Outcome(c) /\ Handles(c) /\ Domains
  BY DEF Outcomes, Handling
<1>1. CASE Receive(c) \/ Parse(c)
  BY <1>0, <1>1 DEF Receive, Parse, Handles, Outcome
<1>2. CASE MatchRoute(c)
  <2>1. /\ UNCHANGED <<request, handle, answer>> /\ stage[c] \in {"parsed", "cgi"}
        /\ stage'[c] \in {stage[c], "respond", "search", "handle"}
    BY <1>2 DEF MatchRoute, NextStage
  <2>2. handle[c] = NoPath /\ answer[c].status # 200
    BY <1>0, <2>1 DEF Outcome, Handles
  <2> QED
    BY <2>1, <2>2 DEF Handles
<1>3. CASE SearchFile(c) \/ SearchProgram(c)
  BY <1>0, <1>3 DEF SearchFile, SearchProgram, Handles, Outcome
<1>4. CASE OpenUpload(c)
  <2>1. Upload(c)' = Upload(c)
    BY <1>4 DEF OpenUpload, Upload, RouteOf, BlockOf
  <2> QED
    BY <1>0, <1>4, <2>1 DEF OpenUpload, Handles, Outcome
<1>5. CASE RefuseUpload(c) \/ LookForDeletion(c)
  BY <1>0, <1>5 DEF RefuseUpload, LookForDeletion, Handles, Outcome
<1>6. CASE WriteUpload(c)
  BY <1>0, <1>6 DEF WriteUpload, Handles, Outcome
<1>7. CASE RemoveFile(c)
  BY <1>0, <1>7 DEF RemoveFile, Handles, Outcome
<1>8. CASE Respond(c)
  <2>1. /\ UNCHANGED <<request, status, handle>> /\ stage[c] = "respond"
        /\ \/ stage'[c] = "done" /\ UNCHANGED answer
           \/ stage'[c] = "done"
              /\ answer'[c] = [status |-> status[c], body |-> BuildBody(c)]
           \/ UNCHANGED <<stage, answer>>
    BY <1>8 DEF Respond, TypeOK
  <2>2. handle[c] = NoPath /\ answer[c].status # 200
    BY <1>0, <2>1 DEF Outcome, Handles
  <2> QED
    BY <2>1, <2>2 DEF Handles
<1>9. CASE FinishCGI(c)
  <2>1. UNCHANGED <<request, status, handle>> /\ stage[c] = "cgi" /\ stage'[c] = "done"
    BY <1>9 DEF FinishCGI
  <2> QED
    BY <1>0, <2>1 DEF Outcome, Handles
<1> QED
  BY <1>1, <1>2, <1>3, <1>4, <1>5, <1>6, <1>7, <1>8, <1>9 DEF Step

\* A step leaves what is said of every client's file true.
LEMMA HandlingStep ==
    Vetted /\ Vetted' /\ TypeOK /\ Outcomes /\ Handling /\ [Next]_vars => Handling'
<1> SUFFICES ASSUME Vetted, Vetted', TypeOK, Outcomes, Handling, [Next]_vars PROVE Handling'
  OBVIOUS
<1>1. CASE UNCHANGED vars
  <2>1. Exclusive'
    BY <1>1 DEF vars, Handling, Exclusive
  <2>2. \A c \in Client : Handles(c)'
    BY <1>1 DEF vars, Handling, Handles, Upload, RouteOf, BlockOf
  <2> QED
    BY <2>1, <2>2 DEF Handling
<1>2. ASSUME NEW c \in Client, Step(c) PROVE Handling'
  <2>1. Exclusive' /\ Handles(c)'
    BY <1>2, ExclusiveStep, HandlesStep DEF Handling, Outcomes
  <2>2. ASSUME NEW d \in Client \ {c} PROVE Handles(d)'
    <3>1. /\ stage'[d] = stage[d] /\ request'[d] = request[d] /\ status'[d] = status[d]
          /\ route'[d] = route[d] /\ answer'[d] = answer[d]
      BY <1>2, OthersStay DEF Outcomes
    <3>2. Upload(d)' = Upload(d)
      BY <3>1 DEF Upload, RouteOf, BlockOf
    <3>3. handle'[d] # NoPath =>
             handle'[d] = handle[d] /\ (handle[d] \in DOMAIN files => handle[d] \in DOMAIN files')
      BY <1>2, OtherFiles
    <3> QED
      BY <3>1, <3>2, <3>3 DEF Handling, Handles
  <2> QED
    BY <2>1, <2>2 DEF Handling
<1> QED
  BY <1>1, <1>2 DEF Next, Step

\* Nobody has a file open at the start.
LEMMA HandlingInit == Init => Handling
BY DEF Init, Handling, Exclusive, Handles, Resting, NoAnswer

\* One client of a port at a time has come between its request and its answer.
THEOREM HandlingHolds == Spec => []Handling
  BY HandlingInit, HandlingStep, AlwaysVetted, OutcomesHold, TypeCorrect, PTL DEF Spec

-----------------------------------------------------------------------------
(* What is stored is whole.                                                *)

\* An upload that has been opened stays one.
LEMMA OpenedGrows ==
    ASSUME Vetted, Outcomes, Handling, NEW c \in Client, Step(c), NEW p
    PROVE  Opened(p) \subseteq Opened(p)'
<1> SUFFICES ASSUME NEW d \in Opened(p) PROVE d \in Opened(p)'
  OBVIOUS
<1>1. d \in Client /\ request[d].method = "POST" /\ Upload(d) = p /\ request[d] # <<>>
      /\ (stage[d] = "write" \/ status[d] = 201)
  BY DEF Opened
<1>2. CASE d # c
  <2>1. /\ stage'[d] = stage[d] /\ request'[d] = request[d]
        /\ status'[d] = status[d] /\ route'[d] = route[d]
    BY <1>1, <1>2, OthersStay DEF Outcomes
  <2>2. Upload(d)' = Upload(d)
    BY <2>1 DEF Upload, RouteOf, BlockOf
  <2> QED
    BY <1>1, <2>1, <2>2 DEF Opened
<1>3. CASE d = c
  <2>1. Outcome(c) /\ Handles(c)
    BY DEF Outcomes, Handling
  <2>2. stage[c] # "parsed" \/ status[c] # 201
    BY ParsedCodes DEF Vetted
  <2>3. WriteUpload(c) \/ Respond(c)
    BY <1>1, <1>3, <2>1, <2>2 DEF Step, Handles, Outcome, Receive, Parse, MatchRoute, SearchFile, SearchProgram,
       OpenUpload, RefuseUpload, LookForDeletion, RemoveFile, FinishCGI
  <2>4. UNCHANGED <<request, route>> /\ (status'[c] = 201)
    <3>1. CASE WriteUpload(c)
      BY <3>1 DEF WriteUpload, SetStatus, Vetted
    <3>2. CASE Respond(c)
      BY <1>1, <1>3, <3>2 DEF Respond
    <3> QED
      BY <2>3, <3>1, <3>2
  <2>5. Upload(c)' = Upload(c)
    BY <2>4 DEF Upload, RouteOf, BlockOf
  <2> QED
    BY <1>1, <1>3, <2>4, <2>5 DEF Opened
<1> QED
  BY <1>2, <1>3

\* A file of several ports remains one.
LEMMA SharedStays ==
    ASSUME Vetted, Outcomes, Handling, NEW c \in Client, Step(c), NEW p, Shared(p)
    PROVE  Shared(p)'
  BY OpenedGrows DEF Shared

\* A file that a step leaves alone stays whole.
LEMMA WholeStays ==
    ASSUME Vetted, Outcomes, Handling, NEW c \in Client, Step(c), NEW p, Whole(p),
           files'[p] = files[p]
    PROVE  Whole(p)'
<1>1. ASSUME NEW d \in Client, request[d] # <<>> PROVE request'[d] = request[d]
  <2>1. CASE d # c
    BY <2>1, OthersStay DEF Outcomes
  <2>2. CASE d = c
    <3>1. ~Receive(c)
      BY <1>1, <2>2 DEF Receive, Handling, Handles
    <3> QED
      BY <2>2, <3>1 DEF Step, Parse, MatchRoute, SearchFile, SearchProgram, OpenUpload, RefuseUpload, WriteUpload,
         LookForDeletion, RemoveFile, Respond, FinishCGI
  <2> QED
    BY <2>1, <2>2
<1>2. CASE files[p] = <<Disk>>
  BY <1>2 DEF Whole
<1>3. ASSUME NEW d \in Client, request[d] # <<>>, files[p] = [i \in 1..request[d].body |-> d]
      PROVE  Whole(p)'
  BY <1>1, <1>3 DEF Whole
<1> QED
  BY <1>2, <1>3 DEF Whole

\* What is written over nothing is what was written.
LEMMA WrittenFresh ==
    ASSUME NEW c \in Client, NEW n \in Nat
    PROVE  Overwrite(<<>>, [i \in 1..n |-> c]) = [i \in 1..n |-> c]
<1> DEFINE new == [i \in 1..n |-> c]
<1>1. new \in Seq(Client) /\ Len(new) = n
  OBVIOUS
<1> HIDE DEF new
<1>2. SubSeq(<<>>, n + 1, 0) = <<>>
  BY SMT
<1>3. new \o <<>> = new
  BY <1>1
<1> QED
  BY <1>1, <1>2, <1>3 DEF Overwrite, new

\* A body that one port alone stores to a file is stored from its beginning
\* (PostHandler.cpp:23-27).
LEMMA WriteTidy ==
    ASSUME Vetted, TypeOK, Outcomes, Handling, Stored, NEW c \in Client, WriteUpload(c),
           NEW p \in DOMAIN files'
    PROVE  Tidy(p)'
<1>1. /\ Step(c) /\ request[c] \in Requests /\ request[c] # <<>> /\ stage[c] = "write"
      /\ UNCHANGED request /\ request[c].body \in Nat
  <2>1. request[c] \in Requests /\ stage[c] = "write" /\ UNCHANGED request
    BY DEF WriteUpload, Vetted
  <2>2. request[c] \in Request
    BY <2>1, RequestAssumption
  <2> QED
    BY <2>1, <2>2, RequestMade, NumberAssumption DEF Step, Request
<1>2. handle'[c] = NoPath /\ p # NoPath /\ DOMAIN files' = DOMAIN files
      /\ \A d \in Client \ {c} : handle'[d] = handle[d]
  <2>1. handle' = [handle EXCEPT ![c] = NoPath] /\ DOMAIN files' = DOMAIN files
    BY DEF WriteUpload
  <2>2. handle \in [Client -> Path \cup {NoPath}] /\ DOMAIN files \subseteq Path
    BY DEF TypeOK
  <2>3. NoPath \notin Path
    BY DEF NoPath, Path
  <2> QED
    BY <2>1, <2>2, <2>3
<1>3. CASE Shared(p)
  BY <1>1, <1>3, SharedStays DEF Tidy
<1>4. CASE ~Shared(p) /\ handle[c] = p
  <2>1. Upload(c) = p
    BY <1>2, <1>4 DEF Handling, Handles
  <2>2. ASSUME NEW d \in Client, handle[d] = p PROVE d = c
    <3>1. Upload(d) = p /\ stage[d] = "write" /\ request[d].method = "POST"
      BY <1>2, <2>2 DEF Handling, Handles, Outcomes, Outcome
    <3>2. request[d] # <<>>
      BY <3>1, RequestMade DEF Vetted
    <3>3. d \in Opened(p) /\ c \in Opened(p)
      BY <1>1, <2>1, <3>1, <3>2 DEF Opened, Handling, Handles
    <3>4. PortOf[d] = PortOf[c]
      BY <1>4, <3>3 DEF Shared
    <3> QED
      BY <1>1, <3>1, <3>4 DEF Handling, Exclusive, Resting
  <2>3. files[p] = <<>>
    BY <1>2, <1>4, <2>2 DEF Stored, Tidy
  <2>4. files'[p] = Overwrite(files[p], [i \in 1..request[c].body |-> c])
    BY <1>2, <1>4 DEF WriteUpload
  <2>5. files'[p] = [i \in 1..request[c].body |-> c]
    BY <1>1, <2>3, <2>4, WrittenFresh
  <2>6. Whole(p)'
    BY <1>1, <2>5 DEF Whole
  <2>7. \A d \in Client : handle'[d] # p
    BY <1>2, <2>2
  <2> QED
    BY <2>6, <2>7 DEF Tidy
<1>5. CASE ~Shared(p) /\ handle[c] # p
  <2>1. files'[p] = files[p]
    BY <1>2, <1>5 DEF WriteUpload
  <2>2. CASE Whole(p) /\ \A d \in Client : handle[d] # p
    BY <1>1, <1>2, <2>1, <2>2, WholeStays DEF Tidy
  <2>3. CASE \E d \in Client : handle[d] = p /\ files[p] = <<>>
    <3>1. PICK d \in Client : handle[d] = p /\ files[p] = <<>>
      BY <2>3
    <3>2. handle'[d] = p /\ files'[p] = <<>>
      BY <1>2, <1>5, <2>1, <3>1
    <3> QED
      BY <3>2 DEF Tidy
  <2> QED
    BY <1>2, <1>5, <2>2, <2>3 DEF Stored, Tidy
<1> QED
  BY <1>3, <1>4, <1>5

\* A step leaves every file of one port empty and being written, or whole.
LEMMA StoredStep ==
    Vetted /\ TypeOK /\ Outcomes /\ Handling /\ Stored /\ [Next]_vars => Stored'
<1> SUFFICES ASSUME Vetted, TypeOK, Outcomes, Handling, Stored, [Next]_vars,
                    NEW p \in DOMAIN files'
             PROVE  Tidy(p)'
  BY DEF Stored
<1>0. NoPath \notin Path /\ DOMAIN files \subseteq Path
      /\ handle \in [Client -> Path \cup {NoPath}]
  BY DEF TypeOK, NoPath, Path
<1>1. CASE UNCHANGED vars
  <2>1. Tidy(p)
    BY <1>1 DEF vars, Stored
  <2> QED
    <3>1. Opened(p)' = Opened(p) /\ Whole(p)' = Whole(p)
      BY <1>1 DEF vars, Opened, Upload, RouteOf, BlockOf, Whole
    <3>2. Shared(p)' = Shared(p)
      BY <3>1 DEF Shared
    <3> QED
      BY <1>1, <2>1, <3>1, <3>2 DEF vars, Tidy
<1>2. ASSUME NEW c \in Client, Step(c), UNCHANGED <<files, handle>> PROVE Tidy(p)'
  <2>1. Tidy(p)
    BY <1>2 DEF Stored
  <2> QED
    BY <1>2, <2>1, SharedStays, WholeStays DEF Tidy
<1>3. ASSUME NEW c \in Client, OpenUpload(c) PROVE Tidy(p)'
  <2>1. Step(c) /\ handle[c] = NoPath
    BY <1>3 DEF Step, OpenUpload, Outcomes, Outcome
  <2>2. CASE p = Upload(c)
    <3>1. handle'[c] = p /\ files'[p] = <<>>
      BY <1>0, <1>3, <2>2 DEF OpenUpload
    <3> QED
      BY <3>1 DEF Tidy
  <2>3. CASE p # Upload(c)
    <3>1. p \in DOMAIN files /\ files'[p] = files[p] /\ p # NoPath
      BY <1>0, <1>3, <2>3 DEF OpenUpload
    <3>2. \A d \in Client : handle'[d] = p <=> handle[d] = p
      BY <1>0, <1>3, <2>1, <2>3, <3>1 DEF OpenUpload
    <3> QED
      BY <2>1, <3>1, <3>2, SharedStays, WholeStays DEF Stored, Tidy
  <2> QED
    BY <2>2, <2>3
<1>4. ASSUME NEW c \in Client, RemoveFile(c) PROVE Tidy(p)'
  <2>1. Step(c) /\ p \in DOMAIN files /\ files'[p] = files[p] /\ p # Target(c) /\ p # NoPath
    BY <1>0, <1>4 DEF Step, RemoveFile
  <2>2. \A d \in Client : handle'[d] = p <=> handle[d] = p
    BY <1>4, <2>1 DEF RemoveFile
  <2> QED
    BY <2>1, <2>2, SharedStays, WholeStays DEF Stored, Tidy
<1>5. ASSUME NEW c \in Client, WriteUpload(c) PROVE Tidy(p)'
  BY <1>5, WriteTidy
<1>6. ASSUME NEW c \in Client, Step(c)
      PROVE  OpenUpload(c) \/ RemoveFile(c) \/ WriteUpload(c) \/ UNCHANGED <<files, handle>>
  BY <1>6 DEF Step, Receive, Parse, MatchRoute, SearchFile, SearchProgram, RefuseUpload, LookForDeletion, Respond,
     FinishCGI
<1>7. UNCHANGED vars \/ \E c \in Client : Step(c)
  BY DEF Next, Step
<1> QED
  BY <1>1, <1>2, <1>3, <1>4, <1>5, <1>6, <1>7

(* A file that only one port stores to holds one request's whole body, once *)
(* it has been written, whatever was there before (PostHandler.cpp:23-27).  *)
THEOREM StoresWhole == Spec => []StoredWhole
<1>1. ASSUME Init PROVE Stored
  <2> SUFFICES ASSUME NEW p \in DOMAIN files PROVE Tidy(p)
    BY DEF Stored
  <2>0. DOMAIN files = Documents /\ files[p] = <<Disk>>
    BY <1>1 DEF Init
  <2>1. p \in Path /\ p # NoPath /\ files[p] = <<Disk>>
    BY <2>0, FileAssumption DEF NoPath, Path
  <2>2. \A c \in Client : handle[c] # p
    BY <1>1, <2>1 DEF Init
  <2> QED
    BY <2>1, <2>2 DEF Tidy, Whole
<1>2. Stored => StoredWhole
  BY DEF Stored, Tidy, Shared, StoredWhole
<1> QED
  BY <1>1, <1>2, StoredStep, AlwaysVetted, OutcomesHold, TypeCorrect, HandlingHolds, PTL DEF Spec

-----------------------------------------------------------------------------
(* Deletions are counted.                                                  *)

\* Sets of clients are finite, and grow by one client at a time.
LEMMA Sizes ==
    ASSUME NEW S \in SUBSET Client
    PROVE  /\ IsFiniteSet(S) /\ Cardinality(S) \in Nat
           /\ \A T \in SUBSET S : Cardinality(T) =< Cardinality(S)
           /\ \A c \in Client \ S : Cardinality(S \cup {c}) = Cardinality(S) + 1
  BY ClientAssumption, FS_Subset, FS_CardinalityType, FS_AddElement

\* A deletion succeeds where the file was found and removed.
LEMMA RemovedStep ==
    ASSUME Vetted, TypeOK, Outcomes, Handling, NEW c \in Client, Step(c), NEW p
    PROVE  \/ Removed(p)' \subseteq Removed(p)
           \/ /\ RemoveFile(c) /\ p = Target(c) /\ p \in DOMAIN files
              /\ c \notin Removed(p) /\ Removed(p)' \subseteq Removed(p) \cup {c}
<1>1. \A d \in Client \ {c} : d \in Removed(p)' => d \in Removed(p)
  <2>1. ASSUME NEW d \in Client \ {c}
        PROVE  /\ stage'[d] = stage[d] /\ request'[d] = request[d] /\ status'[d] = status[d]
               /\ Target(d)' = Target(d)
    <3>1. /\ stage'[d] = stage[d] /\ request'[d] = request[d] /\ status'[d] = status[d]
          /\ route'[d] = route[d]
      BY OthersStay DEF Outcomes
    <3> QED
      BY <3>1 DEF Target, RouteOf, BlockOf
  <2> QED
    BY <2>1 DEF Removed
<1>2. ASSUME c \in Removed(p)', c \notin Removed(p)
      PROVE  RemoveFile(c) /\ p = Target(c) /\ p \in DOMAIN files
  <2>1. /\ stage'[c] \in {"respond", "done"} /\ status'[c] = 200
        /\ request'[c].method = "DELETE" /\ Target(c)' = p /\ request'[c] # <<>>
    BY <1>2 DEF Removed
  <2>2. Outcome(c) /\ Domains
    BY DEF Outcomes
  <2>3. CASE RemoveFile(c)
    <3>1. Target(c) \in DOMAIN files
      BY <2>1, <2>3 DEF RemoveFile, SetStatus, Vetted
    <3>2. Target(c)' = Target(c)
      BY <2>3 DEF RemoveFile, Target, RouteOf, BlockOf
    <3> QED
      BY <2>1, <2>3, <3>1, <3>2
  <2>4. CASE Respond(c)
    <3>1. UNCHANGED <<request, route, status>> /\ stage[c] = "respond"
      BY <2>4 DEF Respond
    <3>2. Target(c)' = Target(c)
      BY <3>1 DEF Target, RouteOf, BlockOf
    <3> QED
      BY <1>2, <2>1, <3>1, <3>2 DEF Removed
  <2>5. CASE MatchRoute(c)
    BY <2>1, <2>5 DEF MatchRoute, NextStage, Goto, SetStatus, Vetted
  <2>6. CASE SearchFile(c) \/ SearchProgram(c) \/ FinishCGI(c)
    BY <2>1, <2>2, <2>6 DEF SearchFile, SearchProgram, FinishCGI, Outcome
  <2>7. CASE OpenUpload(c) \/ RefuseUpload(c) \/ LookForDeletion(c) \/ Receive(c) \/ Parse(c)
    BY <2>1, <2>7 DEF OpenUpload, RefuseUpload, LookForDeletion, Receive, Parse, Goto, SetStatus,
       Vetted
  <2>8. CASE WriteUpload(c)
    BY <2>1, <2>8 DEF WriteUpload, SetStatus, Vetted
  <2> QED
    BY <2>3, <2>4, <2>5, <2>6, <2>7, <2>8 DEF Step
<1> QED
  BY <1>1, <1>2 DEF Removed

\* A file comes into the tree with an upload, and leaves it with a deletion.
LEMMA CountedStep ==
    Vetted /\ TypeOK /\ Outcomes /\ Handling /\ Counted /\ [Next]_vars => Counted'
<1> SUFFICES ASSUME Vetted, TypeOK, Outcomes, Handling, Counted, [Next]_vars, NEW p \in Path
             PROVE  Cardinality(Removed(p)') + One(p \in DOMAIN files')
                       =< Cardinality(Opened(p)') + One(p \in Documents)
  BY DEF Counted
<1>0. /\ Removed(p) \in SUBSET Client /\ Opened(p) \in SUBSET Client
      /\ Removed(p)' \in SUBSET Client /\ Opened(p)' \in SUBSET Client
      /\ Cardinality(Removed(p)) + One(p \in DOMAIN files)
            =< Cardinality(Opened(p)) + One(p \in Documents)
  BY DEF Removed, Opened, Counted
<1>1. /\ Cardinality(Removed(p)) \in Nat /\ Cardinality(Opened(p)) \in Nat
      /\ Cardinality(Removed(p)') \in Nat /\ Cardinality(Opened(p)') \in Nat
      /\ \A b : One(b) \in {0, 1}
  BY <1>0, Sizes DEF One
<1>2. CASE UNCHANGED vars
  <2>1. Removed(p)' = Removed(p) /\ Opened(p)' = Opened(p) /\ UNCHANGED files
    BY <1>2 DEF vars, Removed, Opened, Upload, Target, RouteOf, BlockOf
  <2> QED
    BY <1>0, <2>1
<1>3. ASSUME NEW c \in Client, Step(c)
      PROVE  Cardinality(Removed(p)') + One(p \in DOMAIN files')
                =< Cardinality(Opened(p)') + One(p \in Documents)
  <2>1. Cardinality(Opened(p)) =< Cardinality(Opened(p)')
    BY <1>0, <1>3, OpenedGrows, Sizes
  <2>2. CASE RemoveFile(c) /\ p = Target(c) /\ p \in DOMAIN files
    <3>1. Cardinality(Removed(p)') =< Cardinality(Removed(p)) + 1
      <4>1. Removed(p)' \subseteq Removed(p) \cup {c}
        BY <1>3, RemovedStep
      <4>2. CASE c \in Removed(p)
        <5>1. Removed(p)' \in SUBSET Removed(p)
          BY <4>1, <4>2
        <5>2. Cardinality(Removed(p)') =< Cardinality(Removed(p))
          BY <1>0, <5>1, Sizes
        <5> QED
          BY <1>1, <5>2
      <4>3. CASE c \notin Removed(p)
        <5>1. Cardinality(Removed(p) \cup {c}) = Cardinality(Removed(p)) + 1
          BY <1>0, <1>3, <4>3, Sizes
        <5>2. Removed(p) \cup {c} \in SUBSET Client
          BY <1>0, <1>3
        <5>3. Cardinality(Removed(p)') =< Cardinality(Removed(p) \cup {c})
          BY <4>1, <5>2, Sizes
        <5> QED
          BY <5>1, <5>3
      <4> QED
        BY <4>2, <4>3
    <3>2. One(p \in DOMAIN files) = 1 /\ One(p \in DOMAIN files') = 0
      BY <2>2 DEF RemoveFile, One
    <3> QED
      BY <1>0, <1>1, <2>1, <3>1, <3>2
  <2>3. CASE ~(RemoveFile(c) /\ p = Target(c) /\ p \in DOMAIN files)
    <3>1. Cardinality(Removed(p)') =< Cardinality(Removed(p))
      BY <1>0, <1>3, <2>3, RemovedStep, Sizes
    <3>2. CASE OpenUpload(c) /\ p = Upload(c)
      <4>1. c \in Opened(p)' /\ c \notin Opened(p)
        <5>1. /\ stage[c] = "handle" /\ stage'[c] = "write" /\ request[c].method = "POST"
              /\ UNCHANGED <<request, status, route>> /\ status[c] = 200
          BY <3>2 DEF OpenUpload, Outcomes, Outcome, Vetted, Goto
        <5>2. request[c] # <<>>
          BY <5>1, RequestMade DEF Vetted
        <5>3. Upload(c)' = Upload(c)
          BY <5>1 DEF Upload, RouteOf, BlockOf
        <5>4. c \in Opened(p)'
          BY <3>2, <5>1, <5>2, <5>3 DEF Opened
        <5>5. c \notin Opened(p)
          BY <5>1 DEF Opened
        <5> QED
          BY <5>4, <5>5
      <4>2. Opened(p) \cup {c} \subseteq Opened(p)'
        BY <1>3, <4>1, OpenedGrows
      <4>3. Cardinality(Opened(p)) + 1 =< Cardinality(Opened(p)')
        <5>1. Cardinality(Opened(p) \cup {c}) = Cardinality(Opened(p)) + 1
          BY <1>0, <1>3, <4>1, Sizes
        <5>2. \A T \in SUBSET Opened(p)' : Cardinality(T) =< Cardinality(Opened(p)')
          BY <1>0, Sizes
        <5>3. Cardinality(Opened(p) \cup {c}) =< Cardinality(Opened(p)')
          BY <4>2, <5>2
        <5> QED
          BY <5>1, <5>3
      <4> QED
        BY <1>0, <1>1, <3>1, <4>3
    <3>3. CASE ~(OpenUpload(c) /\ p = Upload(c))
      <4>1. p \in DOMAIN files' => p \in DOMAIN files
        BY <1>3, <3>3 DEF Step, Receive, Parse, MatchRoute, SearchFile, SearchProgram, OpenUpload, RefuseUpload,
           WriteUpload, LookForDeletion, RemoveFile, Respond, FinishCGI
      <4>2. One(p \in DOMAIN files') =< One(p \in DOMAIN files)
        BY <4>1 DEF One
      <4> QED
        BY <1>0, <1>1, <2>1, <3>1, <4>2
    <3> QED
      BY <3>2, <3>3
  <2> QED
    BY <2>2, <2>3
<1> QED
  BY <1>2, <1>3 DEF Next, Step

(* Of the deletions of one file, over all ports, no more are told that they *)
(* succeeded than there have been files to delete (DeleteHandler.cpp:16-26).*)
THEOREM DeletionsAreCounted == Spec => []DeletionsCounted
<1>1. ASSUME Init PROVE Counted
  <2> SUFFICES ASSUME NEW p \in Path
               PROVE  Cardinality(Removed(p)) + One(p \in DOMAIN files)
                         =< Cardinality(Opened(p)) + One(p \in Documents)
    BY DEF Counted
  <2>1. Removed(p) = {} /\ Opened(p) = {} /\ DOMAIN files = Documents
    BY <1>1 DEF Init, Removed, Opened
  <2> QED
    BY <2>1, FS_EmptySet DEF One
<1>2. ASSUME TypeOK, Handling, Counted PROVE DeletionsCounted
  <2> SUFFICES ASSUME NEW p \in Path
               PROVE  Cardinality(Deleted(p))
                         =< Cardinality(Opened(p)) + One(p \in Documents)
    BY DEF DeletionsCounted, One
  <2>1. Deleted(p) \subseteq Removed(p) /\ Removed(p) \in SUBSET Client
        /\ Opened(p) \in SUBSET Client
    BY <1>2 DEF Deleted, Removed, Opened, Handling, Handles
  <2>2. Cardinality(Deleted(p)) =< Cardinality(Removed(p)) /\ Cardinality(Removed(p)) \in Nat
        /\ Cardinality(Deleted(p)) \in Nat /\ Cardinality(Opened(p)) \in Nat
    BY <2>1, Sizes
  <2>3. Cardinality(Removed(p)) + One(p \in DOMAIN files)
           =< Cardinality(Opened(p)) + One(p \in Documents)
    BY <1>2 DEF Counted
  <2>4. \A b : One(b) \in {0, 1}
    BY DEF One
  <2> QED
    BY <2>2, <2>3, <2>4
<1> QED
  BY <1>1, <1>2, CountedStep, AlwaysVetted, OutcomesHold, TypeCorrect, HandlingHolds, PTL DEF Spec

-----------------------------------------------------------------------------
(* A page that was found has its text.                                     *)

\* Another port has deleted a page that c was to be answered with.
Gone(c) == \E d \in Client, p \in Pages(c) : PortOf[d] # PortOf[c] /\ Deletes(d, p)
Located ==
    \A c \in Client :
       stage[c] = "respond" /\ status[c] = 200 /\ request[c].method = "GET"
          => Routed(c) /\ (Found(c) \/ Gone(c))

\* A file is empty only before what is stored to it has been written.
Blank ==
    \A p \in DOMAIN files :
        files[p] = <<>> => \E d \in Client : handle[d] = p \/ StoredEmpty(d, p)

\* What a client that keeps its request and its route was to be answered with.
LEMMA SamePages ==
    ASSUME NEW c \in Client, request'[c] = request[c], route'[c] = route[c]
    PROVE  /\ RouteOf(c)' = RouteOf(c) /\ Pages(c)' = Pages(c) /\ Target(c)' = Target(c)
           /\ Routed(c)' = Routed(c) /\ Upload(c)' = Upload(c)
  BY DEF Pages, Target, RouteOf, BlockOf, Routed, Upload

\* A page that another port has deleted stays deleted by it.
LEMMA GoneStays ==
    ASSUME Vetted, Outcomes, NEW e \in Client, Step(e), NEW c \in Client,
           request'[c] = request[c], route'[c] = route[c], Gone(c)
    PROVE  Gone(c)'
<1>1. PICK d \in Client, p \in Pages(c) : PortOf[d] # PortOf[c] /\ Deletes(d, p)
  BY DEF Gone
<1>2. stage'[d] \in {"respond", "done"} /\ request'[d] = request[d] /\ route'[d] = route[d]
  <2>1. CASE d # e
    BY <1>1, <2>1, OthersStay DEF Outcomes, Deletes
  <2>2. CASE d = e
    <3>1. Respond(d)
      BY <1>1, <2>2 DEF Deletes, Step, Receive, Parse, MatchRoute, SearchFile, SearchProgram,
         OpenUpload, RefuseUpload, WriteUpload, LookForDeletion, RemoveFile, FinishCGI
    <3> QED
      BY <1>1, <3>1 DEF Respond, Goto, Vetted, Deletes
  <2> QED
    BY <2>1, <2>2
<1>3. Deletes(d, p)'
  BY <1>1, <1>2, SamePages DEF Deletes
<1> QED
  BY <1>1, <1>3, SamePages DEF Gone

\* The step of another client leaves the page, or removes it for another port.
LEMMA OthersFind ==
    ASSUME Vetted, Outcomes, Handling, Located, NEW e \in Client, Step(e),
           NEW c \in Client \ {e}, stage[c] = "respond", status[c] = 200,
           request[c].method = "GET"
    PROVE  Routed(c)' /\ (Found(c)' \/ Gone(c)')
<1>1. /\ request'[c] = request[c] /\ route'[c] = route[c]
      /\ Routed(c) /\ (Found(c) \/ Gone(c))
  BY OthersStay DEF Outcomes, Located
<1>2. CASE Gone(c)
  BY <1>1, <1>2, GoneStays, SamePages
<1>3. CASE Found(c) /\ RemoveFile(e) /\ Target(e) \in Pages(c)
  <2>1. PortOf[e] # PortOf[c]
    BY Alone DEF Handling, Resting
  <2>2. request[e].method = "DELETE" /\ stage'[e] = "respond" /\ UNCHANGED <<request, route>>
        /\ request[e] # <<>>
    BY <1>3, RequestMade DEF RemoveFile, Handling, Handles, Goto, Vetted
  <2>3. Deletes(e, Target(e))' /\ Pages(c)' = Pages(c) /\ Target(e)' = Target(e)
    BY <2>2, SamePages DEF Deletes
  <2> QED
    BY <1>1, <1>3, <2>1, <2>3, SamePages DEF Gone
<1>4. CASE Found(c) /\ ~(RemoveFile(e) /\ Target(e) \in Pages(c))
  <2>1. \A p \in Pages(c) : p \in DOMAIN files => p \in DOMAIN files'
    BY <1>4 DEF Step, Receive, Parse, MatchRoute, SearchFile, SearchProgram, OpenUpload,
       RefuseUpload, WriteUpload, LookForDeletion, RemoveFile, Respond, FinishCGI
  <2>2. CASE request[c].name # NoName
    <3>1. Target(c) \in DOMAIN files /\ Target(c) \in Pages(c)
      BY <1>4, <2>2 DEF Found, Pages
    <3>2. Target(c)' = Target(c) /\ Target(c) \in DOMAIN files'
      BY <1>1, <2>1, <3>1, SamePages
    <3>3. Found(c)' = (Target(c)' \in DOMAIN files')
      BY <1>1, <2>2 DEF Found
    <3> QED
      BY <1>1, <3>2, <3>3, SamePages
  <2>3. CASE request[c].name = NoName
    <3>1. PICK i \in DOMAIN RouteOf(c).index :
                 <<RouteOf(c).root, RouteOf(c).index[i]>> \in DOMAIN files
      BY <1>4, <2>3 DEF Found, Indices
    <3>2. <<RouteOf(c).root, RouteOf(c).index[i]>> \in DOMAIN files'
      BY <2>1, <2>3, <3>1 DEF Pages
    <3>3. RouteOf(c)' = RouteOf(c)
      BY <1>1, SamePages
    <3> QED
      BY <1>1, <2>3, <3>1, <3>2, <3>3, SamePages DEF Found, Indices
  <2> QED
    BY <2>2, <2>3
<1> QED
  BY <1>1, <1>2, <1>3, <1>4

\* A search that leaves the 200 has found the page (Connection.cpp:245-276).
LEMMA SearchFinds ==
    ASSUME Vetted, Outcomes, Handling, Located, NEW c \in Client, Step(c),
           stage'[c] = "respond", status'[c] = 200, request'[c].method = "GET"
    PROVE  Routed(c)' /\ (Found(c)' \/ Gone(c)')
<1>0. Domains /\ Outcome(c) /\ Handles(c)
  BY DEF Outcomes, Handling
<1>1. CASE SearchFile(c)
  <2>1. stage[c] = "search" /\ UNCHANGED <<request, route, files>> /\ Found(c)
    BY <1>0, <1>1 DEF SearchFile, Goto, SetStatus, Vetted
  <2>2. Found(c)' = Found(c)
    BY <2>1, SamePages DEF Found, Indices
  <2> QED
    BY <1>0, <2>1, <2>2, SamePages DEF Outcome
<1>2. CASE Respond(c)
  <2>1. stage[c] = "respond" /\ UNCHANGED <<request, route, status, files>>
    BY <1>2 DEF Respond
  <2>2. Routed(c) /\ (Found(c) \/ Gone(c))
    BY <2>1 DEF Located
  <2>3. Found(c)' = Found(c)
    BY <2>1, SamePages DEF Found, Indices
  <2> QED
    BY <2>1, <2>2, <2>3, SamePages, GoneStays
<1>3. CASE MatchRoute(c)
  BY <1>0, <1>3 DEF MatchRoute, NextStage, Goto, SetStatus, Vetted
<1>4. CASE OpenUpload(c) \/ RefuseUpload(c) \/ WriteUpload(c)
  BY <1>0, <1>4 DEF OpenUpload, RefuseUpload, WriteUpload, Handles, Goto, SetStatus, Vetted
<1>5. CASE LookForDeletion(c) \/ RemoveFile(c)
  BY <1>0, <1>5 DEF LookForDeletion, RemoveFile, Handles, Goto, SetStatus, Vetted
<1>6. CASE Receive(c) \/ Parse(c) \/ SearchProgram(c) \/ FinishCGI(c)
  BY <1>0, <1>6 DEF Receive, Parse, SearchProgram, FinishCGI, Goto, Vetted
<1> QED
  BY <1>1, <1>2, <1>3, <1>4, <1>5, <1>6 DEF Step

\* A page that was found is there until another port deletes it.
LEMMA LocatedStep == Vetted /\ Outcomes /\ Handling /\ Located /\ [Next]_vars => Located'
<1> SUFFICES ASSUME Vetted, Outcomes, Handling, Located, [Next]_vars, NEW c \in Client,
                    stage'[c] = "respond", status'[c] = 200, request'[c].method = "GET"
             PROVE  Routed(c)' /\ (Found(c)' \/ Gone(c)')
  BY DEF Located
<1>1. CASE UNCHANGED vars
  <2>1. Routed(c) /\ (Found(c) \/ Gone(c))
    BY <1>1 DEF vars, Located
  <2>2. Routed(c)' = Routed(c) /\ Found(c)' = Found(c) /\ Gone(c)' = Gone(c)
    BY <1>1 DEF vars, Routed, Found, Gone, Deletes, Pages, Indices, Target, RouteOf, BlockOf
  <2> QED
    BY <2>1, <2>2
<1>2. ASSUME NEW e \in Client, Step(e) PROVE Routed(c)' /\ (Found(c)' \/ Gone(c)')
  <2>1. CASE e = c
    BY <1>2, <2>1, SearchFinds
  <2>2. CASE e # c
    <3>1. stage[c] = "respond" /\ status[c] = 200 /\ request[c].method = "GET"
      BY <1>2, <2>2, OthersStay DEF Outcomes
    <3> QED
      BY <1>2, <2>2, <3>1, OthersFind
  <2> QED
    BY <2>1, <2>2
<1> QED
  BY <1>1, <1>2 DEF Next, Step

\* What is written is as long as the body at least (PostHandler.cpp:26).
LEMMA NothingWritten ==
    ASSUME NEW c \in Client, NEW n \in Nat, NEW old \in Contents,
           Overwrite(old, [i \in 1..n |-> c]) = <<>>
    PROVE  n = 0
<1> DEFINE new == [i \in 1..n |-> c]
           rest == SubSeq(old, n + 1, Len(old))
<1>1. new \in Contents /\ Len(new) = n /\ rest \in Contents
  BY DEF Contents
<1>2. new \o rest = <<>>
  BY <1>1 DEF Overwrite
<1> HIDE DEF new, rest
<1>3. Len(new \o rest) = Len(new) + Len(rest) /\ Len(rest) \in Nat
  BY <1>1 DEF Contents
<1> QED
  BY <1>1, <1>2, <1>3

\* A client that has stored nothing is done with its file.
LEMMA StoredEmptyStays ==
    ASSUME Vetted, Outcomes, Handling, NEW c \in Client, Step(c), NEW d, NEW p,
           StoredEmpty(d, p)
    PROVE  StoredEmpty(d, p)'
<1>1. d \in Opened(p)' /\ d \in Client
  BY OpenedGrows DEF StoredEmpty, Opened
<1>2. status'[d] = status[d] /\ request'[d] = request[d]
  <2>1. CASE d # c
    BY <1>1, <2>1, OthersStay DEF Outcomes
  <2>2. CASE d = c
    <3>1. status[c] = 201 /\ request[c].method = "POST" /\ Outcome(c) /\ Handles(c)
      BY <2>2 DEF StoredEmpty, Opened, Outcomes, Handling
    <3>2. stage[c] # "parsed"
      BY <3>1, ParsedCodes DEF Vetted
    <3>3. WriteUpload(c) \/ Respond(c)
      BY <3>1, <3>2 DEF Step, Handles, Outcome, Receive, Parse, MatchRoute, SearchFile,
         SearchProgram, OpenUpload, RefuseUpload, LookForDeletion, RemoveFile, FinishCGI
    <3> QED
      BY <2>2, <3>1, <3>3 DEF WriteUpload, Respond, SetStatus, Vetted
  <2> QED
    BY <2>1, <2>2
<1> QED
  BY <1>1, <1>2 DEF StoredEmpty

\* A file is truncated by a client that is about to write to it.
LEMMA BlankStep ==
    Vetted /\ TypeOK /\ Outcomes /\ Handling /\ Blank /\ [Next]_vars => Blank'
<1> SUFFICES ASSUME Vetted, TypeOK, Outcomes, Handling, Blank, [Next]_vars,
                    NEW p \in DOMAIN files', files'[p] = <<>>
             PROVE  \E d \in Client : handle'[d] = p \/ StoredEmpty(d, p)'
  BY DEF Blank
<1>0. NoPath \notin Path /\ DOMAIN files \subseteq Path
      /\ handle \in [Client -> Path \cup {NoPath}]
  BY DEF TypeOK, NoPath, Path
<1>1. CASE UNCHANGED vars
  <2>1. \A d : StoredEmpty(d, p)' = StoredEmpty(d, p)
    BY <1>1 DEF vars, StoredEmpty, Opened, Upload, RouteOf, BlockOf
  <2> QED
    BY <1>1, <2>1 DEF vars, Blank
<1>2. ASSUME NEW c \in Client, Step(c), p \in DOMAIN files, files'[p] = files[p],
             \A d \in Client : handle[d] = p => handle'[d] = p
      PROVE  \E d \in Client : handle'[d] = p \/ StoredEmpty(d, p)'
  <2>1. PICK d \in Client : handle[d] = p \/ StoredEmpty(d, p)
    BY <1>2 DEF Blank
  <2> QED
    BY <1>2, <2>1, StoredEmptyStays
<1>3. ASSUME NEW c \in Client, OpenUpload(c)
      PROVE  \E d \in Client : handle'[d] = p \/ StoredEmpty(d, p)'
  <2>1. Step(c) /\ handle[c] = NoPath
    BY <1>3 DEF Step, OpenUpload, Outcomes, Outcome
  <2>2. CASE p = Upload(c)
    BY <1>0, <1>3, <2>2 DEF OpenUpload
  <2>3. CASE p # Upload(c)
    <3>1. p \in DOMAIN files /\ files'[p] = files[p] /\ p # NoPath
      BY <1>0, <1>3, <2>3 DEF OpenUpload
    <3>2. \A d \in Client : handle[d] = p => handle'[d] = p
      BY <1>0, <1>3, <2>1, <3>1 DEF OpenUpload
    <3> QED
      BY <1>2, <2>1, <3>1, <3>2
  <2> QED
    BY <2>2, <2>3
<1>4. ASSUME NEW c \in Client, RemoveFile(c)
      PROVE  \E d \in Client : handle'[d] = p \/ StoredEmpty(d, p)'
  <2>1. Step(c) /\ p \in DOMAIN files /\ files'[p] = files[p] /\ p # Target(c)
    BY <1>0, <1>4 DEF Step, RemoveFile
  <2>2. \A d \in Client : handle[d] = p => handle'[d] = p
    BY <1>4, <2>1 DEF RemoveFile
  <2> QED
    BY <1>2, <2>1, <2>2
<1>5. ASSUME NEW c \in Client, WriteUpload(c)
      PROVE  \E d \in Client : handle'[d] = p \/ StoredEmpty(d, p)'
  <2>1. /\ Step(c) /\ p \in DOMAIN files /\ p # NoPath
        /\ handle' = [handle EXCEPT ![c] = NoPath]
    BY <1>0, <1>5 DEF Step, WriteUpload
  <2>2. CASE handle[c] # p
    <3>1. files'[p] = files[p]
      BY <1>5, <2>1, <2>2 DEF WriteUpload
    <3>2. \A d \in Client : handle[d] = p => handle'[d] = p
      BY <1>0, <2>1, <2>2
    <3> QED
      BY <1>2, <2>1, <3>1, <3>2
  <2>3. CASE handle[c] = p
    <3>1. /\ request[c] # <<>> /\ request[c].method = "POST" /\ Upload(c) = p
          /\ request[c] \in Requests
      BY <1>5, <2>1, <2>3, RequestMade DEF WriteUpload, Handling, Handles, Vetted
    <3>2. UNCHANGED <<request, route>> /\ status'[c] = 201
      BY <1>5 DEF WriteUpload, SetStatus, Vetted
    <3>3. request[c].body \in Nat
      <4>1. request[c] \in Request
        BY <3>1, RequestAssumption
      <4> QED
        BY <4>1, NumberAssumption DEF Request
    <3>4. files'[p] = Overwrite(files[p], [i \in 1..request[c].body |-> c])
      BY <1>5, <2>1, <2>3 DEF WriteUpload
    <3>5. request[c].body = 0
      BY <2>1, <3>3, <3>4, NothingWritten DEF TypeOK, Contents
    <3>6. StoredEmpty(c, p)'
      BY <3>1, <3>2, <3>5, SamePages DEF StoredEmpty, Opened
    <3> QED
      BY <3>6
  <2> QED
    BY <2>2, <2>3
<1>6. ASSUME NEW c \in Client, Step(c)
      PROVE  OpenUpload(c) \/ RemoveFile(c) \/ WriteUpload(c) \/ UNCHANGED <<files, handle>>
  BY <1>6 DEF Step, Receive, Parse, MatchRoute, SearchFile, SearchProgram, RefuseUpload,
     LookForDeletion, Respond, FinishCGI
<1>7. UNCHANGED vars \/ \E c \in Client : Step(c)
  BY DEF Next, Step
<1>8. ASSUME NEW c \in Client, Step(c), UNCHANGED <<files, handle>>
      PROVE  \E d \in Client : handle'[d] = p \/ StoredEmpty(d, p)'
  BY <1>2, <1>8
<1> QED
  BY <1>1, <1>3, <1>4, <1>5, <1>6, <1>7, <1>8

\* The body of a page that is there is that page, while there are descriptors
\* (ResponseBody.cpp:22-60).
LEMMA FoundSent ==
    ASSUME NEW c \in Client, Routed(c), request[c] \in Requests, status[c] = 200,
           request[c].method = "GET", Found(c), spare > 0, Textless(BuildBody(c))
    PROVE  \E p \in Pages(c) \cap DOMAIN files : files[p] = <<>>
<1>1. \A p \in DOMAIN files : Page(p) = [what |-> "page", content |-> files[p]]
  BY DEF Page
<1>2. \A p \in DOMAIN files : Textless(Page(p)) => files[p] = <<>>
  BY <1>1 DEF Textless
<1>3. CASE request[c].name # NoName
  <2>1. Target(c) \in Pages(c) /\ Target(c) \in DOMAIN files
    BY <1>3 DEF Pages, Found
  <2>2. BuildBody(c) = Page(Target(c))
    BY <1>3 DEF BuildBody
  <2> QED
    BY <1>2, <2>1, <2>2
<1>4. CASE request[c].name = NoName
  <2>1. Indices(c) # {}
    BY <1>4 DEF Found
  <2>2. Listing.what = "listing"
    BY DEF Listing, NoBody
  <2>3. ~RouteOf(c).autoindex
    BY <1>4, <2>2 DEF BuildBody, Textless
  <2>4. RouteOf(c).index \in Seq(Name)
    BY RouteTyped DEF Route
  <2>5. Len(RouteOf(c).index) \in Nat /\ Indices(c) \in SUBSET (1..Len(RouteOf(c).index))
    BY <2>4 DEF Indices
  <2>6. Min(Indices(c)) \in Indices(c)
    BY <2>1, <2>5, MinIn
  <2> DEFINE p == <<RouteOf(c).root, RouteOf(c).index[Min(Indices(c))]>>
  <2>7. p \in DOMAIN files /\ p \in Pages(c)
    <3>1. \A i \in Indices(c) : /\ <<RouteOf(c).root, RouteOf(c).index[i]>> \in DOMAIN files
                               /\ <<RouteOf(c).root, RouteOf(c).index[i]>> \in Pages(c)
      BY <1>4 DEF Indices, Pages
    <3> QED
      BY <2>6, <3>1
  <2>8. BuildBody(c) = Page(p)
    BY <1>4, <2>1, <2>3 DEF BuildBody
  <2> QED
    BY <1>2, <2>7, <2>8
<1> QED
  BY <1>3, <1>4

\* What PageHasText says of a step.
Texts ==
    \A c \in Client :
       /\ answer'[c] # answer[c] /\ answer'[c].status = 200
       /\ Textless(answer'[c].body)
       => \/ spare = 0
          \/ \E d \in Client, p \in Pages(c) :
                \/ PortOf[d] # PortOf[c] /\ (Deletes(d, p) \/ handle[d] = p)
                \/ StoredEmpty(d, p)

\* An answer without a text is sent where the page is gone, or is not written yet.
LEMMA TextStep ==
    ASSUME Vetted, TypeOK, Outcomes, Handling, Located, Blank, Next
    PROVE  Texts
<1> SUFFICES ASSUME NEW c \in Client, answer'[c] # answer[c], answer'[c].status = 200,
                    Textless(answer'[c].body), spare # 0
             PROVE  \E d \in Client, p \in Pages(c) :
                       \/ PortOf[d] # PortOf[c] /\ (Deletes(d, p) \/ handle[d] = p)
                       \/ StoredEmpty(d, p)
  BY DEF Texts
<1>1. PICK e \in Client : Step(e)
  BY DEF Next, Step
<1>2. e = c
  BY <1>1, OthersStay DEF Outcomes
<1>3. ~FinishCGI(c)
  <2>1. FinishCGI(c) => answer'[c].body.what \in {"output", "error"}
    BY DEF FinishCGI, Outcomes, Domains, NoBody
  <2> QED
    BY <2>1 DEF Textless
<1>4. Respond(c)
  BY <1>1, <1>2, <1>3 DEF Step, Receive, Parse, MatchRoute, SearchFile, SearchProgram,
     OpenUpload, RefuseUpload, WriteUpload, LookForDeletion, RemoveFile
<1>5. /\ stage[c] = "respond" /\ spare > 0
      /\ answer'[c] = [status |-> status[c], body |-> BuildBody(c)]
  BY <1>4 DEF Respond, Outcomes, Domains, TypeOK
<1>6. status[c] = 200 /\ Textless(BuildBody(c)) /\ request[c] \in Requests
  BY <1>5 DEF Vetted
<1>7. request[c].method = "GET"
  BY <1>6 DEF BuildBody, NoBody, Textless
<1>8. Routed(c) /\ (Found(c) \/ Gone(c))
  BY <1>5, <1>6, <1>7 DEF Located
<1>9. CASE Gone(c)
  BY <1>9 DEF Gone
<1>10. CASE Found(c)
  <2>1. PICK p \in Pages(c) \cap DOMAIN files : files[p] = <<>>
    BY <1>5, <1>6, <1>7, <1>8, <1>10, FoundSent
  <2>2. PICK d \in Client : handle[d] = p \/ StoredEmpty(d, p)
    BY <2>1 DEF Blank
  <2>3. handle[d] = p => PortOf[d] # PortOf[c]
    <3>1. p # NoPath
      <4>1. p \in Path
        BY <2>1 DEF TypeOK
      <4>2. NoPath \notin Path
        BY DEF NoPath, Path
      <4> QED
        BY <4>1, <4>2
    <3>2. handle[d] = p => stage[d] = "write"
      BY <3>1 DEF Outcomes, Outcome
    <3> QED
      BY <1>5, <3>2 DEF Handling, Exclusive, Resting
  <2> QED
    BY <2>1, <2>2, <2>3
<1> QED
  BY <1>8, <1>9, <1>10

(* A page that was found is answered without its text only if another port *)
(* has deleted it or is storing to it, if an empty body was stored there,  *)
(* or if the search took the last descriptor (Connection.cpp:245-276,      *)
(* ResponseBody.cpp:22-60).                                                *)
THEOREM PagesHaveText == Spec => PageHasText
<1>1. ASSUME Init PROVE Located /\ Blank
  <2>1. Located
    BY <1>1 DEF Init, Located
  <2>2. Blank
    BY <1>1 DEF Init, Blank
  <2> QED
    BY <2>1, <2>2
<1>2. Vetted /\ TypeOK /\ Outcomes /\ Handling /\ Located /\ Blank /\ [Next]_vars => [Texts]_vars
  BY TextStep
<1> QED
  BY <1>1, <1>2, LocatedStep, BlankStep, AlwaysVetted, OutcomesHold, TypeCorrect,
     HandlingHolds, PTL DEF Spec, PageHasText, Texts
=============================================================================
