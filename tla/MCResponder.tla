----------------------------- MODULE MCResponder -----------------------------
(* Instances of Responder for TLC: three clients on two ports that share    *)
(* the directory "html".                                                    *)
EXTENDS ResponderProperties, TLC

CONSTANTS c1, c2, c3, p1, p2

TwoPorts == c1 :> p1 @@ c2 :> p1 @@ c3 :> p2

Base == [base |-> "/", accepted |-> Methods, redir |-> NoRedirect, root |-> "html",
         index |-> <<"index", "home">>, cgi |-> {"script"}, upload |-> "html",
         autoindex |-> FALSE]

Main == [names |-> {"one"}, maxSize |-> 1,
         routes |-> <<Base,
                      [Base EXCEPT !.base = "/read", !.accepted = {"GET"}, !.autoindex = TRUE],
                      [Base EXCEPT !.base = "/moved", !.redir = 301],
                      [Base EXCEPT !.base = "/gone", !.redir = 204],
                      [Base EXCEPT !.base = "/same", !.redir = 200, !.upload = "locked"]>>]
Odd == [Main EXCEPT !.routes = Append(@, [Base EXCEPT !.base = "/odd", !.redir = 999])]

OneBlock == [p \in Port |-> <<Main>>]

\* Limits that wrap: -2 is 44 bytes of 64, and 7 is 6.
Second == [Main EXCEPT !.names = {"two"}, !.maxSize = -2,
              !.routes = <<@[2], [Base EXCEPT !.base = "/wide"]>>]
Third == [Second EXCEPT !.names = {"three"}, !.maxSize = 7]
TwoBlocks == [p \in Port |-> <<Odd, Second, Third>>]

Get == [method |-> "GET", target |-> "/", name |-> "index", host |-> "one",
        hostPort |-> FALSE, start |-> "good", type |-> "none", expect |-> FALSE,
        length |-> NoLength, body |-> 0]
GetIndex == [Get EXCEPT !.name = NoName]
GetScript == [Get EXCEPT !.name = "script"]
Post == [Get EXCEPT !.method = "POST", !.body = 2, !.length = 2]
Delete == [Get EXCEPT !.method = "DELETE"]

\* Requests for the same file.
Files == {Get, GetIndex, GetScript, Post, [Post EXCEPT !.body = 1, !.length = 1],
          [Post EXCEPT !.body = 0, !.length = 0],
          [Post EXCEPT !.name = NoName, !.type = "text"], Delete}

\* One request for each way to be refused, and one that is granted.
Refused ==
    {Get, Post, Delete, [Get EXCEPT !.target = "/nowhere"], [Get EXCEPT !.name = "home"]}
    \cup {[m EXCEPT !.target = "/read"] : m \in {GetIndex, Post, Delete}}
    \cup {[m EXCEPT !.target = "/moved"] : m \in {GetIndex, Post, Delete}}
    \cup {[m EXCEPT !.target = "/same"] : m \in {GetScript, Post}}
    \cup {[Get EXCEPT !.target = "/gone"], [Delete EXCEPT !.name = NoName],
          [Post EXCEPT !.length = 11], [Post EXCEPT !.length = -1],
          [Post EXCEPT !.length = -32], [Post EXCEPT !.length = 31],
          [Post EXCEPT !.length = 1, !.body = 11],
          [Post EXCEPT !.host = "two"], [Post EXCEPT !.host = "two", !.hostPort = TRUE],
          [Post EXCEPT !.name = NoName], [Get EXCEPT !.method = "PUT"],
          [Get EXCEPT !.start = "otherVersion"], [Post EXCEPT !.type = "form"],
          [Get EXCEPT !.expect = TRUE, !.type = "video"], [Post EXCEPT !.type = "video"]}

Wide == {[Post EXCEPT !.target = "/wide", !.host = h, !.length = 11, !.body = 11] :
            h \in {"two", "three"}}

\* Those that may end the process.
Fatal == {[Get EXCEPT !.host = NoHost], [Get EXCEPT !.start = "twoDots"],
          [Get EXCEPT !.start = "noTarget"], [Post EXCEPT !.length = 32],
          [Post EXCEPT !.length = -33], [Post EXCEPT !.length = Junk], [Get EXCEPT !.target = "/odd"],
          [Get EXCEPT !.target = "/nowhere"], [Delete EXCEPT !.name = "home"], Get, Post}

RefusedOrFatal == Refused \cup Wide \cup Fatal

Index == {<<"html", "index">>}
=============================================================================
