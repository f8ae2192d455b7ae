---------------------------- MODULE Configuration ----------------------------
(***************************************************************************)
(* How FileParser reads the tokens of a configuration file (mapTokens) and *)
(* groups the server blocks it finds by port, one thread each.             *)
(*                                                                         *)
(* A keyword is read together with its arguments, which parse takes off    *)
(* the queue.  What a file may contain next does not depend on how it is   *)
(* read, so the tokens are chosen as they are read, and files of any       *)
(* length are covered.  Newlines and comments change nothing; unless it is *)
(* the last line, see CommentAtEnd.                                        *)
(*                                                                         *)
(* Nothing ties a brace to a keyword: the level is a count of braces, and  *)
(* server_block and route, which are not initialised, are whatever the     *)
(* last keyword made them.                                                 *)
(***************************************************************************)
EXTENDS Integers, Sequences

CONSTANTS
    ListenArgs,     \* the arguments listen may have, see ListenArg
    MaxPort,        \* 65535
    DefaultPort,    \* DFL_SERVER_PORT
    MaxBraces,      \* bound: opening braces in a file
    MaxBlocks,      \* bound: server keywords in a file
    MaxRoutes       \* bound: location keywords in a file

BASE == 0
HTTP == 1
SERVER == 2
LOCATION == 3
Unset == 0          \* PORT_UNSET
Null == 0           \* a pointer that has not been set

ListenArg == [colons : Nat, host : STRING, isNumber : BOOLEAN, number : Nat]

ASSUME ArgAssumption == \A a \in ListenArgs : a \in ListenArg
ASSUME PortAssumption == MaxPort \in Nat /\ DefaultPort \in 1..MaxPort
ASSUME BoundAssumption == MaxBraces \in Nat /\ MaxBlocks \in Nat /\ MaxRoutes \in Nat

VARIABLES
    stage,          \* "map", "group", then "done", "failed" or "undefined"
    parse_level,    \* how many braces are open
    braces,         \* how many braces there were, for the bound
    keyword,        \* the block that may be opened: not looked at by the code
    stray,          \* whether a brace followed no keyword, or the last line
                    \* is cut short: not looked at either
    http_flag_set,
    servers,        \* the ServerConfigs that were made, in the file's order
    routes,         \* how many Routes were made
    server_block,   \* the last ServerConfig
    route,          \* the last Route
    server_blocks,  \* the stack of finished ServerConfigs, its top last
    port_configs

objects == <<servers, routes, server_block, route>>
vars == <<stage, parse_level, braces, keyword, stray, http_flag_set, objects,
          server_blocks, port_configs>>

Host == {a.host : a \in ListenArgs} \cup {"*", ""}

ServerConfig == [host : Host, port : 0..MaxPort, routes : Seq(1..MaxRoutes)]
PortConfig == [host : Host, port : 0..MaxPort, servers : Seq(1..MaxBlocks)]

TypeOK ==
    /\ stage \in {"map", "group", "done", "failed", "undefined"}
    /\ braces \in 0..MaxBraces /\ parse_level \in 0..braces
    /\ keyword \in {"none", "http", "server", "location"}
    /\ stray \in BOOLEAN /\ http_flag_set \in BOOLEAN
    /\ servers \in Seq(ServerConfig) /\ Len(servers) =< MaxBlocks
    /\ routes \in 0..MaxRoutes
    /\ server_block \in 0..Len(servers)
    /\ route \in 0..routes
    /\ server_blocks \in Seq(1..MaxBlocks)
    /\ \A i \in DOMAIN server_blocks : server_blocks[i] \in DOMAIN servers
    /\ port_configs \in Seq(PortConfig)

Init ==
    /\ stage = "map" /\ parse_level = BASE /\ braces = 0
    /\ keyword = "none" /\ stray = FALSE /\ http_flag_set = FALSE
    /\ servers = <<>> /\ routes = 0 /\ server_block = Null /\ route = Null
    /\ server_blocks = <<>> /\ port_configs = <<>>

-----------------------------------------------------------------------------
(* The ends of the parsing: MappingFailure, which ends the process, and    *)
(* what the language leaves undefined.                                     *)

Throw == stage' = "failed" /\ UNCHANGED <<objects, server_blocks>>
Undefine == stage' = "undefined" /\ UNCHANGED <<objects, server_blocks>>

\* An unknown keyword, or one at a wrong level.
Refuse ==
    /\ stage = "map" /\ Throw
    /\ UNCHANGED <<parse_level, braces, keyword, stray, http_flag_set, port_configs>>

(* The loop that skips a comment empties the queue, which is then popped;  *)
(* so is the queue of an option whose argument is missing.                 *)
CommentAtEnd ==
    /\ stage = "map" /\ Undefine /\ stray' = TRUE
    /\ UNCHANGED <<parse_level, braces, keyword, http_flag_set, port_configs>>

-----------------------------------------------------------------------------
(* _mapTokens.                                                             *)

OpenBrace ==
    /\ stage = "map" /\ braces < MaxBraces
    /\ parse_level' = parse_level + 1 /\ braces' = braces + 1 /\ keyword' = "none"
    /\ stray' = (stray \/ keyword = "none")
    /\ UNCHANGED <<stage, http_flag_set, objects, server_blocks, port_configs>>

\* A mutant of FinishServer: a block without a route is finished too.
FinishServerEmpty ==
    \/ server_block = Null /\ Undefine
    \/ /\ server_block # Null
       /\ server_blocks' = Append(server_blocks, server_block)
       /\ UNCHANGED <<stage, objects>>

\* The block is finished, unless it has no route.
FinishServer ==
    \/ server_block = Null /\ Undefine
    \/ /\ server_block # Null /\ servers[server_block].routes = <<>>
       /\ Throw
    \/ /\ server_block # Null /\ servers[server_block].routes # <<>>
       /\ server_blocks' = Append(server_blocks, server_block)
       /\ UNCHANGED <<stage, objects>>

FinishLocation ==
    \/ (server_block = Null \/ route = Null) /\ Undefine
    \/ /\ server_block # Null /\ route # Null
       /\ servers' = [servers EXCEPT ![server_block].routes = Append(@, route)]
       /\ UNCHANGED <<stage, routes, server_block, route, server_blocks>>

\* A mutant of InBlock: a brace that closes nothing is not refused.
AnyBrace == TRUE

InBlock == parse_level > BASE

CloseBrace ==
    /\ stage = "map" /\ InBlock
    /\ \/ parse_level = HTTP /\ server_blocks = <<>> /\ Throw
       \/ parse_level = SERVER /\ FinishServer
       \/ parse_level = LOCATION /\ FinishLocation
       \/ /\ parse_level \notin {SERVER, LOCATION}
          /\ parse_level = HTTP => server_blocks # <<>>
          /\ UNCHANGED <<stage, objects, server_blocks>>
    /\ parse_level' = parse_level - 1 /\ keyword' = "none"
    /\ UNCHANGED <<braces, stray, http_flag_set, port_configs>>

Http ==
    /\ stage = "map" /\ parse_level = BASE
    /\ http_flag_set' = TRUE /\ keyword' = "http"
    /\ UNCHANGED <<stage, parse_level, braces, stray, objects, server_blocks,
                   port_configs>>

NewServer == [host |-> "", port |-> Unset, routes |-> <<>>]

\* A mutant of Server: the block that was made is not kept.
ServerUnkept ==
    /\ stage = "map" /\ parse_level = HTTP /\ http_flag_set /\ Len(servers) < MaxBlocks
    /\ servers' = Append(servers, NewServer)
    /\ keyword' = "server"
    /\ UNCHANGED <<stage, parse_level, braces, stray, http_flag_set, routes,
                   server_block, route, server_blocks, port_configs>>

Server ==
    /\ stage = "map" /\ parse_level = HTTP /\ http_flag_set /\ Len(servers) < MaxBlocks
    /\ servers' = Append(servers, NewServer) /\ server_block' = Len(servers) + 1
    /\ keyword' = "server"
    /\ UNCHANGED <<stage, parse_level, braces, stray, http_flag_set, routes, route,
                   server_blocks, port_configs>>

\* A mutant of Location: one Route is made and used again.
LocationReused ==
    /\ stage = "map" /\ parse_level = SERVER /\ routes < MaxRoutes
    /\ routes' = 1 /\ route' = 1
    /\ keyword' = "location"
    /\ UNCHANGED <<stage, parse_level, braces, stray, http_flag_set, servers,
                   server_block, server_blocks, port_configs>>

Location ==
    /\ stage = "map" /\ parse_level = SERVER /\ routes < MaxRoutes
    /\ routes' = routes + 1 /\ route' = routes + 1
    /\ keyword' = "location"
    /\ UNCHANGED <<stage, parse_level, braces, stray, http_flag_set, servers,
                   server_block, server_blocks, port_configs>>

-----------------------------------------------------------------------------
(* The options of a server block and of a location.                        *)

\* The number after the colon, or all of it, can be converted to uint16_t.
IsPort(a) == a.isNumber /\ a.number =< MaxPort

(* _parseArg: the settings a listen argument leads to, none if it throws.  *)
Listened(a) ==
    IF a.colons = 0
    THEN IF IsPort(a) THEN {[host |-> "*", port |-> a.number]}
                      ELSE {[host |-> a.host, port |-> DefaultPort]}
    ELSE IF a.colons = 1 /\ IsPort(a) THEN {[host |-> a.host, port |-> a.number]}
    ELSE {}

(* A block that has a port is refused another.  What _parseArg throws is   *)
(* caught at once, and the block keeps the port it was made with.          *)
Listen ==
    /\ stage = "map" /\ parse_level = SERVER
    /\ \/ server_block = Null /\ Undefine
       \/ server_block # Null /\ servers[server_block].port # Unset /\ Throw
       \/ /\ server_block # Null /\ servers[server_block].port = Unset
          /\ \E a \in ListenArgs : \E l \in Listened(a) :
                servers' = [servers EXCEPT ![server_block].host = l.host,
                                           ![server_block].port = l.port]
          /\ UNCHANGED <<stage, routes, server_block, route, server_blocks>>
    /\ UNCHANGED <<parse_level, braces, keyword, stray, http_flag_set, port_configs>>

(* client_max_body_size, error_page and server_name refuse an argument, or *)
(* set what is not modelled here; so do the options of a location.         *)
ServerOption ==
    /\ stage = "map" /\ parse_level = SERVER
    /\ \/ server_block = Null /\ Undefine
       \/ server_block # Null /\ Throw
    /\ UNCHANGED <<parse_level, braces, keyword, stray, http_flag_set, port_configs>>

RouteOption ==
    /\ stage = "map" /\ parse_level = LOCATION
    /\ \/ route = Null /\ Undefine
       \/ route # Null /\ Throw
    /\ UNCHANGED <<parse_level, braces, keyword, stray, http_flag_set, port_configs>>

EndOfFile ==
    /\ stage = "map"
    /\ stage' = (IF parse_level = BASE THEN "group" ELSE "failed")
    /\ UNCHANGED <<parse_level, braces, keyword, stray, http_flag_set, objects,
                   server_blocks, port_configs>>

-----------------------------------------------------------------------------
(* _groupServerConfigs.                                                    *)

Top == server_blocks[Len(server_blocks)]
Pop == server_blocks' = SubSeq(server_blocks, 1, Len(server_blocks) - 1)

\* A mutant of HasPort: the hosts are compared too.
HasHostAndPort(i) ==
    /\ port_configs[i].port = servers[Top].port
    /\ port_configs[i].host = servers[Top].host

HasPort(i) == port_configs[i].port = servers[Top].port

\* A mutant of AddToPort: the block is put before the others.
AddBeforeOthers ==
    /\ stage = "group" /\ server_blocks # <<>>
    /\ \E i \in DOMAIN port_configs :
          /\ HasPort(i) /\ \A j \in DOMAIN port_configs : j < i => ~HasPort(j)
          /\ port_configs' = [port_configs EXCEPT ![i].servers = <<Top>> \o @]
    /\ Pop
    /\ UNCHANGED <<stage, parse_level, braces, keyword, stray, http_flag_set,
                   objects>>

AddToPort ==
    /\ stage = "group" /\ server_blocks # <<>>
    /\ \E i \in DOMAIN port_configs :
          /\ HasPort(i) /\ \A j \in DOMAIN port_configs : j < i => ~HasPort(j)
          /\ port_configs' = [port_configs EXCEPT ![i].servers = Append(@, Top)]
    /\ Pop
    /\ UNCHANGED <<stage, parse_level, braces, keyword, stray, http_flag_set,
                   objects>>

AddPort ==
    /\ stage = "group" /\ server_blocks # <<>>
    /\ \A i \in DOMAIN port_configs : ~HasPort(i)
    /\ port_configs' = Append(port_configs, [host |-> servers[Top].host,
                                             port |-> servers[Top].port,
                                             servers |-> <<Top>>])
    /\ Pop
    /\ UNCHANGED <<stage, parse_level, braces, keyword, stray, http_flag_set,
                   objects>>

EndGrouping ==
    /\ stage = "group" /\ server_blocks = <<>>
    /\ stage' = "done"
    /\ UNCHANGED <<parse_level, braces, keyword, stray, http_flag_set, objects,
                   server_blocks, port_configs>>

-----------------------------------------------------------------------------
Next == \/ Refuse \/ CommentAtEnd \/ OpenBrace \/ CloseBrace
        \/ Http \/ Server \/ Location \/ Listen \/ ServerOption \/ RouteOption
        \/ EndOfFile
        \/ AddToPort \/ AddPort \/ EndGrouping

Spec == Init /\ [][Next]_vars
=============================================================================
