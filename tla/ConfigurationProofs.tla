------------------------- MODULE ConfigurationProofs -------------------------
(***************************************************************************)
(* Theorems of Configuration, for every set of listen arguments, every way *)
(* of placing the braces and every bound.                                  *)
(*                                                                         *)
(* TypeOK is inductive, and says that what is on the stack of finished     *)
(* blocks is a ServerConfig that was made; with it, so is PortsDistinct.   *)
(* AllRouted follows the routes of finished blocks.                        *)
(*                                                                         *)
(* The rest holds as long as a brace opens only what a keyword announced.  *)
(* Nested then tells from the level of the braces which of server_block    *)
(* and route have been set; RoutesOwned, that the Route of the location    *)
(* that is open is nobody's yet; and BlocksOwned, where each block is: it  *)
(* is the one that is open, or on the stack, which has the order of the    *)
(* file, or served after the blocks that come later.                       *)
(***************************************************************************)
EXTENDS ConfigurationProperties, TLAPS

\* What a listen argument leads to fits in a ServerConfig (Option.cpp:239-283).
LEMMA ListenedFits ==
    ASSUME NEW a \in ListenArgs, NEW l \in Listened(a)
    PROVE  l.host \in Host /\ l.port \in 0..MaxPort
<1>1. a.colons \in Nat /\ a.host \in Host /\ a.isNumber \in BOOLEAN /\ a.number \in Nat
  BY ArgAssumption DEF ListenArg, Host
<1>2. IsPort(a) => a.number \in 0..MaxPort
  BY <1>1, PortAssumption DEF IsPort
<1>3. DefaultPort \in 0..MaxPort
  BY PortAssumption
<1>4. CASE a.colons = 0 /\ IsPort(a)
  <2>1. l = [host |-> "*", port |-> a.number]
    BY <1>4 DEF Listened
  <2> QED
    BY <1>2, <1>4, <2>1 DEF Host
<1>5. CASE a.colons = 0 /\ ~IsPort(a)
  <2>1. l = [host |-> a.host, port |-> DefaultPort]
    BY <1>5 DEF Listened
  <2> QED
    BY <1>1, <1>3, <2>1
<1>6. CASE a.colons # 0
  <2>1. l = [host |-> a.host, port |-> a.number] /\ IsPort(a)
    BY <1>6 DEF Listened
  <2> QED
    BY <1>1, <1>2, <2>1
<1> QED
  BY <1>4, <1>5, <1>6

\* The server starts to read a file with nothing made (FileParser.cpp:183-185).
LEMMA TypeInit == Init => TypeOK
<1> SUFFICES ASSUME Init PROVE TypeOK
  OBVIOUS
<1>1. stray \in BOOLEAN /\ http_flag_set \in BOOLEAN
  BY Zenon DEF Init
<1> QED
  BY <1>1, BoundAssumption DEF Init, TypeOK, BASE, Null

\* A block that is changed, and keeps its fields' types, is still a block.
LEMMA ServersTyped ==
    ASSUME TypeOK, NEW s \in DOMAIN servers, NEW b \in ServerConfig,
           servers' = [servers EXCEPT ![s] = b]
    PROVE  servers' \in Seq(ServerConfig) /\ Len(servers') = Len(servers)
  BY DEF TypeOK

\* What addRoute makes of a block (ServerConfig.cpp:53-56).
LEMMA RouteAdded ==
    ASSUME NEW c \in ServerConfig, NEW q
    PROVE  [c EXCEPT !.routes = q] = [host |-> c.host, port |-> c.port, routes |-> q]
  BY DEF ServerConfig

\* What a push onto getServers() makes of a PortConfig (FileParser.cpp:288).
LEMMA ServerAdded ==
    ASSUME NEW c \in PortConfig, NEW q
    PROVE  [c EXCEPT !.servers = q] = [host |-> c.host, port |-> c.port, servers |-> q]
  BY DEF PortConfig

\* Every step of the parser keeps every variable in its set.
LEMMA TypeStep == TypeOK /\ [Next]_vars => TypeOK'
<1> SUFFICES ASSUME TypeOK, [Next]_vars PROVE TypeOK'
  OBVIOUS
<1> USE BoundAssumption
<1>1. CASE Refuse
  BY <1>1 DEF Refuse, Throw, TypeOK, objects
<1>2. CASE CommentAtEnd
  BY <1>2 DEF CommentAtEnd, Undefine, TypeOK, objects
<1>3. CASE OpenBrace
  BY <1>3 DEF OpenBrace, TypeOK, objects
<1>4. CASE CloseBrace
  <2>1. parse_level' \in 0..braces' /\ braces' \in 0..MaxBraces
    BY <1>4 DEF CloseBrace, InBlock, BASE, TypeOK
  <2>2. keyword' = "none" /\ UNCHANGED <<stray, http_flag_set, port_configs>>
    BY <1>4 DEF CloseBrace
  <2>3. CASE UNCHANGED <<objects, server_blocks>> /\ stage' \in {stage, "failed", "undefined"}
    BY <2>1, <2>2, <2>3 DEF TypeOK, objects
  <2>4. CASE /\ server_block # Null /\ server_blocks' = Append(server_blocks, server_block)
             /\ UNCHANGED <<stage, objects>>
    <3>1. server_block \in DOMAIN servers /\ server_block \in 1..MaxBlocks
      BY <2>4 DEF TypeOK, Null
    <3>2. /\ server_blocks' \in Seq(1..MaxBlocks)
          /\ \A i \in DOMAIN server_blocks' : server_blocks'[i] \in DOMAIN servers
      BY <2>4, <3>1 DEF TypeOK
    <3> QED
      BY <2>1, <2>2, <2>4, <3>2 DEF TypeOK, objects
  <2>5. CASE FinishLocation /\ server_block # Null /\ route # Null
    <3> DEFINE c == servers[server_block]
               b == [host |-> c.host, port |-> c.port, routes |-> Append(c.routes, route)]
    <3>1. server_block \in DOMAIN servers
      BY <2>5 DEF TypeOK, Null
    <3>2. servers[server_block] \in ServerConfig /\ route \in 1..MaxRoutes
      BY <2>5, <3>1 DEF TypeOK, Null
    <3>3. c.host \in Host /\ c.port \in 0..MaxPort /\ c.routes \in Seq(1..MaxRoutes)
      BY <3>2 DEF ServerConfig
    <3>4. Append(c.routes, route) \in Seq(1..MaxRoutes)
      BY <3>2, <3>3
    <3>5. b \in ServerConfig
      BY <3>3, <3>4 DEF ServerConfig
    <3>6. [c EXCEPT !.routes = Append(@, route)] = b
      BY <3>2, RouteAdded
    <3>7. servers' = [servers EXCEPT ![server_block] = [c EXCEPT !.routes = Append(@, route)]]
      BY <2>5 DEF FinishLocation
    <3>8. servers' = [servers EXCEPT ![server_block] = b]
      BY <3>6, <3>7
    <3>9. servers' \in Seq(ServerConfig) /\ Len(servers') = Len(servers)
      BY <3>1, <3>5, <3>8, ServersTyped
    <3>10. UNCHANGED <<stage, routes, server_block, route, server_blocks>>
      BY <2>5 DEF FinishLocation
    <3> QED
      BY <2>1, <2>2, <3>9, <3>10 DEF TypeOK
  <2> QED
    BY <1>4, <2>3, <2>4, <2>5
    DEF CloseBrace, FinishServer, FinishLocation, Throw, Undefine
<1>5. CASE Http
  BY <1>5 DEF Http, TypeOK, objects
<1>6. CASE Server
  <2>1. NewServer \in ServerConfig
    <3>1. 0 \in 0..MaxPort /\ <<>> \in Seq(1..MaxRoutes) /\ "" \in Host
      BY PortAssumption DEF Host
    <3> QED
      BY <3>1 DEF NewServer, ServerConfig, Unset
  <2>2. /\ servers' \in Seq(ServerConfig) /\ Len(servers') = Len(servers) + 1
        /\ Len(servers') =< MaxBlocks
    BY <1>6, <2>1 DEF Server, TypeOK
  <2> QED
    BY <1>6, <2>2 DEF Server, TypeOK
<1>7. CASE Location
  BY <1>7 DEF Location, TypeOK
<1>8. CASE Listen
  <2>1. UNCHANGED <<parse_level, braces, keyword, stray, http_flag_set, port_configs>>
    BY <1>8 DEF Listen
  <2>2. CASE UNCHANGED <<objects, server_blocks>> /\ stage' \in {"failed", "undefined"}
    BY <2>1, <2>2 DEF TypeOK, objects
  <2>3. CASE /\ server_block # Null
             /\ \E a \in ListenArgs : \E l \in Listened(a) :
                   servers' = [servers EXCEPT ![server_block].host = l.host,
                                              ![server_block].port = l.port]
             /\ UNCHANGED <<stage, routes, server_block, route, server_blocks>>
    <3>1. server_block \in DOMAIN servers /\ servers[server_block] \in ServerConfig
      BY <2>3 DEF TypeOK, Null
    <3>a. PICK a \in ListenArgs : \E l \in Listened(a) :
             servers' = [servers EXCEPT ![server_block].host = l.host,
                                        ![server_block].port = l.port]
      BY <2>3
    <3>2. PICK l \in Listened(a) :
             servers' = [servers EXCEPT ![server_block].host = l.host,
                                        ![server_block].port = l.port]
      BY <3>a
    <3> DEFINE b == [servers[server_block] EXCEPT !.host = l.host, !.port = l.port]
    <3>3. b \in ServerConfig
      BY <3>1, ListenedFits DEF ServerConfig
    <3>4. servers' = [servers EXCEPT ![server_block] = b]
      BY <3>1, <3>2 DEF TypeOK
    <3>5. servers' \in Seq(ServerConfig) /\ Len(servers') = Len(servers)
      BY <3>1, <3>3, <3>4, ServersTyped
    <3> QED
      BY <2>1, <2>3, <3>5 DEF TypeOK
  <2> QED
    BY <1>8, <2>2, <2>3 DEF Listen, Throw, Undefine
<1>9. CASE ServerOption \/ RouteOption
  BY <1>9 DEF ServerOption, RouteOption, Throw, Undefine, TypeOK, objects
<1>10. CASE EndOfFile
  BY <1>10 DEF EndOfFile, TypeOK, objects
<1>11. CASE AddToPort \/ AddPort
  <2>1. Top \in 1..MaxBlocks /\ Top \in DOMAIN servers
    <3>1. /\ server_blocks \in Seq(1..MaxBlocks) /\ server_blocks # <<>>
          /\ \A i \in DOMAIN server_blocks : server_blocks[i] \in DOMAIN servers
      BY <1>11 DEF AddToPort, AddPort, TypeOK
    <3>2. Len(server_blocks) \in DOMAIN server_blocks
      BY <3>1
    <3> QED
      BY <3>1, <3>2 DEF Top
  <2>2. /\ server_blocks' \in Seq(1..MaxBlocks)
        /\ \A i \in DOMAIN server_blocks' : server_blocks'[i] \in DOMAIN servers
    <3> DEFINE n == Len(server_blocks)
    <3>1. server_blocks \in Seq(1..MaxBlocks) /\ n \in Nat /\ n # 0
      BY <1>11 DEF AddToPort, AddPort, TypeOK
    <3>2. server_blocks' = SubSeq(server_blocks, 1, n - 1) /\ UNCHANGED servers
      BY <1>11 DEF AddToPort, AddPort, Pop, objects
    <3>3. /\ DOMAIN server_blocks' = 1..(n - 1)
          /\ \A i \in 1..(n - 1) : server_blocks'[i] = server_blocks[i]
          /\ server_blocks' \in Seq(1..MaxBlocks)
      BY <3>1, <3>2
    <3>4. 1..(n - 1) \subseteq DOMAIN server_blocks
      BY <3>1
    <3> QED
      BY <3>2, <3>3, <3>4 DEF TypeOK
  <2>3. port_configs' \in Seq(PortConfig)
    <3>1. CASE AddToPort
      <4>1. PICK i \in DOMAIN port_configs :
               port_configs' = [port_configs EXCEPT ![i].servers = Append(@, Top)]
        BY <3>1 DEF AddToPort
      <4>2. port_configs[i] \in PortConfig
        BY DEF TypeOK
      <4> DEFINE c == port_configs[i]
                 p == [host |-> c.host, port |-> c.port, servers |-> Append(c.servers, Top)]
      <4>3. c.host \in Host /\ c.port \in 0..MaxPort /\ c.servers \in Seq(1..MaxBlocks)
        BY <4>2 DEF PortConfig
      <4>4. Append(c.servers, Top) \in Seq(1..MaxBlocks)
        BY <2>1, <4>3
      <4>5. p \in PortConfig
        BY <4>3, <4>4 DEF PortConfig
      <4>6. [c EXCEPT !.servers = Append(@, Top)] = p
        BY <4>2, ServerAdded
      <4>7. port_configs' = [port_configs EXCEPT ![i] = p]
        BY <4>1, <4>6
      <4> HIDE DEF p
      <4> QED
        BY <4>5, <4>7 DEF TypeOK
    <3>2. CASE AddPort
      <4>1. servers[Top].host \in Host /\ servers[Top].port \in 0..MaxPort
        <5>1. servers[Top] \in ServerConfig
          BY <2>1 DEF TypeOK
        <5> QED
          BY <5>1 DEF ServerConfig
      <4>2. [host |-> servers[Top].host, port |-> servers[Top].port, servers |-> <<Top>>]
               \in PortConfig
        BY <2>1, <4>1 DEF PortConfig
      <4> QED
        BY <3>2, <4>2 DEF AddPort, TypeOK
    <3> QED
      BY <1>11, <3>1, <3>2
  <2> QED
    BY <1>11, <2>2, <2>3 DEF AddToPort, AddPort, TypeOK, objects
<1>12. CASE EndGrouping
  BY <1>12 DEF EndGrouping, TypeOK, objects
<1>13. CASE UNCHANGED vars
  BY <1>13 DEF vars, objects, TypeOK
<1> QED
  BY <1>1, <1>2, <1>3, <1>4, <1>5, <1>6, <1>7, <1>8, <1>9, <1>10, <1>11, <1>12, <1>13
  DEF Next

(* The parser's variables have their types: the stack holds blocks that    *)
(* were made, and every port fits the uint16_t it is stored in.            *)
THEOREM TypeCorrect == Spec => []TypeOK
  BY TypeInit, TypeStep, PTL DEF Spec

-----------------------------------------------------------------------------
\* Grouping never makes a second PortConfig for a port (FileParser.cpp:279-303).
LEMMA PortsStep == TypeOK /\ PortsDistinct /\ [Next]_vars => PortsDistinct'
<1> SUFFICES ASSUME TypeOK, PortsDistinct, [Next]_vars PROVE PortsDistinct'
  OBVIOUS
<1>1. CASE AddToPort
  <2>1. PICK i \in DOMAIN port_configs :
           port_configs' = [port_configs EXCEPT ![i].servers = Append(@, Top)]
    BY <1>1 DEF AddToPort
  <2>2. port_configs \in Seq(PortConfig)
    BY DEF TypeOK
  <2>3. DOMAIN port_configs' = DOMAIN port_configs
    BY <2>1, <2>2
  <2>4. ASSUME NEW j \in DOMAIN port_configs
        PROVE  port_configs'[j].port = port_configs[j].port
    BY <2>1, <2>2 DEF PortConfig
  <2> QED
    BY <2>3, <2>4 DEF PortsDistinct
<1>2. CASE AddPort
  <2> DEFINE new == [host |-> servers[Top].host, port |-> servers[Top].port,
                     servers |-> <<Top>>]
  <2>1. port_configs' = Append(port_configs, new)
    BY <1>2 DEF AddPort
  <2>2. \A i \in DOMAIN port_configs : port_configs[i].port # new.port
    BY <1>2 DEF AddPort, HasPort
  <2>3. port_configs \in Seq(PortConfig)
    BY DEF TypeOK
  <2> HIDE DEF new
  <2>4. /\ Len(port_configs) \in Nat
        /\ DOMAIN port_configs = 1..Len(port_configs)
        /\ DOMAIN port_configs' = 1..Len(port_configs) + 1
        /\ \A i \in DOMAIN port_configs : port_configs'[i] = port_configs[i]
        /\ port_configs'[Len(port_configs) + 1] = new
    BY <2>1, <2>3
  <2>5. ASSUME NEW i \in DOMAIN port_configs'
        PROVE  i \in DOMAIN port_configs \/ i = Len(port_configs) + 1
    BY <2>4
  <2> QED
    BY <2>2, <2>4, <2>5 DEF PortsDistinct
<1>3. CASE UNCHANGED port_configs
  BY <1>3 DEF PortsDistinct
<1> QED
  BY <1>1, <1>2, <1>3
  DEF Next, Refuse, CommentAtEnd, OpenBrace, CloseBrace, Http, Server, Location, Listen,
      ServerOption, RouteOption, EndOfFile, EndGrouping, vars

(* However a file is written, no two PortConfigs have one port, so no two  *)
(* of the threads main starts bind one (main.cpp:53-56).                   *)
THEOREM PortsApart == Spec => []PortsDistinct
<1>1. Init => PortsDistinct
  BY DEF Init, PortsDistinct
<1> QED
  BY <1>1, TypeCorrect, PortsStep, PTL DEF Spec

-----------------------------------------------------------------------------
(* Where the braces are, and what the keywords before them have set, as    *)
(* long as every brace has followed a keyword.                             *)
Announced ==
    /\ stage # "undefined"
    /\ keyword = "http" => parse_level = BASE
    /\ keyword = "server" => parse_level = HTTP /\ server_block # Null
    /\ keyword = "location" => parse_level = SERVER /\ route # Null
    /\ parse_level =< LOCATION
    /\ parse_level >= SERVER => server_block # Null
    /\ parse_level = LOCATION => route # Null
Nested == ~stray => Announced

\* A keyword sets the pointer its block uses, before the brace that opens it.
LEMMA NestedStep == TypeOK /\ Nested /\ [Next]_vars => Nested'
<1> SUFFICES ASSUME TypeOK, Nested, [Next]_vars, ~stray' PROVE Announced'
  BY DEF Nested
<1>0. ~stray /\ Announced
  <2>1. stray => stray'
    BY Zenon
    DEF Next, Refuse, CommentAtEnd, OpenBrace, CloseBrace, Http, Server, Location, Listen,
        ServerOption, RouteOption, EndOfFile, AddToPort, AddPort, EndGrouping, vars
  <2> QED
    BY <2>1 DEF Nested
<1> USE <1>0 DEF Announced, BASE, HTTP, SERVER, LOCATION, Null
<1>1. CASE Refuse
  BY <1>1 DEF Refuse, Throw, objects
<1>2. CASE CommentAtEnd
  BY <1>2 DEF CommentAtEnd
<1>3. CASE OpenBrace
  <2>1. keyword # "none"
    BY <1>3, Zenon DEF OpenBrace
  <2> QED
    BY <1>3, <2>1 DEF OpenBrace, TypeOK, objects
<1>4. CASE CloseBrace
  <2>1. parse_level \in 1..3 /\ parse_level' = parse_level - 1 /\ keyword' = "none"
    BY <1>4 DEF CloseBrace, InBlock, TypeOK
  <2>2. UNCHANGED <<server_block, route>> /\ stage' # "undefined"
    BY <1>4, <2>1
    DEF CloseBrace, FinishServer, FinishLocation, Throw, Undefine, objects
  <2> QED
    BY <2>1, <2>2
<1>5. CASE Http
  BY <1>5 DEF Http, objects
<1>6. CASE Server
  <2>1. server_block' # Null
    BY <1>6 DEF Server, TypeOK
  <2> QED
    BY <1>6, <2>1 DEF Server
<1>7. CASE Location
  BY <1>7 DEF Location, TypeOK
<1>8. CASE Listen
  BY <1>8 DEF Listen, Throw, Undefine, objects
<1>9. CASE ServerOption \/ RouteOption
  BY <1>9 DEF ServerOption, RouteOption, Throw, Undefine, objects
<1>10. CASE EndOfFile
  BY <1>10 DEF EndOfFile, objects
<1>11. CASE AddToPort \/ AddPort \/ EndGrouping
  BY <1>11 DEF AddToPort, AddPort, EndGrouping, objects
<1>12. CASE UNCHANGED vars
  BY <1>12 DEF vars, objects
<1> QED
  BY <1>1, <1>2, <1>3, <1>4, <1>5, <1>6, <1>7, <1>8, <1>9, <1>10, <1>11, <1>12 DEF Next

(* A file of any length whose braces follow their keywords, and whose last *)
(* line is whole, is read without a use of server_block or route before    *)
(* they are set (FileParser.cpp:172-173, 204-209, 254).                    *)
THEOREM NothingUnset == Spec => []WellDefined
<1>1. Init => Nested
  BY DEF Init, Nested, Announced, BASE, HTTP, SERVER, LOCATION
<1>2. TypeOK /\ Nested /\ [Next]_vars => Nested'
  BY NestedStep
<1>3. Nested => WellDefined
  BY DEF Nested, Announced, WellDefined
<1> QED
  BY <1>1, <1>2, <1>3, TypeCorrect, PTL DEF Spec

-----------------------------------------------------------------------------
(* What a step does to the blocks that have been made. *)

\* The end of a location joins its Route to the block (ServerConfig.cpp:53-56).
Joins ==
    /\ stage = "map" /\ parse_level = LOCATION /\ server_block # Null /\ route # Null
    /\ UNCHANGED <<stage, routes, server_block, route, server_blocks, port_configs>>
    /\ DOMAIN servers' = DOMAIN servers
    /\ \A s \in DOMAIN servers :
          /\ servers'[s].port = servers[s].port
          /\ servers'[s].routes = IF s = server_block THEN Append(servers[s].routes, route)
                                  ELSE servers[s].routes

\* A block is made, with no route and no port (FileParser.cpp:230-236).
Makes ==
    /\ stage = "map" /\ parse_level = HTTP
    /\ UNCHANGED <<stage, parse_level, routes, route, server_blocks, port_configs>>
    /\ keyword' = "server" /\ server_block' = Len(servers) + 1
    /\ DOMAIN servers' = 1..Len(servers) + 1 /\ servers'[Len(servers) + 1].routes = <<>>
    /\ \A s \in DOMAIN servers : servers'[s] = servers[s]

\* A block is given a port (Option.cpp:239-283).
Listens ==
    /\ stage = "map"
    /\ UNCHANGED <<stage, parse_level, keyword, routes, server_block, route, server_blocks,
                   port_configs>>
    /\ DOMAIN servers' = DOMAIN servers
    /\ \A s \in DOMAIN servers : servers'[s].routes = servers[s].routes

\* These are the ways in which a block changes.
LEMMA ServersStep ==
    ASSUME TypeOK, [Next]_vars
    PROVE  \/ UNCHANGED servers
           \/ CloseBrace /\ Joins
           \/ Server /\ Makes
           \/ Listen /\ Listens
<1>0. servers \in Seq(ServerConfig) /\ Len(servers) \in Nat /\ DOMAIN servers = 1..Len(servers)
  BY DEF TypeOK
<1>1. CASE CloseBrace
  <2>1. CASE UNCHANGED servers
    BY <2>1
  <2>2. CASE /\ parse_level = LOCATION /\ server_block # Null /\ route # Null
             /\ servers' = [servers EXCEPT ![server_block].routes = Append(@, route)]
             /\ UNCHANGED <<stage, routes, server_block, route, server_blocks>>
    <3>1. server_block \in DOMAIN servers /\ servers[server_block] \in ServerConfig
      BY <2>2 DEF TypeOK, Null
    <3> DEFINE b == [servers[server_block] EXCEPT !.routes = Append(@, route)]
    <3>2. servers' = [servers EXCEPT ![server_block] = b]
      BY <2>2
    <3>3. b.port = servers[server_block].port
          /\ b.routes = Append(servers[server_block].routes, route)
      BY <3>1 DEF ServerConfig
    <3> HIDE DEF b
    <3>4. /\ DOMAIN servers' = DOMAIN servers
          /\ \A s \in DOMAIN servers : servers'[s] = IF s = server_block THEN b ELSE servers[s]
      BY <1>0, <3>1, <3>2
    <3> QED
      BY <1>1, <2>2, <3>3, <3>4 DEF CloseBrace, Joins
  <2> QED
    BY <1>1, <2>1, <2>2 DEF CloseBrace, FinishServer, FinishLocation, Throw, Undefine, objects,
       SERVER, LOCATION
<1>2. CASE Server
  <2>1. servers' = Append(servers, NewServer) /\ server_block' = Len(servers) + 1
    BY <1>2 DEF Server
  <2>2. NewServer.routes = <<>>
    BY DEF NewServer
  <2>3. /\ DOMAIN servers' = 1..Len(servers) + 1 /\ servers'[Len(servers) + 1] = NewServer
        /\ \A s \in DOMAIN servers : servers'[s] = servers[s]
    BY <1>0, <2>1
  <2> QED
    BY <1>2, <2>1, <2>2, <2>3 DEF Server, Makes
<1>3. CASE Listen
  <2>1. CASE UNCHANGED servers
    BY <2>1
  <2>2. CASE /\ server_block # Null
             /\ \E a \in ListenArgs : \E l \in Listened(a) :
                   servers' = [servers EXCEPT ![server_block].host = l.host,
                                              ![server_block].port = l.port]
             /\ UNCHANGED <<stage, routes, server_block, route, server_blocks>>
    <3>1. server_block \in DOMAIN servers /\ servers[server_block] \in ServerConfig
      BY <2>2 DEF TypeOK, Null
    <3>2. \E h, p : servers' = [servers EXCEPT ![server_block].host = h,
                                               ![server_block].port = p]
      BY <2>2
    <3>3. PICK h, p : servers' = [servers EXCEPT ![server_block].host = h,
                                                 ![server_block].port = p]
      BY <3>2
    <3> DEFINE b == [servers[server_block] EXCEPT !.host = h, !.port = p]
    <3>4. servers' = [servers EXCEPT ![server_block] = b] /\ b.routes = servers[server_block].routes
      BY <1>0, <3>1, <3>3 DEF ServerConfig
    <3> HIDE DEF b
    <3> QED
      BY <1>0, <1>3, <2>2, <3>1, <3>4 DEF Listen, Listens
  <2> QED
    BY <1>3, <2>1, <2>2 DEF Listen, Throw, Undefine, objects
<1> QED
  BY <1>1, <1>2, <1>3
  DEF Next, Refuse, CommentAtEnd, Throw, Undefine, OpenBrace, Http, Location, ServerOption,
      RouteOption, EndOfFile, AddToPort, AddPort, EndGrouping, vars, objects

-----------------------------------------------------------------------------
(* What grouping a block does to the ports. *)

\* The blocks that port i has so far.
Has(i) == IF i \in DOMAIN port_configs THEN port_configs[i].servers ELSE <<>>

\* The top of the stack joins the blocks of one port, the last of them, or is
\* the first of a new one (FileParser.cpp:279-303).
LEMMA GroupStep ==
    ASSUME TypeOK, AddToPort \/ AddPort
    PROVE  \E p \in Nat :
              /\ DOMAIN port_configs' = DOMAIN port_configs \cup {p}
              /\ Has(p) \in Seq(1..MaxBlocks)
              /\ port_configs'[p].port = servers[Top].port
              /\ port_configs'[p].servers = Append(Has(p), Top)
              /\ \A i \in DOMAIN port_configs : i # p => port_configs'[i] = port_configs[i]
              /\ \A i \in DOMAIN port_configs : port_configs'[i].port = port_configs[i].port
<1>0. port_configs \in Seq(PortConfig) /\ <<>> \in Seq(1..MaxBlocks)
  BY DEF TypeOK
<1>1. CASE AddToPort
  <2>1. PICK p \in DOMAIN port_configs :
           /\ port_configs[p].port = servers[Top].port
           /\ port_configs' = [port_configs EXCEPT ![p].servers = Append(@, Top)]
    BY <1>1 DEF AddToPort, HasPort
  <2>2. port_configs[p] \in PortConfig /\ p \in Nat
    BY <1>0
  <2> DEFINE c == [port_configs[p] EXCEPT !.servers = Append(@, Top)]
  <2>3. port_configs' = [port_configs EXCEPT ![p] = c]
    BY <2>1
  <2>4. c.port = port_configs[p].port /\ c.servers = Append(port_configs[p].servers, Top)
    BY <2>2 DEF PortConfig
  <2>5. port_configs[p].servers \in Seq(1..MaxBlocks)
    BY <2>2 DEF PortConfig
  <2> HIDE DEF c
  <2>6. /\ DOMAIN port_configs' = DOMAIN port_configs /\ port_configs'[p] = c
        /\ \A i \in DOMAIN port_configs : i # p => port_configs'[i] = port_configs[i]
    BY <1>0, <2>3
  <2>7. Has(p) = port_configs[p].servers
    BY DEF Has
  <2>8. \A i \in DOMAIN port_configs : port_configs'[i].port = port_configs[i].port
    BY <2>4, <2>6
  <2>9. /\ DOMAIN port_configs' = DOMAIN port_configs \cup {p}
        /\ port_configs'[p].port = servers[Top].port
        /\ port_configs'[p].servers = Append(Has(p), Top)
    BY <2>1, <2>4, <2>6, <2>7
  <2> QED
    BY <2>2, <2>5, <2>6, <2>7, <2>8, <2>9
<1>2. CASE AddPort
  <2> DEFINE p == Len(port_configs) + 1
             c == [host |-> servers[Top].host, port |-> servers[Top].port, servers |-> <<Top>>]
  <2>1. port_configs' = Append(port_configs, c)
    BY <1>2 DEF AddPort
  <2>2. c.port = servers[Top].port /\ c.servers = Append(<<>>, Top)
    OBVIOUS
  <2> HIDE DEF c
  <2>3. /\ p \in Nat /\ p \notin DOMAIN port_configs
        /\ DOMAIN port_configs' = DOMAIN port_configs \cup {p}
        /\ port_configs'[p] = c
        /\ \A i \in DOMAIN port_configs : port_configs'[i] = port_configs[i]
    BY <1>0, <2>1
  <2> HIDE DEF p
  <2> QED
    BY <1>0, <2>2, <2>3 DEF Has
<1> QED
  BY <1>1, <1>2

\* The top of the stack is taken off it.
LEMMA StackPopped ==
    ASSUME TypeOK, AddToPort \/ AddPort
    PROVE  /\ Len(server_blocks) \in DOMAIN server_blocks
           /\ Top \in DOMAIN servers
           /\ DOMAIN server_blocks' = DOMAIN server_blocks \ {Len(server_blocks)}
           /\ \A k \in DOMAIN server_blocks' : server_blocks'[k] = server_blocks[k]
           /\ \A k \in DOMAIN server_blocks' : k < Len(server_blocks)
           /\ stage = "group" /\ UNCHANGED <<stage, parse_level, keyword, objects>>
<1> DEFINE n == Len(server_blocks)
<1>1. /\ server_blocks \in Seq(1..MaxBlocks) /\ n \in Nat /\ n # 0
      /\ server_blocks' = SubSeq(server_blocks, 1, n - 1)
  BY DEF AddToPort, AddPort, TypeOK, Pop
<1>2. n \in DOMAIN server_blocks /\ DOMAIN server_blocks = 1..n /\ Top = server_blocks[n]
  BY <1>1 DEF Top
<1>3. /\ DOMAIN server_blocks' = 1..(n - 1)
      /\ \A k \in 1..(n - 1) : server_blocks'[k] = server_blocks[k]
  BY <1>1
<1>4. Top \in DOMAIN servers
  BY <1>2 DEF TypeOK
<1>5. stage = "group" /\ UNCHANGED <<stage, parse_level, keyword, objects>>
  BY DEF AddToPort, AddPort
<1>6. 1..(n - 1) = (1..n) \ {n} /\ \A k \in 1..(n - 1) : k < n
  BY <1>1
<1> QED
  BY <1>2, <1>3, <1>4, <1>5, <1>6

\* What else happens to the stack and the ports.
LEMMA StackStep ==
    ASSUME TypeOK, [Next]_vars
    PROVE  \/ UNCHANGED <<server_blocks, port_configs>>
           \/ /\ CloseBrace /\ stage = "map" /\ parse_level = SERVER
              /\ parse_level' = parse_level - 1 /\ keyword' = "none"
              /\ server_block \in DOMAIN servers /\ servers[server_block].routes # <<>>
              /\ server_blocks' = Append(server_blocks, server_block)
              /\ UNCHANGED <<stage, objects, port_configs>>
           \/ AddToPort \/ AddPort
<1>1. CASE CloseBrace
  <2>1. CASE UNCHANGED server_blocks
    BY <1>1, <2>1 DEF CloseBrace
  <2>2. CASE server_blocks' # server_blocks
    <3>1. /\ parse_level = SERVER /\ server_block # Null /\ servers[server_block].routes # <<>>
          /\ server_blocks' = Append(server_blocks, server_block) /\ UNCHANGED <<stage, objects>>
      BY <1>1, <2>2 DEF CloseBrace, FinishServer, FinishLocation, Throw, Undefine
    <3> QED
      BY <1>1, <3>1 DEF CloseBrace, TypeOK, Null
  <2> QED
    BY <2>1, <2>2
<1> QED
  BY <1>1
  DEF Next, Refuse, CommentAtEnd, Throw, Undefine, OpenBrace, Http, Server, Location, Listen,
      ServerOption, RouteOption, EndOfFile, EndGrouping, vars, objects

-----------------------------------------------------------------------------
(* A block that is on the stack or served has been made, and has a route.  *)
Routed(s) == s \in DOMAIN servers /\ servers[s].routes # <<>>
AllRouted ==
    /\ \A k \in DOMAIN server_blocks : Routed(server_blocks[k])
    /\ \A i \in DOMAIN port_configs : \A k \in DOMAIN port_configs[i].servers :
          Routed(port_configs[i].servers[k])

\* A block that has a route keeps it.
LEMMA RoutedStays ==
    ASSUME TypeOK, [Next]_vars, NEW s, Routed(s)
    PROVE  Routed(s)'
<1>0. /\ servers \in Seq(ServerConfig) /\ DOMAIN servers = 1..Len(servers) /\ Len(servers) \in Nat
      /\ servers[s].routes \in Seq(1..MaxRoutes)
  <2>1. servers \in Seq(ServerConfig) /\ s \in DOMAIN servers
    BY DEF TypeOK, Routed
  <2>2. servers[s] \in ServerConfig
    BY <2>1
  <2> QED
    BY <2>1, <2>2 DEF ServerConfig
<1>1. CASE Joins
  <2>1. Append(servers[s].routes, route) # <<>>
    BY <1>0
  <2> QED
    BY <1>1, <2>1 DEF Joins, Routed
<1>2. CASE Makes
  BY <1>0, <1>2 DEF Makes, Routed
<1>3. CASE Listens
  BY <1>3 DEF Listens, Routed
<1>4. CASE UNCHANGED servers
  BY <1>4 DEF Routed
<1> QED
  BY <1>1, <1>2, <1>3, <1>4, ServersStep

\* Only a block that has a route is finished (FileParser.cpp:204-209).
LEMMA RoutedStep == TypeOK /\ AllRouted /\ [Next]_vars => AllRouted'
<1> SUFFICES ASSUME TypeOK, AllRouted, [Next]_vars PROVE AllRouted'
  OBVIOUS
<1>1. \A s : Routed(s) => Routed(s)'
  BY RoutedStays
<1>2. CASE UNCHANGED <<server_blocks, port_configs>>
  BY <1>1, <1>2 DEF AllRouted
<1>3. CASE /\ Routed(server_block)
           /\ server_blocks' = Append(server_blocks, server_block)
           /\ UNCHANGED port_configs
  <2>1. server_blocks \in Seq(1..MaxBlocks)
    BY DEF TypeOK
  <2>2. \A k \in DOMAIN server_blocks' :
           \/ server_blocks'[k] = server_block
           \/ k \in DOMAIN server_blocks /\ server_blocks'[k] = server_blocks[k]
    BY <1>3, <2>1
  <2> QED
    BY <1>1, <1>3, <2>2 DEF AllRouted
<1>4. CASE AddToPort \/ AddPort
  <2>1. Routed(Top)
    BY <1>4, StackPopped DEF AllRouted, Top
  <2>2. \A k \in DOMAIN server_blocks' : Routed(server_blocks'[k])
    BY <1>4, StackPopped DEF AllRouted
  <2>3. PICK p \in Nat :
           /\ DOMAIN port_configs' = DOMAIN port_configs \cup {p}
           /\ Has(p) \in Seq(1..MaxBlocks)
           /\ port_configs'[p].servers = Append(Has(p), Top)
           /\ \A i \in DOMAIN port_configs : i # p => port_configs'[i] = port_configs[i]
    BY <1>4, GroupStep
  <2>4. \A k \in DOMAIN port_configs'[p].servers :
           Routed(port_configs'[p].servers[k])
    <3> SUFFICES ASSUME NEW k \in DOMAIN port_configs'[p].servers
                 PROVE  Routed(port_configs'[p].servers[k])
      OBVIOUS
    <3>1. \/ port_configs'[p].servers[k] = Top
          \/ k \in DOMAIN Has(p) /\ port_configs'[p].servers[k] = Has(p)[k]
      BY <2>3
    <3> QED
      BY <2>1, <3>1 DEF AllRouted, Has
  <2>5. \A i \in DOMAIN port_configs' : \A k \in DOMAIN port_configs'[i].servers :
           Routed(port_configs'[i].servers[k])
    BY <2>3, <2>4 DEF AllRouted
  <2> QED
    BY <1>1, <2>2, <2>5 DEF AllRouted
<1> QED
  BY <1>2, <1>3, <1>4, StackStep DEF Routed

\* However the braces of a file are placed, a block that is served has a route
\* (FileParser.cpp:204-209, 279-303).
THEOREM ServedRouted == Spec => []ServedHaveRoutes
<1>1. Init => AllRouted
  BY DEF Init, AllRouted
<1>2. AllRouted => ServedHaveRoutes
  BY DEF AllRouted, Routed, ServedHaveRoutes, Served
<1> QED
  BY <1>1, <1>2, RoutedStep, TypeCorrect, PTL DEF Spec

-----------------------------------------------------------------------------
(* No Route is listed twice, unless the braces are astray. *)

InLocation == parse_level = LOCATION \/ keyword = "location"

RoutesOwned ==
    /\ \A s \in DOMAIN servers : \A k \in DOMAIN servers[s].routes :
          /\ servers[s].routes[k] =< routes
          /\ InLocation => servers[s].routes[k] # route
    /\ InLocation => route = routes
    /\ \A s, t \in DOMAIN servers :
          \A k \in DOMAIN servers[s].routes, l \in DOMAIN servers[t].routes :
             servers[s].routes[k] = servers[t].routes[l] => s = t /\ k = l

\* Braces that are not astray at the end of a step were not before it.
LEMMA StrayStays == [Next]_vars /\ ~stray' => ~stray
<1> SUFFICES ASSUME [Next]_vars, ~stray' PROVE ~stray
  OBVIOUS
<1>1. stray => stray'
  BY Zenon
  DEF Next, Refuse, CommentAtEnd, OpenBrace, CloseBrace, Http, Server, Location, Listen,
      ServerOption, RouteOption, EndOfFile, AddToPort, AddPort, EndGrouping, vars
<1> QED
  BY <1>1

\* Only location leads into a location, and it makes a Route.
LEMMA LocationStep ==
    ASSUME TypeOK, Announced, ~stray', [Next]_vars
    PROVE  Location \/ (UNCHANGED <<routes, route>> /\ (InLocation' => InLocation))
<1> USE DEF BASE, HTTP, SERVER, LOCATION
<1>1. CASE OpenBrace
  <2>1. keyword # "none" /\ parse_level' = parse_level + 1 /\ keyword' = "none"
    BY <1>1, Zenon DEF OpenBrace
  <2>2. parse_level' = LOCATION => keyword = "location"
    BY <2>1 DEF Announced, TypeOK
  <2> QED
    BY <1>1, <2>1, <2>2 DEF OpenBrace, InLocation, objects
<1>2. CASE CloseBrace
  <2>1. keyword' = "none" /\ parse_level' = parse_level - 1 /\ UNCHANGED <<routes, route>>
    BY <1>2 DEF CloseBrace, FinishServer, FinishLocation, Throw, Undefine, objects
  <2>2. parse_level' # LOCATION
    BY <2>1 DEF Announced, TypeOK
  <2> QED
    BY <2>1, <2>2 DEF InLocation
<1>3. CASE Http \/ Server
  BY <1>3 DEF Http, Server, InLocation, objects
<1>4. CASE UNCHANGED <<parse_level, keyword, routes, route>>
  BY <1>4 DEF InLocation
<1> QED
  BY <1>1, <1>2, <1>3, <1>4
  DEF Next, Refuse, CommentAtEnd, Throw, Undefine, Listen, ServerOption, RouteOption,
      EndOfFile, AddToPort, AddPort, EndGrouping, vars, objects

\* What is in a sequence of elements of a set is one of them.
LEMMA ElementIn ==
    ASSUME NEW S, NEW q \in Seq(S), NEW k \in DOMAIN q
    PROVE  q[k] \in S
  OBVIOUS

\* A step that lists no Route keeps them apart.
LEMMA RoutesFrame ==
    ASSUME TypeOK, Announced, RoutesOwned, ~stray', [Next]_vars,
           \A s \in DOMAIN servers' : \A k \in DOMAIN servers'[s].routes :
              /\ s \in DOMAIN servers /\ k \in DOMAIN servers[s].routes
              /\ servers'[s].routes[k] = servers[s].routes[k]
    PROVE  RoutesOwned'
<1>1. CASE Location
  <2>1. routes' = routes + 1 /\ route' = routes + 1 /\ routes \in Nat
    BY <1>1 DEF Location, TypeOK
  <2>2. \A s \in DOMAIN servers : \A k \in DOMAIN servers[s].routes :
           servers[s].routes[k] \in Nat
    <3> SUFFICES ASSUME NEW s \in DOMAIN servers, NEW k \in DOMAIN servers[s].routes
                 PROVE  servers[s].routes[k] \in Nat
      OBVIOUS
    <3>1. servers[s] \in ServerConfig
      BY DEF TypeOK
    <3>2. servers[s].routes \in Seq(1..MaxRoutes)
      BY <3>1 DEF ServerConfig
    <3>3. servers[s].routes[k] \in 1..MaxRoutes
      BY <3>2, ElementIn
    <3> QED
      BY <3>3, BoundAssumption
  <2> QED
    BY <2>1, <2>2 DEF RoutesOwned
<1>2. CASE UNCHANGED <<routes, route>> /\ (InLocation' => InLocation)
  BY <1>2 DEF RoutesOwned
<1> QED
  BY <1>1, <1>2, LocationStep

\* The end of a location lists a Route that no block has (FileParser.cpp:212-214).
LEMMA JoinsOnce ==
    ASSUME TypeOK, Announced, RoutesOwned, ~stray', CloseBrace, Joins
    PROVE  RoutesOwned'
<1> DEFINE b == server_block
           n == Len(servers[b].routes) + 1
<1>1. /\ InLocation /\ ~InLocation' /\ b \in DOMAIN servers
      /\ UNCHANGED <<routes, route>> /\ DOMAIN servers' = DOMAIN servers
  BY DEF Joins, CloseBrace, InLocation, TypeOK, Null, LOCATION
<1>2. servers[b].routes \in Seq(1..MaxRoutes)
  <2>1. servers[b] \in ServerConfig
    BY <1>1 DEF TypeOK
  <2> QED
    BY <2>1 DEF ServerConfig
<1>3. /\ DOMAIN servers'[b].routes = DOMAIN servers[b].routes \cup {n}
      /\ n \notin DOMAIN servers[b].routes /\ servers'[b].routes[n] = route
      /\ \A k \in DOMAIN servers[b].routes : servers'[b].routes[k] = servers[b].routes[k]
  <2>1. servers'[b].routes = Append(servers[b].routes, route)
    BY <1>1 DEF Joins
  <2>2. PICK q \in Seq(1..MaxRoutes) : q = servers[b].routes
    BY <1>2
  <2>3. /\ DOMAIN Append(q, route) = DOMAIN q \cup {Len(q) + 1}
        /\ Len(q) + 1 \notin DOMAIN q /\ Append(q, route)[Len(q) + 1] = route
        /\ \A k \in DOMAIN q : Append(q, route)[k] = q[k]
    OBVIOUS
  <2> QED
    BY <2>1, <2>2, <2>3
<1>4. \A s \in DOMAIN servers : s # b => servers'[s].routes = servers[s].routes
  BY DEF Joins
<1> HIDE DEF b, n
<1>5. route = routes /\ routes \in Nat
  BY <1>1 DEF RoutesOwned, TypeOK
<1>6. ASSUME NEW s \in DOMAIN servers', NEW k \in DOMAIN servers'[s].routes
      PROVE  /\ s \in DOMAIN servers
             /\ \/ s = b /\ k = n /\ servers'[s].routes[k] = route
                \/ k \in DOMAIN servers[s].routes
                   /\ servers'[s].routes[k] = servers[s].routes[k]
  BY <1>1, <1>3, <1>4, <1>6
<1>7. \A s \in DOMAIN servers : \A k \in DOMAIN servers[s].routes :
         servers[s].routes[k] # route /\ servers[s].routes[k] =< routes
  BY <1>1 DEF RoutesOwned
<1>8. \A s \in DOMAIN servers' : \A k \in DOMAIN servers'[s].routes :
         servers'[s].routes[k] =< routes
  BY <1>5, <1>6, <1>7
<1>9. ASSUME NEW s \in DOMAIN servers', NEW t \in DOMAIN servers',
             NEW k \in DOMAIN servers'[s].routes, NEW l \in DOMAIN servers'[t].routes,
             servers'[s].routes[k] = servers'[t].routes[l]
      PROVE  s = t /\ k = l
  <2>1. CASE /\ k \in DOMAIN servers[s].routes /\ servers'[s].routes[k] = servers[s].routes[k]
             /\ l \in DOMAIN servers[t].routes /\ servers'[t].routes[l] = servers[t].routes[l]
    <3>1. s \in DOMAIN servers /\ t \in DOMAIN servers
      BY <1>1
    <3>2. servers[s].routes[k] = servers[t].routes[l]
      BY <1>9, <2>1
    <3> QED
      BY <2>1, <3>1, <3>2 DEF RoutesOwned
  <2> QED
    BY <1>1, <1>6, <1>7, <1>9, <2>1
<1> QED
  BY <1>1, <1>8, <1>9 DEF RoutesOwned

\* Every step keeps the Routes apart, unless the braces are astray.
LEMMA RoutesStep ==
    TypeOK /\ Nested /\ (~stray => RoutesOwned) /\ [Next]_vars => (~stray' => RoutesOwned')
<1> SUFFICES ASSUME TypeOK, Nested, ~stray => RoutesOwned, [Next]_vars, ~stray'
             PROVE  RoutesOwned'
  OBVIOUS
<1>1. ~stray /\ Announced /\ RoutesOwned
  BY StrayStays DEF Nested
<1>2. CASE CloseBrace /\ Joins
  BY <1>1, <1>2, JoinsOnce
<1>3. CASE Makes
  <2>1. DOMAIN servers = 1..Len(servers) /\ Len(servers) \in Nat
    BY DEF TypeOK
  <2>2. \A s \in DOMAIN servers' : s \in DOMAIN servers \/ servers'[s].routes = <<>>
    BY <1>3, <2>1 DEF Makes
  <2>3. \A s \in DOMAIN servers' : \A k \in DOMAIN servers'[s].routes : s \in DOMAIN servers
    BY <2>2
  <2> QED
    BY <1>1, <1>3, <2>3, RoutesFrame DEF Makes
<1>4. CASE Listens
  BY <1>1, <1>4, RoutesFrame DEF Listens
<1>5. CASE UNCHANGED servers
  BY <1>1, <1>5, RoutesFrame
<1> QED
  BY <1>2, <1>3, <1>4, <1>5, ServersStep
-----------------------------------------------------------------------------
(* Where a finished block is: on the stack, then in one PortConfig.        *)

\* The last block that was made may still be given routes.
Inside == parse_level >= SERVER \/ keyword = "server"

LastOnTop ==
    /\ Inside => /\ server_block = Len(servers)
                 /\ \A k \in DOMAIN server_blocks : server_blocks[k] < server_block
    /\ \A k, l \in DOMAIN server_blocks : k < l => server_blocks[k] < server_blocks[l]

Phases ==
    /\ stage \notin {"group", "done"} => port_configs = <<>>
    /\ stage \in {"group", "done"} => parse_level = BASE
    /\ stage = "done" => server_blocks = <<>>

\* A block is served after those that come later in the file, and by one port.
ServedApart ==
    /\ \A i \in DOMAIN port_configs : \A s \in Served(i) : \A k \in DOMAIN server_blocks :
          server_blocks[k] < s
    /\ \A i \in DOMAIN port_configs : \A k, l \in DOMAIN port_configs[i].servers :
          k < l => port_configs[i].servers[k] > port_configs[i].servers[l]
    /\ \A i, j \in DOMAIN port_configs : i # j => Served(i) \cap Served(j) = {}

Located(s) ==
    \/ parse_level >= SERVER /\ s = server_block
    \/ \E k \in DOMAIN server_blocks : server_blocks[k] = s
    \/ \E i \in DOMAIN port_configs : s \in Served(i) /\ port_configs[i].port = servers[s].port

AllLocated == \A s \in DOMAIN servers : servers[s].routes # <<>> => Located(s)

BlocksOwned == LastOnTop /\ Phases /\ ServedApart /\ AllLocated

\* Only server leads into a block, and it makes one.
LEMMA InsideStep ==
    ASSUME TypeOK, Announced, ~stray', [Next]_vars
    PROVE  Server \/ (UNCHANGED server_block /\ (Inside' => Inside))
<1> USE DEF BASE, HTTP, SERVER, LOCATION
<1>1. CASE OpenBrace
  <2>1. keyword # "none" /\ parse_level' = parse_level + 1 /\ keyword' = "none"
    BY <1>1, Zenon DEF OpenBrace
  <2>2. parse_level' >= SERVER => Inside
    BY <2>1 DEF Announced, TypeOK, Inside
  <2> QED
    BY <1>1, <2>1, <2>2 DEF OpenBrace, Inside, objects
<1>2. CASE CloseBrace
  <2>1. keyword' = "none" /\ parse_level' = parse_level - 1 /\ UNCHANGED server_block
    BY <1>2 DEF CloseBrace, FinishServer, FinishLocation, Throw, Undefine, objects
  <2>2. parse_level' >= SERVER => parse_level >= SERVER
    BY <2>1 DEF TypeOK
  <2> QED
    BY <2>1, <2>2 DEF Inside
<1>3. CASE Http \/ Location
  BY <1>3 DEF Http, Location, Inside, objects
<1>4. CASE UNCHANGED <<parse_level, keyword, server_block>>
  BY <1>4 DEF Inside
<1> QED
  BY <1>1, <1>2, <1>3, <1>4
  DEF Next, Refuse, CommentAtEnd, Throw, Undefine, Server, Listen, ServerOption, RouteOption,
      EndOfFile, AddToPort, AddPort, EndGrouping, vars, objects

\* Blocks are grouped only when the file has been read (FileParser.cpp:118-121).
LEMMA PhasesStep == TypeOK /\ Phases /\ [Next]_vars => Phases'
<1> SUFFICES ASSUME TypeOK, Phases, [Next]_vars PROVE Phases'
  OBVIOUS
<1>1. CASE AddToPort \/ AddPort
  <2>1. stage = "group" /\ UNCHANGED <<stage, parse_level>>
    BY <1>1, StackPopped
  <2> QED
    BY <2>1 DEF Phases
<1>2. CASE CloseBrace
  BY <1>2 DEF CloseBrace, FinishServer, FinishLocation, Throw, Undefine, objects, Phases
<1>3. CASE Listen \/ ServerOption \/ RouteOption
  BY <1>3 DEF Listen, ServerOption, RouteOption, Throw, Undefine, objects, Phases
<1> QED
  BY <1>1, <1>2, <1>3
  DEF Next, Refuse, CommentAtEnd, Throw, Undefine, OpenBrace, Http, Server, Location,
      EndOfFile, EndGrouping, vars, objects, Phases

\* The stack holds the blocks in the order of the file (FileParser.cpp:204-209).
LEMMA LastOnTopStep ==
    ASSUME TypeOK, Announced, LastOnTop, ~stray', [Next]_vars
    PROVE  LastOnTop'
<1>0. /\ Len(servers) \in Nat /\ DOMAIN servers = 1..Len(servers)
      /\ \A k \in DOMAIN server_blocks : server_blocks[k] \in DOMAIN servers
  BY DEF TypeOK
<1>1. CASE Server
  <2>1. /\ servers' = Append(servers, NewServer) /\ server_block' = Len(servers) + 1
        /\ UNCHANGED server_blocks
    BY <1>1 DEF Server
  <2>2. Len(servers') = Len(servers) + 1
    BY <2>1 DEF TypeOK
  <2>3. \A k \in DOMAIN server_blocks : server_blocks[k] < Len(servers) + 1
    BY <1>0
  <2> QED
    BY <2>1, <2>2, <2>3 DEF LastOnTop
<1>2. ASSUME UNCHANGED server_block, Inside' => Inside, UNCHANGED server_blocks
      PROVE  LastOnTop'
  <2>1. Inside => Len(servers') = Len(servers) \/ Server
    <3>1. CASE UNCHANGED servers
      BY <3>1
    <3>2. CASE Joins \/ Listens
      <4>1. DOMAIN servers' = DOMAIN servers
        BY <3>2 DEF Joins, Listens
      <4>2. servers' \in Seq(ServerConfig)
        BY TypeStep DEF TypeOK
      <4> QED
        BY <1>0, <4>1, <4>2
    <3> QED
      BY <3>1, <3>2, ServersStep
  <2> QED
    BY <1>1, <1>2, <2>1 DEF LastOnTop
<1>3. ASSUME UNCHANGED server_block, parse_level = SERVER, parse_level' = parse_level - 1,
             keyword' = "none", server_blocks' = Append(server_blocks, server_block)
      PROVE  LastOnTop'
  <2>1. ~Inside' /\ Inside
    BY <1>3 DEF Inside, SERVER
  <2>2. /\ server_blocks \in Seq(1..MaxBlocks)
        /\ \A k \in DOMAIN server_blocks : server_blocks[k] \in Nat
    BY <1>0 DEF TypeOK
  <2>3. \A k, l \in DOMAIN server_blocks' :
           k < l => /\ k \in DOMAIN server_blocks /\ server_blocks'[k] = server_blocks[k]
                    /\ \/ l \in DOMAIN server_blocks /\ server_blocks'[l] = server_blocks[l]
                       \/ server_blocks'[l] = server_block
    BY <1>3, <2>2
  <2> QED
    BY <2>1, <2>3 DEF LastOnTop
<1>4. CASE AddToPort \/ AddPort
  <2>1. /\ DOMAIN server_blocks' \subseteq DOMAIN server_blocks
        /\ \A k \in DOMAIN server_blocks' : server_blocks'[k] = server_blocks[k]
        /\ UNCHANGED <<parse_level, keyword, objects>>
    BY <1>4, StackPopped
  <2> QED
    BY <2>1 DEF LastOnTop, Inside, objects
<1> QED
  BY <1>1, <1>2, <1>3, <1>4, InsideStep, StackStep DEF objects

\* The top of the stack joins blocks that come after it in the file, and no
\* other port has it (FileParser.cpp:279-303).
LEMMA GroupedApart ==
    ASSUME TypeOK, LastOnTop, ServedApart, AddToPort \/ AddPort
    PROVE  ServedApart'
<1>1. PICK p \in Nat :
         /\ DOMAIN port_configs' = DOMAIN port_configs \cup {p}
         /\ Has(p) \in Seq(1..MaxBlocks)
         /\ port_configs'[p].servers = Append(Has(p), Top)
         /\ \A i \in DOMAIN port_configs : i # p => port_configs'[i] = port_configs[i]
  BY GroupStep
<1>2. /\ Len(server_blocks) \in DOMAIN server_blocks /\ Top = server_blocks[Len(server_blocks)]
      /\ Top \in Nat
      /\ \A k \in DOMAIN server_blocks' : /\ k \in DOMAIN server_blocks /\ k < Len(server_blocks)
                                         /\ server_blocks'[k] = server_blocks[k]
  <2>1. Top \in DOMAIN servers /\ servers \in Seq(ServerConfig)
    BY StackPopped DEF TypeOK
  <2> QED
    BY <2>1, StackPopped DEF Top
<1>3. \A i \in DOMAIN port_configs : \A s \in Served(i) : Top < s
  BY <1>2 DEF ServedApart
<1>4. \A k \in DOMAIN server_blocks' : server_blocks'[k] < Top
  BY <1>2 DEF LastOnTop
<1>5. \A i \in DOMAIN port_configs : i # p => Served(i)' = Served(i)
  BY <1>1 DEF Served
<1>6. /\ \A k \in DOMAIN Has(p) : k \in DOMAIN port_configs'[p].servers
      /\ \A k \in DOMAIN port_configs'[p].servers :
            \/ port_configs'[p].servers[k] = Top /\ \A l \in DOMAIN Has(p) : l < k
            \/ k \in DOMAIN Has(p) /\ port_configs'[p].servers[k] = Has(p)[k]
  <2>1. PICK q \in Seq(1..MaxBlocks) : q = Has(p)
    BY <1>1
  <2>2. /\ \A k \in DOMAIN q : k \in DOMAIN Append(q, Top)
        /\ \A k \in DOMAIN Append(q, Top) :
              \/ Append(q, Top)[k] = Top /\ \A l \in DOMAIN q : l < k
              \/ k \in DOMAIN q /\ Append(q, Top)[k] = q[k]
    OBVIOUS
  <2> QED
    BY <1>1, <2>1, <2>2
<1>7. \A s \in Served(p)' : s = Top \/ (p \in DOMAIN port_configs /\ s \in Served(p))
  BY <1>6 DEF Served, Has
<1>8. \A i \in DOMAIN port_configs' : \A s \in Served(i)' : \A k \in DOMAIN server_blocks' :
         server_blocks'[k] < s
  <2> SUFFICES ASSUME NEW i \in DOMAIN port_configs', NEW s \in Served(i)',
                      NEW k \in DOMAIN server_blocks'
               PROVE  server_blocks'[k] < s
    OBVIOUS
  <2>1. s = Top \/ (i \in DOMAIN port_configs /\ s \in Served(i))
    BY <1>1, <1>5, <1>7
  <2> QED
    BY <1>2, <1>4, <2>1 DEF ServedApart
<1>9. \A i \in DOMAIN port_configs' : \A k, l \in DOMAIN port_configs'[i].servers :
         k < l => port_configs'[i].servers[k] > port_configs'[i].servers[l]
  <2> SUFFICES ASSUME NEW k \in DOMAIN port_configs'[p].servers,
                      NEW l \in DOMAIN port_configs'[p].servers, k < l
               PROVE  port_configs'[p].servers[k] > port_configs'[p].servers[l]
    BY <1>1 DEF ServedApart
  <2>1. k \in Nat /\ l \in Nat
    BY <1>1
  <2>2. k \in DOMAIN Has(p) /\ port_configs'[p].servers[k] = Has(p)[k]
    <3>1. CASE \A j \in DOMAIN Has(p) : j < k
      <4>1. l \notin DOMAIN Has(p)
        BY <2>1, <3>1
      <4> QED
        BY <1>1, <2>1, <4>1
    <3> QED
      BY <1>6, <3>1
  <2>3. CASE port_configs'[p].servers[l] = Top
    BY <1>2, <1>3, <2>2, <2>3 DEF Has, Served
  <2>4. CASE l \in DOMAIN Has(p) /\ port_configs'[p].servers[l] = Has(p)[l]
    BY <2>2, <2>4 DEF Has, ServedApart
  <2> QED
    BY <1>6, <2>3, <2>4
<1>10. \A i, j \in DOMAIN port_configs' : i # j => Served(i)' \cap Served(j)' = {}
  <2>1. ASSUME NEW i \in DOMAIN port_configs, i # p PROVE Served(i)' \cap Served(p)' = {}
    <3>1. Top \notin Served(i)
      BY <1>2, <1>3
    <3> QED
      BY <1>5, <1>7, <2>1, <3>1 DEF ServedApart
  <2>2. ASSUME NEW i \in DOMAIN port_configs, NEW j \in DOMAIN port_configs,
               i # p, j # p, i # j
        PROVE  Served(i)' \cap Served(j)' = {}
    BY <1>5, <2>2 DEF ServedApart
  <2> QED
    BY <1>1, <2>1, <2>2
<1> QED
  BY <1>8, <1>9, <1>10 DEF ServedApart

\* While the file is read, nothing is served yet.
LEMMA ServedApartStep ==
    ASSUME TypeOK, LastOnTop, Phases, ServedApart, [Next]_vars
    PROVE  ServedApart'
<1>1. CASE UNCHANGED <<server_blocks, port_configs>>
  BY <1>1 DEF ServedApart, Served
<1>2. CASE stage = "map" /\ UNCHANGED port_configs
  <2>1. port_configs = <<>> /\ port_configs' = <<>>
    BY <1>2 DEF Phases
  <2> QED
    BY <2>1 DEF ServedApart
<1> QED
  BY <1>1, <1>2, GroupedApart, StackStep

\* A block that has a route is found where it was, or one step on.
LEMMA LocatedStep ==
    ASSUME TypeOK, BlocksOwned, Announced, ~stray', [Next]_vars
    PROVE  AllLocated'
<1>0. /\ Len(servers) \in Nat /\ DOMAIN servers = 1..Len(servers)
      /\ LastOnTop /\ Phases /\ AllLocated
  BY DEF TypeOK, BlocksOwned
<1>1. CASE /\ CloseBrace /\ Joins
  <2>1. /\ parse_level' = SERVER
        /\ UNCHANGED <<server_block, server_blocks, port_configs>>
        /\ DOMAIN servers' = DOMAIN servers
        /\ \A t \in DOMAIN servers :
              /\ servers'[t].port = servers[t].port
              /\ t # server_block => servers'[t].routes = servers[t].routes
    BY <1>1 DEF CloseBrace, Joins, SERVER, LOCATION
  <2> SUFFICES ASSUME NEW s \in DOMAIN servers', servers'[s].routes # <<>>, s # server_block
               PROVE  Located(s)'
    BY <2>1 DEF AllLocated, Located, SERVER
  <2>2. servers[s].routes # <<>> /\ s \in DOMAIN servers
    <3>1. /\ s \in DOMAIN servers /\ servers'[s].routes = servers[s].routes
      BY <2>1
    <3> QED
      BY <3>1
  <2>3. Located(s)
    BY <1>0, <2>2 DEF AllLocated
  <2>4. CASE \E k \in DOMAIN server_blocks : server_blocks[k] = s
    BY <2>1, <2>4 DEF Located
  <2>5. CASE \E i \in DOMAIN port_configs :
                s \in Served(i) /\ port_configs[i].port = servers[s].port
    <3>1. servers'[s].port = servers[s].port
      BY <2>1
    <3>2. \A i \in DOMAIN port_configs : Served(i)' = Served(i)
      BY <2>1 DEF Served
    <3> QED
      BY <2>1, <2>5, <3>1, <3>2 DEF Located
  <2> QED
    BY <2>3, <2>4, <2>5 DEF Located
<1>2. CASE Makes
  <2> SUFFICES ASSUME NEW s \in DOMAIN servers', servers'[s].routes # <<>>
               PROVE  Located(s)'
    BY DEF AllLocated
  <2>1. s \in DOMAIN servers /\ servers'[s] = servers[s] /\ parse_level = HTTP
        /\ UNCHANGED <<server_blocks, port_configs>>
    BY <1>0, <1>2 DEF Makes
  <2>2. Located(s) /\ ~(parse_level >= SERVER)
    BY <1>0, <2>1 DEF AllLocated, HTTP, SERVER
  <2> QED
    BY <2>1, <2>2 DEF Located, Served
<1>3. CASE Listens
  <2>1. UNCHANGED <<parse_level, server_block, server_blocks, port_configs>> /\ port_configs = <<>>
    BY <1>0, <1>3 DEF Listens, Phases
  <2> QED
    BY <1>0, <1>3, <2>1 DEF Listens, AllLocated, Located
<1>4. CASE UNCHANGED servers
  <2> SUFFICES ASSUME NEW s \in DOMAIN servers, servers[s].routes # <<>>, Located(s)
               PROVE  Located(s)'
    BY <1>0, <1>4 DEF AllLocated
  <2>0. UNCHANGED server_block
    <3>1. ~Server
      BY <1>4 DEF Server, TypeOK
    <3> QED
      BY <3>1, InsideStep
  <2>1. CASE /\ UNCHANGED <<server_blocks, port_configs>>
             /\ server_blocks' # Append(server_blocks, server_block)
    <3>1. CASE parse_level >= SERVER /\ s = server_block
      <4>1. ~(CloseBrace /\ parse_level = SERVER)
        BY <2>1, <3>1 DEF CloseBrace, FinishServer, Announced, SERVER, LOCATION, HTTP
      <4>2. OpenBrace \/ CloseBrace \/ UNCHANGED parse_level
        BY DEF Next, Refuse, CommentAtEnd, Http, Server, Location, Listen, ServerOption,
           RouteOption, EndOfFile, AddToPort, AddPort, EndGrouping, vars
      <4>3. parse_level \in Nat
        BY BoundAssumption DEF TypeOK
      <4>4. parse_level' >= SERVER
        BY <3>1, <4>1, <4>2, <4>3 DEF OpenBrace, CloseBrace, SERVER
      <4> QED
        BY <2>0, <3>1, <4>4 DEF Located
    <3>2. CASE ~(parse_level >= SERVER /\ s = server_block)
      BY <1>4, <2>1, <3>2 DEF Located, Served
    <3> QED
      BY <3>1, <3>2
  <2>2. CASE /\ server_blocks' = Append(server_blocks, server_block)
             /\ parse_level = SERVER /\ UNCHANGED port_configs
    <3>1. /\ server_blocks \in Seq(1..MaxBlocks)
          /\ Len(server_blocks) + 1 \in DOMAIN server_blocks'
          /\ server_blocks'[Len(server_blocks) + 1] = server_block
          /\ \A k \in DOMAIN server_blocks : k \in DOMAIN server_blocks'
                                            /\ server_blocks'[k] = server_blocks[k]
      BY <2>2 DEF TypeOK
    <3> QED
      BY <1>4, <2>2, <3>1 DEF Located, Served
  <2>3. CASE AddToPort \/ AddPort
    <3>1. /\ stage = "group" /\ Len(server_blocks) \in DOMAIN server_blocks
          /\ Top = server_blocks[Len(server_blocks)]
          /\ DOMAIN server_blocks' = DOMAIN server_blocks \ {Len(server_blocks)}
          /\ \A k \in DOMAIN server_blocks' : server_blocks'[k] = server_blocks[k]
      BY <2>3, StackPopped DEF Top
    <3>2. ~(parse_level >= SERVER)
      BY <1>0, <3>1 DEF Phases, BASE, SERVER
    <3>3. PICK p \in Nat :
             /\ DOMAIN port_configs' = DOMAIN port_configs \cup {p}
             /\ Has(p) \in Seq(1..MaxBlocks)
             /\ port_configs'[p].port = servers[Top].port
             /\ port_configs'[p].servers = Append(Has(p), Top)
             /\ \A i \in DOMAIN port_configs : i # p => port_configs'[i] = port_configs[i]
             /\ \A i \in DOMAIN port_configs : port_configs'[i].port = port_configs[i].port
      BY <2>3, GroupStep
    <3>4. Top \in Served(p)' /\ \A i \in DOMAIN port_configs : Served(i) \subseteq Served(i)'
      <4>1. PICK q \in Seq(1..MaxBlocks) : q = Has(p)
        BY <3>3
      <4>2. /\ Len(q) + 1 \in DOMAIN Append(q, Top) /\ Append(q, Top)[Len(q) + 1] = Top
            /\ \A k \in DOMAIN q : k \in DOMAIN Append(q, Top) /\ Append(q, Top)[k] = q[k]
        OBVIOUS
      <4>3. Top \in Served(p)'
        BY <3>3, <4>1, <4>2 DEF Served
      <4>4. p \in DOMAIN port_configs => Served(p) \subseteq Served(p)'
        BY <3>3, <4>1, <4>2 DEF Served, Has
      <4>5. \A i \in DOMAIN port_configs : i # p => Served(i)' = Served(i)
        BY <3>3 DEF Served
      <4> QED
        BY <4>3, <4>4, <4>5
    <3>5. CASE s = Top
      BY <1>4, <3>3, <3>4, <3>5 DEF Located
    <3>6. CASE s # Top /\ \E k \in DOMAIN server_blocks : server_blocks[k] = s
      BY <3>1, <3>6 DEF Located
    <3>7. CASE \E i \in DOMAIN port_configs :
                  s \in Served(i) /\ port_configs[i].port = servers[s].port
      BY <1>4, <3>3, <3>4, <3>7 DEF Located
    <3> QED
      BY <3>2, <3>5, <3>6, <3>7 DEF Located
  <2> QED
    BY <2>1, <2>2, <2>3, StackStep
<1> QED
  BY <1>1, <1>2, <1>3, <1>4, ServersStep

Owned == ~stray => Announced /\ RoutesOwned /\ BlocksOwned

\* A file whose braces follow their keywords never mixes its blocks or Routes.
LEMMA OwnedStep == TypeOK /\ Owned /\ [Next]_vars => Owned'
<1> SUFFICES ASSUME TypeOK, Owned, [Next]_vars, ~stray'
             PROVE  Announced' /\ RoutesOwned' /\ BlocksOwned'
  BY DEF Owned
<1>1. ~stray /\ Announced /\ RoutesOwned /\ BlocksOwned
  BY StrayStays DEF Owned
<1>2. Announced' /\ RoutesOwned'
  BY <1>1, NestedStep, RoutesStep DEF Nested
<1>3. LastOnTop' /\ Phases' /\ ServedApart' /\ AllLocated'
  BY <1>1, LastOnTopStep, PhasesStep, ServedApartStep, LocatedStep DEF BlocksOwned
<1> QED
  BY <1>2, <1>3 DEF BlocksOwned

\* Nothing has been made when a file is opened.
LEMMA OwnedInit == Init => Owned
BY DEF Init, Owned, Announced, RoutesOwned, InLocation, BlocksOwned, LastOnTop, Inside, Phases,
   ServedApart, AllLocated, BASE, HTTP, SERVER, LOCATION

\* Unless the braces are astray, no block is on the stack or served twice, and
\* no Route has two places, so the destructors delete each of them once
\* (ServerConfig.cpp:20-30, PortConfig.cpp:16-23).
THEOREM DeletedOnce == Spec => []OwnedOnce
<1>1. ASSUME TypeOK, Owned PROVE OwnedOnce
  <2> SUFFICES ASSUME RoutesOwned, LastOnTop, ServedApart PROVE OwnedOnce
    BY <1>1 DEF Owned, BlocksOwned, OwnedOnce
  <2>1. Once(server_blocks)
    <3>1. /\ DOMAIN server_blocks = 1..Len(server_blocks) /\ Len(server_blocks) \in Nat
          /\ \A k \in DOMAIN server_blocks : server_blocks[k] \in DOMAIN servers
          /\ DOMAIN servers = 1..Len(servers) /\ Len(servers) \in Nat
      BY <1>1 DEF TypeOK
    <3> QED
      BY <3>1 DEF Once, LastOnTop
  <2>2. ASSUME NEW i \in DOMAIN port_configs PROVE Once(port_configs[i].servers)
    <3>1. port_configs[i] \in PortConfig
      BY <1>1 DEF TypeOK
    <3>2. PICK q \in Seq(1..MaxBlocks) : q = port_configs[i].servers
      BY <3>1 DEF PortConfig
    <3>3. \A k \in DOMAIN q : q[k] \in 1..MaxBlocks
      BY ElementIn
    <3>4. \A k \in DOMAIN q : k \in Nat /\ q[k] \in Nat
      BY <3>3, BoundAssumption
    <3> QED
      BY <3>2, <3>4 DEF Once, ServedApart
  <2>3. \A i, j \in DOMAIN port_configs : i # j => Served(i) \cap Served(j) = {}
    BY DEF ServedApart
  <2>4. \A s \in DOMAIN servers : Once(servers[s].routes)
    BY DEF Once, RoutesOwned
  <2>5. \A s, t \in DOMAIN servers : s # t =>
           \A k \in DOMAIN servers[s].routes, l \in DOMAIN servers[t].routes :
              servers[s].routes[k] # servers[t].routes[l]
    BY DEF RoutesOwned
  <2> QED
    BY <2>1, <2>2, <2>3, <2>4, <2>5 DEF OwnedOnce
<1> QED
  BY <1>1, OwnedInit, OwnedStep, TypeCorrect, PTL DEF Spec

\* A file that has been read and whose braces follow their keywords has every
\* block with a route served by the one thread of its port, the last block of
\* the file first (FileParser.cpp:273-304).
THEOREM ServesEveryBlock == Spec => []EveryBlockServed
<1>1. ASSUME Owned PROVE EveryBlockServed
  <2> SUFFICES ASSUME stage = "done", ~stray PROVE EveryBlockServed
    BY DEF EveryBlockServed
  <2>1. Phases /\ ServedApart /\ AllLocated
    BY <1>1 DEF Owned, BlocksOwned
  <2>2. server_blocks = <<>> /\ ~(parse_level >= SERVER)
    BY <2>1 DEF Phases, BASE, SERVER
  <2>3. ASSUME NEW s \in DOMAIN servers, servers[s].routes # <<>>
        PROVE  \E i \in DOMAIN port_configs :
                  /\ s \in Served(i) /\ port_configs[i].port = servers[s].port
                  /\ \A j \in DOMAIN port_configs : s \in Served(j) => j = i
    <3>1. PICK i \in DOMAIN port_configs :
             s \in Served(i) /\ port_configs[i].port = servers[s].port
      BY <2>1, <2>2, <2>3 DEF AllLocated, Located
    <3>2. \A j \in DOMAIN port_configs : s \in Served(j) => j = i
      BY <2>1, <3>1 DEF ServedApart
    <3> QED
      BY <3>1, <3>2
  <2>4. \A i \in DOMAIN port_configs : \A k, l \in DOMAIN port_configs[i].servers :
           k < l => port_configs[i].servers[k] > port_configs[i].servers[l]
    BY <2>1 DEF ServedApart
  <2> QED
    BY <2>3, <2>4 DEF EveryBlockServed
<1> QED
  BY <1>1, OwnedInit, OwnedStep, TypeCorrect, PTL DEF Spec
=============================================================================
