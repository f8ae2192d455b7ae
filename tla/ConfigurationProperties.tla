----------------------- MODULE ConfigurationProperties -----------------------
(***************************************************************************)
(* What the server may rely on once its configuration has been read, and   *)
(* what a comment says of it that the code does not do.                    *)
(***************************************************************************)
EXTENDS Configuration

Served(i) == {port_configs[i].servers[k] : k \in DOMAIN port_configs[i].servers}

(* No two PortConfigs have one port, whatever the file says: each gets a   *)
(* thread and a socket, and the second bind would fail                     *)
(* (FileParser.cpp:279-303).                                               *)
PortsDistinct ==
    \A i, j \in DOMAIN port_configs :
        port_configs[i].port = port_configs[j].port => i = j

(* Once the blocks are grouped, every block with a route is served, by one *)
(* PortConfig, which has its port; the last one of a file comes first, and *)
(* is the default, unless the braces are astray (FileParser.cpp:273-304,   *)
(* PortConfig.cpp:83-118).                                                 *)
EveryBlockServed ==
    stage = "done" /\ ~stray =>
        /\ \A s \in DOMAIN servers : servers[s].routes # <<>> =>
              \E i \in DOMAIN port_configs :
                 /\ s \in Served(i) /\ port_configs[i].port = servers[s].port
                 /\ \A j \in DOMAIN port_configs : s \in Served(j) => j = i
        /\ \A i \in DOMAIN port_configs : \A k, l \in DOMAIN port_configs[i].servers :
              k < l => port_configs[i].servers[k] > port_configs[i].servers[l]

(* A block that is served has a route, however the braces of the file are  *)
(* placed: one without any is refused before it is listed                  *)
(* (FileParser.cpp:204-209).                                               *)
ServedHaveRoutes ==
    /\ \A k \in DOMAIN server_blocks : servers[server_blocks[k]].routes # <<>>
    /\ \A i \in DOMAIN port_configs : \A s \in Served(i) : servers[s].routes # <<>>

Once(q) == \A k, l \in DOMAIN q : q[k] = q[l] => k = l

(* Unless the braces are astray, no block is listed twice, and no Route    *)
(* belongs to two blocks or twice to one: the destructors delete each      *)
(* entry (ServerConfig.cpp:20-30, PortConfig.cpp:16-23).                   *)
OwnedOnce ==
    ~stray =>
        /\ Once(server_blocks)
        /\ \A i, j \in DOMAIN port_configs :
              /\ Once(port_configs[i].servers)
              /\ i # j => Served(i) \cap Served(j) = {}
        /\ \A s, t \in DOMAIN servers :
              /\ Once(servers[s].routes)
              /\ s # t => \A k \in DOMAIN servers[s].routes, l \in DOMAIN servers[t].routes :
                             servers[s].routes[k] # servers[t].routes[l]

(* A file whose braces follow their keywords is read without a use of      *)
(* server_block or route before they are set (FileParser.cpp:172-173).     *)
WellDefined == stage = "undefined" => stray
=============================================================================
