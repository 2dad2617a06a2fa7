--------------------------- MODULE MCNetworkTools ---------------------------
(* Values for NetworkTools: tables with up to three routes, one of which may *)
(* be to a network, and name servers without an address before those that  *)
(* have one.                                                               *)
EXTENDS NetworkTools

MCAddresses == {1, 2}
MCParams == {[ip |-> 1, mask |-> 2, gateway |-> 1], [ip |-> 2, mask |-> 1, gateway |-> 2]}
Default(g) == [dest |-> 0, gw |-> g]
Network == [dest |-> 7, gw |-> 1]
MCTables == {<<>>, <<Default(1)>>, <<Network, Default(2)>>,
             <<Default(1), Default(2)>>, <<Default(2), Network, Default(1)>>}
MCResolvers == {<<>>, <<0, 2>>}
=============================================================================
