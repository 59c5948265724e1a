--------------------------- MODULE MCConnectionPool ---------------------------
\* The connection pool with room for one connection, two nodes and three
\* calls, two of them for the same node.
EXTENDS ConnectionPool, TLC

CONSTANTS node1, node2, call1, call2, call3

MCTarget == (call1 :> node1) @@ (call2 :> node1) @@ (call3 :> node2)

===============================================================================
