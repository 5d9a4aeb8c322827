-------------------------- MODULE MCRedisConnector --------------------------
(* RedisConnector on small instances; the configurations choose the        *)
(* operations, the faults and the bounds.                                  *)
EXTENDS RedisConnector

Op(n, k) == [name |-> n, lists |-> k]

AllOps ==
  {Op(n, 1) : n \in {"ping", "create", "subscribe", "pop"}}
    \cup {Op("push", k) : k \in 1..2} \cup {Op("load", k) : k \in 2..4}

PingAndPop == {Op("ping", 1), Op("pop", 1)}
=============================================================================
