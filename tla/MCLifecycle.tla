----------------------------- MODULE MCLifecycle -----------------------------
(* Small deployments for TLC: two replicas that race on a fresh database,   *)
(* a replica and the migrate command, the two services that share the       *)
(* schema registry, and the gateway.                                        *)
EXTENDS Lifecycle

CONSTANTS p1, p2

Pair(k1, k2) == [p \in {p1, p2} |-> IF p = p1 THEN k1 ELSE k2]

MCDeployments ==
    {Pair("voyage", "voyage"), Pair("voyage", "migrate"), Pair("voyage", "estimator"),
     [p \in {p1} |-> "gateway"]}
=============================================================================
