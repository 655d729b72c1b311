--------------------------- MODULE MCLoadBalancer ---------------------------
EXTENDS LoadBalancer
\* run_local.sh and run_remote.sh: the nodes are started with 0.9 and 0.3.
MCThrottling == [n \in Node |-> IF n = "local" THEN 9 ELSE 3]
=============================================================================
