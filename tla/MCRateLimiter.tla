---------------------------- MODULE MCRateLimiter ----------------------------
EXTENDS RateLimiter, TLC

CONSTANTS k1, k2

\* The limiters main.go builds, and the eviction time it gives Cleanup, in seconds.
Deployed == {[perMinute |-> 10, burst |-> 10], [perMinute |-> 120, burst |-> 60]}
DeployedTTL == 900

ASSUME DeployedEviction ==
    \A l \in Deployed : DeployedTTL * l.perMinute >= l.burst * 60

ClientSymmetry == Permutations(Clients)
==============================================================================
