---------------------------- MODULE MCRateLimiter ----------------------------
\* Instances of RateLimiter for TLC.
EXTENDS RateLimiter, TLC

CONSTANTS w1, r1, r2

\* One worker, and one client that calls one limited route.
MCWorkerOf == [r \in Requests |-> w1]
MCKey == [r \in Requests |-> "login"]
=============================================================================
