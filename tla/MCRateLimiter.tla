--------------------------- MODULE MCRateLimiter ---------------------------
(* Small instances of RateLimiter. *)
EXTENDS RateLimiter, TLC

CONSTANTS h1, h2, ana, proxy

Symmetry == Permutations({h1, h2})

\* With -http-rate and -http-burst: a bucket that is full again when cleanup
\* looks at it, a slow one behind a proxy, a burst below one token, no limit.
Servers ==
    {[rate |-> 2, burst |-> 6, trustProxy |-> FALSE],
     [rate |-> 1, burst |-> 12, trustProxy |-> TRUE],
     [rate |-> 1, burst |-> 0, trustProxy |-> FALSE],
     [rate |-> 0, burst |-> 6, trustProxy |-> FALSE]}

\* A proxy names its client in one header or the other; without -trust-proxy
\* the headers are the client's own invention, or none.
Sent(trustProxy) ==
    IF trustProxy
    THEN {[remote |-> proxy, forwarded |-> <<ana, proxy>>, realIP |-> NoHeader, from |-> ana],
          [remote |-> proxy, forwarded |-> << >>, realIP |-> ana, from |-> ana]}
    ELSE {[remote |-> ana, forwarded |-> << >>, realIP |-> NoHeader, from |-> ana],
          [remote |-> ana, forwarded |-> <<proxy>>, realIP |-> proxy, from |-> ana]}
===========================================================================
