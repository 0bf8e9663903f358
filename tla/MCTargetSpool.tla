--------------------------- MODULE MCTargetSpool ----------------------------
EXTENDS TargetSpool

CONSTANTS i, j, k, v, m, x

Asks(kind, hash, hashes) == [kind |-> kind, hash |-> hash, hashes |-> hashes]

\* i injects block 1, j injects it again, k injects block 2; v checks both blocks,
\* m is malformed and x asks for the state of the runtime.
MCAsk ==
  [r \in Reqs |->
     CASE r = i -> Asks("inject", 1, {})
       [] r = j -> Asks("inject", 1, {})
       [] r = k -> Asks("inject", 2, {})
       [] r = v -> Asks("verify", 1, {1, 2})
       [] r = m -> Asks("malformed", 1, {})
       [] r = x -> Asks("export", 1, {})]
=============================================================================
