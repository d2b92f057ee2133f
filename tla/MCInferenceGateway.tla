-------------------------- MODULE MCInferenceGateway --------------------------
(***************************************************************************)
(* InferenceGateway with providers whose names sort the other way round    *)
(* than their quota classes.                                               *)
(***************************************************************************)
EXTENDS InferenceGateway, TLC

CONSTANTS t1, t2, laptop, server, free, paid, other

MCQuota ==
  [p \in Providers |->
     IF p \in {laptop, server} THEN "local" ELSE IF p = free THEN "free" ELSE "paid"]

MCNameRank ==
  [p \in Providers |-> CASE p = laptop -> 4 [] p = server -> 3 [] p = free -> 2 [] p = paid -> 1]

\* A third request comes when none is pinned, the ledger is whole and every provider
\* may be used.
Bounded ==
  received = 3 => ~local_only /\ faults = 0 /\ \A r \in Requests : pinned[r] = None

Symmetry == Permutations({t1, t2})
=============================================================================
