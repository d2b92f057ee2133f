----------------------------- MODULE MCHarnessRun -----------------------------
(* HarnessRun for TLC: on Cloudflare, where more can happen, not everything  *)
(* at once, and one run id, as any two of them have nothing in common.       *)
EXTENDS HarnessRun, TLC

Symmetry == Permutations(Workers)

Bounded ==
  runtime = "cloudflare" => /\ attempts + faults + crashes + egress <= 4
                            /\ Cardinality({run[w] : w \in Workers}) = 1
=============================================================================
