------------------------------- MODULE MCXTree -------------------------------
(* Instances of XTree for TLC. *)
EXTENDS XTree, TLC

Symmetry == Permutations(Threads)

\* Narrows the order of insertions where all orders are too many: a key is
\* inserted only when at most Window smaller keys are missing.
CONSTANT Window

NearlyAscending ==
  \A k \in Key : asked'[k] > asked[k] => Cardinality({j \in 0..(k - 1) : asked[j] = 0}) <= Window

=============================================================================
