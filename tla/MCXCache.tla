------------------------------- MODULE MCXCache -------------------------------
(***************************************************************************)
(* Instances of XCache: every way to cut the keys into leaves that are at  *)
(* least half full, routers that keep and that break the order of keys,    *)
(* lines of several slopes and a few functions that are no lines.          *)
(***************************************************************************)
EXTENDS XCache

CONSTANTS MaxSlope, MaxShift

\* The keys 0..n-1 in leaves whose last keys are at the places C.
Cut(n, C) ==
  LET ends == {n} \cup C
      end(p) == CHOOSE e \in ends : Cardinality({d \in ends : d < e}) = p - 1
      from(p) == IF p = 1 THEN 0 ELSE end(p - 1)
  IN [p \in 1..Cardinality(ends) |->
        [keys |-> [i \in 1..(end(p) - from(p)) |-> from(p) + i - 1], incarnation |-> 255 + p]]

MCLoads == {L \in {Cut(MaxKey + 1, C) : C \in SUBSET (1..MaxKey)} : LeafList(L)}

MCRouters ==
  {[k \in Key |-> k - 1], [k \in Key |-> 2 * k], [k \in Key |-> MaxKey],
   [k \in Key |-> IF k % 3 = 0 THEN 0 ELSE MaxKey]}

MCLines ==
  {[k \in Key |-> a * k + b] : a \in 0..MaxSlope, b \in (0 - MaxShift)..MaxShift}

MCCurves ==
  {[k \in Key |-> MaxKey - 2 * k], [k \in Key |-> (k * k) % (MaxKey + 1)],
   [k \in Key |-> IF k % 2 = 0 THEN 2 * MaxKey ELSE 0], [k \in Key |-> k]}

Ycsb     == [sampler |-> "page", step |-> 2, gap |-> FALSE, vlen |-> FALSE]
DataDist == [sampler |-> "all", step |-> 1, gap |-> TRUE, vlen |-> FALSE]
\* Values of variable length.
YcsbV     == [sampler |-> "page", step |-> 2, gap |-> FALSE, vlen |-> TRUE]
DataDistV == [sampler |-> "page", step |-> 2, gap |-> TRUE, vlen |-> TRUE]

MCSetups == {Ycsb, DataDist}
VlenSetups == {YcsbV, DataDistV}

=============================================================================
