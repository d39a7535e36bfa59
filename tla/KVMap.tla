-------------------------------- MODULE KVMap --------------------------------
(***************************************************************************)
(* What a key-value index (KVTrait) promises while distinct keys are       *)
(* inserted: a finite map that every insert extends by exactly one entry.  *)
(***************************************************************************)
CONSTANTS Key, Value, NoVal

VARIABLE map

Init == map = [k \in Key |-> NoVal]

Insert(k) ==
  /\ map[k] = NoVal
  /\ map'[k] \in Value
  /\ map' = [map EXCEPT ![k] = map'[k]]

Next == \E k \in Key : Insert(k)

Spec == Init /\ [][Next]_map

=============================================================================
