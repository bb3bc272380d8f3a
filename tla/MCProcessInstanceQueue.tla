----------------------- MODULE MCProcessInstanceQueue -----------------------
(* Small instances of ProcessInstanceQueue for TLC. *)
EXTENDS ProcessInstanceQueue, TLC

SymWorkers   == Permutations(Workers)
SymInstances == Permutations(Instances)
SymBoth      == SymWorkers \cup SymInstances
=============================================================================
