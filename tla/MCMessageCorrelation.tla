------------------------ MODULE MCMessageCorrelation ------------------------
(* Small instances of MessageCorrelation for TLC. *)
EXTENDS MessageCorrelation, TLC

CONSTANTS r1, r2, r3, r4, r5, i1, i2, i3, s1, s2

(* r1 and r2 are waits of the running instance i1; r3 and r4 of i2, and r5 *)
(* of i3, processes that s2 may start: one more than it should.            *)
MCOwner  == [r \in Receives |-> CASE r \in {r1, r2} -> i1 [] r \in {r3, r4} -> i2 [] OTHER -> i3]
MCStarts == [s \in Sends |-> IF s = s2 THEN {r3, r4, r5} \cap Receives ELSE {}]

AllCorrelate == Receives \X Sends

SymWorkers == Permutations(Workers)
=============================================================================
