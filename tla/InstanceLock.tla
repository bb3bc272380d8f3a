---------------------------- MODULE InstanceLock ----------------------------
(***************************************************************************)
(* What the process instance queue promises its callers: a lock per        *)
(* process instance.  The abstract state is the set of threads that        *)
(* believe they are inside `with ProcessInstanceQueueService.dequeued(i)`. *)
(* Every step of this specification keeps that set a singleton or empty.   *)
(***************************************************************************)
CONSTANTS Workers, Instances

VARIABLE holders

Init == holders = [i \in Instances |-> {}]

(* A thread may enter only an instance nobody is inside of. *)
Acquire(w, i) ==
    /\ holders[i] = {}
    /\ holders' = [holders EXCEPT ![i] = {w}]

Release(w, i) ==
    /\ holders[i] = {w}
    /\ holders' = [holders EXCEPT ![i] = {}]

(* The thread dies: it is inside nothing any more. *)
Die(w) == holders' = [i \in Instances |-> holders[i] \ {w}]

Next == \E w \in Workers :
            \/ \E i \in Instances : Acquire(w, i) \/ Release(w, i)
            \/ Die(w)

Spec == Init /\ [][Next]_holders
=============================================================================
