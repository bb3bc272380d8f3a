--------------------- MODULE MCProcessInstanceLifecycle ---------------------
(* Small instances of ProcessInstanceLifecycle for TLC. *)
EXTENDS ProcessInstanceLifecycle

StartHumanTimer == <<"engine", "human", "timer">>
StartHumanEngine == <<"engine", "human", "engine">>

(* With workers, users submit, stop and repair; or they rewind, delete and *)
(* send events.  Without workers, they run and suspend.                    *)
ThreeModes ==
    {[queue |-> TRUE, ops |-> {"submit", "terminate", "suspend", "resume", "manual"}],
     [queue |-> TRUE, ops |-> {"run", "submit", "suspend", "reset", "delete", "event", "stream"}],
     [queue |-> FALSE, ops |-> {"run", "submit", "suspend"}]}
WorkerMode == {[queue |-> TRUE, ops |-> {"submit", "suspend", "resume"}]}
=============================================================================
