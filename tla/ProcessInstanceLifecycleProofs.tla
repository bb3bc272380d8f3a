------------------- MODULE ProcessInstanceLifecycleProofs -------------------
(***************************************************************************)
(* Proofs about ProcessInstanceLifecycle, for every process (sequence of   *)
(* tasks), any number of threads, jobs and requests, and every deployment. *)
(***************************************************************************)
EXTENDS ProcessInstanceLifecycle, SequenceTheorems, WellFoundedInduction, TLAPS

(* A process has at least one task, and every task has a kind. *)
LEMMA Tasks == N \in Nat \ {0} /\ \A k \in 1..N : Kind[k] \in {"engine", "human", "timer"}
  BY KindAssumption DEF N

(* The least element of a set of numbers. *)
LEMMA Least ==
    ASSUME NEW T \in SUBSET Nat, T # {}
    PROVE  \E x \in T : \A y \in T : x <= y
  <1>1. PICK x \in T : \A y \in T : <<y, x>> \notin OpToRel(<, Nat)
    BY NatLessThanWellFounded, WFMin
  <1>2. ASSUME NEW y \in T PROVE x <= y
    <2>1. x \in Nat /\ y \in Nat
      OBVIOUS
    <2>2. ~(y < x)
      BY <1>1, <2>1 DEF OpToRel
    <2>. QED
      BY <2>1, <2>2
  <1>. QED
    BY <1>2

(* The engine stops somewhere, at the end of the process at the latest.    *)
LEMMA ReachType ==
    ASSUME NEW w \in Wf, NEW d
    PROVE  Reach(w, d) \in 0..(N - w.done)
  <1>. DEFINE runs(k) == Kind[k] = "engine" \/ k \in d
              stops(m) == /\ w.next = "live" \/ m = 0
                          /\ \A j \in 1..m : Kind[w.done + j] = "engine" \/ w.done + j \in d
                          /\ w.next = "live" /\ w.done + m < N =>
                               ~(Kind[w.done + m + 1] = "engine" \/ w.done + m + 1 \in d)
  <1>1. w.done \in 0..N /\ N - w.done \in Nat /\ N \in Nat
    BY Tasks DEF Wf
  <1>2. \E m \in 0..(N - w.done) : stops(m)
    <2>1. CASE w.next # "live"
      <3>1. stops(0)
        BY <2>1
      <3>. QED
        BY <3>1, <1>1
    <2>2. CASE w.next = "live"
      <3>. DEFINE T == {m \in 0..(N - w.done) : w.done + m < N => ~runs(w.done + m + 1)}
      <3>1. N - w.done \in T
        BY <1>1
      <3>0. T \in SUBSET Nat
        BY <1>1
      <3>2. PICK x \in T : \A y \in T : x <= y
        <4>. HIDE DEF T
        <4>. QED
          BY <3>0, <3>1, Least
      <3>3. ASSUME NEW j \in 1..x PROVE runs(w.done + j)
        <4>1. j - 1 \in 0..(N - w.done) /\ j - 1 \notin T
          BY <1>1, <3>2
        <4>. QED
          BY <4>1, <1>1, <3>2
      <3>4. stops(x)
        BY <2>2, <3>2, <3>3
      <3>. QED
        BY <3>2, <3>4
    <2>. QED
      BY <2>1, <2>2
  <1>. QED
    BY <1>2 DEF Reach

-----------------------------------------------------------------------------
(* The operators the actions are built from *)

LEMMA StatusOfType == ASSUME NEW w, NEW d PROVE status_of(w, d) \in Statuses \ {"suspended"}
  BY DEF status_of, Statuses, terminal_statuses

LEMMA AdvanceType ==
    ASSUME NEW w \in Wf, NEW m \in 0..(N - w.done)
    PROVE  /\ Advance(w, m) \in Wf
           /\ Advance(w, m).done = w.done + m /\ Advance(w, m).next = w.next
  BY Tasks DEF Advance, Wf

LEMMA StepsType ==
    ASSUME NEW a, act[a].rt \in Wf, NEW m \in StepsToRun(a)
    PROVE  m \in 0..(N - act[a].rt.done)
  <1>1. Reach(act[a].rt, due) \in 0..(N - act[a].rt.done)
    BY ReachType
  <1>2. act[a].rt.done \in 0..N
    BY DEF Wf
  <1>. QED
    BY <1>1, <1>2, Tasks DEF StepsToRun

LEMMA IdleType == Idle \in Actor /\ Idle.pc = "idle" /\ Idle.op = "none"
  <1>1. [done |-> 0, next |-> "live"] \in Wf
    BY Tasks DEF Wf
  <1>. QED
    BY <1>1 DEF Actor, Idle, Ops, PCs, Statuses

(* What RanSteps counts: the tasks that were run, and no other.            *)
LEMMA RanType ==
    ASSUME ran \in [1..N -> 0..2], NEW w, NEW m
    PROVE  /\ RanSteps(w, m) \in [1..N -> 0..2]
           /\ \A k \in 1..N : RanSteps(w, m)[k] =
                 IF k > w.done /\ k <= w.done + m /\ ran[k] < 2 THEN ran[k] + 1 ELSE ran[k]
  BY DEF RanSteps

-----------------------------------------------------------------------------
(* The inductive invariant *)

(* An actor is inside dequeued's block.  A reset is there without a lock.  *)
Holds(a) == \/ act[a].pc \in {"load", "run", "commit", "fault", "release"}
            \/ act[a].pc = "restore" /\ act[a].op # "reset"

(* The row is locked for the actor inside the block, and for nobody else.  *)
LockInv(a) == Holds(a) <=> lock = a

(* Which operation can be where. *)
OpInv(a) ==
    /\ act[a].pc = "commit" => act[a].op \in {"suspend", "resume", "terminate", "manual"}
    /\ act[a].pc \in {"gap", "relock"} => act[a].op \in {"direct", "poll"}
    /\ act[a].pc \in {"load", "run"} => act[a].op \notin {"suspend", "resume"}
    /\ act[a].op = "reset" => rewound /\ act[a].pc \in {"rewind", "restore"}
    /\ act[a].pc = "rewind" => act[a].op = "reset"

(* A form is completed on a task that is a human task in the runtime. *)
SubmitInv(a) == act[a].pc = "run" /\ act[a].op = "submit" /\ act[a].n # 3
                    => Current(act[a].rt) = "human"

(* Nothing runs in the caller's thread, nothing runs twice. *)
Queued == mode.queue /\ TRUE \notin SyncModes

DirectInv(a) == Queued => act[a].op \notin {"direct", "poll"}

(* The runtime about to be run or saved is what the task rows have. *)
CurrentInv(a) == Queued /\ ~rewound /\ act[a].pc \in {"run", "commit"}
                   /\ act[a].op \notin {"suspend", "resume"} => act[a].rt = wf

(* The parity of the saves under the lock is the one the runtime saw. *)
BaseInv(a) == act[a].pc \in {"run", "commit"}
                /\ act[a].op \notin {"direct", "poll", "suspend", "resume"} => act[a].base = commits

(* A job runs an instance that is not suspended: the test of allowed_to_run *)
(* still holds when the status is written.                                 *)
JobInv(a) == FaultStatus = "error" /\ ~rewound /\ act[a].op = "job" /\ act[a].pc \in {"run",
"fault"}
                => status # "suspended"

ActorInv(a) == /\ LockInv(a) /\ OpInv(a) /\ SubmitInv(a) /\ DirectInv(a)
               /\ CurrentInv(a) /\ BaseInv(a) /\ JobInv(a)

(* The completed tasks ran once at most, the others not at all. *)
RanInv == Queued /\ ~rewound =>
             \A k \in 1..N : IF k <= wf.done THEN ran[k] <= 1 ELSE ran[k] = 0

IInv == TypeOK /\ RanInv /\ \A a \in Actors : ActorInv(a)

-----------------------------------------------------------------------------
(* What a step of a does that concerns the others: only the holder of the  *)
(* lock saves, except a reset, and AlreadyLocked's handle_error writes the *)
(* fault status whoever has the lock.                                      *)
Apart(a) ==
    /\ mode' = mode /\ (rewound => rewound')
    /\ \A b \in Actors : b # a => act'[b] = act[b] /\ (lock' = b <=> lock = b)
    /\ \/ lock = a
       \/ commits' = commits /\ (rewound \/ wf' = wf)
    /\ lock = a \/ rewound \/ status' \in {status, FaultStatus}

LEMMA OthersInv ==
    ASSUME IInv, NEW a \in Actors, Apart(a), NEW b \in Actors, b # a
    PROVE  ActorInv(b)'
  <1>. USE DEF Apart
  <1>0. ActorInv(b) /\ act'[b] = act[b] /\ mode' = mode /\ (rewound => rewound')
    BY DEF IInv
  <1>1. LockInv(b)'
    BY <1>0 DEF ActorInv, LockInv, Holds
  <1>2. OpInv(b)'
    BY <1>0 DEF ActorInv, OpInv
  <1>3. SubmitInv(b)'
    BY <1>0 DEF ActorInv, SubmitInv, Current
  <1>4. DirectInv(b)'
    BY <1>0 DEF ActorInv, DirectInv, Queued
  <1>5. CurrentInv(b)'
    BY <1>0 DEF ActorInv, CurrentInv, Queued, LockInv, Holds
  <1>6. BaseInv(b)'
    BY <1>0 DEF ActorInv, BaseInv, LockInv, Holds
  <1>7. JobInv(b)'
    BY <1>0 DEF ActorInv, JobInv, LockInv, Holds
  <1>. QED
    BY <1>1, <1>2, <1>3, <1>4, <1>5, <1>6, <1>7 DEF ActorInv

(* What a step of a must establish. *)
LEMMA StepSuffices ==
    ASSUME IInv, NEW a \in Actors, Apart(a), TypeOK', RanInv', ActorInv(a)'
    PROVE  IInv'
  BY OthersInv DEF IInv

(* A request begins: the actor is idle, and not yet in the block. *)
LEMMA BeginInv ==
    ASSUME IInv, NEW a \in Actors, NEW op \in RequestOps \ {"reset"}, NEW sync \in BOOLEAN,
           Begin(a, op, sync), Queued => op # "direct",
           UNCHANGED <<status, wf, row, lock, exists, jobs, mode, due, ran, commits, rewound>>
    PROVE  IInv'
  <1>. DEFINE r == [Idle EXCEPT !.pc = "lock", !.op = op, !.sync = sync]
  <1>1. /\ act' = [act EXCEPT ![a] = r] /\ act[a].pc = "idle"
        /\ act \in [Actors -> Actor] /\ ActorInv(a)
        /\ asked' = asked + 1 /\ asked < MaxRequests
    BY DEF Begin, Ask, IInv, TypeOK
  <1>2. r \in Actor /\ r.pc = "lock" /\ r.op = op
    BY IdleType DEF Actor, Ops, PCs
  <1>3. act' \in [Actors -> Actor] /\ act'[a] = r /\ \A b \in Actors : b # a => act'[b] = act[b]
    BY <1>1, <1>2
  <1>. HIDE DEF r
  <1>4. Apart(a)
    BY <1>3 DEF Apart
  <1>5. TypeOK'
    BY <1>1, <1>3, LifecycleConstants DEF IInv, TypeOK
  <1>6. RanInv'
    BY DEF IInv, RanInv, Queued
  <1>7. ActorInv(a)'
    BY <1>1, <1>2, <1>3 DEF ActorInv, LockInv, Holds, OpInv, SubmitInv, DirectInv, Queued,
         CurrentInv, BaseInv, JobInv, RequestOps
  <1>. QED
    BY <1>4, <1>5, <1>6, <1>7, StepSuffices

-----------------------------------------------------------------------------
(* One lemma per action *)

(* An actor is set to a new record, the others stay. *)
LEMMA MoveTo ==
    ASSUME TypeOK, NEW a \in Actors, NEW r \in Actor, act' = [act EXCEPT ![a] = r]
    PROVE  /\ act' \in [Actors -> Actor] /\ act'[a] = r
           /\ \A b \in Actors : b # a => act'[b] = act[b]
  BY DEF TypeOK

(* A save of a current runtime after m more tasks: those ran for the first *)
(* time.                                                                   *)
LEMMA SavedRan ==
    ASSUME TypeOK, RanInv, NEW r \in Wf, NEW m \in 0..(N - r.done),
           Queued /\ ~rewound => r = wf,
           ran' = RanSteps(r, m), wf'.done = r.done + m, UNCHANGED <<mode, rewound>>
    PROVE  RanInv'
  <1>. SUFFICES ASSUME Queued, ~rewound, NEW k \in 1..N
                PROVE  IF k <= wf'.done THEN ran'[k] <= 1 ELSE ran'[k] = 0
    BY DEF RanInv, Queued
  <1>1. r = wf /\ wf.done \in 0..N /\ ran \in [1..N -> 0..2] /\ m \in Nat /\ ran[k] \in 0..2
    BY Tasks DEF TypeOK, Wf
  <1>2. IF k <= wf.done THEN ran[k] <= 1 ELSE ran[k] = 0
    BY DEF RanInv
  <1>3. ran'[k] = IF k > r.done /\ k <= r.done + m /\ ran[k] < 2 THEN ran[k] + 1 ELSE ran[k]
    BY <1>1, RanType
  <1>. QED
    BY <1>1, <1>2, <1>3, Tasks

(* dequeued: the row is taken by the actor that finds it unlocked. *)
LEMMA DequeueInv ==
    ASSUME IInv, NEW a \in Actors, Dequeue(a)
    PROVE  IInv'
  <1>0. TypeOK /\ RanInv /\ ActorInv(a)
    BY DEF IInv
  <1>. DEFINE next == CASE act[a].pc = "relock"                -> "run"
                        [] act[a].op \in {"suspend", "resume"} -> "commit"
                        [] OTHER                               -> "load"
  <1>a. next = IF act[a].pc = "relock" THEN "run"
               ELSE IF act[a].op \in {"suspend", "resume"} THEN "commit" ELSE "load"
    BY <1>0 DEF ActorInv, OpInv
  <1>b. /\ act' = [act EXCEPT ![a].pc = next]
        /\ lock' = a /\ lock = NoActor /\ act[a].pc \in {"lock", "relock"}
    BY DEF Dequeue, Goto
  <1>. HIDE DEF next
  <1>1. /\ act' \in [Actors -> Actor] /\ \A b \in Actors : b # a => act'[b] = act[b]
        /\ act'[a].op = act[a].op /\ lock' = a /\ act[a].pc \in {"lock", "relock"}
        /\ act'[a].pc = IF act[a].pc = "relock" THEN "run"
                        ELSE IF act[a].op \in {"suspend", "resume"} THEN "commit" ELSE "load"
    BY <1>0, <1>a, <1>b DEF TypeOK, Actor, PCs
  <1>2. Apart(a)
    BY <1>0, <1>1, LifecycleConstants DEF Apart, Dequeue, ActorInv, LockInv, Holds
  <1>3. TypeOK'
    BY <1>0, <1>1, LifecycleConstants DEF TypeOK, Dequeue, Statuses, terminal_statuses
  <1>4. RanInv'
    BY <1>0, <1>1 DEF RanInv, Queued, Dequeue
  <1>5. ActorInv(a)'
    BY <1>0, <1>1, LifecycleConstants DEF Dequeue, ActorInv, LockInv, Holds, OpInv, SubmitInv,
         DirectInv,
         Queued, CurrentInv, BaseInv, JobInv
  <1>. QED
    BY <1>2, <1>3, <1>4, <1>5, StepSuffices

(* AlreadyLocked: somebody else has the row, the actor is not in the block. *)
LEMMA AlreadyLockedInv ==
    ASSUME IInv, NEW a \in Actors, AlreadyLocked(a)
    PROVE  IInv'
  <1>0. TypeOK /\ RanInv /\ ActorInv(a)
    BY DEF IInv
  <1>1. /\ act' \in [Actors -> Actor] /\ \A b \in Actors : b # a => act'[b] = act[b]
        /\ \/ act'[a] = Idle
           \/ act'[a].pc = act[a].pc /\ act'[a].op = act[a].op
        /\ act[a].pc \in {"lock", "relock"}
    BY <1>0, IdleType DEF AlreadyLocked, TypeOK, Actor
  <1>2. Apart(a)
    BY <1>0, <1>1, LifecycleConstants DEF Apart, AlreadyLocked, ActorInv, LockInv, Holds
  <1>3. TypeOK'
    BY <1>0, <1>1, LifecycleConstants DEF TypeOK, AlreadyLocked, Statuses, terminal_statuses
  <1>4. RanInv'
    BY <1>0, <1>1 DEF RanInv, Queued, AlreadyLocked
  <1>5. ActorInv(a)'
    BY <1>0, <1>1, LifecycleConstants, IdleType DEF AlreadyLocked, ActorInv, LockInv, Holds,
         OpInv, SubmitInv, DirectInv,
         Queued, CurrentInv, BaseInv, JobInv
  <1>. QED
    BY <1>2, <1>3, <1>4, <1>5, StepSuffices

(* The instance was deleted: whoever is at work gives up. *)
LEMMA NotEnqueuedInv ==
    ASSUME IInv, NEW a \in Actors, NotEnqueued(a)
    PROVE  IInv'
  <1>0. TypeOK /\ RanInv /\ ActorInv(a)
    BY DEF IInv
  <1>1. /\ act' \in [Actors -> Actor] /\ \A b \in Actors : b # a => act'[b] = act[b]
        /\ act'[a] = Idle
    BY <1>0, IdleType DEF NotEnqueued, TypeOK
  <1>2. Apart(a)
    BY <1>0, <1>1, LifecycleConstants DEF Apart, NotEnqueued, ActorInv, LockInv, Holds
  <1>3. TypeOK'
    BY <1>0, <1>1, LifecycleConstants DEF TypeOK, NotEnqueued, Statuses, terminal_statuses
  <1>4. RanInv'
    BY <1>0, <1>1 DEF RanInv, Queued, NotEnqueued
  <1>5. ActorInv(a)'
    BY <1>0, <1>1, LifecycleConstants, IdleType DEF NotEnqueued, ActorInv, LockInv, Holds,
         OpInv, SubmitInv, DirectInv,
         Queued, CurrentInv, BaseInv, JobInv
  <1>. QED
    BY <1>2, <1>3, <1>4, <1>5, StepSuffices

(* The runtime is loaded under the lock: it is what the rows have. *)
LEMMA LoadRuntimeInv ==
    ASSUME IInv, NEW a \in Actors, LoadRuntime(a)
    PROVE  IInv'
  <1>0. TypeOK /\ RanInv /\ ActorInv(a)
    BY DEF IInv
  <1>. DEFINE gone == act[a].op = "submit" /\ Current(wf) # "human"
              stop == act[a].op \in {"job", "event", "stream"} /\ ~allowed_to_run(status)
              next == CASE gone                                     -> "fault"
                        [] stop \/ act[a].op \in {"direct", "poll"} -> "release"
                        [] act[a].op \in {"terminate", "manual"}    -> "commit"
                        [] OTHER                                    -> "run"
  <1>a. next = IF gone THEN "fault" ELSE IF stop \/ act[a].op \in {"direct", "poll"} THEN "release"
               ELSE IF act[a].op \in {"terminate", "manual"} THEN "commit" ELSE "run"
    OBVIOUS
  <1>b. /\ act' = [act EXCEPT ![a].rt = wf, ![a].base = commits, ![a].exc = gone \/ stop,
                              ![a].was = status = "suspended", ![a].pc = next]
        /\ act[a].pc = "load"
    BY DEF LoadRuntime
  <1>c. (gone \/ stop) \in BOOLEAN /\ (status = "suspended") \in BOOLEAN
    OBVIOUS
  <1>. HIDE DEF next
  <1>1. /\ act' \in [Actors -> Actor] /\ \A b \in Actors : b # a => act'[b] = act[b]
        /\ act[a].pc = "load" /\ act'[a].op = act[a].op /\ act'[a].rt = wf /\ act'[a].base = commits
        /\ act'[a].pc = IF gone THEN "fault" ELSE IF stop \/ act[a].op \in {"direct",
             "poll"} THEN "release"
                        ELSE IF act[a].op \in {"terminate", "manual"} THEN "commit" ELSE "run"
    BY <1>0, <1>a, <1>b, <1>c DEF TypeOK, Actor, PCs
  <1>2. Apart(a)
    BY <1>0, <1>1, LifecycleConstants DEF Apart, LoadRuntime, ActorInv, LockInv, Holds
  <1>3. TypeOK'
    BY <1>0, <1>1, LifecycleConstants DEF TypeOK, LoadRuntime, Statuses, terminal_statuses
  <1>4. RanInv'
    BY <1>0, <1>1 DEF RanInv, Queued, LoadRuntime
  <1>5. ActorInv(a)'
    <2>1. LockInv(a)'
      BY <1>0, <1>1 DEF LoadRuntime, allowed_to_run, ActorInv, LockInv, Holds
    <2>2. OpInv(a)'
      BY <1>0, <1>1 DEF LoadRuntime, allowed_to_run, ActorInv, OpInv
    <2>3. SubmitInv(a)'
      BY <1>0, <1>1 DEF LoadRuntime, allowed_to_run, ActorInv, SubmitInv, Current
    <2>4. DirectInv(a)'
      BY <1>0, <1>1 DEF LoadRuntime, allowed_to_run, ActorInv, DirectInv, Queued
    <2>5. CurrentInv(a)'
      BY <1>0, <1>1 DEF LoadRuntime, allowed_to_run, ActorInv, CurrentInv, DirectInv, Queued
    <2>6. BaseInv(a)'
      BY <1>0, <1>1 DEF LoadRuntime, allowed_to_run, ActorInv, BaseInv
    <2>7. JobInv(a)'
      BY <1>0, <1>1 DEF LoadRuntime, allowed_to_run, ActorInv, JobInv, LockInv, Holds
    <2>. QED
      BY <2>1, <2>2, <2>3, <2>4, <2>5, <2>6, <2>7 DEF ActorInv
  <1>. QED
    BY <1>2, <1>3, <1>4, <1>5, StepSuffices

(* Between the two locks of a direct run. *)
LEMMA GapInv ==
    ASSUME IInv, NEW a \in Actors, run_process_instance_with_runtime(a)
    PROVE  IInv'
  <1>0. TypeOK /\ RanInv /\ ActorInv(a)
    BY DEF IInv
  <1>1. /\ act' \in [Actors -> Actor] /\ \A b \in Actors : b # a => act'[b] = act[b]
        /\ \/ act'[a] = Idle
           \/ act'[a].pc = "relock" /\ act'[a].op = act[a].op
        /\ act[a].pc = "gap"
    BY <1>0, IdleType DEF run_process_instance_with_runtime, Goto, TypeOK, Actor, PCs
  <1>2. Apart(a)
    BY <1>0, <1>1, LifecycleConstants DEF Apart, run_process_instance_with_runtime, ActorInv,
         LockInv, Holds
  <1>3. TypeOK'
    BY <1>0, <1>1, LifecycleConstants DEF TypeOK, run_process_instance_with_runtime, Statuses,
         terminal_statuses
  <1>4. RanInv'
    BY <1>0, <1>1 DEF RanInv, Queued, run_process_instance_with_runtime
  <1>5. ActorInv(a)'
    BY <1>0, <1>1, LifecycleConstants, IdleType DEF run_process_instance_with_runtime,
         ActorInv, LockInv, Holds, OpInv, SubmitInv, DirectInv,
         Queued, CurrentInv, BaseInv, JobInv
  <1>. QED
    BY <1>2, <1>3, <1>4, <1>5, StepSuffices

(* The first commit of a termination. *)
LEMMA TerminateTasksInv ==
    ASSUME IInv, NEW a \in Actors, remove_spiff_tasks_for_termination(a)
    PROVE  IInv'
  <1>0. TypeOK /\ RanInv /\ ActorInv(a)
    BY DEF IInv
  <1>1. /\ act' \in [Actors -> Actor] /\ \A b \in Actors : b # a => act'[b] = act[b]
        /\ act'[a].pc = "restore" /\ act'[a].op = act[a].op /\ act[a].pc = "commit" /\ act[a].op = "terminate"
        /\ wf' \in Wf /\ wf'.done = act[a].rt.done
    BY SMTT(30), <1>0 DEF remove_spiff_tasks_for_termination, save, Goto, TypeOK, Actor, PCs, Wf
  <1>2. Apart(a)
    BY <1>0, <1>1, LifecycleConstants DEF Apart, remove_spiff_tasks_for_termination, save,
         ActorInv, LockInv, Holds
  <1>3. TypeOK'
    BY <1>0, <1>1, LifecycleConstants DEF TypeOK, remove_spiff_tasks_for_termination, save,
         Statuses, terminal_statuses
  <1>4. RanInv'
    BY <1>0, <1>1 DEF RanInv, Queued, remove_spiff_tasks_for_termination, save, ActorInv, CurrentInv
  <1>5. ActorInv(a)'
    BY <1>0, <1>1, LifecycleConstants DEF remove_spiff_tasks_for_termination, save, ActorInv,
         LockInv, Holds, OpInv, SubmitInv, DirectInv,
         Queued, CurrentInv, BaseInv, JobInv
  <1>. QED
    BY <1>2, <1>3, <1>4, <1>5, StepSuffices

(* The second commit of a termination. *)
LEMMA TerminateInv ==
    ASSUME IInv, NEW a \in Actors, terminate(a)
    PROVE  IInv'
  <1>0. TypeOK /\ RanInv /\ ActorInv(a)
    BY DEF IInv
  <1>1. /\ act' \in [Actors -> Actor] /\ \A b \in Actors : b # a => act'[b] = act[b]
        /\ act'[a].pc = "release" /\ act'[a].op = act[a].op /\ act[a].pc = "restore" /\ act[a].op = "terminate"
    BY <1>0 DEF terminate, Goto, TypeOK, Actor, PCs
  <1>2. Apart(a)
    BY <1>0, <1>1, LifecycleConstants DEF Apart, terminate, ActorInv, LockInv, Holds
  <1>3. TypeOK'
    BY <1>0, <1>1, LifecycleConstants DEF TypeOK, terminate, Statuses, terminal_statuses
  <1>4. RanInv'
    BY <1>0, <1>1 DEF RanInv, Queued, terminate
  <1>5. ActorInv(a)'
    BY <1>0, <1>1, LifecycleConstants DEF terminate, ActorInv, LockInv, Holds, OpInv,
         SubmitInv, DirectInv,
         Queued, CurrentInv, BaseInv, JobInv
  <1>. QED
    BY <1>2, <1>3, <1>4, <1>5, StepSuffices

(* The suspension is put back, by a manual completion under the lock, by a reset without one. *)
LEMMA RestoreInv ==
    ASSUME IInv, NEW a \in Actors, save_and_restore_suspension_state(a)
    PROVE  IInv'
  <1>0. TypeOK /\ RanInv /\ ActorInv(a)
    BY DEF IInv
  <1>1. /\ act' \in [Actors -> Actor] /\ \A b \in Actors : b # a => act'[b] = act[b]
        /\ \/ act[a].op = "reset" /\ act'[a] = Idle
           \/ /\ act[a].op = "manual" /\ act'[a].op = "manual"
              /\ act'[a].pc \in {"fault", "release"}
        /\ act[a].pc = "restore"
    BY SMTT(30), <1>0, IdleType DEF save_and_restore_suspension_state, TypeOK, Actor, PCs
  <1>2. Apart(a)
    BY <1>0, <1>1, LifecycleConstants DEF Apart, save_and_restore_suspension_state, ActorInv,
         LockInv, Holds, OpInv
  <1>3. TypeOK'
    BY <1>0, <1>1, LifecycleConstants DEF TypeOK, save_and_restore_suspension_state, Statuses,
         terminal_statuses
  <1>4. RanInv'
    BY <1>0, <1>1 DEF RanInv, Queued, save_and_restore_suspension_state
  <1>5. ActorInv(a)'
    BY <1>0, <1>1, LifecycleConstants, IdleType DEF save_and_restore_suspension_state,
         ActorInv, LockInv, Holds, OpInv, SubmitInv, DirectInv,
         Queued, CurrentInv, BaseInv, JobInv
  <1>. QED
    BY <1>2, <1>3, <1>4, <1>5, StepSuffices

(* suspend, under the lock. *)
LEMMA SuspendInv ==
    ASSUME IInv, NEW a \in Actors, suspend(a)
    PROVE  IInv'
  <1>0. TypeOK /\ RanInv /\ ActorInv(a)
    BY DEF IInv
  <1>1. /\ act' \in [Actors -> Actor] /\ \A b \in Actors : b # a => act'[b] = act[b]
        /\ act'[a].pc = "release" /\ act'[a].op = act[a].op /\ act[a].pc = "commit"
    BY <1>0 DEF suspend, Goto, TypeOK, Actor, PCs
  <1>2. Apart(a)
    BY <1>0, <1>1, LifecycleConstants DEF Apart, suspend, ActorInv, LockInv, Holds
  <1>3. TypeOK'
    BY <1>0, <1>1, LifecycleConstants DEF TypeOK, suspend, Statuses, terminal_statuses
  <1>4. RanInv'
    BY <1>0, <1>1 DEF RanInv, Queued, suspend
  <1>5. ActorInv(a)'
    BY <1>0, <1>1, LifecycleConstants DEF suspend, ActorInv, LockInv, Holds, OpInv, SubmitInv,
         DirectInv,
         Queued, CurrentInv, BaseInv, JobInv
  <1>. QED
    BY <1>2, <1>3, <1>4, <1>5, StepSuffices

(* resume, under the lock. *)
LEMMA ResumeInv ==
    ASSUME IInv, NEW a \in Actors, resume(a)
    PROVE  IInv'
  <1>0. TypeOK /\ RanInv /\ ActorInv(a)
    BY DEF IInv
  <1>1. /\ act' \in [Actors -> Actor] /\ \A b \in Actors : b # a => act'[b] = act[b]
        /\ act'[a].pc \in {"release",
             "fault"} /\ act'[a].op = act[a].op /\ act[a].pc = "commit" /\ act[a].op = "resume"
    BY <1>0 DEF resume, Goto, TypeOK, Actor, PCs
  <1>2. Apart(a)
    BY <1>0, <1>1, LifecycleConstants DEF Apart, resume, ActorInv, LockInv, Holds
  <1>3. TypeOK'
    BY <1>0, <1>1, LifecycleConstants DEF TypeOK, resume, Statuses, terminal_statuses
  <1>4. RanInv'
    BY <1>0, <1>1 DEF RanInv, Queued, resume
  <1>5. ActorInv(a)'
    BY <1>0, <1>1, LifecycleConstants DEF resume, ActorInv, LockInv, Holds, OpInv, SubmitInv,
         DirectInv,
         Queued, CurrentInv, BaseInv, JobInv
  <1>. QED
    BY <1>2, <1>3, <1>4, <1>5, StepSuffices

(* dequeued's except clause, under the lock. *)
LEMMA HandleErrorInv ==
    ASSUME IInv, NEW a \in Actors, handle_error(a)
    PROVE  IInv'
  <1>0. TypeOK /\ RanInv /\ ActorInv(a)
    BY DEF IInv
  <1>1. /\ act' \in [Actors -> Actor] /\ \A b \in Actors : b # a => act'[b] = act[b]
        /\ act'[a].pc = "release" /\ act'[a].op = act[a].op /\ act[a].pc = "fault"
    BY <1>0 DEF handle_error, Goto, TypeOK, Actor, PCs
  <1>2. Apart(a)
    BY <1>0, <1>1, LifecycleConstants DEF Apart, handle_error, ActorInv, LockInv, Holds
  <1>3. TypeOK'
    BY <1>0, <1>1, LifecycleConstants DEF TypeOK, handle_error, Statuses, terminal_statuses
  <1>4. RanInv'
    BY <1>0, <1>1 DEF RanInv, Queued, handle_error
  <1>5. ActorInv(a)'
    BY <1>0, <1>1, LifecycleConstants DEF handle_error, ActorInv, LockInv, Holds, OpInv,
         SubmitInv, DirectInv,
         Queued, CurrentInv, BaseInv, JobInv
  <1>. QED
    BY <1>2, <1>3, <1>4, <1>5, StepSuffices

(* _enqueue: the row is unlocked and the actor out of the block. *)
LEMMA EnqueueInv ==
    ASSUME IInv, NEW a \in Actors, Enqueue(a)
    PROVE  IInv'
  <1>0. TypeOK /\ RanInv /\ ActorInv(a)
    BY DEF IInv
  <1>1. /\ act' \in [Actors -> Actor] /\ \A b \in Actors : b # a => act'[b] = act[b]
        /\ \/ act'[a] = Idle
           \/ act'[a].pc = "gap" /\ act'[a].op = act[a].op /\ act[a].op \in {"direct", "poll"}
        /\ act[a].pc = "release"
    BY <1>0, IdleType DEF Enqueue, TypeOK, Actor, PCs
  <1>2. Apart(a)
    BY <1>0, <1>1, LifecycleConstants DEF Apart, Enqueue, Publish, ActorInv, LockInv, Holds
  <1>3. TypeOK'
    BY <1>0, <1>1, LifecycleConstants DEF TypeOK, Enqueue, Publish, Statuses, terminal_statuses
  <1>4. RanInv'
    BY <1>0, <1>1 DEF RanInv, Queued, Enqueue, Publish
  <1>5. ActorInv(a)'
    BY <1>0, <1>1, LifecycleConstants, IdleType DEF Enqueue, Publish, ActorInv, LockInv, Holds,
         OpInv, SubmitInv, DirectInv,
         Queued, CurrentInv, BaseInv, JobInv
  <1>. QED
    BY <1>2, <1>3, <1>4, <1>5, StepSuffices

(* do_engine_steps: what was run is saved, by the holder of the lock. *)
LEMMA EngineInv ==
    ASSUME IInv, NEW a \in Actors, do_engine_steps(a)
    PROVE  IInv'
  <1>0. TypeOK /\ RanInv /\ ActorInv(a)
    BY DEF IInv
  <1>a. act[a] \in Actor /\ act[a].rt \in Wf /\ lock = a /\ act[a].pc = "run" /\ lock # NoActor
    BY <1>0, LifecycleConstants DEF TypeOK, Actor, ActorInv, LockInv, Holds, do_engine_steps
  <1>z. Queued /\ ~rewound => act[a].rt = wf
    BY <1>0, <1>a DEF ActorInv, CurrentInv, OpInv
  <1>b. PICK m \in StepsToRun(a) :
            LET w == Advance(act[a].rt, m) IN
            /\ ran' = RanSteps(act[a].rt, m)
            /\ \/ /\ save(a, w, status_of(w, due))
                  /\ act' = [act EXCEPT ![a].rt = w, ![a].n = 1, ![a].base = commits',
                        ![a].pc = IF act[a].op = "job" /\ act[a].n = 0 THEN "load" ELSE "release"]
               \/ /\ save(a, [w EXCEPT !.next = "error"], "waiting")
                  /\ act' = [act EXCEPT ![a].exc = TRUE, ![a].pc = "fault", ![a].n = 1,
                                        ![a].base = commits']
    BY DEF do_engine_steps
  <1>c. m \in 0..(N - act[a].rt.done)
    BY <1>a, StepsType
  <1>. DEFINE w == Advance(act[a].rt, m)
  <1>d. w \in Wf /\ w.done = act[a].rt.done + m
    BY <1>a, <1>c, AdvanceType
  <1>e. status_of(w, due) \in Statuses \ {"suspended"} /\ "waiting" \in Statuses
    BY StatusOfType DEF Statuses
  <1>f. RanSteps(act[a].rt, m) \in [1..N -> 0..2]
    BY <1>0, RanType DEF TypeOK
  <1>g. commits' \in {0, 1} /\ ran' = RanSteps(act[a].rt, m)
    BY <1>0, <1>b DEF save, TypeOK
  <1>h. [w EXCEPT !.next = "error"] \in Wf /\ [w EXCEPT !.next = "error"].done = act[a].rt.done + m
    BY <1>d DEF Wf
  <1>. HIDE DEF w
  <1>k. /\ \/ wf' = w /\ status' = status_of(w, due)
           \/ wf' = [w EXCEPT !.next = "error"] /\ status' = "waiting"
        /\ UNCHANGED <<row, lock, exists, jobs, mode, due, rewound, asked>>
    BY <1>b DEF save, do_engine_steps, w
  <1>l. /\ act' \in [Actors -> Actor] /\ \A b \in Actors : b # a => act'[b] = act[b]
        /\ act'[a].op = act[a].op /\ act'[a].pc \in {"load", "release", "fault"}
        /\ act'[a].pc = "load" => act[a].op = "job"
    BY <1>0, <1>a, <1>b, <1>d, <1>g DEF TypeOK, Actor, PCs, w
  <1>1. /\ act' \in [Actors -> Actor] /\ \A b \in Actors : b # a => act'[b] = act[b]
        /\ act'[a].op = act[a].op /\ act'[a].pc \in {"load", "release", "fault"}
        /\ act'[a].pc = "load" => act[a].op = "job"
        /\ wf' \in Wf /\ wf'.done = act[a].rt.done + m /\ status' \in Statuses \ {"suspended"}
        /\ commits' \in {0, 1} /\ ran' = RanSteps(act[a].rt, m)
        /\ UNCHANGED <<row, lock, exists, jobs, mode, due, rewound, asked>>
    BY <1>0, <1>d, <1>e, <1>f, <1>g, <1>h, <1>k, <1>l
  <1>2. Apart(a)
    BY <1>0, <1>1, LifecycleConstants, <1>a DEF Apart
  <1>3. TypeOK'
    BY <1>0, <1>1, LifecycleConstants, <1>f DEF TypeOK
  <1>4. RanInv'
    BY <1>0, <1>1, <1>c, <1>a, <1>z, SavedRan
  <1>5. ActorInv(a)'
    <2>1. LockInv(a)'
      BY <1>0, <1>1, <1>a DEF ActorInv, LockInv, Holds
    <2>2. OpInv(a)'
      BY <1>0, <1>1, <1>a DEF ActorInv, OpInv
    <2>3. SubmitInv(a)'
      BY <1>0, <1>1, <1>a DEF ActorInv, SubmitInv, Current
    <2>4. DirectInv(a)'
      BY <1>0, <1>1, <1>a DEF ActorInv, DirectInv, Queued
    <2>5. CurrentInv(a)'
      BY <1>0, <1>1, <1>a DEF ActorInv, CurrentInv, DirectInv, Queued
    <2>6. BaseInv(a)'
      BY <1>0, <1>1, <1>a DEF ActorInv, BaseInv
    <2>7. JobInv(a)'
      BY <1>0, <1>1, <1>a DEF ActorInv, JobInv, LockInv, Holds
    <2>. QED
      BY <2>1, <2>2, <2>3, <2>4, <2>5, <2>6, <2>7 DEF ActorInv
  <1>. QED
    BY <1>2, <1>3, <1>4, <1>5, StepSuffices

(* complete_form_task: the human task is saved as completed, by the holder of the lock. *)
LEMMA SubmitFormInv ==
    ASSUME IInv, NEW a \in Actors, complete_form_task(a)
    PROVE  IInv'
  <1>0. TypeOK /\ RanInv /\ ActorInv(a)
    BY DEF IInv
  <1>a. /\ act[a] \in Actor /\ act[a].rt \in Wf /\ lock = a /\ lock # NoActor
        /\ act[a].pc = "run" /\ act[a].op = "submit" /\ act[a].n # 3
    BY <1>0, LifecycleConstants DEF TypeOK, Actor, ActorInv, LockInv, Holds, complete_form_task
  <1>b. Current(act[a].rt) = "human"
    BY <1>0, <1>a DEF ActorInv, SubmitInv
  <1>z. Queued /\ ~rewound => act[a].rt = wf
    BY <1>0, <1>a DEF ActorInv, CurrentInv, OpInv
  <1>c. 1 \in 0..(N - act[a].rt.done)
    BY <1>a, <1>b, Tasks DEF Current, Wf
  <1>. DEFINE w == Advance(act[a].rt, 1)
  <1>d. w \in Wf /\ w.done = act[a].rt.done + 1
    BY <1>a, <1>c, AdvanceType
  <1>e. status_of(w, due) \in Statuses \ {"suspended"}
    BY StatusOfType
  <1>f. RanSteps(act[a].rt, 1) \in [1..N -> 0..2]
    BY <1>0, RanType DEF TypeOK
  <1>. HIDE DEF w
  <1>g. /\ wf' = w /\ status' = status_of(w, due) /\ commits' \in {0, 1}
        /\ ran' = RanSteps(act[a].rt, 1)
        /\ UNCHANGED <<row, lock, exists, jobs, mode, due, rewound, asked>>
    BY <1>0 DEF save, complete_form_task, w, TypeOK
  <1>h. /\ act' \in [Actors -> Actor] /\ \A b \in Actors : b # a => act'[b] = act[b]
        /\ act'[a].op = act[a].op /\ act'[a].pc \in {"release", "run"} /\ act'[a].n = 3
        /\ act'[a].rt = w /\ act'[a].base = commits'
    BY <1>0, <1>a, <1>d, <1>g DEF TypeOK, Actor, PCs, complete_form_task, w
  <1>1. /\ act' \in [Actors -> Actor] /\ \A b \in Actors : b # a => act'[b] = act[b]
        /\ act'[a].op = act[a].op /\ act'[a].pc \in {"release", "run"} /\ act'[a].n = 3
        /\ act'[a].rt = wf' /\ act'[a].base = commits'
        /\ wf' \in Wf /\ wf'.done = act[a].rt.done + 1 /\ status' \in Statuses \ {"suspended"}
        /\ commits' \in {0, 1} /\ ran' = RanSteps(act[a].rt, 1)
        /\ UNCHANGED <<row, lock, exists, jobs, mode, due, rewound, asked>>
    BY <1>0, <1>d, <1>e, <1>f, <1>g, <1>h
  <1>2. Apart(a)
    BY <1>0, <1>1, LifecycleConstants, <1>a DEF Apart
  <1>3. TypeOK'
    BY <1>0, <1>1, LifecycleConstants, <1>f DEF TypeOK
  <1>4. RanInv'
    BY <1>0, <1>1, <1>c, <1>a, <1>z, SavedRan
  <1>5. ActorInv(a)'
    <2>1. LockInv(a)'
      BY <1>0, <1>1, <1>a DEF ActorInv, LockInv, Holds
    <2>2. OpInv(a)'
      BY <1>0, <1>1, <1>a DEF ActorInv, OpInv
    <2>3. SubmitInv(a)'
      BY <1>0, <1>1, <1>a DEF ActorInv, SubmitInv, Current
    <2>4. DirectInv(a)'
      BY <1>0, <1>1, <1>a DEF ActorInv, DirectInv, Queued
    <2>5. CurrentInv(a)'
      BY <1>0, <1>1, <1>a DEF ActorInv, CurrentInv, DirectInv, Queued
    <2>6. BaseInv(a)'
      BY <1>0, <1>1, <1>a DEF ActorInv, BaseInv
    <2>7. JobInv(a)'
      BY <1>0, <1>1, <1>a DEF ActorInv, JobInv, LockInv, Holds
    <2>. QED
      BY <2>1, <2>2, <2>3, <2>4, <2>5, <2>6, <2>7 DEF ActorInv
  <1>. QED
    BY <1>2, <1>3, <1>4, <1>5, StepSuffices

(* manual_complete_task: one task more, or the same one in ERROR, under the lock. *)
LEMMA ManualInv ==
    ASSUME IInv, NEW a \in Actors, manual_complete_task(a)
    PROVE  IInv'
  <1>0. TypeOK /\ RanInv /\ ActorInv(a)
    BY DEF IInv
  <1>a. /\ act[a] \in Actor /\ act[a].rt \in Wf /\ lock = a /\ lock # NoActor
        /\ act[a].pc = "commit" /\ act[a].op = "manual"
    BY <1>0, LifecycleConstants DEF TypeOK, Actor, ActorInv, LockInv, Holds, manual_complete_task
  <1>z. Queued /\ ~rewound => act[a].rt = wf
    BY <1>0, <1>a DEF ActorInv, CurrentInv, OpInv
  <1>. DEFINE r == act[a].rt
              w == [Advance(r, 1) EXCEPT !.next = "live"]
              e == [r EXCEPT !.next = "error"]
  <1>b. e \in Wf /\ e.done = r.done
    BY <1>a DEF Wf
  <1>c. r.done < N => /\ 1 \in 0..(N - r.done)
                      /\ w \in Wf /\ w.done = r.done + 1
    <2>. SUFFICES ASSUME r.done < N
                  PROVE  1 \in 0..(N - r.done) /\ w \in Wf /\ w.done = r.done + 1
      OBVIOUS
    <2>1. 1 \in 0..(N - r.done)
      BY <1>a, Tasks DEF Wf
    <2>2. Advance(r, 1) \in Wf /\ Advance(r, 1).done = r.done + 1
      BY <1>a, <2>1, AdvanceType
    <2>. QED
      BY <2>1, <2>2 DEF Wf
  <1>d. status_of(w, due) \in Statuses /\ "waiting" \in Statuses
    BY StatusOfType DEF Statuses
  <1>e. RanSteps(r, 1) \in [1..N -> 0..2]
    BY <1>0, RanType DEF TypeOK
  <1>1. /\ act' \in [Actors -> Actor] /\ \A b \in Actors : b # a => act'[b] = act[b]
        /\ act'[a].op = act[a].op /\ act'[a].pc \in {"restore", "fault"}
    BY <1>0, <1>a DEF manual_complete_task, Goto, TypeOK, Actor, PCs
  <1>. HIDE DEF w, e
  <1>2. /\ \/ /\ wf' = w /\ status' = status_of(w, due) /\ ran' = RanSteps(r, 1)
              /\ r.done < N
           \/ wf' = e /\ status' = "waiting" /\ ran' = ran
           \/ UNCHANGED <<wf, status, ran>>
        /\ commits' \in {0, 1} /\ UNCHANGED <<row, lock, exists, jobs, mode, due, rewound, asked>>
    BY <1>0 DEF manual_complete_task, save, w, e, TypeOK
  <1>3. Apart(a)
    BY <1>1, <1>2, <1>a DEF Apart
  <1>4. TypeOK'
    BY <1>0, <1>1, <1>2, <1>b, <1>c, <1>d, <1>e DEF TypeOK
  <1>5. RanInv'
    <2>1. CASE r.done < N /\ wf' = w /\ ran' = RanSteps(r, 1)
      BY <2>1, <1>0, <1>a, <1>c, <1>z, <1>2, SavedRan
    <2>2. CASE wf' = e /\ ran' = ran
      BY <2>2, <1>0, <1>2, <1>b, <1>z DEF RanInv, Queued
    <2>3. CASE UNCHANGED <<wf, ran>>
      BY <2>3, <1>0, <1>2 DEF RanInv, Queued
    <2>. QED
      BY <1>2, <2>1, <2>2, <2>3
  <1>6. ActorInv(a)'
    BY <1>0, <1>1, <1>2, <1>a DEF ActorInv, LockInv, Holds, OpInv, SubmitInv, DirectInv, Queued,
         CurrentInv, BaseInv, JobInv
  <1>. QED
    BY <1>3, <1>4, <1>5, <1>6, StepSuffices

(* reset_process saves without the lock: the instance counts as rewound. *)
LEMMA ResetInv ==
    ASSUME IInv, NEW a \in Actors, NEW k \in 1..N, reset_process(a, k)
    PROVE  IInv'
  <1>0. TypeOK /\ RanInv /\ ActorInv(a)
    BY DEF IInv
  <1>. DEFINE w == [done |-> k - 1, next |-> "live"]
  <1>a. w \in Wf /\ status_of(w, due) \in Statuses
    BY Tasks, StatusOfType DEF Wf
  <1>b. act[a].op = "reset" /\ act[a].pc = "rewind" /\ rewound /\ lock # a
    BY <1>0 DEF reset_process, ActorInv, OpInv, LockInv, Holds
  <1>. HIDE DEF w
  <1>c. /\ wf' = w /\ status' = status_of(w, due) /\ commits' = commits
        /\ ran' = [j \in 1..N |-> IF j >= k THEN 0 ELSE ran[j]]
        /\ act' = [act EXCEPT ![a].pc = "restore"]
    BY <1>b DEF reset_process, save, Goto, w
  <1>d. ran' \in [1..N -> 0..2]
    BY <1>0, <1>c DEF TypeOK
  <1>1. /\ act' \in [Actors -> Actor] /\ \A b \in Actors : b # a => act'[b] = act[b]
        /\ act'[a].pc = "restore" /\ act'[a].op = "reset" /\ act[a].op = "reset" /\ act[a].pc = "rewind"
        /\ rewound /\ lock # a /\ commits' = commits
        /\ wf' \in Wf /\ status' \in Statuses /\ ran' \in [1..N -> 0..2]
    BY <1>0, <1>a, <1>b, <1>c, <1>d DEF TypeOK, Actor, PCs
  <1>2. Apart(a)
    BY <1>0, <1>1, LifecycleConstants DEF Apart, reset_process, ActorInv, LockInv, Holds
  <1>3. TypeOK'
    BY <1>0, <1>1, LifecycleConstants DEF TypeOK, reset_process, Statuses, terminal_statuses
  <1>4. RanInv'
    BY <1>0, <1>1 DEF RanInv, Queued, reset_process
  <1>5. ActorInv(a)'
    BY <1>0, <1>1, LifecycleConstants DEF reset_process, ActorInv, LockInv, Holds, OpInv,
         SubmitInv, DirectInv,
         Queued, CurrentInv, BaseInv, JobInv
  <1>. QED
    BY <1>2, <1>3, <1>4, <1>5, StepSuffices

(* A reset begins: it loads the workflow and takes no lock. *)
LEMMA ResetRequestInv ==
    ASSUME IInv, NEW a \in Actors, process_instance_reset(a)
    PROVE  IInv'
  <1>0. TypeOK /\ RanInv /\ ActorInv(a)
    BY DEF IInv
  <1>. DEFINE r == [Idle EXCEPT !.pc = "rewind", !.op = "reset", !.rt = wf,
                                !.was = status = "suspended"]
  <1>a. r \in Actor /\ r.pc = "rewind" /\ r.op = "reset"
    BY <1>0, IdleType DEF Actor, PCs, Ops, RequestOps, TypeOK
  <1>b. /\ act' = [act EXCEPT ![a] = r] /\ act[a].pc = "idle" /\ rewound' = TRUE
        /\ UNCHANGED <<status, wf, row, lock, exists, jobs, mode, due, ran, commits>>
    BY DEF process_instance_reset
  <1>c. asked' \in 0..MaxRequests
    BY <1>0, LifecycleConstants DEF process_instance_reset, Ask, TypeOK
  <1>. HIDE DEF r
  <1>1. /\ act' \in [Actors -> Actor] /\ \A b \in Actors : b # a => act'[b] = act[b]
        /\ act'[a].pc = "rewind" /\ act'[a].op = "reset" /\ rewound' = TRUE
        /\ asked' \in 0..MaxRequests
        /\ act[a].pc = "idle" /\ UNCHANGED <<status, wf, row, lock, exists, jobs, mode, due,
             ran, commits>>
    BY <1>0, <1>a, <1>b, <1>c, MoveTo
  <1>2. Apart(a)
    BY <1>0, <1>1, LifecycleConstants DEF Apart
  <1>3. TypeOK'
    BY <1>0, <1>1, LifecycleConstants DEF TypeOK
  <1>4. RanInv'
    BY <1>0, <1>1 DEF RanInv
  <1>5. ActorInv(a)'
    BY <1>0, <1>1, LifecycleConstants DEF ActorInv, LockInv, Holds, OpInv, SubmitInv, DirectInv,
         Queued, CurrentInv, BaseInv, JobInv
  <1>. QED
    BY <1>2, <1>3, <1>4, <1>5, StepSuffices

(* A worker takes a run job. *)
LEMMA JobRunInv ==
    ASSUME IInv, NEW a \in Actors, run_queued_process_instance(a)
    PROVE  IInv'
  <1>0. TypeOK /\ RanInv /\ ActorInv(a)
    BY DEF IInv
  <1>. DEFINE r == [Idle EXCEPT !.pc = "lock", !.op = "job"]
  <1>a. r \in Actor /\ r.pc = "lock" /\ r.op = "job"
    BY IdleType DEF Actor, PCs, Ops
  <1>b. /\ act' = [act EXCEPT ![a] = r] \/ act' = act
        /\ act[a].pc = "idle"
        /\ UNCHANGED <<status, wf, row, lock, exists, mode, due, ran, commits, rewound, asked>>
    BY DEF run_queued_process_instance
  <1>c. jobs' \in 0..MaxJobs
    BY <1>0, LifecycleConstants DEF run_queued_process_instance, TypeOK
  <1>. HIDE DEF r
  <1>1. /\ act' \in [Actors -> Actor] /\ \A b \in Actors : b # a => act'[b] = act[b]
        /\ act[a].pc = "idle"
        /\ (act'[a].pc = "lock" /\ act'[a].op = "job") \/ act' = act
        /\ jobs' \in 0..MaxJobs
        /\ UNCHANGED <<status, wf, row, lock, exists, mode, due, ran, commits, rewound, asked>>
    BY <1>0, <1>a, <1>b, <1>c, MoveTo DEF TypeOK
  <1>2. Apart(a)
    BY <1>0, <1>1, LifecycleConstants DEF Apart
  <1>3. TypeOK'
    BY <1>0, <1>1, LifecycleConstants DEF TypeOK
  <1>4. RanInv'
    BY <1>0, <1>1 DEF RanInv, Queued
  <1>5. ActorInv(a)'
    <2>1. LockInv(a)'
      BY <1>0, <1>1 DEF ActorInv, LockInv, Holds
    <2>2. OpInv(a)'
      BY <1>0, <1>1 DEF ActorInv, OpInv
    <2>3. SubmitInv(a)'
      BY <1>0, <1>1 DEF ActorInv, SubmitInv, Current
    <2>4. DirectInv(a)'
      BY <1>0, <1>1 DEF ActorInv, DirectInv, Queued
    <2>5. CurrentInv(a)'
      BY <1>0, <1>1 DEF ActorInv, CurrentInv, DirectInv, Queued
    <2>6. BaseInv(a)'
      BY <1>0, <1>1 DEF ActorInv, BaseInv
    <2>7. JobInv(a)'
      BY <1>0, <1>1 DEF ActorInv, JobInv, LockInv, Holds
    <2>. QED
      BY <2>1, <2>2, <2>3, <2>4, <2>5, <2>6, <2>7 DEF ActorInv
  <1>. QED
    BY <1>2, <1>3, <1>4, <1>5, StepSuffices

(* A poller publishes the instance, or takes it itself where nothing is queued. *)
LEMMA PollInv ==
    ASSUME IInv, NEW a \in Actors, NEW v \in Statuses, do_waiting(a, v)
    PROVE  IInv'
  <1>0. TypeOK /\ RanInv /\ ActorInv(a)
    BY DEF IInv
  <1>. DEFINE r == [Idle EXCEPT !.pc = "lock", !.op = "poll", !.want = v]
  <1>a. r \in Actor /\ r.pc = "lock" /\ r.op = "poll"
    BY IdleType DEF Actor, PCs, Ops
  <1>b. /\ (act' = [act EXCEPT ![a] = r] /\ ~mode.queue) \/ act' = act
        /\ act[a].pc = "idle"
        /\ UNCHANGED <<status, wf, row, lock, exists, mode, due, ran, commits, rewound, asked>>
    BY DEF do_waiting, should_queue_process_instance
  <1>c. jobs' \in 0..MaxJobs
    <2>1. jobs' = jobs \/ (jobs < MaxJobs /\ jobs' = jobs + 1)
      BY DEF do_waiting, Publish
    <2>2. jobs \in 0..MaxJobs
      BY <1>0 DEF TypeOK
    <2>. QED
      BY <2>1, <2>2, LifecycleConstants
  <1>. HIDE DEF r
  <1>1. /\ act' \in [Actors -> Actor] /\ \A b \in Actors : b # a => act'[b] = act[b]
        /\ act[a].pc = "idle"
        /\ \/ act' = act
           \/ act'[a].pc = "lock" /\ act'[a].op = "poll" /\ ~mode.queue
        /\ jobs' \in 0..MaxJobs
        /\ UNCHANGED <<status, wf, row, lock, exists, mode, due, ran, commits, rewound, asked>>
    BY <1>0, <1>a, <1>b, <1>c, MoveTo DEF TypeOK
  <1>2. Apart(a)
    BY <1>0, <1>1, LifecycleConstants DEF Apart
  <1>3. TypeOK'
    BY <1>0, <1>1, LifecycleConstants DEF TypeOK
  <1>4. RanInv'
    BY <1>0, <1>1 DEF RanInv, Queued
  <1>5. ActorInv(a)'
    <2>1. LockInv(a)'
      BY <1>0, <1>1 DEF ActorInv, LockInv, Holds
    <2>2. OpInv(a)'
      BY <1>0, <1>1 DEF ActorInv, OpInv
    <2>3. SubmitInv(a)'
      BY <1>0, <1>1 DEF ActorInv, SubmitInv, Current
    <2>4. DirectInv(a)'
      BY <1>0, <1>1 DEF ActorInv, DirectInv, Queued
    <2>5. CurrentInv(a)'
      BY <1>0, <1>1 DEF ActorInv, CurrentInv, DirectInv, Queued
    <2>6. BaseInv(a)'
      BY <1>0, <1>1 DEF ActorInv, BaseInv
    <2>7. JobInv(a)'
      BY <1>0, <1>1 DEF ActorInv, JobInv, LockInv, Holds
    <2>. QED
      BY <2>1, <2>2, <2>3, <2>4, <2>5, <2>6, <2>7 DEF ActorInv
  <1>. QED
    BY <1>2, <1>3, <1>4, <1>5, StepSuffices

(* A request to run: published, or begun in the caller's thread. *)
LEMMA RunInv ==
    ASSUME IInv, NEW a \in Actors, NEW sync \in SyncModes, NEW force \in BOOLEAN,
           process_instance_run(a, sync, force)
    PROVE  IInv'
  <1>0. TypeOK /\ RanInv /\ sync \in BOOLEAN /\ (Queued => mode.queue /\ sync = FALSE)
    BY LifecycleConstants DEF IInv, Queued
  <1>1. CASE should_queue_process_instance(sync)
    <2>1. /\ asked' \in 0..MaxRequests /\ jobs' \in 0..MaxJobs
          /\ UNCHANGED <<status, wf, row, lock, exists, mode, due, act, ran, commits, rewound>>
      BY <1>0, <1>1, LifecycleConstants DEF process_instance_run, Ask, Publish, TypeOK
    <2>2. TypeOK' /\ RanInv'
      BY <1>0, <2>1 DEF TypeOK, RanInv, Queued
    <2>3. ASSUME NEW b \in Actors PROVE ActorInv(b)'
      BY <2>1 DEF IInv, ActorInv, LockInv, Holds, OpInv, SubmitInv, Current, DirectInv, Queued,
           CurrentInv, BaseInv, JobInv
    <2>. QED
      BY <2>2, <2>3 DEF IInv
  <1>2. CASE ~should_queue_process_instance(sync)
    <2>1. /\ Begin(a, "direct", sync)
          /\ UNCHANGED <<status, wf, row, lock, exists, jobs, mode, due, ran, commits, rewound>>
      BY <1>2 DEF process_instance_run
    <2>2. ~Queued
      BY <1>0, <1>2 DEF should_queue_process_instance
    <2>. QED
      BY <1>0, <2>1, <2>2, BeginInv DEF RequestOps
  <1>. QED
    BY <1>1, <1>2

(* A deletion, and the passing of time, touch nothing the invariant names. *)
LEMMA DeleteOrTimerInv ==
    ASSUME IInv,
           \/ \E a \in Actors : process_instance_delete(a)
           \/ \E k \in 1..N : TimerDue(k)
           \/ UNCHANGED lifeVars
    PROVE  IInv'
  <1>1. /\ UNCHANGED <<status, wf, row, lock, jobs, mode, act, ran, commits, rewound>>
        /\ exists' \in BOOLEAN /\ asked' \in 0..MaxRequests /\ due' \subseteq 1..N
    <2>0. exists \in BOOLEAN /\ asked \in 0..MaxRequests /\ due \subseteq 1..N
      BY DEF IInv, TypeOK
    <2>1. CASE \E a \in Actors : process_instance_delete(a)
      <3>1. /\ UNCHANGED <<status, wf, row, lock, jobs, mode, due, act, ran, commits, rewound>>
            /\ exists' = FALSE /\ asked < MaxRequests /\ asked' = asked + 1
        BY <2>1 DEF process_instance_delete, Ask
      <3>2. asked' \in 0..MaxRequests
        BY <2>0, <3>1, LifecycleConstants
      <3>. QED
        BY <2>0, <3>1, <3>2
    <2>2. CASE \E k \in 1..N : TimerDue(k)
      BY <2>0, <2>2 DEF TimerDue
    <2>3. CASE UNCHANGED lifeVars
      BY <2>0, <2>3 DEF lifeVars
    <2>. QED
      BY <2>1, <2>2, <2>3
  <1>2. TypeOK' /\ RanInv'
    BY <1>1 DEF IInv, TypeOK, RanInv, Queued
  <1>3. ASSUME NEW b \in Actors PROVE ActorInv(b)'
    BY <1>1 DEF IInv, ActorInv, LockInv, Holds, OpInv, SubmitInv, Current, DirectInv, Queued,
         CurrentInv, BaseInv, JobInv
  <1>. QED
    BY <1>2, <1>3 DEF IInv

-----------------------------------------------------------------------------
(* The invariant is inductive *)

LEMMA InitInv == ASSUME Init PROVE IInv
  <1>1. TypeOK
    <2>1. wf \in Wf /\ ran \in [1..N -> 0..2] /\ status \in Statuses /\ row \in Statuses
      BY Tasks DEF Init, Wf, Statuses
    <2>2. act \in [Actors -> Actor]
      BY IdleType DEF Init
    <2>3. exists \in BOOLEAN /\ rewound \in BOOLEAN
      BY DEF Init
    <2>. QED
      BY <2>1, <2>2, <2>3, LifecycleConstants DEF Init, TypeOK
  <1>2. RanInv
    BY Tasks DEF Init, RanInv
  <1>3. ASSUME NEW a \in Actors PROVE ActorInv(a)
    <2>1. act[a] = Idle /\ lock # a
      BY LifecycleConstants DEF Init
    <2>. QED
      BY <2>1, IdleType DEF ActorInv, LockInv, Holds, OpInv, SubmitInv, DirectInv, CurrentInv,
           BaseInv, JobInv
  <1>. QED
    BY <1>1, <1>2, <1>3 DEF IInv

LEMMA RequestInv == ASSUME IInv, NEW a \in Actors, Request(a) PROVE IInv'
  <1>. DEFINE same == UNCHANGED <<status, wf, row, lock, exists, jobs, mode, due, ran, commits,
  rewound>>
  <1>1. ASSUME NEW sync \in SyncModes, NEW force \in BOOLEAN, process_instance_run(a, sync, force)
        PROVE  IInv'
    BY <1>1, RunInv
  <1>2. ASSUME NEW sync \in SyncModes, task_submit_shared(a, sync)
        PROVE  IInv'
    <2>1. Begin(a, "submit", sync) /\ same /\ sync \in BOOLEAN
      BY <1>2, LifecycleConstants DEF task_submit_shared
    <2>. QED
      BY <2>1, BeginInv DEF RequestOps
  <1>3. CASE process_instance_terminate(a)
    <2>1. Begin(a, "terminate", FALSE) /\ same
      BY <1>3 DEF process_instance_terminate
    <2>. QED
      BY <2>1, BeginInv DEF RequestOps
  <1>4. CASE process_instance_suspend(a)
    <2>1. Begin(a, "suspend", FALSE) /\ same
      BY <1>4 DEF process_instance_suspend
    <2>. QED
      BY <2>1, BeginInv DEF RequestOps
  <1>5. CASE process_instance_resume(a)
    <2>1. Begin(a, "resume", FALSE) /\ same
      BY <1>5 DEF process_instance_resume
    <2>. QED
      BY <2>1, BeginInv DEF RequestOps
  <1>6. CASE manual_complete_request(a)
    <2>1. Begin(a, "manual", FALSE) /\ same
      BY <1>6 DEF manual_complete_request
    <2>. QED
      BY <2>1, BeginInv DEF RequestOps
  <1>7. CASE send_bpmn_event(a)
    <2>1. Begin(a, "event", FALSE) /\ same
      BY <1>7 DEF send_bpmn_event
    <2>. QED
      BY <2>1, BeginInv DEF RequestOps
  <1>8. CASE dequeued_interstitial_stream(a)
    <2>1. Begin(a, "stream", FALSE) /\ same
      BY <1>8 DEF dequeued_interstitial_stream
    <2>. QED
      BY <2>1, BeginInv DEF RequestOps
  <1>9. CASE process_instance_delete(a)
    BY <1>9, DeleteOrTimerInv
  <1>10. CASE process_instance_reset(a)
    BY <1>10, ResetRequestInv
  <1>. QED
    BY <1>1, <1>2, <1>3, <1>4, <1>5, <1>6, <1>7, <1>8, <1>9, <1>10 DEF Request

LEMMA StepInv == ASSUME IInv, NEW a \in Actors, Step(a) PROVE IInv'
  BY DequeueInv, AlreadyLockedInv, NotEnqueuedInv, LoadRuntimeInv, GapInv, EngineInv,
     SubmitFormInv, ManualInv, TerminateTasksInv, TerminateInv, RestoreInv, SuspendInv, ResumeInv,
     ResetInv, HandleErrorInv, EnqueueInv
  DEF Step

LEMMA NextInv == ASSUME IInv, [Next]_lifeVars PROVE IInv'
  <1>1. ASSUME NEW a \in Actors, Poll(a) PROVE IInv'
    BY <1>1, PollInv DEF Poll, Statuses
  <1>. QED
    BY <1>1, RequestInv, StepInv, JobRunInv, DeleteOrTimerInv DEF Next

(* The invariant in every behaviour: everything below rests on it. *)
THEOREM Invariant == Spec => []IInv
  BY InitInv, NextInv, PTL DEF Spec

-----------------------------------------------------------------------------
(* The results *)

(* Type correctness: statuses, runtimes and what every thread is doing     *)
(* stay in their ranges; in particular no form is completed past the end   *)
(* of the process.                                                         *)
THEOREM TypeCorrect == Spec => []TypeOK
  BY Invariant, PTL DEF IInv

(* dequeued: the row is locked for the thread inside the block, so two     *)
(* threads are never inside it at once, whatever operations they are in.   *)
THEOREM OneInTheBlock ==
    Spec => [](\A a, b \in Actors : Holds(a) /\ Holds(b) => a = b)
  <1>1. IInv => \A a, b \in Actors : Holds(a) /\ Holds(b) => a = b
    BY DEF IInv, ActorInv, LockInv
  <1>. QED
    BY <1>1, Invariant, PTL

(* A runtime that is saved under the lock it was loaded under is never     *)
(* stale, whatever else the users, the pollers and the workers do,         *)
(* resets included: a reset saves without the lock, and is not counted.    *)
THEOREM RuntimeStaysCurrent == Spec => []RuntimeCurrent
  <1>1. IInv => RuntimeCurrent
    BY DEF IInv, ActorInv, BaseInv, RuntimeCurrent
  <1>. QED
    BY <1>1, Invariant, PTL

(* Where workers run the instances and no caller asks for a synchronous    *)
(* run, no run is saved over another and no task runs twice before         *)
(* somebody resets the instance.                                           *)
THEOREM NoRunLost ==
    ASSUME TRUE \notin SyncModes
    PROVE  Spec => []NoLostRun
  <1>1. IInv => NoLostRun
    <2>. SUFFICES ASSUME IInv PROVE RuntimeCurrent /\ RunsOnce
      BY DEF NoLostRun
    <2>1. RuntimeCurrent
      BY DEF IInv, ActorInv, BaseInv, RuntimeCurrent
    <2>2. RunsOnce
      <3>. SUFFICES ASSUME mode.queue, ~rewound, NEW k \in 1..N PROVE ran[k] <= 1
        BY DEF RunsOnce
      <3>1. IF k <= wf.done THEN ran[k] <= 1 ELSE ran[k] = 0
        BY DEF IInv, RanInv, Queued
      <3>. QED
        BY <3>1
    <2>. QED
      BY <2>1, <2>2
  <1>. QED
    BY <1>1, Invariant, PTL

(* A job that does anything to a suspended instance leaves it suspended.   *)
LEMMA JobStep ==
    ASSUME IInv, FaultStatus = "error", NEW a \in Actors, Step(a),
           ~rewound, act[a].op = "job", status = "suspended"
    PROVE  status' = "suspended"
  <1>0. act[a].pc \notin {"run", "fault"} /\ OpInv(a)
    BY DEF IInv, ActorInv, JobInv
  <1>1. act[a].pc \notin {"gap", "relock", "commit", "rewind"}
    BY <1>0 DEF OpInv
  <1>2. CASE Dequeue(a) \/ NotEnqueued(a) \/ LoadRuntime(a) \/ Enqueue(a)
    BY <1>2 DEF Dequeue, NotEnqueued, LoadRuntime, Enqueue
  <1>3. CASE AlreadyLocked(a)
    BY <1>3 DEF AlreadyLocked
  <1>4. ~run_process_instance_with_runtime(a) /\ ~do_engine_steps(a) /\ ~complete_form_task(a)
    BY <1>0, <1>1 DEF run_process_instance_with_runtime, do_engine_steps, complete_form_task
  <1>5. ~manual_complete_task(a) /\ ~remove_spiff_tasks_for_termination(a) /\ ~suspend(a) /\ ~resume(a)
    BY <1>1 DEF manual_complete_task, remove_spiff_tasks_for_termination, suspend, resume
  <1>6. ~terminate(a) /\ ~save_and_restore_suspension_state(a)
    BY DEF terminate, save_and_restore_suspension_state
  <1>7. ~handle_error(a) /\ \A k \in 1..N : ~reset_process(a, k)
    BY <1>0, <1>1 DEF handle_error, reset_process
  <1>. QED
    BY <1>2, <1>3, <1>4, <1>5, <1>6, <1>7 DEF Step

(* No step of one thread moves another. *)
LEMMA OneMoves ==
    ASSUME TypeOK, NEW a \in Actors, NEW b \in Actors, a # b,
           Request(a) \/ Poll(a) \/ run_queued_process_instance(a) \/ Step(a)
    PROVE  act'[b] = act[b]
  <1>0. act \in [Actors -> Actor]
    BY DEF TypeOK
  <1>1. CASE Request(a)
    BY <1>0, <1>1 DEF Request, process_instance_run, task_submit_shared, process_instance_terminate,
         process_instance_suspend, process_instance_resume, manual_complete_request,
         send_bpmn_event, dequeued_interstitial_stream, process_instance_delete,
         process_instance_reset, Begin
  <1>2. CASE Poll(a) \/ run_queued_process_instance(a)
    BY <1>0, <1>2 DEF Poll, do_waiting, run_queued_process_instance
  <1>3. CASE Step(a)
    <2>1. CASE Dequeue(a) \/ AlreadyLocked(a) \/ NotEnqueued(a)
      BY <1>0, <2>1 DEF Dequeue, AlreadyLocked, NotEnqueued, Goto
    <2>2. CASE LoadRuntime(a)
      BY <1>0, <2>2 DEF LoadRuntime
    <2>3. CASE run_process_instance_with_runtime(a) \/ handle_error(a) \/ Enqueue(a)
      BY <1>0, <2>3 DEF run_process_instance_with_runtime, handle_error, Enqueue, Goto
    <2>4. CASE do_engine_steps(a) \/ complete_form_task(a)
      BY <1>0, <2>4 DEF do_engine_steps, complete_form_task
    <2>5. CASE manual_complete_task(a) \/ remove_spiff_tasks_for_termination(a) \/ terminate(a)
      BY <1>0, <2>5 DEF manual_complete_task, remove_spiff_tasks_for_termination, terminate, Goto
    <2>6. CASE save_and_restore_suspension_state(a) \/ suspend(a) \/ resume(a)
      BY <1>0, <2>6 DEF save_and_restore_suspension_state, suspend, resume, Goto
    <2>7. CASE \E k \in 1..N : reset_process(a, k)
      BY <1>0, <2>7 DEF reset_process, Goto
    <2>. QED
      BY <1>3, <2>1, <2>2, <2>3, <2>4, <2>5, <2>6, <2>7 DEF Step
  <1>. QED
    BY <1>1, <1>2, <1>3

(* A request, a poll and the start of a job leave the status alone. *)
LEMMA AskingKeepsStatus ==
    ASSUME NEW a \in Actors, Request(a) \/ Poll(a) \/ run_queued_process_instance(a)
    PROVE  status' = status
  BY DEF Request, process_instance_run, task_submit_shared, process_instance_terminate,
         process_instance_suspend, process_instance_resume, manual_complete_request,
         send_bpmn_event, dequeued_interstitial_stream, process_instance_delete,
         process_instance_reset, Poll, do_waiting, run_queued_process_instance

(* With the default fault_or_suspend_on_exception, a worker never takes an *)
(* instance out of suspension, however late its job arrives, whatever the  *)
(* others do, unless somebody resets the instance.  (With "suspended" it   *)
(* can: a request that finds the row locked writes the status while the    *)
(* job that has the lock is at work, and the job's save overwrites it.)    *)
THEOREM JobsRespectSuspension ==
    ASSUME FaultStatus = "error"
    PROVE  Spec => JobsRespectSuspend
  <1>. DEFINE A(a) == ~rewound /\ act[a].op = "job" /\ act'[a] # act[a]
                        /\ status = "suspended" => status' = "suspended"
  <1>1. IInv /\ [Next]_lifeVars => [\A a \in Actors : A(a)]_lifeVars
    <2>. SUFFICES ASSUME IInv, Next, NEW b \in Actors PROVE A(b)
      OBVIOUS
    <2>1. ASSUME NEW a \in Actors, Request(a) \/ Poll(a) \/ run_queued_process_instance(a)
          PROVE  A(b)
      BY <2>1, AskingKeepsStatus
    <2>2. ASSUME NEW a \in Actors, Step(a) PROVE A(b)
      BY <2>2, OneMoves, JobStep DEF IInv
    <2>3. ASSUME NEW k \in 1..N, TimerDue(k) PROVE A(b)
      BY <2>3 DEF TimerDue
    <2>. QED
      BY <2>1, <2>2, <2>3 DEF Next
  <1>. QED
    BY <1>1, Invariant, PTL DEF Spec, JobsRespectSuspend
=============================================================================
