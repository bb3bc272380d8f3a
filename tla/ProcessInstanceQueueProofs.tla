--------------------- MODULE ProcessInstanceQueueProofs ---------------------
(***************************************************************************)
(* Proofs about ProcessInstanceQueue, for any number of workers,           *)
(* instances, attempts, nested blocks and ticks.                           *)
(***************************************************************************)
EXTENDS ProcessInstanceQueue, SequenceTheorems, TLAPS

(* Opening a block: <<f>> \o s puts f in front and shifts the rest. *)
LEMMA PushFrame ==
    ASSUME NEW S, NEW s \in Seq(S), NEW f \in S
    PROVE  LET t == <<f>> \o s
           IN  /\ t \in Seq(S) /\ t # <<>>
               /\ Len(t) = Len(s) + 1
               /\ Head(t) = f /\ t[1] = f
               /\ \A k \in 1..Len(s) : t[k + 1] = s[k]
               /\ \A k \in 2..Len(t) : k - 1 \in 1..Len(s) /\ t[k] = s[k - 1]
  <1>1. <<f>> \in Seq(S) /\ Len(<<f>>) = 1 /\ <<f>>[1] = f
    OBVIOUS
  <1>. DEFINE t == <<f>> \o s
  <1>2. /\ t \in Seq(S)
        /\ Len(t) = Len(s) + 1
        /\ \A k \in 1 .. Len(s) + 1 : t[k] = IF k <= 1 THEN f ELSE s[k - 1]
    BY <1>1, ConcatProperties
  <1>3. Len(s) \in Nat
    OBVIOUS
  <1>4. t[1] = f /\ t # <<>> /\ Head(t) = t[1]
    BY <1>2, <1>3
  <1>. QED
    BY <1>2, <1>3, <1>4

(* Closing a block: Tail drops the innermost and shifts the rest. *)
LEMMA PopFrame ==
    ASSUME NEW S, NEW s \in Seq(S), s # <<>>
    PROVE  /\ Tail(s) \in Seq(S) /\ Head(s) \in S /\ Head(s) = s[1]
           /\ Len(s) \in Nat \ {0} /\ Len(Tail(s)) = Len(s) - 1
           /\ \A k \in 1..Len(Tail(s)) : k + 1 \in 1..Len(s) /\ Tail(s)[k] = s[k + 1]
           /\ \A k \in 2..Len(s) : k - 1 \in 1..Len(Tail(s)) /\ Tail(s)[k - 1] = s[k]
  BY HeadTailProperties

-----------------------------------------------------------------------------
(* Type correctness *)

(* The records the actions build have their types. *)
LEMMA WantRecords ==
    /\ NoWant \in Want
    /\ \A i \in Instances, m \in MaxAttempts : [inst |-> i, attempt |-> 1, max |-> m] \in Want
    /\ \A r \in Want : [r EXCEPT !.attempt = @ + 1] \in Want
  BY QueueConstants DEF NoWant, Want

(* A queue row stays a queue row when it is locked, unlocked or aged. *)
LEMMA RowRecords ==
    ASSUME NEW r \in Row
    PROVE  /\ \A v \in Workers : [r EXCEPT !.locked_by = v, !.age = 0] \in Row
           /\ Unlocked(r) \in Row
           /\ \A s \in Statuses : [Unlocked(r) EXCEPT !.status = s] \in Row
           /\ r.age < LockDuration => [r EXCEPT !.age = @ + 1] \in Row
  <1>1. 0 \in 0..LockDuration
    BY QueueConstants
  <1>2. \A v \in Workers \cup {NoWorker} : [r EXCEPT !.locked_by = v, !.age = 0] \in Row
    BY <1>1, QueueConstants DEF Row
  <1>3. Unlocked(r) \in Row
    BY <1>2 DEF Unlocked
  <1>4. \A s \in Statuses : [Unlocked(r) EXCEPT !.status = s] \in Row
    BY <1>3 DEF Row
  <1>5. ASSUME r.age < LockDuration PROVE [r EXCEPT !.age = @ + 1] \in Row
    <2>1. r.age + 1 \in 0..LockDuration
      BY <1>5, QueueConstants DEF Row
    <2>. QED
      BY <2>1 DEF Row
  <1>. QED
    BY <1>2, <1>3, <1>4, <1>5

(* What jobs save and what handle_error sets are statuses. *)
LEMMA StatusSets ==
    SaveStatuses \subseteq Statuses /\ FaultStatuses \subseteq Statuses /\ "not_started" \in Statuses
  BY DEF Statuses

(* Every variable of the queue keeps its type in every step. *)
LEMMA TypeStep == TypeOK /\ [Next]_vars => TypeOK'
  <1>. SUFFICES ASSUME TypeOK, [Next]_vars PROVE TypeOK'
    OBVIOUS
  <1>1. ASSUME NEW w \in Workers, StartJob(w) PROVE TypeOK'
    BY <1>1, QueueConstants DEF TypeOK, StartJob, PCs, Dequeueing
  <1>2. ASSUME NEW w \in Workers, EndJob(w) PROVE TypeOK'
    BY <1>2, WantRecords DEF TypeOK, EndJob, PCs, Excs, Dequeueing
  <1>3. ASSUME NEW w \in Workers, RunAndSave(w) PROVE TypeOK'
    BY <1>3, StatusSets DEF TypeOK, RunAndSave, workerVars
  <1>4. ASSUME NEW w \in Workers, NEW i \in Instances, Reenter(w, i) PROVE TypeOK'
    <2>. DEFINE f == [inst |-> i, reentering |-> TRUE]
    <2>1. f \in Frame /\ frames[w] \in Seq(Frame)
      BY DEF TypeOK, Frame
    <2>2. <<f>> \o frames[w] \in Seq(Frame)
      BY <2>1, PushFrame
    <2>. QED
      BY <1>4, <2>2 DEF TypeOK, Reenter
  <1>5. ASSUME NEW w \in Workers, NEW i \in Instances, NEW m \in MaxAttempts, BeginDequeue(w, i, m) PROVE TypeOK'
    BY <1>5, WantRecords DEF TypeOK, BeginDequeue, PCs, Dequeueing
  <1>6. ASSUME NEW w \in Workers, DequeueUpdate(w) PROVE TypeOK'
    <2>. DEFINE i == want[w].inst
    <2>1. row' \in [Instances -> Row]
      <3>0. i \in Instances
        BY <1>6 DEF TypeOK, DequeueUpdate, Dequeueing
      <3>1. CASE row[i].locked_by = NoWorker
        <4>1. [row[i] EXCEPT !.locked_by = w, !.age = 0] \in Row
          BY <3>0, RowRecords DEF TypeOK
        <4>2. row' = [row EXCEPT ![i] = [row[i] EXCEPT !.locked_by = w, !.age = 0]]
          BY <1>6, <3>0, <3>1 DEF DequeueUpdate, TypeOK
        <4>. QED
          BY <3>0, <4>1, <4>2 DEF TypeOK
      <3>2. CASE row[i].locked_by # NoWorker
        BY <1>6, <3>2 DEF DequeueUpdate, TypeOK
      <3>. QED
        BY <3>1, <3>2
    <2>. QED
      BY <1>6, <2>1 DEF TypeOK, DequeueUpdate, PCs, Dequeueing
  <1>7. ASSUME NEW w \in Workers, DequeueAcquire(w) PROVE TypeOK'
    <2>. DEFINE f == [inst |-> want[w].inst, reentering |-> FALSE]
    <2>1. want[w].inst \in Instances
      BY <1>7 DEF TypeOK, DequeueAcquire, Dequeueing
    <2>2. f \in Frame /\ frames[w] \in Seq(Frame)
      BY <2>1 DEF TypeOK, Frame
    <2>3. <<f>> \o frames[w] \in Seq(Frame)
      BY <2>2, PushFrame
    <2>. QED
      BY <1>7, <2>1, <2>3, WantRecords DEF TypeOK, DequeueAcquire, PCs, Dequeueing
  <1>8. ASSUME NEW w \in Workers, DequeueRetry(w) PROVE TypeOK'
    <2>. DEFINE n == [want[w] EXCEPT !.attempt = @ + 1]
    <2>1. n \in Want
      BY WantRecords DEF TypeOK
    <2>3. n.inst = want[w].inst
      BY DEF TypeOK, Want
    <2>2. want' = [want EXCEPT ![w] = n]
      BY <1>8 DEF TypeOK, DequeueRetry
    <2>. QED
      BY <1>8, <2>1, <2>2, <2>3 DEF TypeOK, DequeueRetry, PCs, Dequeueing
  <1>9. ASSUME NEW w \in Workers, WakeUp(w) PROVE TypeOK'
    BY <1>9 DEF TypeOK, WakeUp, PCs, Dequeueing
  <1>10. ASSUME NEW w \in Workers, DequeueGiveUp(w) PROVE TypeOK'
    BY <1>10, WantRecords DEF TypeOK, DequeueGiveUp, PCs, Dequeueing
  <1>11. ASSUME NEW w \in Workers, HandleRejected(w) PROVE TypeOK'
    BY <1>11, WantRecords, StatusSets DEF TypeOK, HandleRejected, PCs, Dequeueing
  <1>12. ASSUME NEW w \in Workers, NEW k \in Excs \ {"none"}, Raise(w, k) PROVE TypeOK'
    BY <1>12 DEF TypeOK, Raise, Excs, PCs, Dequeueing
  <1>13. ASSUME NEW w \in Workers, LeaveReentered(w) PROVE TypeOK'
    BY <1>13, PopFrame DEF TypeOK, LeaveReentered, Pop, PCs, Dequeueing
  <1>14. ASSUME NEW w \in Workers, LeaveNormally(w) PROVE TypeOK'
    BY <1>14 DEF TypeOK, LeaveNormally, PCs, Dequeueing
  <1>15. ASSUME NEW w \in Workers, LeaveByException(w) PROVE TypeOK'
    <2>1. status' \in [Instances -> Statuses]
      BY <1>15, StatusSets DEF TypeOK, LeaveByException
    <2>. QED
      BY <1>15, <2>1 DEF TypeOK, LeaveByException, PCs, Dequeueing
  <1>16. ASSUME NEW w \in Workers, Enqueue(w) PROVE TypeOK'
    <2>. DEFINE i == Head(frames[w]).inst
    <2>1. Tail(frames[w]) \in Seq(Frame) /\ i \in Instances
      BY <1>16, PopFrame DEF TypeOK, Enqueue, Frame
    <2>2. [Unlocked(row[i]) EXCEPT !.status = status[i]] \in Row
      BY <2>1, RowRecords DEF TypeOK
    <2>. QED
      BY <1>16, <2>1, <2>2 DEF TypeOK, Enqueue, Pop, PCs, Dequeueing
  <1>17. ASSUME NEW w \in Workers, Crash(w) PROVE TypeOK'
    <2>1. <<>> \in Seq(Frame)
      BY EmptySeq
    <2>2. 0 \in 0..JobLimit
      BY QueueConstants
    <2>. QED
      BY <1>17, <2>1, <2>2, WantRecords DEF TypeOK, Crash, PCs, Excs, Dequeueing
  <1>18. ASSUME NEW w \in Workers, Restart(w) PROVE TypeOK'
    BY <1>18 DEF TypeOK, Restart, PCs, Dequeueing
  <1>19. CASE SweepScan
    BY <1>19 DEF TypeOK, SweepScan, workerVars
  <1>20. CASE SweepClear
    BY <1>20, RowRecords DEF TypeOK, SweepClear, workerVars
  <1>21. ASSUME NEW i \in Instances, SweepNext(i) PROVE TypeOK'
    BY <1>21 DEF TypeOK, SweepNext, workerVars
  <1>22. CASE Tick
    <2>1. elapsed' \in [Workers -> 0..JobLimit]
      BY <1>22, QueueConstants DEF TypeOK, Tick
    <2>3. row' \in [Instances -> Row]
      BY <1>22, RowRecords DEF TypeOK, Tick
    <2>. QED
      BY <1>22, <2>1, <2>3 DEF TypeOK, Tick
  <1>23. CASE UNCHANGED vars
    BY <1>23 DEF TypeOK, vars
  <1>. QED
    BY <1>1, <1>2, <1>3, <1>4, <1>5, <1>6, <1>7, <1>8, <1>9, <1>10, <1>11, <1>12,
       <1>13, <1>14, <1>15, <1>16, <1>17, <1>18, <1>19, <1>20, <1>21, <1>22, <1>23
       DEF Next, WorkerStep, SweepStep

(* The queue row, the thread-local context and the bookkeeping of every    *)
(* job always have the types the code gives them.                          *)
THEOREM TypeCorrect == Spec => []TypeOK
  <1>1. Init => TypeOK
    <2>1. 0 \in 0..LockDuration /\ 0 \in 0..JobLimit /\ "not_started" \in Statuses
      BY QueueConstants, StatusSets
    <2>2. [locked_by |-> NoWorker, age |-> 0, status |-> "not_started"] \in Row
      BY <2>1 DEF Row
    <2>3. <<>> \in Seq(Frame)
      OBVIOUS
    <2>. QED
      BY <2>1, <2>2, <2>3, WantRecords DEF Init, TypeOK, PCs, Excs, Dequeueing
  <1>. QED
    BY <1>1, TypeStep, PTL DEF Spec

-----------------------------------------------------------------------------
(* The open blocks of a job and the locks its thread recorded *)

(* Every block's lock is recorded, every recorded lock was taken by some   *)
(* block, and a block inside another one of its instance is a re-entry.    *)
BlocksOK(fs, ls) ==
    /\ \A k \in 1..Len(fs) : fs[k].inst \in ls
    /\ \A i \in ls : \E k \in 1..Len(fs) : fs[k].inst = i /\ ~fs[k].reentering
    /\ \A j, k \in 1..Len(fs) : j < k /\ fs[j].inst = fs[k].inst => fs[j].reentering

FramesOf(w) ==
    /\ BlocksOK(frames[w], locks[w])
    /\ pc[w] = "enqueue" => frames[w] # <<>> /\ ~Head(frames[w]).reentering
    /\ pc[w] \in {"update", "check", "sleep"} => want[w].inst \notin locks[w]
    /\ pc[w] \in {"idle", "dead", "rejected"} => frames[w] = <<>>

FramesInv == \A w \in Workers : FramesOf(w)

(* No blocks, no locks: nothing leaks from a finished job. *)
LEMMA EmptyBlocks ==
    /\ BlocksOK(<<>>, {})
    /\ \A ls : BlocksOK(<<>>, ls) => ls = {}
  BY DEF BlocksOK

(* dequeued() on an instance the thread has locked: a re-entry. *)
LEMMA PushReentry ==
    ASSUME NEW fs \in Seq(Frame), NEW ls, NEW i \in ls, i \in Instances, BlocksOK(fs, ls)
    PROVE  BlocksOK(<<[inst |-> i, reentering |-> TRUE]>> \o fs, ls)
  <1>. DEFINE f == [inst |-> i, reentering |-> TRUE]
              t == <<f>> \o fs
  <1>1. f \in Frame
    BY DEF Frame
  <1>2. /\ Len(fs) \in Nat /\ Len(t) = Len(fs) + 1 /\ t[1] = f
        /\ \A k \in 1..Len(fs) : t[k + 1] = fs[k]
        /\ \A k \in 2..Len(t) : k - 1 \in 1..Len(fs) /\ t[k] = fs[k - 1]
    BY <1>1, PushFrame
  <1>3. BlocksOK(t, ls)
    <2>. HIDE DEF t
    <2>1. \A k \in 1..Len(t) : k = 1 \/ k \in 2..Len(t)
      BY <1>2
    <2>2. \A k \in 1..Len(fs) : k + 1 \in 1..Len(t)
      BY <1>2
    <2>0. 1 \in 1..Len(t) /\ t[1].inst = i /\ t[1].reentering = TRUE
      BY <1>2
    <2>3. \A k \in 1..Len(t) : t[k].inst \in ls
      <3>1. \A k \in 2..Len(t) : t[k].inst \in ls
        BY <1>2 DEF BlocksOK
      <3>. QED
        BY <2>0, <2>1, <3>1
    <2>4. \A x \in ls : \E k \in 1..Len(t) : t[k].inst = x /\ ~t[k].reentering
      <3>1. ASSUME NEW x \in ls
            PROVE  \E k \in 1..Len(t) : t[k].inst = x /\ ~t[k].reentering
        <4>1. PICK k \in 1..Len(fs) : fs[k].inst = x /\ ~fs[k].reentering
          BY DEF BlocksOK
        <4>2. k + 1 \in 1..Len(t) /\ t[k + 1] = fs[k]
          BY <1>2, <2>2
        <4>. QED
          BY <4>1, <4>2
      <3>. QED
        BY <2>0, <3>1
    <2>5. \A j, k \in 1..Len(t) : j < k /\ t[j].inst = t[k].inst => t[j].reentering
      <3>. SUFFICES ASSUME NEW j \in 1..Len(t), NEW k \in 1..Len(t), j < k, t[j].inst = t[k].inst
                   PROVE  t[j].reentering
        OBVIOUS
      <3>1. k \in 2..Len(t) /\ k - 1 \in 1..Len(fs) /\ t[k] = fs[k - 1]
        BY <1>2
      <3>2. CASE j = 1
        BY <1>2, <3>1, <3>2 DEF BlocksOK
      <3>3. CASE j \in 2..Len(t)
        <4>1. j - 1 \in 1..Len(fs) /\ t[j] = fs[j - 1] /\ j - 1 < k - 1
          BY <1>2, <3>3
        <4>. QED
          BY <4>1, <3>1 DEF BlocksOK
      <3>. QED
        BY <2>1, <3>2, <3>3
    <2>. QED
      BY <2>3, <2>4, <2>5 DEF BlocksOK
  <1>. QED
    BY <1>3

(* dequeued() on an instance the thread has not locked: the lock is new. *)
LEMMA PushAcquired ==
    ASSUME NEW fs \in Seq(Frame), NEW ls, NEW i \in Instances, i \notin ls, BlocksOK(fs, ls)
    PROVE  BlocksOK(<<[inst |-> i, reentering |-> FALSE]>> \o fs, ls \cup {i})
  <1>. DEFINE f == [inst |-> i, reentering |-> FALSE]
              t == <<f>> \o fs
  <1>1. f \in Frame
    BY DEF Frame
  <1>2. /\ Len(fs) \in Nat /\ Len(t) = Len(fs) + 1 /\ t[1] = f
        /\ \A k \in 1..Len(fs) : t[k + 1] = fs[k]
        /\ \A k \in 2..Len(t) : k - 1 \in 1..Len(fs) /\ t[k] = fs[k - 1]
    BY <1>1, PushFrame
  <1>3. BlocksOK(t, ls \cup {i})
    <2>. HIDE DEF t
    <2>1. \A k \in 1..Len(t) : k = 1 \/ k \in 2..Len(t)
      BY <1>2
    <2>2. \A k \in 1..Len(fs) : k + 1 \in 1..Len(t)
      BY <1>2
    <2>0. 1 \in 1..Len(t) /\ t[1].inst = i /\ t[1].reentering = FALSE
      BY <1>2
    <2>3. \A k \in 1..Len(t) : t[k].inst \in ls \cup {i}
      <3>1. \A k \in 2..Len(t) : t[k].inst \in ls \cup {i}
        BY <1>2 DEF BlocksOK
      <3>. QED
        BY <2>0, <2>1, <3>1
    <2>4. \A x \in ls \cup {i} : \E k \in 1..Len(t) : t[k].inst = x /\ ~t[k].reentering
      <3>1. ASSUME NEW x \in ls
            PROVE  \E k \in 1..Len(t) : t[k].inst = x /\ ~t[k].reentering
        <4>1. PICK k \in 1..Len(fs) : fs[k].inst = x /\ ~fs[k].reentering
          BY DEF BlocksOK
        <4>2. k + 1 \in 1..Len(t) /\ t[k + 1] = fs[k]
          BY <1>2, <2>2
        <4>. QED
          BY <4>1, <4>2
      <3>. QED
        BY <2>0, <3>1
    <2>5. \A j, k \in 1..Len(t) : j < k /\ t[j].inst = t[k].inst => t[j].reentering
      <3>. SUFFICES ASSUME NEW j \in 1..Len(t), NEW k \in 1..Len(t), j < k, t[j].inst = t[k].inst
                   PROVE  t[j].reentering
        OBVIOUS
      <3>1. k \in 2..Len(t) /\ k - 1 \in 1..Len(fs) /\ t[k] = fs[k - 1]
        BY <1>2
      <3>2. CASE j = 1
        BY <1>2, <3>1, <3>2 DEF BlocksOK
      <3>3. CASE j \in 2..Len(t)
        <4>1. j - 1 \in 1..Len(fs) /\ t[j] = fs[j - 1] /\ j - 1 < k - 1
          BY <1>2, <3>3
        <4>. QED
          BY <4>1, <3>1 DEF BlocksOK
      <3>. QED
        BY <2>1, <3>2, <3>3
    <2>. QED
      BY <2>3, <2>4, <2>5 DEF BlocksOK
  <1>. QED
    BY <1>3

(* Leaving a re-entered block keeps the lock. *)
LEMMA PopReentry ==
    ASSUME NEW fs \in Seq(Frame), NEW ls, fs # <<>>, Head(fs).reentering, BlocksOK(fs, ls)
    PROVE  BlocksOK(Tail(fs), ls)
  <1>. DEFINE t == Tail(fs)
  <1>1. /\ Len(fs) \in Nat \ {0} /\ Len(t) = Len(fs) - 1 /\ Head(fs) = fs[1]
        /\ \A k \in 1..Len(t) : k + 1 \in 1..Len(fs) /\ t[k] = fs[k + 1]
        /\ \A k \in 2..Len(fs) : k - 1 \in 1..Len(t) /\ t[k - 1] = fs[k]
    BY PopFrame
  <1>2. 1 \in 1..Len(fs) /\ \A k \in 1..Len(fs) : k = 1 \/ k \in 2..Len(fs)
    BY <1>1
  <1>. HIDE DEF t
  <1>3. ASSUME NEW k \in 1..Len(t) PROVE t[k].inst \in ls
    BY <1>1 DEF BlocksOK
  <1>4. ASSUME NEW x \in ls
        PROVE  \E k \in 1..Len(t) : t[k].inst = x /\ ~t[k].reentering
    <2>1. PICK k \in 1..Len(fs) : fs[k].inst = x /\ ~fs[k].reentering
      BY DEF BlocksOK
    <2>2. k \in 2..Len(fs)
      BY <1>1, <1>2, <2>1
    <2>3. k - 1 \in 1..Len(t) /\ t[k - 1] = fs[k]
      BY <1>1, <2>2
    <2>. QED
      BY <2>1, <2>3
  <1>5. ASSUME NEW j \in 1..Len(t), NEW k \in 1..Len(t), j < k, t[j].inst = t[k].inst
        PROVE  t[j].reentering
    <2>1. j + 1 \in 1..Len(fs) /\ k + 1 \in 1..Len(fs) /\ j + 1 < k + 1
      BY <1>1, <1>5
    <2>2. t[j] = fs[j + 1] /\ t[k] = fs[k + 1]
      BY <1>1
    <2>. QED
      BY <1>5, <2>1, <2>2 DEF BlocksOK
  <1>6. BlocksOK(t, ls)
    BY <1>3, <1>4, <1>5 DEF BlocksOK
  <1>. QED
    BY <1>6 DEF t

(* Leaving the block that took the lock: no block of the instance is left. *)
LEMMA PopAcquired ==
    ASSUME NEW fs \in Seq(Frame), NEW ls, fs # <<>>, ~Head(fs).reentering, BlocksOK(fs, ls)
    PROVE  BlocksOK(Tail(fs), ls \ {Head(fs).inst})
  <1>. DEFINE t == Tail(fs)
  <1>1. /\ Len(fs) \in Nat \ {0} /\ Len(t) = Len(fs) - 1 /\ Head(fs) = fs[1]
        /\ \A k \in 1..Len(t) : k + 1 \in 1..Len(fs) /\ t[k] = fs[k + 1]
        /\ \A k \in 2..Len(fs) : k - 1 \in 1..Len(t) /\ t[k - 1] = fs[k]
    BY PopFrame
  <1>2. 1 \in 1..Len(fs) /\ \A k \in 1..Len(fs) : k = 1 \/ k \in 2..Len(fs)
    BY <1>1
  <1>. HIDE DEF t
  <1>3. ASSUME NEW k \in 1..Len(t) PROVE t[k].inst \in ls \ {fs[1].inst}
    <2>1. k + 1 \in 1..Len(fs) /\ t[k] = fs[k + 1] /\ 1 < k + 1
      BY <1>1
    <2>2. fs[k + 1].inst \in ls
      BY <2>1 DEF BlocksOK
    <2>3. fs[1].inst # fs[k + 1].inst
      BY <1>1, <1>2, <2>1 DEF BlocksOK
    <2>. QED
      BY <2>1, <2>2, <2>3
  <1>4. ASSUME NEW x \in ls \ {fs[1].inst}
        PROVE  \E k \in 1..Len(t) : t[k].inst = x /\ ~t[k].reentering
    <2>1. PICK k \in 1..Len(fs) : fs[k].inst = x /\ ~fs[k].reentering
      BY DEF BlocksOK
    <2>2. k \in 2..Len(fs)
      BY <1>1, <1>2, <2>1
    <2>3. k - 1 \in 1..Len(t) /\ t[k - 1] = fs[k]
      BY <1>1, <2>2
    <2>. QED
      BY <2>1, <2>3
  <1>5. ASSUME NEW j \in 1..Len(t), NEW k \in 1..Len(t), j < k, t[j].inst = t[k].inst
        PROVE  t[j].reentering
    <2>1. j + 1 \in 1..Len(fs) /\ k + 1 \in 1..Len(fs) /\ j + 1 < k + 1
      BY <1>1, <1>5
    <2>2. t[j] = fs[j + 1] /\ t[k] = fs[k + 1]
      BY <1>1
    <2>. QED
      BY <1>5, <2>1, <2>2 DEF BlocksOK
  <1>6. BlocksOK(t, ls \ {fs[1].inst})
    BY <1>3, <1>4, <1>5 DEF BlocksOK
  <1>. QED
    BY <1>1, <1>6 DEF t

(* Every step keeps the blocks of every job and its locks in agreement. *)
LEMMA FramesStep == TypeOK /\ FramesInv /\ [Next]_vars => FramesInv'
  <1>. SUFFICES ASSUME TypeOK, FramesInv, [Next]_vars, NEW v \in Workers
               PROVE  FramesOf(v)'
    BY DEF FramesInv
  <1>0. FramesOf(v) /\ frames[v] \in Seq(Frame) /\ locks[v] \subseteq Instances
    BY DEF FramesInv, TypeOK
  <1>1. ASSUME NEW w \in Workers, StartJob(w) PROVE FramesOf(v)'
    BY <1>0, <1>1, EmptyBlocks DEF StartJob, FramesOf, TypeOK
  <1>2. ASSUME NEW w \in Workers, EndJob(w) PROVE FramesOf(v)'
    BY <1>0, <1>2 DEF EndJob, FramesOf, TypeOK
  <1>3. ASSUME NEW w \in Workers, RunAndSave(w) PROVE FramesOf(v)'
    BY <1>0, <1>3 DEF RunAndSave, workerVars, FramesOf
  <1>4. ASSUME NEW w \in Workers, NEW i \in Instances, Reenter(w, i) PROVE FramesOf(v)'
    <2>1. CASE v = w
      BY <1>0, <1>4, <2>1, PushReentry, PushFrame DEF Reenter, FramesOf, TypeOK
    <2>2. CASE v # w
      BY <1>0, <1>4, <2>2 DEF Reenter, FramesOf, TypeOK
    <2>. QED
      BY <2>1, <2>2
  <1>5. ASSUME NEW w \in Workers, NEW i \in Instances, NEW m \in MaxAttempts, BeginDequeue(w, i, m) PROVE FramesOf(v)'
    BY <1>0, <1>5 DEF BeginDequeue, FramesOf, TypeOK
  <1>6. ASSUME NEW w \in Workers, DequeueUpdate(w) PROVE FramesOf(v)'
    BY <1>0, <1>6 DEF DequeueUpdate, FramesOf, TypeOK
  <1>7. ASSUME NEW w \in Workers, DequeueAcquire(w) PROVE FramesOf(v)'
    <2>1. CASE v = w
      <3>1. want[w].inst \in Instances /\ want[w].inst \notin locks[w]
        BY <1>0, <1>7, <2>1 DEF DequeueAcquire, FramesOf, TypeOK, Dequeueing
      <3>2. BlocksOK(frames[v], locks[v])'
        BY <1>0, <1>7, <2>1, <3>1, PushAcquired DEF DequeueAcquire, FramesOf, TypeOK
      <3>. QED
        BY <1>7, <2>1, <3>2 DEF DequeueAcquire, FramesOf, TypeOK
    <2>2. CASE v # w
      BY <1>0, <1>7, <2>2 DEF DequeueAcquire, FramesOf, TypeOK
    <2>. QED
      BY <2>1, <2>2
  <1>8. ASSUME NEW w \in Workers, DequeueRetry(w) PROVE FramesOf(v)'
    BY <1>0, <1>8 DEF DequeueRetry, FramesOf, TypeOK
  <1>9. ASSUME NEW w \in Workers, WakeUp(w) PROVE FramesOf(v)'
    BY <1>0, <1>9 DEF WakeUp, FramesOf, TypeOK
  <1>10. ASSUME NEW w \in Workers, DequeueGiveUp(w) PROVE FramesOf(v)'
    BY <1>0, <1>10 DEF DequeueGiveUp, FramesOf, TypeOK
  <1>11. ASSUME NEW w \in Workers, HandleRejected(w) PROVE FramesOf(v)'
    BY <1>0, <1>11 DEF HandleRejected, FramesOf, TypeOK
  <1>12. ASSUME NEW w \in Workers, NEW k \in Excs \ {"none"}, Raise(w, k) PROVE FramesOf(v)'
    BY <1>0, <1>12 DEF Raise, FramesOf, TypeOK
  <1>13. ASSUME NEW w \in Workers, LeaveReentered(w) PROVE FramesOf(v)'
    <2>1. CASE v = w
      BY <1>0, <1>13, <2>1, PopReentry DEF LeaveReentered, Pop, FramesOf, TypeOK
    <2>2. CASE v # w
      BY <1>0, <1>13, <2>2 DEF LeaveReentered, Pop, FramesOf, TypeOK
    <2>. QED
      BY <2>1, <2>2
  <1>14. ASSUME NEW w \in Workers, LeaveNormally(w) PROVE FramesOf(v)'
    BY <1>0, <1>14 DEF LeaveNormally, FramesOf, TypeOK
  <1>15. ASSUME NEW w \in Workers, LeaveByException(w) PROVE FramesOf(v)'
    BY <1>0, <1>15 DEF LeaveByException, FramesOf, TypeOK
  <1>16. ASSUME NEW w \in Workers, Enqueue(w) PROVE FramesOf(v)'
    <2>1. CASE v = w
      <3>1. BlocksOK(frames[v], locks[v])'
        BY <1>0, <1>16, <2>1, PopAcquired DEF Enqueue, Pop, FramesOf, TypeOK
      <3>. QED
        BY <1>16, <2>1, <3>1 DEF Enqueue, FramesOf, TypeOK
    <2>2. CASE v # w
      BY <1>0, <1>16, <2>2 DEF Enqueue, Pop, FramesOf, TypeOK
    <2>. QED
      BY <2>1, <2>2
  <1>17. ASSUME NEW w \in Workers, Crash(w) PROVE FramesOf(v)'
    BY <1>0, <1>17, EmptyBlocks DEF Crash, FramesOf, TypeOK
  <1>18. ASSUME NEW w \in Workers, Restart(w) PROVE FramesOf(v)'
    BY <1>0, <1>18 DEF Restart, FramesOf, TypeOK
  <1>19. CASE SweepStep \/ Tick \/ UNCHANGED vars
    BY <1>0, <1>19 DEF SweepStep, SweepScan, SweepClear, SweepNext, Tick, vars, workerVars, FramesOf
  <1>. QED
    BY <1>1, <1>2, <1>3, <1>4, <1>5, <1>6, <1>7, <1>8, <1>9,
       <1>10, <1>11, <1>12, <1>13, <1>14, <1>15, <1>16, <1>17, <1>18, <1>19
       DEF Next, WorkerStep

(* A dequeued block that took the lock always finds its own record when it *)
(* is left, and a job leaves no record behind, whatever crashes, sweeps    *)
(* and late releases happen: _enqueue never raises                         *)
(* ExpectedLockNotFoundError.                                              *)
THEOREM ReleaseAlwaysFindsLock == Spec => []ReleaseFindsLock
  <1>1. Init => FramesInv
    BY EmptyBlocks DEF Init, FramesInv, FramesOf
  <1>2. TypeOK /\ FramesInv => ReleaseFindsLock
    <2>. SUFFICES ASSUME TypeOK, FramesInv, NEW w \in Workers
                 PROVE  /\ pc[w] = "enqueue" => frames[w] # <<>> /\ Head(frames[w]).inst \in locks[w]
                        /\ frames[w] = <<>> => locks[w] = {}
      BY DEF ReleaseFindsLock
    <2>1. FramesOf(w) /\ frames[w] \in Seq(Frame)
      BY DEF FramesInv, TypeOK
    <2>2. ASSUME frames[w] # <<>> PROVE Head(frames[w]).inst \in locks[w]
      <3>1. Head(frames[w]) = frames[w][1] /\ Len(frames[w]) \in Nat \ {0}
        BY <2>1, <2>2, PopFrame
      <3>. QED
        BY <2>1, <3>1 DEF FramesOf, BlocksOK
    <2>. QED
      BY <2>1, <2>2, EmptyBlocks DEF FramesOf
  <1>. QED
    BY <1>1, <1>2, TypeCorrect, FramesStep, PTL DEF Spec

-----------------------------------------------------------------------------
(* Exclusion, under the timing the sweep relies on *)

(* The rows the sweep has in hand were locked by workers that are dead. *)
SweptRows == {i \in Instances : i \in sweep.todo \/ i = sweep.entry}

OwnerInv ==
    \A w \in Workers, i \in Instances :
        row[i].locked_by = w /\ pc[w] # "dead" =>
            /\ Busy(w) /\ row[i].age <= elapsed[w]
            /\ i \in locks[w] \/ (pc[w] = "check" /\ want[w].inst = i)

SweepInv ==
    /\ sweep.entry \notin sweep.todo
    /\ \A i \in SweptRows : row[i].locked_by \in Workers /\ pc[row[i].locked_by] = "dead"

LockInv == LockAgreement /\ OwnerInv /\ SweepInv

(* An idle or dead worker has recorded no lock. *)
LEMMA IdleHasNoLocks ==
    ASSUME FramesInv, NEW w \in Workers, frames[w] = <<>>
    PROVE  locks[w] = {}
  BY EmptyBlocks DEF FramesInv, FramesOf

(* With prompt jobs, every step keeps table, thread-locals and sweep in    *)
(* agreement.                                                              *)
LEMMA LockStep ==
    PromptJobs => (TypeOK /\ FramesInv /\ LockInv /\ [Next]_vars => LockInv')
  <1>. SUFFICES ASSUME PromptJobs, TypeOK, FramesInv, LockInv, [Next]_vars
               PROVE  LockInv'
    OBVIOUS
  <1>. USE QueueConstants
  <1>1. ASSUME NEW w \in Workers, StartJob(w) PROVE LockInv'
    BY <1>1 DEF TypeOK, StartJob, LockInv, LockAgreement, OwnerInv, SweepInv, SweptRows, Busy
  <1>2. ASSUME NEW w \in Workers, EndJob(w) PROVE LockInv'
    <2>1. locks[w] = {}
      BY <1>2, IdleHasNoLocks DEF EndJob
    <2>. QED
      BY <1>2, <2>1 DEF TypeOK, EndJob, LockInv, LockAgreement, OwnerInv, SweepInv, SweptRows, Busy
  <1>3. ASSUME NEW w \in Workers, RunAndSave(w) PROVE LockInv'
    BY <1>3 DEF RunAndSave, workerVars, LockInv, LockAgreement, OwnerInv, SweepInv, SweptRows, Busy
  <1>4. ASSUME NEW w \in Workers, NEW i \in Instances, Reenter(w, i) PROVE LockInv'
    BY <1>4 DEF TypeOK, Reenter, LockInv, LockAgreement, OwnerInv, SweepInv, SweptRows, Busy
  <1>5. ASSUME NEW w \in Workers, NEW i \in Instances, NEW m \in MaxAttempts, BeginDequeue(w, i, m) PROVE LockInv'
    BY <1>5 DEF TypeOK, BeginDequeue, LockInv, LockAgreement, OwnerInv, SweepInv, SweptRows, Busy
  <1>6. ASSUME NEW w \in Workers, DequeueUpdate(w) PROVE LockInv'
    BY <1>6 DEF TypeOK, DequeueUpdate, LockInv, LockAgreement, OwnerInv, SweepInv, SweptRows, Busy
  <1>7. ASSUME NEW w \in Workers, DequeueAcquire(w) PROVE LockInv'
    BY <1>7 DEF TypeOK, DequeueAcquire, LockInv, LockAgreement, OwnerInv, SweepInv, SweptRows, Busy
  <1>8. ASSUME NEW w \in Workers, DequeueRetry(w) PROVE LockInv'
    BY <1>8 DEF TypeOK, DequeueRetry, LockInv, LockAgreement, OwnerInv, SweepInv, SweptRows, Busy
  <1>9. ASSUME NEW w \in Workers, WakeUp(w) PROVE LockInv'
    BY <1>9 DEF TypeOK, WakeUp, LockInv, LockAgreement, OwnerInv, SweepInv, SweptRows, Busy
  <1>10. ASSUME NEW w \in Workers, DequeueGiveUp(w) PROVE LockInv'
    <2>1. pc'[w] \in {"rejected", "body"} /\ \A v \in Workers \ {w} : pc'[v] = pc[v] /\ want'[v] = want[v]
      BY <1>10 DEF TypeOK, DequeueGiveUp
    <2>. QED
      BY <1>10, <2>1 DEF DequeueGiveUp, LockInv, LockAgreement, OwnerInv, SweepInv, SweptRows, Busy
  <1>11. ASSUME NEW w \in Workers, HandleRejected(w) PROVE LockInv'
    BY <1>11 DEF TypeOK, HandleRejected, LockInv, LockAgreement, OwnerInv, SweepInv, SweptRows, Busy
  <1>12. ASSUME NEW w \in Workers, NEW k \in Excs \ {"none"}, Raise(w, k) PROVE LockInv'
    BY <1>12 DEF TypeOK, Raise, LockInv, LockAgreement, OwnerInv, SweepInv, SweptRows, Busy
  <1>13. ASSUME NEW w \in Workers, LeaveReentered(w) PROVE LockInv'
    BY <1>13 DEF TypeOK, LeaveReentered, LockInv, LockAgreement, OwnerInv, SweepInv, SweptRows, Busy
  <1>14. ASSUME NEW w \in Workers, LeaveNormally(w) PROVE LockInv'
    BY <1>14 DEF TypeOK, LeaveNormally, LockInv, LockAgreement, OwnerInv, SweepInv, SweptRows, Busy
  <1>15. ASSUME NEW w \in Workers, LeaveByException(w) PROVE LockInv'
    BY <1>15 DEF TypeOK, LeaveByException, LockInv, LockAgreement, OwnerInv, SweepInv, SweptRows, Busy
  <1>16. ASSUME NEW w \in Workers, Enqueue(w) PROVE LockInv'
    <2>. DEFINE i == Head(frames[w]).inst
    <2>1. i \in Instances /\ i \in locks[w] /\ row[i].locked_by = w
      BY <1>16 DEF TypeOK, Enqueue, LockInv, LockAgreement
    <2>2. /\ row'[i].locked_by = NoWorker
          /\ \A j \in Instances \ {i} : row'[j] = row[j]
          /\ locks'[w] = locks[w] \ {i} /\ pc[w] = "enqueue"
          /\ \A v \in Workers \ {w} : locks'[v] = locks[v] /\ pc'[v] = pc[v]
          /\ pc'[w] \in {"body", "unwind"}
          /\ want' = want /\ elapsed' = elapsed /\ sweep' = sweep
      BY <1>16, <2>1 DEF TypeOK, Enqueue, Unlocked, Row
    <2>. HIDE DEF i
    <2>3. LockAgreement'
      <3>. SUFFICES ASSUME NEW v \in Workers, NEW j \in locks'[v] PROVE row'[j].locked_by = v
        BY DEF LockAgreement
      <3>1. j \in locks[v] /\ j \in Instances /\ row[j].locked_by = v
        BY <2>2 DEF TypeOK, LockInv, LockAgreement
      <3>2. j # i
        BY <2>1, <2>2, <3>1
      <3>. QED
        BY <2>2, <3>1, <3>2
    <2>4. OwnerInv'
      BY <2>1, <2>2 DEF LockInv, OwnerInv, Busy
    <2>5. SweepInv'
      BY <2>1, <2>2 DEF LockInv, SweepInv, SweptRows
    <2>. QED
      BY <2>3, <2>4, <2>5 DEF LockInv
  <1>17. ASSUME NEW w \in Workers, Crash(w) PROVE LockInv'
    BY <1>17 DEF TypeOK, Crash, LockInv, LockAgreement, OwnerInv, SweepInv, SweptRows, Busy
  <1>18. ASSUME NEW w \in Workers, Restart(w) PROVE LockInv'
    BY <1>18 DEF PromptJobs, Restart
  <1>19. CASE SweepScan
    <2>1. \A i \in Instances : Stale(i) => row[i].locked_by \in Workers /\ pc[row[i].locked_by] = "dead"
      <3>. SUFFICES ASSUME NEW i \in Instances, Stale(i)
                   PROVE  row[i].locked_by \in Workers /\ pc[row[i].locked_by] = "dead"
        OBVIOUS
      <3>1. row[i].locked_by \in Workers /\ row[i].age >= LockDuration /\ row[i].age \in Int
        BY DEF Stale, TypeOK, Row
      <3>2. elapsed[row[i].locked_by] \in 0..JobLimit
        BY <3>1 DEF TypeOK
      <3>. QED
        BY <3>1, <3>2 DEF PromptJobs, LockInv, OwnerInv
    <2>2. SweepInv'
      BY <1>19, <2>1 DEF SweepScan, SweepInv, SweptRows, workerVars
    <2>. QED
      BY <1>19, <2>2 DEF SweepScan, LockInv, LockAgreement, OwnerInv, Busy, workerVars
  <1>20. CASE SweepClear
    <2>. DEFINE i == sweep.entry
    <2>1. i \in Instances /\ i \in SweptRows
      BY <1>20 DEF TypeOK, SweepClear, SweptRows
    <2>2. row[i].locked_by \in Workers /\ pc[row[i].locked_by] = "dead"
      BY <2>1 DEF LockInv, SweepInv
    <2>3. /\ row'[i].locked_by = NoWorker
          /\ \A j \in Instances \ {i} : row'[j] = row[j]
          /\ sweep'.todo = sweep.todo /\ sweep'.entry = NoInstance
          /\ UNCHANGED <<locks, pc, want, elapsed>>
      BY <1>20, <2>1 DEF TypeOK, SweepClear, Unlocked, Row, workerVars
    <2>. HIDE DEF i
    <2>4. \A w \in Workers : i \notin locks[w]
      <3>. SUFFICES ASSUME NEW w \in Workers, i \in locks[w] PROVE FALSE
        OBVIOUS
      <3>1. pc[w] = "dead"
        BY <2>2 DEF LockInv, LockAgreement
      <3>2. locks[w] = {}
        BY <3>1, IdleHasNoLocks DEF FramesInv, FramesOf
      <3>. QED
        BY <3>2
    <2>5. LockAgreement'
      <3>. SUFFICES ASSUME NEW v \in Workers, NEW j \in locks[v] PROVE row'[j].locked_by = v
        BY <2>3 DEF LockAgreement
      <3>1. j \in Instances /\ row[j].locked_by = v /\ j # i
        BY <2>4 DEF TypeOK, LockInv, LockAgreement
      <3>. QED
        BY <2>3, <3>1
    <2>6. OwnerInv'
      BY <2>3 DEF LockInv, OwnerInv, Busy
    <2>7. SweepInv'
      <3>1. i \notin sweep.todo
        BY DEF LockInv, SweepInv, i
      <3>. QED
        BY <2>3, <3>1, QueueConstants DEF LockInv, SweepInv, TypeOK, SweptRows
    <2>. QED
      BY <2>5, <2>6, <2>7 DEF LockInv
  <1>21. CASE Tick
    <2>1. \A i \in Instances :
             /\ row[i].locked_by = row'[i].locked_by
             /\ row[i].age \in Int /\ row'[i].age <= row[i].age + 1
      BY <1>21 DEF TypeOK, Tick, Row
    <2>2. \A w \in Workers : elapsed[w] \in Int /\ (Busy(w) => elapsed'[w] = elapsed[w] + 1)
      BY <1>21 DEF TypeOK, Tick
    <2>3. LockAgreement' /\ SweepInv'
      BY <1>21, <2>1 DEF TypeOK, Tick, LockInv, LockAgreement, SweepInv, SweptRows
    <2>4. OwnerInv'
      <3>. SUFFICES ASSUME NEW w \in Workers, NEW i \in Instances, row[i].locked_by = w, pc[w] # "dead"
                   PROVE  /\ Busy(w) /\ row'[i].age <= elapsed'[w]
                          /\ i \in locks[w] \/ (pc[w] = "check" /\ want[w].inst = i)
        BY <1>21, <2>1 DEF Tick, OwnerInv, Busy
      <3>1. /\ Busy(w) /\ row[i].age <= elapsed[w]
            /\ i \in locks[w] \/ (pc[w] = "check" /\ want[w].inst = i)
        BY DEF LockInv, OwnerInv
      <3>2. row'[i].age \in Int
        BY <1>21 DEF TypeOK, Tick, Row
      <3>. QED
        BY <3>1, <3>2, <2>1, <2>2
    <2>. QED
      BY <2>3, <2>4 DEF LockInv
  <1>22. CASE UNCHANGED vars
    BY <1>22 DEF TypeOK, vars, LockInv, LockAgreement, OwnerInv, SweepInv, SweptRows, Busy
  <1>23. ASSUME NEW i \in Instances, SweepNext(i) PROVE LockInv'
    BY <1>23 DEF TypeOK, SweepNext, workerVars, LockInv, LockAgreement, OwnerInv, SweepInv, SweptRows, Busy
  <1>. QED
    BY <1>1, <1>2, <1>3, <1>4, <1>5, <1>6, <1>7, <1>8, <1>9, <1>10,
       <1>11, <1>12, <1>13, <1>14, <1>15, <1>16, <1>17, <1>18, <1>19, <1>20, <1>21, <1>22, <1>23
       DEF Next, WorkerStep, SweepStep

(* With prompt jobs the inductive invariant holds throughout. *)
LEMMA LockInvariant == PromptJobs => (Spec => [](TypeOK /\ FramesInv /\ LockInv))
  <1>. SUFFICES ASSUME PromptJobs PROVE Spec => [](TypeOK /\ FramesInv /\ LockInv)
    OBVIOUS
  <1>1. Init => FramesInv /\ LockInv
    BY EmptyBlocks, QueueConstants
       DEF Init, FramesInv, FramesOf, LockInv, LockAgreement, OwnerInv, SweepInv, SweptRows
  <1>2. TypeOK /\ FramesInv /\ LockInv /\ [Next]_vars => LockInv'
    BY LockStep
  <1>. QED
    BY <1>1, <1>2, TypeCorrect, FramesStep, PTL DEF Spec

(* If every job ends before a lock counts as stale and identities are not  *)
(* reused, a thread inside dequeued() owns its row in the table, in spite  *)
(* of kills and of the stale lock sweep.                                   *)
THEOREM ThreadLocalAgreesWithTable == PromptJobs => (Spec => []LockAgreement)
  <1>. SUFFICES ASSUME PromptJobs PROVE Spec => []LockAgreement
    OBVIOUS
  <1>1. Spec => [](TypeOK /\ FramesInv /\ LockInv)
    BY LockInvariant
  <1>2. LockInv => LockAgreement
    BY DEF LockInv
  <1>. QED
    BY <1>1, <1>2, PTL

(* Under the same timing no two threads are ever inside dequeued() blocks  *)
(* of the same process instance.                                           *)
THEOREM Exclusion == PromptJobs => (Spec => []MutualExclusion)
  <1>. SUFFICES ASSUME PromptJobs PROVE Spec => []MutualExclusion
    OBVIOUS
  <1>1. Spec => []LockAgreement
    BY ThreadLocalAgreesWithTable
  <1>2. LockAgreement => MutualExclusion
    BY DEF LockAgreement, MutualExclusion
  <1>. QED
    BY <1>1, <1>2, PTL

(* Under the same timing a lock leaves a live owner only by its own        *)
(* _enqueue: the unconditional writes of the sweep and of other releases   *)
(* never hit it.                                                           *)
THEOREM LocksAreNotStolen == PromptJobs => (Spec => OnlyOwnerReleases)
  <1>. SUFFICES ASSUME PromptJobs PROVE Spec => OnlyOwnerReleases
    OBVIOUS
  <1>. DEFINE Kept == \A i \in Instances : \A w \in Workers :
                        row[i].locked_by = w /\ row'[i].locked_by # w
                          => pc[w] = "dead" \/ i \in locks[w] \ locks'[w]
  <1>1. TypeOK /\ FramesInv /\ LockInv /\ [Next]_vars => Kept
    <2>. SUFFICES ASSUME TypeOK, LockInv, [Next]_vars,
                         NEW j \in Instances, NEW v \in Workers,
                         row[j].locked_by = v, row'[j].locked_by # v
                 PROVE  pc[v] = "dead" \/ j \in locks[v] \ locks'[v]
      OBVIOUS
    <2>1. ASSUME NEW w \in Workers, DequeueUpdate(w) PROVE FALSE
      BY <2>1, QueueConstants DEF TypeOK, DequeueUpdate, Row
    <2>2. ASSUME NEW w \in Workers, Enqueue(w) PROVE j \in locks[v] \ locks'[v]
      <3>1. j = Head(frames[w]).inst
        BY <2>2 DEF TypeOK, Enqueue
      <3>2. w = v
        BY <2>2, <3>1 DEF Enqueue, LockInv, LockAgreement
      <3>. QED
        BY <2>2, <3>1, <3>2 DEF TypeOK, Enqueue
    <2>3. CASE SweepClear
      <3>1. j = sweep.entry
        BY <2>3 DEF TypeOK, SweepClear
      <3>. QED
        BY <3>1 DEF LockInv, SweepInv, SweptRows
    <2>4. CASE Tick
      <3>1. row'[j].locked_by = row[j].locked_by
        BY <2>4 DEF TypeOK, Tick, Row
      <3>. QED
        BY <3>1
    <2>5. CASE row' = row
      BY <2>5
    <2>. QED
      BY <2>1, <2>2, <2>3, <2>4, <2>5
         DEF Next, WorkerStep, SweepStep, StartJob, EndJob, RunAndSave, Reenter, BeginDequeue,
             DequeueAcquire, DequeueRetry, WakeUp, DequeueGiveUp, HandleRejected, Raise,
             LeaveReentered, LeaveNormally, LeaveByException, Crash, Restart,
             SweepScan, SweepNext, vars
  <1>2. Spec => [](TypeOK /\ FramesInv /\ LockInv)
    BY LockInvariant
  <1>3. Spec => [][Kept]_vars
    BY <1>1, <1>2, PTL DEF Spec
  <1>. QED
    BY <1>3 DEF OnlyOwnerReleases

(* Nobody dies where nobody is killed. *)
Alive == \A w \in Workers : pc[w] # "dead"

LEMMA AliveStep == ~Crashes => (TypeOK /\ Alive /\ [Next]_vars => Alive')
  <1>. SUFFICES ASSUME ~Crashes, TypeOK, Alive, [Next]_vars, NEW v \in Workers PROVE pc'[v] # "dead"
    BY DEF Alive
  <1>1. ASSUME NEW w \in Workers, WorkerStep(w)
        PROVE  pc' = pc \/ \E p \in PCs \ {"dead"} : pc' = [pc EXCEPT ![w] = p]
    <2>1. CASE StartJob(w) \/ EndJob(w) \/ RunAndSave(w) \/ (\E i \in Instances : Reenter(w, i))
               \/ (\E i \in Instances, m \in MaxAttempts : BeginDequeue(w, i, m))
      BY <2>1 DEF StartJob, EndJob, RunAndSave, Reenter, BeginDequeue, PCs, workerVars
    <2>2. CASE DequeueUpdate(w) \/ DequeueAcquire(w) \/ DequeueRetry(w) \/ WakeUp(w) \/ DequeueGiveUp(w)
      BY <2>2 DEF DequeueUpdate, DequeueAcquire, DequeueRetry, WakeUp, DequeueGiveUp, PCs
    <2>3. CASE HandleRejected(w) \/ (\E k \in Excs \ {"none"} : Raise(w, k)) \/ LeaveReentered(w)
      BY <2>3 DEF HandleRejected, Raise, LeaveReentered, PCs
    <2>4. CASE LeaveNormally(w) \/ LeaveByException(w) \/ Enqueue(w) \/ Crash(w) \/ Restart(w)
      BY <2>4 DEF LeaveNormally, LeaveByException, Enqueue, Crash, Restart, PCs
    <2>. QED
      BY <1>1, <2>1, <2>2, <2>3, <2>4 DEF WorkerStep
  <1>2. SweepStep \/ Tick \/ UNCHANGED vars => pc' = pc
    BY DEF SweepStep, SweepScan, SweepClear, SweepNext, Tick, workerVars, vars
  <1>. QED
    BY <1>1, <1>2 DEF Next, Alive, TypeOK

(* Under the same timing, and as long as no worker is killed, an instance  *)
(* that is not locked is filed under the status it has: a status is saved  *)
(* only under a lock whose owner still holds the row (LockAgreement), so   *)
(* its own _enqueue writes the row last, and the sweep has nothing to do.  *)
THEOREM StatusReachesQueue == PromptJobs /\ ~Crashes => (Spec => []StatusPublished)
  <1>. SUFFICES ASSUME PromptJobs, ~Crashes PROVE Spec => []StatusPublished
    OBVIOUS
  <1>1. Init => Alive /\ StatusPublished
    BY DEF Init, Alive, StatusPublished
  <1>2. TypeOK /\ FramesInv /\ LockInv /\ Alive /\ StatusPublished /\ [Next]_vars => StatusPublished'
    <2>. SUFFICES ASSUME TypeOK, FramesInv, LockInv, Alive, StatusPublished, [Next]_vars,
                         NEW j \in Instances, row'[j].locked_by = NoWorker, status'[j] \notin FaultStatuses
                  PROVE  row'[j].status = status'[j]
      BY DEF StatusPublished
    <2>1. ASSUME NEW w \in Workers, RunAndSave(w) PROVE row'[j].status = status'[j]
      <3>1. Head(frames[w]).inst \in locks[w] /\ row' = row
        BY <2>1 DEF RunAndSave
      <3>2. row[Head(frames[w]).inst].locked_by # NoWorker
        BY <3>1, QueueConstants DEF LockInv, LockAgreement
      <3>3. j # Head(frames[w]).inst
        BY <3>1, <3>2
      <3>4. status'[j] = status[j]
        BY <2>1, <3>3 DEF RunAndSave, TypeOK
      <3>. QED
        BY <3>1, <3>4 DEF StatusPublished
    <2>2. ASSUME NEW w \in Workers, HandleRejected(w) \/ LeaveByException(w) PROVE row'[j].status = status'[j]
      <3>1. row' = row /\ status'[j] = status[j]
        BY <2>2 DEF HandleRejected, LeaveByException, TypeOK
      <3>. QED
        BY <3>1 DEF StatusPublished
    <2>3. ASSUME NEW w \in Workers, DequeueUpdate(w) PROVE row'[j].status = status'[j]
      <3>1. row'[j] = row[j]
        BY <2>3, QueueConstants DEF DequeueUpdate, TypeOK, Row
      <3>. QED
        BY <2>3, <3>1 DEF DequeueUpdate, StatusPublished
    <2>4. ASSUME NEW w \in Workers, Enqueue(w) PROVE row'[j].status = status'[j]
      <3>. DEFINE i == Head(frames[w]).inst
      <3>1. i \in Instances /\ row[i] \in Row /\ status' = status
        BY <2>4 DEF Enqueue, TypeOK
      <3>2. row' = [row EXCEPT ![i] = [Unlocked(row[i]) EXCEPT !.status = status[i]]]
        BY <2>4 DEF Enqueue
      <3>3. CASE j = i
        <4>1. [Unlocked(row[i]) EXCEPT !.status = status[i]].status = status[i]
          BY <3>1 DEF Unlocked, Row
        <4>. QED
          BY <3>1, <3>2, <3>3, <4>1 DEF TypeOK
      <3>4. CASE j # i
        BY <3>1, <3>2, <3>4 DEF StatusPublished, TypeOK
      <3>. QED
        BY <3>3, <3>4
    <2>5. CASE SweepClear
      <3>1. sweep.entry \in SweptRows
        BY <2>5 DEF SweepClear, SweptRows, TypeOK
      <3>. QED
        BY <3>1 DEF LockInv, SweepInv, Alive
    <2>6. CASE Tick
      <3>1. row'[j].locked_by = row[j].locked_by /\ row'[j].status = row[j].status /\ status' = status
        BY <2>6 DEF TypeOK, Tick, Row
      <3>. QED
        BY <3>1 DEF StatusPublished
    <2>7. CASE row' = row /\ status' = status
      BY <2>7 DEF StatusPublished
    <2>. QED
      BY <2>1, <2>2, <2>3, <2>4, <2>5, <2>6, <2>7
         DEF Next, WorkerStep, SweepStep, StartJob, EndJob, Reenter, BeginDequeue,
             DequeueAcquire, DequeueRetry, WakeUp, DequeueGiveUp, Raise,
             LeaveReentered, LeaveNormally, Crash, Restart, SweepScan, SweepNext, vars
  <1>3. Spec => [](TypeOK /\ FramesInv /\ LockInv)
    BY LockInvariant
  <1>4. TypeOK /\ Alive /\ [Next]_vars => Alive'
    BY AliveStep
  <1>. QED
    BY <1>1, <1>2, <1>3, <1>4, PTL DEF Spec

(* Under the same timing the queue implements InstanceLock: what threads   *)
(* see of dequeued() is a lock per process instance, released by its       *)
(* holder or by the holder's death.                                        *)
THEOREM ImplementsInstanceLock == PromptJobs => (Spec => RefinesInstanceLock)
  <1>. SUFFICES ASSUME PromptJobs PROVE Spec => RefinesInstanceLock
    OBVIOUS
  <1>. DEFINE H == [i \in Instances |-> {w \in Workers : i \in locks[w]}]
  <1>1. Init => Lock!Init
    BY DEF Init, Lock!Init
  <1>2. TypeOK /\ FramesInv /\ LockInv /\ [Next]_vars => [Lock!Next]_H
    <2>. SUFFICES ASSUME TypeOK, FramesInv, LockInv, [Next]_vars
                 PROVE  Lock!Next \/ H' = H
      OBVIOUS
    <2>1. ASSUME NEW w \in Workers, StartJob(w) PROVE H' = H
      <3>1. locks[w] = {}
        BY <2>1, IdleHasNoLocks DEF StartJob, FramesInv, FramesOf
      <3>2. locks' = locks
        BY <2>1, <3>1 DEF TypeOK, StartJob
      <3>. QED
        BY <3>2
    <2>2. ASSUME NEW w \in Workers, DequeueAcquire(w) PROVE Lock!Next
      <3>. DEFINE i == want[w].inst
      <3>1. i \in Instances /\ row[i].locked_by = w /\ i \notin locks[w]
        BY <2>2 DEF TypeOK, DequeueAcquire, Dequeueing, FramesInv, FramesOf
      <3>0. \A v \in Workers : i \notin locks[v]
        BY <3>1 DEF LockInv, LockAgreement
      <3>2. H[i] = {}
        BY <3>0, <3>1
      <3>3. H' = [H EXCEPT ![i] = {w}]
        <4>1. /\ locks'[w] = locks[w] \cup {i}
              /\ \A v \in Workers \ {w} : locks'[v] = locks[v]
          BY <2>2 DEF TypeOK, DequeueAcquire
        <4>2. \A j \in Instances : {v \in Workers : j \in locks'[v]} =
                 IF j = i THEN {w} ELSE {v \in Workers : j \in locks[v]}
          BY <3>0, <4>1
        <4>. QED
          BY <4>2
      <3>. QED
        BY <3>1, <3>2, <3>3 DEF Lock!Next, Lock!Acquire
    <2>3. ASSUME NEW w \in Workers, Enqueue(w) PROVE Lock!Next
      <3>. DEFINE i == Head(frames[w]).inst
      <3>1. i \in Instances /\ i \in locks[w] /\ row[i].locked_by = w
        BY <2>3 DEF TypeOK, Enqueue, LockInv, LockAgreement
      <3>0. \A v \in Workers \ {w} : i \notin locks[v]
        BY <3>1 DEF LockInv, LockAgreement
      <3>2. H[i] = {w}
        BY <3>0, <3>1
      <3>3. H' = [H EXCEPT ![i] = {}]
        <4>1. /\ locks'[w] = locks[w] \ {i}
              /\ \A v \in Workers \ {w} : locks'[v] = locks[v]
          BY <2>3 DEF TypeOK, Enqueue
        <4>2. \A j \in Instances : {v \in Workers : j \in locks'[v]} =
                 IF j = i THEN {} ELSE {v \in Workers : j \in locks[v]}
          BY <3>0, <4>1
        <4>. QED
          BY <4>2
      <3>. QED
        BY <3>1, <3>2, <3>3 DEF Lock!Next, Lock!Release
    <2>4. ASSUME NEW w \in Workers, Crash(w) PROVE Lock!Next
      <3>1. /\ locks'[w] = {}
            /\ \A v \in Workers \ {w} : locks'[v] = locks[v]
        BY <2>4 DEF TypeOK, Crash
      <3>2. \A j \in Instances : {v \in Workers : j \in locks'[v]} = H[j] \ {w}
        BY <3>1
      <3>3. H' = [i \in Instances |-> H[i] \ {w}]
        BY <3>2
      <3>. QED
        BY <3>3 DEF Lock!Next, Lock!Die
    <2>5. CASE locks' = locks
      BY <2>5
    <2>. QED
      BY <2>1, <2>2, <2>3, <2>4, <2>5
         DEF Next, WorkerStep, SweepStep, EndJob, RunAndSave, Reenter, BeginDequeue,
             DequeueUpdate, DequeueRetry, WakeUp, DequeueGiveUp, HandleRejected, Raise,
             LeaveReentered, LeaveNormally, LeaveByException, Restart,
             SweepScan, SweepClear, SweepNext, Tick, vars, workerVars
  <1>3. Spec => [](TypeOK /\ FramesInv /\ LockInv)
    BY LockInvariant
  <1>. QED
    BY <1>1, <1>2, <1>3, PTL DEF Spec, RefinesInstanceLock, Lock!Spec

=============================================================================
