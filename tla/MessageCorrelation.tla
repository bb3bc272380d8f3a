------------------------- MODULE MessageCorrelation -------------------------
(***************************************************************************)
(* MessageService: a send message instance is handed to a waiting receive  *)
(* message instance, or starts a process.  Web requests (message_send),    *)
(* the scheduler (correlate_all_message_instances), celery start jobs and  *)
(* every engine run that begins to wait for a message all try, at once.    *)
(*                                                                         *)
(* A worker runs a stack of calls, innermost first: delivering a message   *)
(* runs the receiver's engine, which may begin to wait and look for        *)
(* buffered messages itself.  Steps are database commits and the reads     *)
(* between them.  One message name; correlation keys, rules and payloads   *)
(* are the relation Correlates.  Process instances are locked with the     *)
(* lock that ProcessInstanceQueue implements, InstanceLock.                *)
(***************************************************************************)
EXTENDS Integers, Sequences, FiniteSets

CONSTANTS
    Workers,
    Instances,      \* process instances, the ones to be started included
    Receives,       \* receive message instances, in the order they may arise
    Sends,          \* send message instances; an API send is named by its uuid
    Api,            \* the sends posted over HTTP; engines throw the others
    Ttl,            \* the API sends with time_to_live_in_seconds > 0
    Owner,          \* the instance of each receive message
    Correlates,     \* pairs <<receive, send>> for which correlates() is true
    Starts,         \* for each send, the receives of processes it may start
    NoSend, NoReceive, NoInstance,
    Modes,          \* execution modes of requests
    Closable,       \* the instances users suspend, terminate and resume
    Crashes,        \* may a worker be killed?
    EngineFails,    \* may running an instance raise?
    BrokerFails     \* may publishing a background job raise?

Startable == {Owner[r] : r \in UNION {Starts[s] : s \in Sends}}

ASSUME MessageConstants ==
    /\ Ttl \subseteq Api /\ Api \subseteq Sends
    /\ Owner \in [Receives -> Instances]
    /\ Correlates \subseteq Receives \X Sends
    /\ Starts \in [Sends -> SUBSET Receives]
    /\ NoSend \notin Sends /\ NoReceive \notin Receives /\ NoInstance \notin Instances
    /\ Modes \subseteq {"synchronous", "default", "asynchronous"}
    /\ {Crashes, EngineFails, BrokerFails} \subseteq BOOLEAN

VARIABLES
    send,      \* message_instance.status of the sends ("none": not inserted)
    recv,      \* ... and of the receives
    to, from,  \* counterpart_id of sends and of receives
    expired,   \* expires_at_in_seconds <= now
    inst,      \* the instances: none, reserved, open (can run), closed
    place,     \* send.process_instance_id: the instance reserved for it
    deployed,  \* is there a process model the message starts?
    jobs,      \* start jobs in the broker
    holders,   \* who is inside dequeued(i)
    stack,     \* each worker's calls
    exc,       \* is an exception travelling up the worker's stack?
    log        \* history: <<s, r>> when the event of s went into r's engine

messages == <<send, recv, to, from, expired, log>>
vars == <<send, recv, to, from, expired, inst, place, deployed, jobs, holders, stack, exc, log>>

Lock == INSTANCE InstanceLock

SendStatus == {"none", "ready", "running", "completed", "failed", "cancelled", "not_accepted"}
RecvStatus == {"none", "ready", "running", "completed", "failed", "cancelled"}

(* A call.  target: the process instance in hand; owns: this call took its *)
(* lock; fresh: it was started for this message; home: the instance whose  *)
(* runtime the caller passed in; back: where expire_ready_send_messages    *)
(* returns to.                                                             *)
PCs == {"expire", "cancel", "find", "insert", "list", "next", "claim", "check",
        "try", "locked", "deliver", "confirm", "complete", "publish", "enqueue",
        "reset", "answer", "job", "prepare", "engine", "release"}
Call == [pc : PCs, back : PCs, api : BOOLEAN, mode : Modes \cup {"synchronous"},
         send : Sends \cup {NoSend}, recv : Receives \cup {NoReceive},
         target : Instances \cup {NoInstance}, owns : BOOLEAN, fresh : BOOLEAN,
         home : Instances \cup {NoInstance},
         cand : SUBSET Receives, todo : SUBSET Sends, sel : SUBSET Sends]

NewCall == [pc |-> "expire", back |-> "list", api |-> FALSE, mode |-> "synchronous",
            send |-> NoSend, recv |-> NoReceive, target |-> NoInstance, owns |-> FALSE,
            fresh |-> FALSE, home |-> NoInstance, cand |-> {}, todo |-> {}, sel |-> {}]

TypeOK ==
    /\ send \in [Sends -> SendStatus] /\ recv \in [Receives -> RecvStatus]
    /\ to \in [Sends -> Receives \cup {NoReceive}]
    /\ from \in [Receives -> Sends \cup {NoSend}]
    /\ expired \in [Sends -> BOOLEAN]
    /\ inst \in [Instances -> {"none", "reserved", "open", "closed"}]
    /\ place \in [Sends -> Instances \cup {NoInstance}]
    /\ deployed \in BOOLEAN
    /\ jobs \subseteq Sends
    /\ holders \in [Instances -> SUBSET Workers]
    /\ stack \in [Workers -> Seq(Call)]
    /\ exc \in [Workers -> BOOLEAN]
    /\ log \subseteq Sends \X Receives

Init ==
    /\ send = [s \in Sends |-> "none"] /\ recv = [r \in Receives |-> "none"]
    /\ to = [s \in Sends |-> NoReceive] /\ from = [r \in Receives |-> NoSend]
    /\ expired = [s \in Sends |-> FALSE]
    /\ inst = [i \in Instances |-> IF i \in Startable THEN "none" ELSE "open"]
    /\ place = [s \in Sends |-> NoInstance]
    /\ deployed = FALSE
    /\ jobs = {}
    /\ Lock!Init
    /\ stack = [w \in Workers |-> <<>>]
    /\ exc = [w \in Workers |-> FALSE]
    /\ log = {}

Idle(w) == stack[w] = <<>>
Top(w) == Head(stack[w])
At(w, pc) == ~Idle(w) /\ ~exc[w] /\ Top(w).pc = pc

Push(w, c) == stack' = [stack EXCEPT ![w] = <<c>> \o @]
Set(w, c)  == stack' = [stack EXCEPT ![w] = <<c>> \o Tail(@)]
Goto(w, pc) == Set(w, [Top(w) EXCEPT !.pc = pc])
Pop(w) == stack' = [stack EXCEPT ![w] = Tail(@)]
Throw(w) == exc' = [exc EXCEPT ![w] = TRUE]

(* The call lets go of the instance in hand. *)
Clear(c) == [c EXCEPT !.recv = NoReceive, !.target = NoInstance, !.owns = FALSE, !.fresh = FALSE]
NextOf(c) == [Clear(c) EXCEPT !.pc = "next", !.send = NoSend]

(* correlate_send_message returns None, or returns a message. *)
ReturnNone(w) == IF Top(w).api THEN Goto(w, "answer") ELSE Set(w, NextOf(Top(w)))
ReturnMessage(w) == IF Top(w).api THEN Pop(w) ELSE Set(w, NextOf(Top(w)))

Leave(w) ==
    IF Top(w).owns THEN Lock!Release(w, Top(w).target) ELSE UNCHANGED holders

-----------------------------------------------------------------------------
(* The engine, and what one run of it leaves behind *)

Ready(rv, i) == {r \in Receives : Owner[r] = i /\ rv[r] = "ready"}

(* queue_waiting_receive_messages: ready receives nobody waits for are     *)
(* cancelled; a wait that has no ready receive yet gets one.               *)
QueueWaiting(i) ==
    LET ready == Ready(recv, i) IN
    {[r \in Receives |-> IF r \in ready THEN "cancelled" ELSE recv[r]]}
      \cup IF ready # {} THEN {recv}
           ELSE {[recv EXCEPT ![r] = "ready"] : r \in {q \in Receives : Owner[q] = i /\ recv[q] = "none"}}

NewWait(rv) == \E r \in Receives : recv[r] = "none" /\ rv[r] = "ready"

(* process_bpmn_messages: the run throws at most one message. *)
Thrown == {send} \cup {[send EXCEPT ![s] = "ready"] : s \in {t \in Sends \ Api : send[t] = "none"}}

(* runtime.save(): the status is the engine's, whatever it was before. *)
Saved(i, rv) == {"open"} \cup IF Ready(rv, i) = {} THEN {"closed"} ELSE {}

(* correlate_ready_send_messages_for_process_instance, called by a run     *)
(* that saved and began to wait.                                           *)
LookForBuffered(i) == [NewCall EXCEPT !.home = i]

(* A saving run of c.target's engine, after which the call goes to pc.     *)
RunEngine(w, c) ==
    \E rv \in QueueWaiting(c.target) :
        /\ recv' = rv
        /\ \E st \in Saved(c.target, rv) : inst' = [inst EXCEPT ![c.target] = st]
        /\ stack' = [stack EXCEPT ![w] =
                       (IF NewWait(rv) THEN <<LookForBuffered(c.target)>> ELSE <<>>) \o <<c>> \o Tail(@)]

(* Somebody runs an instance: a user, a timer, a background job. *)
RunInstance(w, i) ==
    /\ Idle(w)
    /\ inst[i] = "open"
    /\ Lock!Acquire(w, i)
    /\ Push(w, [NewCall EXCEPT !.pc = "engine", !.target = i, !.owns = TRUE])
    /\ UNCHANGED <<messages, inst, place, deployed, jobs, exc>>

(* do_engine_steps(save=True) under the lock. *)
Engine(w) ==
    /\ At(w, "engine")
    /\ inst[Top(w).target] = "open"
    /\ RunEngine(w, [Top(w) EXCEPT !.pc = "release"])
    /\ send' \in Thrown
    /\ UNCHANGED <<to, from, expired, log, place, deployed, jobs, holders, exc>>

EngineRaises(w) ==
    /\ At(w, "engine")
    /\ EngineFails \/ inst[Top(w).target] # "open"
    /\ Throw(w)
    /\ UNCHANGED <<messages, inst, place, deployed, jobs, holders, stack>>

Release(w) ==
    /\ At(w, "release")
    /\ Leave(w)
    /\ Pop(w)
    /\ UNCHANGED <<messages, inst, place, deployed, jobs, exc>>

(* suspend and terminate; with handle_error after AlreadyLocked, also      *)
(* while somebody else holds the lock.  The receives stay ready.           *)
Close(i) ==
    /\ i \in Closable /\ inst[i] \in {"open", "reserved"}
    /\ inst' = [inst EXCEPT ![i] = "closed"]
    /\ UNCHANGED <<messages, place, deployed, jobs, holders, stack, exc>>

Resume(i) ==
    /\ i \in Closable /\ inst[i] = "closed" /\ holders[i] = {}
    /\ inst' = [inst EXCEPT ![i] = "open"]
    /\ UNCHANGED <<messages, place, deployed, jobs, holders, stack, exc>>

-----------------------------------------------------------------------------
(* expire_ready_send_messages *)

Expire(s) ==
    /\ s \in Ttl /\ send[s] # "none" /\ ~expired[s]
    /\ expired' = [expired EXCEPT ![s] = TRUE]
    /\ UNCHANGED <<send, recv, to, from, inst, place, deployed, jobs, holders, stack, exc, log>>

ExpireSelect(w) ==
    LET sel == {s \in Ttl : send[s] = "ready" /\ expired[s]} IN
    /\ At(w, "expire")
    /\ Set(w, [Top(w) EXCEPT !.sel = sel, !.pc = IF sel = {} THEN Top(w).back ELSE "cancel"])
    /\ UNCHANGED <<messages, inst, place, deployed, jobs, holders, exc>>

(* The ORM writes the rows it loaded, claimed since or not. *)
ExpireWrite(w) ==
    /\ At(w, "cancel")
    /\ send' = [s \in Sends |-> IF s \in Top(w).sel THEN "cancelled" ELSE send[s]]
    /\ Set(w, [Top(w) EXCEPT !.sel = {}, !.pc = Top(w).back])
    /\ UNCHANGED <<recv, to, from, expired, log, inst, place, deployed, jobs, holders, exc>>

-----------------------------------------------------------------------------
(* Who calls correlate_send_message *)

(* run_process_model_from_message *)
Post(w, s, m) ==
    /\ Idle(w) /\ s \in Api
    /\ Push(w, [NewCall EXCEPT !.api = TRUE, !.mode = m, !.send = s, !.back = "find"])
    /\ UNCHANGED <<messages, inst, place, deployed, jobs, holders, exc>>

(* A uuid already there is answered from its row. *)
FindUuid(w) ==
    /\ At(w, "find")
    /\ IF send[Top(w).send] = "none" THEN Goto(w, "insert") ELSE Pop(w)
    /\ UNCHANGED <<messages, inst, place, deployed, jobs, holders, exc>>

(* message_instance_uuid is UNIQUE: the second insert raises. *)
Insert(w) ==
    LET s == Top(w).send IN
    /\ At(w, "insert")
    /\ IF send[s] = "none"
         THEN /\ send' = [send EXCEPT ![s] = "running"]
              /\ Set(w, [Top(w) EXCEPT !.pc = "expire", !.back = "check"])
         ELSE UNCHANGED send /\ Pop(w)
    /\ UNCHANGED <<recv, to, from, expired, log, inst, place, deployed, jobs, holders, exc>>

(* Faulty variant: the rejection is written without looking at the row. *)
AnswerUnguarded(w) ==
    LET s == Top(w).send IN
    /\ At(w, "answer")
    /\ send' = IF s \notin Ttl THEN [send EXCEPT ![s] = "not_accepted"] ELSE send
    /\ Pop(w)
    /\ UNCHANGED <<recv, to, from, expired, log, inst, place, deployed, jobs, holders, exc>>

(* No receiver and no buffering: message_not_accepted, unless somebody     *)
(* claimed the message after it was reset to ready.                        *)
Answer(w) ==
    LET s == Top(w).send IN
    /\ At(w, "answer")
    /\ send' = IF s \notin Ttl /\ send[s] = "ready"
                 THEN [send EXCEPT ![s] = "not_accepted"] ELSE send
    /\ Pop(w)
    /\ UNCHANGED <<recv, to, from, expired, log, inst, place, deployed, jobs, holders, exc>>

(* correlate_all_message_instances, every ten seconds *)
CorrelateAll(w) ==
    /\ Idle(w)
    /\ Push(w, NewCall)
    /\ UNCHANGED <<messages, inst, place, deployed, jobs, holders, exc>>

List(w) ==
    LET all == {s \in Sends : send[s] = "ready"} IN
    /\ At(w, "list")
    /\ Set(w, [Top(w) EXCEPT !.pc = "next",
                 !.todo = IF Top(w).home = NoInstance THEN all ELSE all \cap Ttl])
    /\ UNCHANGED <<messages, inst, place, deployed, jobs, holders, exc>>

NextSend(w) ==
    /\ At(w, "next")
    /\ IF Top(w).todo = {} THEN Pop(w)
       ELSE \E s \in Top(w).todo :
              Set(w, [Top(w) EXCEPT !.send = s, !.todo = @ \ {s}, !.pc = "expire", !.back = "claim"])
    /\ UNCHANGED <<messages, inst, place, deployed, jobs, holders, exc>>

-----------------------------------------------------------------------------
(* correlate_send_message *)

(* Faulty variant: the claim does not compare the status. *)
ClaimUnguarded(w) ==
    LET s == Top(w).send IN
    /\ At(w, "claim")
    /\ send' = [send EXCEPT ![s] = "running"] /\ Goto(w, "check")
    /\ UNCHANGED <<recv, to, from, expired, log, inst, place, deployed, jobs, holders, exc>>

(* Faulty variant: the claim writes a status MessageStatuses lacks. *)
ClaimUnknownStatus(w) ==
    LET s == Top(w).send IN
    /\ At(w, "claim")
    /\ IF send[s] = "ready"
         THEN send' = [send EXCEPT ![s] = "claimed"] /\ Goto(w, "check")
         ELSE UNCHANGED send /\ ReturnNone(w)
    /\ UNCHANGED <<recv, to, from, expired, log, inst, place, deployed, jobs, holders, exc>>

(* _claim_ready_message_instance: UPDATE ... WHERE status = 'ready'. *)
Claim(w) ==
    LET s == Top(w).send IN
    /\ At(w, "claim")
    /\ IF send[s] = "ready"
         THEN send' = [send EXCEPT ![s] = "running"] /\ Goto(w, "check")
         ELSE UNCHANGED send /\ ReturnNone(w)
    /\ UNCHANGED <<recv, to, from, expired, log, inst, place, deployed, jobs, holders, exc>>

(* The claim may have come too late; if not, the candidates of             *)
(* _try_correlate_with_existing_receiver are read.                         *)
CheckExpiry(w) ==
    LET c == Top(w)
        s == c.send IN
    /\ At(w, "check")
    /\ IF expired[s]
         THEN /\ send' = IF send[s] = "running" THEN [send EXCEPT ![s] = "cancelled"] ELSE send
              /\ ReturnNone(w)
         ELSE /\ UNCHANGED send
              /\ Set(w, [c EXCEPT !.pc = "try",
                           !.cand = {r \in Receives : recv[r] = "ready" /\ <<r, s>> \in Correlates
                                                       /\ c.home \in {NoInstance, Owner[r]}}])
    /\ UNCHANGED <<recv, to, from, expired, log, inst, place, deployed, jobs, holders, exc>>

(* dequeued(receiving_process_instance, max_attempts=1): entered, entered  *)
(* again, or locked by somebody else and skipped.                          *)
TryReceive(w, r) ==
    LET c == [Top(w) EXCEPT !.cand = @ \ {r}]
        i == Owner[r]
        inside == [c EXCEPT !.pc = "locked", !.recv = r, !.target = i, !.owns = w \notin holders[i]] IN
    /\ At(w, "try") /\ r \in Top(w).cand
    /\ \/ Lock!Acquire(w, i) /\ Set(w, inside)
       \/ w \in holders[i] /\ Set(w, inside) /\ UNCHANGED holders
       \/ holders[i] \notin {{}, {w}} /\ Set(w, c) /\ UNCHANGED holders
    /\ UNCHANGED <<messages, inst, place, deployed, jobs, exc>>

(* can_receive_message, then the claim of the receive. *)
ClaimReceive(w) ==
    LET c == Top(w) IN
    /\ At(w, "locked") /\ ~c.fresh
    /\ IF inst[c.target] = "open" /\ recv[c.recv] = "ready"
         THEN recv' = [recv EXCEPT ![c.recv] = "running"] /\ Goto(w, "deliver") /\ UNCHANGED holders
         ELSE UNCHANGED recv /\ Leave(w) /\ Set(w, [Clear(c) EXCEPT !.pc = "try"])
    /\ UNCHANGED <<send, to, from, expired, log, inst, place, deployed, jobs, exc>>

(* process_message_receive with a runtime of its own: the event and what   *)
(* the engine made of it are saved first, ...                              *)
Deliver(w) ==
    LET c == Top(w) IN
    /\ At(w, "deliver") /\ ~c.fresh /\ c.home # c.target
    /\ inst[c.target] = "open"
    /\ RunEngine(w, [c EXCEPT !.pc = "confirm"])
    /\ send' \in Thrown
    /\ log' = log \cup {<<c.send, c.recv>>}
    /\ UNCHANGED <<to, from, expired, place, deployed, jobs, holders, exc>>

(* ... then the receive, ... *)
Confirm(w) ==
    /\ At(w, "confirm")
    /\ recv' = [recv EXCEPT ![Top(w).recv] = "completed"]
    /\ Goto(w, "complete")
    /\ UNCHANGED <<send, to, from, expired, log, inst, place, deployed, jobs, holders, exc>>

(* ... then _mark_messages_completed is committed. *)
Complete(w) ==
    LET c == Top(w) IN
    /\ At(w, "complete")
    /\ send' = [send EXCEPT ![c.send] = "completed"]
    /\ recv' = [recv EXCEPT ![c.recv] = "completed"]
    /\ to' = [to EXCEPT ![c.send] = c.recv]
    /\ from' = [from EXCEPT ![c.recv] = c.send]
    /\ Goto(w, "publish")
    /\ UNCHANGED <<expired, log, inst, place, deployed, jobs, holders, exc>>

(* With the caller's runtime all of it is committed by one runtime.save(). *)
(* A process just started by a request is unlocked before it is queued.    *)
DeliverAtOnce(w) ==
    LET c == Top(w) IN
    /\ At(w, "deliver")
    /\ c.fresh \/ c.home = c.target
    /\ inst[c.target] = "open"
    /\ \E rv \in QueueWaiting(c.target) :
         /\ recv' = [rv EXCEPT ![c.recv] = "completed"]
         /\ \E st \in Saved(c.target, rv) : inst' = [inst EXCEPT ![c.target] = st]
    /\ \E t \in Thrown : send' = [t EXCEPT ![c.send] = "completed"]
    /\ to' = [to EXCEPT ![c.send] = c.recv]
    /\ from' = [from EXCEPT ![c.recv] = c.send]
    /\ log' = log \cup {<<c.send, c.recv>>}
    /\ IF c.fresh /\ c.back # "job"
         THEN Leave(w) /\ Set(w, [c EXCEPT !.pc = "publish", !.owns = FALSE])
         ELSE UNCHANGED holders /\ Goto(w, IF c.fresh THEN "engine" ELSE "publish")
    /\ UNCHANGED <<expired, place, deployed, jobs, exc>>

(* The engine fails on the event, or the instance was closed meanwhile. *)
DeliverRaises(w) ==
    LET c == Top(w) IN
    /\ At(w, "deliver")
    /\ \/ EngineFails /\ log' = log \cup {<<c.send, c.recv>>}
       \/ inst[c.target] # "open" /\ UNCHANGED log
    /\ Throw(w)
    /\ UNCHANGED <<send, recv, to, from, expired, inst, place, deployed, jobs, holders, stack>>

(* queue_process_instance_if_appropriate, and out of the lock. *)
Publish(w) ==
    /\ At(w, "publish")
    /\ Leave(w)
    /\ ReturnMessage(w)
    /\ UNCHANGED <<messages, inst, place, deployed, jobs, exc>>

PublishRaises(w) ==
    /\ BrokerFails /\ At(w, "publish") /\ Top(w).mode # "synchronous"
    /\ Throw(w)
    /\ UNCHANGED <<messages, inst, place, deployed, jobs, holders, stack>>

(* Every candidate has been tried. *)
Unmatched(w) == At(w, "try") /\ Top(w).cand = {}

(* message_triggerable_process_model *)
Triggers(s) == deployed /\ Starts[s] # {}

(* Faulty variant: an unmatched message is forgotten while running. *)
ResetForgotten(w) ==
    /\ Unmatched(w) /\ ~Triggers(Top(w).send)
    /\ ReturnNone(w)
    /\ UNCHANGED <<messages, inst, place, deployed, jobs, holders, exc>>

(* Nobody wants the message: back to ready, whatever it is by now. *)
Reset(w) ==
    LET c == Top(w) IN
    /\ Unmatched(w) /\ ~Triggers(c.send)
    /\ send' = [send EXCEPT ![c.send] = "ready"]
    /\ ReturnNone(w)
    /\ UNCHANGED <<recv, to, from, expired, log, inst, place, deployed, jobs, holders, exc>>

-----------------------------------------------------------------------------
(* Starting a process *)

Deploy ==
    /\ ~deployed /\ deployed' = TRUE
    /\ UNCHANGED <<messages, inst, place, jobs, holders, stack, exc>>

Unused(s) == {Owner[r] : r \in {q \in Starts[s] : inst[Owner[q]] = "none"}}

Inside(c, i) == [c EXCEPT !.pc = "locked", !.target = i, !.owns = TRUE, !.fresh = TRUE]

(* _started_process_with_message: the new instance is saved, waiting for   *)
(* its start message, before the message is delivered; that first run      *)
(* looks for buffered messages like any other.                             *)
StartProcess(w) ==
    LET c == Top(w) IN
    /\ Unmatched(w) /\ Triggers(c.send) /\ c.mode # "asynchronous"
    /\ \E i \in Unused(c.send) : Lock!Acquire(w, i) /\ RunEngine(w, Inside(c, i))
    /\ UNCHANGED <<send, to, from, expired, log, place, deployed, jobs, exc>>

StartRaises(w) ==
    /\ EngineFails /\ Unmatched(w) /\ Triggers(Top(w).send)
    /\ Throw(w)
    /\ UNCHANGED <<messages, inst, place, deployed, jobs, holders, stack>>

(* _deliver_message_to_started_process takes a ready receive; under the    *)
(* lock nobody can claim it first.                                         *)
FindStarted(w) ==
    LET c == Top(w) IN
    /\ At(w, "locked") /\ c.fresh
    /\ \E r \in Ready(recv, c.target) :
         /\ recv' = [recv EXCEPT ![r] = "running"]
         /\ Set(w, [c EXCEPT !.recv = r, !.pc = "deliver"])
    /\ UNCHANGED <<send, to, from, expired, log, inst, place, deployed, jobs, holders, exc>>

FindRaises(w) ==
    /\ At(w, "locked") /\ Top(w).fresh /\ Ready(recv, Top(w).target) = {}
    /\ Throw(w)
    /\ UNCHANGED <<messages, inst, place, deployed, jobs, holders, stack>>

(* Asynchronous requests only reserve the instance, and queue a job ... *)
Reserve(w) ==
    LET c == Top(w) IN
    /\ Unmatched(w) /\ Triggers(c.send) /\ c.mode = "asynchronous"
    /\ \E i \in Unused(c.send) :
         /\ inst' = [inst EXCEPT ![i] = "reserved"]
         /\ place' = [place EXCEPT ![c.send] = i]
         /\ Set(w, [c EXCEPT !.pc = "enqueue", !.target = i])
    /\ UNCHANGED <<messages, deployed, jobs, holders, exc>>

EnqueueJob(w) ==
    /\ At(w, "enqueue")
    /\ jobs' = jobs \cup {Top(w).send}
    /\ ReturnMessage(w)
    /\ UNCHANGED <<messages, inst, place, deployed, holders, exc>>

EnqueueRaises(w) ==
    /\ BrokerFails /\ At(w, "enqueue")
    /\ Throw(w)
    /\ UNCHANGED <<messages, inst, place, deployed, jobs, holders, stack>>

(* ... that a celery worker runs, unless the message is settled already. *)
StartJob(w, s) ==
    /\ Idle(w) /\ s \in jobs
    /\ jobs' = jobs \ {s}
    /\ IF send[s] = "running"
         THEN Push(w, [NewCall EXCEPT !.pc = "prepare", !.back = "job", !.send = s, !.target = place[s]])
         ELSE UNCHANGED stack
    /\ UNCHANGED <<messages, inst, place, deployed, holders, exc>>

StartReserved(w) ==
    LET c == Top(w) IN
    /\ At(w, "prepare")
    /\ inst[c.target] \in {"reserved", "open"}
    /\ Lock!Acquire(w, c.target)
    /\ RunEngine(w, Inside(c, c.target))
    /\ UNCHANGED <<send, to, from, expired, log, place, deployed, jobs, exc>>

StartReservedRaises(w) ==
    LET i == Top(w).target IN
    /\ At(w, "prepare")
    /\ EngineFails \/ holders[i] # {} \/ inst[i] = "closed"
    /\ Throw(w)
    /\ UNCHANGED <<messages, inst, place, deployed, jobs, holders, stack>>

-----------------------------------------------------------------------------
(* Failure *)

(* Faulty variant: a message whose delivery failed is queued again. *)
UnwindToReady(w) ==
    LET c == Top(w) IN
    /\ ~Idle(w) /\ exc[w]
    /\ send' = IF c.send = NoSend THEN send ELSE [send EXCEPT ![c.send] = "ready"]
    /\ recv' = IF c.recv # NoReceive THEN [recv EXCEPT ![c.recv] = "failed"] ELSE recv
    /\ inst' = IF c.target = NoInstance THEN inst ELSE [inst EXCEPT ![c.target] = "closed"]
    /\ Leave(w)
    /\ Pop(w)
    /\ exc' = [exc EXCEPT ![w] = Len(stack[w]) > 1]
    /\ UNCHANGED <<to, from, expired, log, place, deployed, jobs>>

(* Faulty variant: only the receive learns of the failure. *)
UnwindReceiveOnly(w) ==
    LET c == Top(w) IN
    /\ ~Idle(w) /\ exc[w]
    /\ recv' = IF c.recv # NoReceive THEN [recv EXCEPT ![c.recv] = "failed"] ELSE recv
    /\ inst' = IF c.target = NoInstance THEN inst ELSE [inst EXCEPT ![c.target] = "closed"]
    /\ Leave(w)
    /\ Pop(w)
    /\ exc' = [exc EXCEPT ![w] = Len(stack[w]) > 1]
    /\ UNCHANGED <<send, to, from, expired, log, place, deployed, jobs>>

(* An exception leaves the call: dequeued gives the lock back and          *)
(* _handle_correlation_failure marks the send, the receive in hand (not    *)
(* one claimed inside _deliver_message_to_started_process) and the         *)
(* instance as failed, whatever they are by now.                           *)
Unwind(w) ==
    LET c == Top(w)
        inHand == c.recv # NoReceive /\ ~(c.fresh /\ c.pc = "deliver") IN
    /\ ~Idle(w) /\ exc[w]
    /\ send' = IF c.send = NoSend THEN send ELSE [send EXCEPT ![c.send] = "failed"]
    /\ recv' = IF inHand THEN [recv EXCEPT ![c.recv] = "failed"] ELSE recv
    /\ inst' = IF c.target = NoInstance THEN inst ELSE [inst EXCEPT ![c.target] = "closed"]
    /\ Leave(w)
    /\ Pop(w)
    /\ exc' = [exc EXCEPT ![w] = Len(stack[w]) > 1]
    /\ UNCHANGED <<to, from, expired, log, place, deployed, jobs>>

(* The worker is killed; its locks are swept in time. *)
Crash(w) ==
    /\ Crashes /\ ~Idle(w)
    /\ Lock!Die(w)
    /\ stack' = [stack EXCEPT ![w] = <<>>]
    /\ exc' = [exc EXCEPT ![w] = FALSE]
    /\ UNCHANGED <<messages, inst, place, deployed, jobs>>

-----------------------------------------------------------------------------
(* What a worker does by itself once it has begun. *)
Proceed(w) ==
    \/ ExpireSelect(w) \/ ExpireWrite(w) \/ FindUuid(w) \/ Insert(w) \/ Answer(w)
    \/ List(w) \/ NextSend(w) \/ Claim(w) \/ CheckExpiry(w)
    \/ (\E r \in Receives : TryReceive(w, r)) \/ ClaimReceive(w)
    \/ Deliver(w) \/ Confirm(w) \/ Complete(w) \/ DeliverAtOnce(w) \/ DeliverRaises(w)
    \/ Publish(w) \/ PublishRaises(w) \/ Reset(w)
    \/ StartProcess(w) \/ StartRaises(w) \/ FindStarted(w) \/ FindRaises(w)
    \/ Reserve(w) \/ EnqueueJob(w) \/ EnqueueRaises(w)
    \/ StartReserved(w) \/ StartReservedRaises(w)
    \/ Engine(w) \/ EngineRaises(w) \/ Release(w) \/ Unwind(w)

Begin(w) ==
    \/ \E s \in Sends, m \in Modes : Post(w, s, m)
    \/ CorrelateAll(w)
    \/ \E i \in Instances : RunInstance(w, i)
    \/ \E s \in Sends : StartJob(w, s)

Next ==
    \/ \E w \in Workers : Proceed(w) \/ Begin(w) \/ Crash(w)
    \/ \E i \in Instances : Close(i) \/ Resume(i)
    \/ \E s \in Sends : Expire(s)
    \/ Deploy

Spec == Init /\ [][Next]_vars

(* Threads run, time passes, the scheduler calls correlate_all every ten   *)
(* seconds on a thread of its own, and celery delivers queued jobs.        *)
Fairness ==
    /\ \A w \in Workers : WF_vars(Proceed(w))
    /\ SF_vars(\E w \in Workers : CorrelateAll(w))
    /\ \A s \in Sends : WF_vars(Expire(s)) /\ SF_vars(\E w \in Workers : StartJob(w, s))

FairSpec == Spec /\ Fairness

-----------------------------------------------------------------------------
(* Properties *)

(* A message is handed to at most one receive, and a receive gets at most  *)
(* one message: claims, retries, starts and buffering never deliver twice. *)
AtMostOnce ==
    \A d, e \in log : d[1] = e[1] \/ d[2] = e[2] => d = e

(* A caller told message_not_accepted, and a sender whose message expired, *)
(* can rely on it: such a message was not and will not be delivered.       *)
RefusedIsFinal ==
    \A d \in log : send[d[1]] \notin {"not_accepted", "cancelled"}

(* A completed send names the receive that got it, and is named by it.     *)
CompletedPaired ==
    \A s \in Sends : send[s] = "completed" =>
        /\ to[s] # NoReceive /\ from[to[s]] = s
        /\ recv[to[s]] = "completed"
        /\ <<s, to[s]>> \in log

(* A message between its claim and its outcome belongs to one call.        *)
Working == {"try", "locked", "deliver", "confirm", "complete", "enqueue", "prepare"}
Calls(s) == UNION {{<<w, n>> : n \in {k \in 1..Len(stack[w]) :
                       stack[w][k].send = s /\ stack[w][k].pc \in Working}} : w \in Workers}
OneOwner ==
    \A s \in Sends : Calls(s) # {} =>
        Cardinality(Calls(s)) = 1 /\ send[s] = "running"

(* A message posted without time_to_live_in_seconds is not kept: once its  *)
(* request has been answered it does not lie ready for later receivers.    *)
NothingKeptUnasked ==
    \A s \in Api \ Ttl : send[s] = "ready" =>
        \E w \in Workers : \E n \in 1..Len(stack[w]) : stack[w][n].api /\ stack[w][n].send = s

(* A buffered message does not outlive its time to live: it is delivered,  *)
(* fails, or is cancelled, and is never stuck in a claim (without kills).  *)
TtlHonoured ==
    \A s \in Ttl : send[s] # "none" ~> send[s] \in {"completed", "failed", "cancelled"}

(* Every claim of a message ends (without kills): with an outcome, or with *)
(* the message ready again.                                                *)
ClaimsEnd ==
    \A s \in Sends : send[s] = "running" ~> send[s] # "running"
=============================================================================
